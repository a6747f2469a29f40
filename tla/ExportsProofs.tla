--------------------------- MODULE ExportsProofs ---------------------------
(***************************************************************************)
(* Theorems of Exports for any envelopes, jobs, sweeps, page size, batch   *)
(* size and clock resolution: types, completeness of a ready archive, and  *)
(* how far a build may read a row again.                                   *)
(***************************************************************************)
EXTENDS Exports, TLAPS

-----------------------------------------------------------------------------
(* The cursor. *)

LEMMA ToDateBelow ==
  ASSUME NEW t \in Int
  PROVE  ToDate(t) \in Int /\ ToDate(t) <= t
<1>1. Milli \in Int /\ Milli > 0
  BY ExportsAssumption
<1>2. t % Milli \in 0 .. Milli - 1
  BY <1>1
<1> QED BY <1>1, <1>2 DEF ToDate

\* A row that comes after the last row of a page comes after the cursor the
\* page leaves, although the cursor has lost its microseconds.
LEMMA CursorCovers ==
  ASSUME TypeOK, NEW last \in Envelopes, NEW e \in Envelopes, Before(last, e)
  PROVE  After([at |-> ToDate(createdAt[last]), id |-> last], e)
<1>1. createdAt[last] \in Int /\ createdAt[e] \in Int
  BY DEF TypeOK
<1>2. last \in Int /\ e \in Int
  BY ExportsAssumption
<1>3. ToDate(createdAt[last]) \in Int /\ ToDate(createdAt[last]) <= createdAt[last]
  BY <1>1, ToDateBelow
<1> HIDE DEF ToDate
<1> QED BY <1>1, <1>2, <1>3 DEF Before, After

-----------------------------------------------------------------------------
(* Types. *)

LEMMA TypeInit == Init => TypeOK
  BY DEF Init, TypeOK, NoCursor

LEMMA WritePageTypes ==
  ASSUME TypeOK, NEW j \in Jobs, WritePage(j)
  PROVE  TypeOK'
<1>0. PICK page \in SUBSET Rest(j) : \E last \in page :
        /\ copies' = [copies EXCEPT ![j] =
             [e \in Envelopes |-> copies[j][e] + IF e \in page THEN 1 ELSE 0]]
        /\ cursor' = [cursor EXCEPT ![j] = [at |-> ToDate(createdAt[last]), id |-> last]]
  BY DEF WritePage
<1>1. PICK last \in page :
        /\ copies' = [copies EXCEPT ![j] =
             [e \in Envelopes |-> copies[j][e] + IF e \in page THEN 1 ELSE 0]]
        /\ cursor' = [cursor EXCEPT ![j] = [at |-> ToDate(createdAt[last]), id |-> last]]
  BY <1>0
<1>2. last \in Envelopes
  BY DEF Rest, Stored
<1>3. ToDate(createdAt[last]) \in Int /\ last \in Int
  BY <1>2, ToDateBelow, ExportsAssumption DEF TypeOK
<1>4. cursor' \in [Jobs -> [at : Int, id : Int]]
  BY <1>1, <1>3 DEF TypeOK
<1>5. [e \in Envelopes |-> copies[j][e] + IF e \in page THEN 1 ELSE 0] \in [Envelopes -> Nat]
  BY DEF TypeOK
<1>6. copies' \in [Jobs -> [Envelopes -> Nat]]
  BY <1>1, <1>5 DEF TypeOK
<1> QED BY <1>4, <1>6 DEF WritePage, TypeOK, envelopeVars, rowVars, sweepVars

LEMMA TypeKept ==
  ASSUME TypeOK, [Next]_vars
  PROVE  TypeOK'
<1> USE DEF TypeOK
<1>1. CASE Tick
  BY <1>1 DEF Tick, rowVars, buildVars, sweepVars
<1>2. ASSUME NEW e \in Envelopes, Seal(e) \/ Retire(e) PROVE TypeOK'
  <2>1. CASE Seal(e)
    BY <2>1 DEF Seal, rowVars, buildVars, sweepVars
  <2>2. CASE Retire(e)
    BY <2>2 DEF Retire, rowVars, buildVars, sweepVars
  <2> QED BY <1>2, <2>1, <2>2
<1>3. ASSUME NEW j \in Jobs, CreateJob(j) \/ Expire(j) \/ LazyExpire(j) PROVE TypeOK'
  <2>1. CASE CreateJob(j)
    BY <2>1 DEF CreateJob, envelopeVars, sweepVars
  <2>2. CASE Expire(j)
    BY <2>2 DEF Expire, envelopeVars, buildVars, sweepVars
  <2>3. CASE LazyExpire(j)
    BY <2>3 DEF LazyExpire, envelopeVars, buildVars, sweepVars
  <2> QED BY <1>3, <2>1, <2>2, <2>3
<1>4. ASSUME NEW j \in Jobs, Purge(j) PROVE TypeOK'
  BY <1>4 DEF Purge, Unlink, envelopeVars, rowVars, sweepVars
<1>5. ASSUME NEW j \in Jobs, Build(j) PROVE TypeOK'
  <2>1. CASE StartBuild(j)
    <3>1. Stored \in SUBSET Envelopes
      BY DEF Stored
    <3>2. CASE RowExists(j)
      <4>1. /\ status' = [status EXCEPT ![j] = "building"]
            /\ build' = [build EXCEPT ![j] = "paging"]
            /\ file' = [file EXCEPT ![j] = "partial"]
            /\ atStart' = [atStart EXCEPT ![j] = Stored]
        BY <2>1, <3>2 DEF StartBuild
      <4>2. atStart' \in [Jobs -> SUBSET Envelopes]
        BY <3>1, <4>1
      <4>3. /\ build' \in [Jobs -> {"none", "queued", "paging", "ending"}]
            /\ file' \in [Jobs -> {"none", "partial", "whole", "removed"}]
        BY <4>1
      <4> QED BY <2>1, <4>1, <4>2, <4>3 DEF StartBuild, envelopeVars, sweepVars
    <3>3. CASE ~RowExists(j)
      BY <2>1, <3>3 DEF StartBuild, envelopeVars, sweepVars
    <3> QED BY <3>2, <3>3
  <2>2. CASE WritePage(j)
    BY <2>2, WritePageTypes
  <2>3. CASE CloseArchive(j)
    BY <2>3 DEF CloseArchive, envelopeVars, rowVars, sweepVars
  <2>4. CASE MarkReady(j)
    BY <2>4 DEF MarkReady, envelopeVars, sweepVars
  <2>5. CASE FailBuild(j)
    BY <2>5 DEF FailBuild, envelopeVars, sweepVars
  <2>6. CASE Die(j)
    BY <2>6 DEF Die, envelopeVars, rowVars, sweepVars
  <2> QED BY <1>5, <2>1, <2>2, <2>3, <2>4, <2>5, <2>6 DEF Build
<1>6. ASSUME NEW s \in Sweeps, Sweep(s) PROVE TypeOK'
  <2>1. CASE SweepSelect(s)
    BY <2>1 DEF SweepSelect, Swept, envelopeVars, rowVars, buildVars
  <2>2. CASE SweepUnlink(s)
    BY <2>2 DEF SweepUnlink, Unlink, envelopeVars, rowVars
  <2>3. CASE SweepDelete(s)
    BY <2>3 DEF SweepDelete, EndSweep, envelopeVars, buildVars
  <2>4. CASE SweepAbort(s)
    BY <2>4 DEF SweepAbort, EndSweep, envelopeVars, rowVars, buildVars
  <2> QED BY <1>6, <2>1, <2>2, <2>3, <2>4 DEF Sweep
<1>7. CASE UNCHANGED vars
  BY <1>7 DEF vars, envelopeVars, rowVars, buildVars, sweepVars
<1> QED BY <1>1, <1>2, <1>3, <1>4, <1>5, <1>6, <1>7 DEF Next
-----------------------------------------------------------------------------
(* A ready archive is complete. *)

\* What the invariants of a job depend on.
JobState(j) == <<build[j], status[j], hasPath[j], file[j], cursor[j], copies[j], atStart[j]>>

Good(j) == BuildInv(j) /\ Complete(j)

LEMMA GoodInit == Init => \A j \in Jobs : Good(j)
  BY DEF Init, Good, BuildInv, Complete

LEMMA Untouched ==
  ASSUME NEW j \in Jobs, Good(j), UNCHANGED <<envelope, createdAt, JobState(j)>>
  PROVE  Good(j)'
  BY DEF Good, BuildInv, Complete, JobState, Stored, After

\* Sealing adds a row no build owes, retiring takes one away.
LEMMA EnvelopesKeep ==
  ASSUME TypeOK, NEW j \in Jobs, Good(j), NEW e \in Envelopes, Seal(e) \/ Retire(e)
  PROVE  Good(j)'
<1>1. UNCHANGED JobState(j)
  BY DEF Seal, Retire, JobState, rowVars, buildVars
<1>2. \A f \in Envelopes : f # e => envelope'[f] = envelope[f] /\ createdAt'[f] = createdAt[f]
  BY DEF Seal, Retire, TypeOK
<1>3. Seal(e) => envelope[e] = "absent"
  BY DEF Seal
<1>4. Retire(e) => envelope'[e] = "deleted"
  BY DEF Retire, TypeOK
<1>5. atStart[j] \subseteq Envelopes
  BY DEF TypeOK
<1>6. \A f \in atStart[j] \cap Stored' : f \in Stored /\ createdAt'[f] = createdAt[f]
  BY <1>2, <1>3, <1>4, <1>5 DEF Stored, Good, BuildInv
<1>7. \A f \in atStart[j] : envelope'[f] # "absent"
  BY <1>2, <1>3, <1>4, <1>5 DEF Good, BuildInv
<1> QED BY <1>1, <1>6, <1>7 DEF Good, BuildInv, Complete, JobState, After

LEMMA StartKeeps ==
  ASSUME TypeOK, NEW j \in Jobs, Good(j), StartBuild(j)
  PROVE  Good(j)'
<1>1. CASE RowExists(j)
  <2>1. \A e \in Stored : After(NoCursor, e) /\ envelope[e] # "absent"
    BY DEF TypeOK, Stored, After, NoCursor
  <2>2. /\ build'[j] = "paging" /\ status'[j] = "building"
        /\ file'[j] = "partial" /\ atStart'[j] = Stored
        /\ UNCHANGED <<envelope, createdAt, hasPath, cursor, copies>>
    BY <1>1 DEF StartBuild, TypeOK, envelopeVars
  <2>3. ~hasPath[j] /\ cursor[j] = NoCursor
    BY DEF Good, BuildInv, StartBuild
  <2>4. \A e \in Stored : After(cursor[j], e)'
    BY <2>1, <2>2, <2>3 DEF After, NoCursor
  <2> QED BY <2>1, <2>2, <2>3, <2>4 DEF Good, BuildInv, Complete, Stored
<1>2. CASE ~RowExists(j)
  <2>1. /\ build'[j] = "none"
        /\ UNCHANGED <<envelope, createdAt, status, hasPath, file, cursor, copies, atStart>>
    BY <1>2 DEF StartBuild, TypeOK, envelopeVars
  <2>2. status[j] = "deleted"
    BY <1>2 DEF RowExists, Good, BuildInv, StartBuild
  <2> QED BY <2>1, <2>2 DEF Good, BuildInv, Complete
<1> QED BY <1>1, <1>2

\* A page is copied, and what follows it stays ahead of the cursor.
LEMMA WriteKeeps ==
  ASSUME TypeOK, NEW j \in Jobs, Good(j), WritePage(j)
  PROVE  Good(j)'
<1>1. PICK page \in SUBSET Rest(j) : \E last \in page :
        /\ IsPage(page, Rest(j))
        /\ \A e \in page \ {last} : Before(e, last)
        /\ \A e \in page : copies[j][e] < MaxCopies
        /\ copies' = [copies EXCEPT ![j] =
             [e \in Envelopes |-> copies[j][e] + IF e \in page THEN 1 ELSE 0]]
        /\ cursor' = [cursor EXCEPT ![j] = [at |-> ToDate(createdAt[last]), id |-> last]]
  BY DEF WritePage
<1>2. PICK last \in page :
        /\ IsPage(page, Rest(j))
        /\ copies' = [copies EXCEPT ![j] =
             [e \in Envelopes |-> copies[j][e] + IF e \in page THEN 1 ELSE 0]]
        /\ cursor' = [cursor EXCEPT ![j] = [at |-> ToDate(createdAt[last]), id |-> last]]
  BY <1>1
<1>3. /\ UNCHANGED <<envelope, createdAt, build, status, hasPath, file, atStart>>
      /\ build[j] = "paging"
  BY DEF WritePage, envelopeVars, rowVars
<1>4. \A e \in Envelopes : copies'[j][e] = copies[j][e] + IF e \in page THEN 1 ELSE 0
  BY <1>2 DEF TypeOK
<1>5. cursor'[j] = [at |-> ToDate(createdAt[last]), id |-> last]
  BY <1>2 DEF TypeOK
<1>6. last \in Envelopes
  BY DEF Rest, Stored
<1>8. ASSUME NEW e \in atStart[j] \cap Stored
      PROVE  copies'[j][e] > 0 \/ After(cursor[j], e)'
  <2>1. e \in Envelopes /\ copies[j][e] \in Nat
    BY DEF Stored, TypeOK
  <2>2. CASE e \in page
    BY <2>1, <2>2, <1>4
  <2>3. CASE copies[j][e] > 0
    BY <2>1, <2>3, <1>4
  <2>4. CASE e \notin page /\ ~(copies[j][e] > 0)
    <3>1. e \in Rest(j)
      BY <2>4, <1>3 DEF Good, BuildInv, Rest
    <3>2. Before(last, e)
      BY <2>4, <3>1, <1>2 DEF IsPage
    <3>3. After([at |-> ToDate(createdAt[last]), id |-> last], e)
      BY <2>1, <3>2, <1>6, CursorCovers
    <3> QED BY <3>3, <1>3, <1>5 DEF After
  <2> QED BY <2>2, <2>3, <2>4
<1>9. build'[j] = "paging" /\ file'[j] = "partial" /\ ~hasPath'[j] /\ status'[j] \notin {"absent", "ready"}
  BY <1>3 DEF Good, BuildInv
<1> QED BY <1>3, <1>8, <1>9 DEF Good, BuildInv, Complete, Stored

LEMMA BuildKeeps ==
  ASSUME TypeOK, NEW j \in Jobs, Good(j), Build(j)
  PROVE  Good(j)'
<1>1. CASE StartBuild(j)
  BY <1>1, StartKeeps
<1>2. CASE WritePage(j)
  BY <1>2, WriteKeeps
<1>3. CASE CloseArchive(j)
  <2>1. /\ build'[j] = "ending" /\ file'[j] = "whole"
        /\ UNCHANGED <<envelope, createdAt, status, hasPath, cursor, copies, atStart>>
    BY <1>3 DEF CloseArchive, TypeOK, envelopeVars, rowVars
  <2>2. \A e \in atStart[j] \cap Stored : copies[j][e] > 0
    BY <1>3 DEF CloseArchive, Rest, Good, BuildInv
  <2> QED BY <1>3, <2>1, <2>2 DEF CloseArchive, Good, BuildInv, Complete, Stored
<1>4. CASE MarkReady(j)
  <2>1. /\ build'[j] = "none" /\ build[j] = "ending"
        /\ UNCHANGED <<envelope, createdAt, file, cursor, copies, atStart>>
        /\ status'[j] \in {"ready", status[j]}
        /\ status[j] = "absent" => hasPath'[j] = hasPath[j] /\ status'[j] = "absent"
    BY <1>4 DEF MarkReady, TypeOK, envelopeVars, RowExists
  <2> QED BY <2>1 DEF Good, BuildInv, Complete, Stored
<1>5. CASE FailBuild(j)
  <2>1. /\ build'[j] = "none" /\ build[j] = "paging"
        /\ UNCHANGED <<envelope, createdAt, hasPath, file, cursor, copies, atStart>>
        /\ status'[j] \in {"failed", status[j]}
    BY <1>5 DEF FailBuild, TypeOK, envelopeVars
  <2> QED BY <2>1 DEF Good, BuildInv, Complete, Stored
<1>6. CASE Die(j)
  <2>1. /\ build'[j] = "none" /\ build[j] # "none"
        /\ UNCHANGED <<envelope, createdAt, status, hasPath, file, cursor, copies, atStart>>
    BY <1>6 DEF Die, TypeOK, envelopeVars, rowVars
  <2> QED BY <2>1 DEF Good, BuildInv, Complete, Stored
<1> QED BY <1>1, <1>2, <1>3, <1>4, <1>5, <1>6 DEF Build

\* A step of one build leaves every other job alone.
LEMMA BuildLeavesOthers ==
  ASSUME TypeOK, NEW j \in Jobs, NEW k \in Jobs, k # j, Build(j)
  PROVE  UNCHANGED <<envelope, createdAt, JobState(k)>>
<1> USE DEF TypeOK, JobState, envelopeVars, rowVars
<1>1. CASE StartBuild(j)
  BY <1>1 DEF StartBuild
<1>2. CASE WritePage(j)
  BY <1>2 DEF WritePage
<1>3. CASE CloseArchive(j)
  BY <1>3 DEF CloseArchive
<1>4. CASE MarkReady(j)
  BY <1>4 DEF MarkReady
<1>5. CASE FailBuild(j)
  BY <1>5 DEF FailBuild
<1>6. CASE Die(j)
  BY <1>6 DEF Die
<1> QED BY <1>1, <1>2, <1>3, <1>4, <1>5, <1>6 DEF Build

\* Unlinking takes away whole files only: a path is set when the file is.
LEMMA UnlinkKeeps ==
  ASSUME TypeOK, NEW j \in Jobs, Good(j), NEW js \in SUBSET Jobs, Unlink(js),
         UNCHANGED <<envelope, createdAt, build, status, hasPath, cursor, copies, atStart>>
  PROVE  Good(j)'
<1>1. file'[j] = IF j \in js /\ hasPath[j] THEN "removed" ELSE file[j]
  BY DEF Unlink
<1> QED BY <1>1 DEF Good, BuildInv, Complete, Stored, After

LEMMA RowKeeps ==
  ASSUME TypeOK, NEW j \in Jobs, NEW k \in Jobs, Good(k),
         CreateJob(j) \/ Expire(j) \/ LazyExpire(j) \/ Purge(j)
  PROVE  Good(k)'
<1>1. CASE CreateJob(j)
  <2>1. CASE k = j
    <3>1. /\ status[j] = "absent" /\ status'[j] = "pending" /\ build'[j] = "queued"
          /\ UNCHANGED <<envelope, createdAt, hasPath, file, cursor, copies, atStart>>
      BY <1>1 DEF CreateJob, TypeOK, envelopeVars
    <3> QED BY <2>1, <3>1 DEF Good, BuildInv, Complete
  <2>2. CASE k # j
    BY <1>1, <2>2, Untouched DEF CreateJob, TypeOK, JobState, envelopeVars
  <2> QED BY <2>1, <2>2
<1>2. CASE Expire(j)
  BY <1>2, Untouched DEF Expire, JobState, envelopeVars, buildVars
<1>3. CASE LazyExpire(j)
  <2>1. CASE k = j
    <3>1. /\ status[j] = "ready" /\ status'[j] = "expired"
          /\ UNCHANGED <<envelope, createdAt, build, hasPath, file, cursor, copies, atStart>>
      BY <1>3 DEF LazyExpire, TypeOK, envelopeVars, buildVars
    <3> QED BY <2>1, <3>1 DEF Good, BuildInv, Complete
  <2>2. CASE k # j
    BY <1>3, <2>2, Untouched DEF LazyExpire, TypeOK, JobState, envelopeVars, buildVars
  <2> QED BY <2>1, <2>2
<1>4. CASE Purge(j)
  BY <1>4, UnlinkKeeps DEF Purge, envelopeVars, rowVars
<1> QED BY <1>1, <1>2, <1>3, <1>4

LEMMA SweepKeeps ==
  ASSUME TypeOK, NEW s \in Sweeps, NEW k \in Jobs, Good(k), Sweep(s)
  PROVE  Good(k)'
<1>1. CASE SweepSelect(s)
  BY <1>1, Untouched DEF SweepSelect, JobState, envelopeVars, rowVars, buildVars
<1>2. CASE SweepUnlink(s)
  <2>1. {j \in sweepIds[s] : RowExists(j)} \in SUBSET Jobs
    BY DEF TypeOK
  <2> QED BY <1>2, <2>1, UnlinkKeeps DEF SweepUnlink, envelopeVars, rowVars
<1>3. CASE SweepDelete(s)
  <2>1. status'[k] = IF k \in sweepIds[s] THEN "deleted" ELSE status[k]
    BY <1>3 DEF SweepDelete
  <2>2. UNCHANGED <<envelope, createdAt, build, hasPath, file, cursor, copies, atStart>>
    BY <1>3 DEF SweepDelete, envelopeVars, buildVars
  <2> QED BY <2>1, <2>2 DEF Good, BuildInv, Complete, Stored, After
<1>4. CASE SweepAbort(s)
  BY <1>4, Untouched DEF SweepAbort, JobState, envelopeVars, rowVars, buildVars
<1> QED BY <1>1, <1>2, <1>3, <1>4 DEF Sweep

LEMMA GoodKept ==
  ASSUME TypeOK, \A j \in Jobs : Good(j), [Next]_vars
  PROVE  \A j \in Jobs : Good(j)'
<1> SUFFICES ASSUME NEW k \in Jobs PROVE Good(k)'
  OBVIOUS
<1>1. Good(k)
  OBVIOUS
<1>2. CASE Tick
  BY <1>1, <1>2, Untouched DEF Tick, JobState, rowVars, buildVars
<1>3. ASSUME NEW e \in Envelopes, Seal(e) \/ Retire(e) PROVE Good(k)'
  BY <1>1, <1>3, EnvelopesKeep
<1>4. ASSUME NEW j \in Jobs, CreateJob(j) \/ Expire(j) \/ LazyExpire(j) \/ Purge(j) PROVE Good(k)'
  BY <1>1, <1>4, RowKeeps
<1>5. ASSUME NEW j \in Jobs, Build(j) PROVE Good(k)'
  <2>1. CASE k = j
    BY <1>1, <1>5, <2>1, BuildKeeps
  <2>2. CASE k # j
    BY <1>1, <1>5, <2>2, BuildLeavesOthers, Untouched
  <2> QED BY <2>1, <2>2
<1>6. ASSUME NEW s \in Sweeps, Sweep(s) PROVE Good(k)'
  BY <1>1, <1>6, SweepKeeps
<1>7. CASE UNCHANGED vars
  BY <1>1, <1>7, Untouched DEF vars, JobState, envelopeVars, rowVars, buildVars
<1> QED BY <1>2, <1>3, <1>4, <1>5, <1>6, <1>7 DEF Next

\* The inductive invariant of the exports holds of every behaviour.
THEOREM Safety == Spec => []ExportsInv
<1>1. Init => ExportsInv
  BY TypeInit, GoodInit DEF ExportsInv, ReadyIsComplete, Good
<1>2. ExportsInv /\ [Next]_vars => ExportsInv'
  <2> SUFFICES ASSUME ExportsInv, [Next]_vars PROVE ExportsInv'
    OBVIOUS
  <2>1. TypeOK /\ \A j \in Jobs : Good(j)
    BY DEF ExportsInv, ReadyIsComplete, Good
  <2>2. TypeOK' /\ \A j \in Jobs : Good(j)'
    BY <2>1, TypeKept, GoodKept
  <2> QED BY <2>2 DEF ExportsInv, ReadyIsComplete, Good
<1> QED BY <1>1, <1>2, PTL DEF Spec

\* The archive of a ready job holds every envelope that was stored when its
\* build started and still is, for every page size, and whatever the database
\* clock's resolution loses in the cursor.
THEOREM ReadyComplete == Spec => []ReadyIsComplete
<1>1. ExportsInv => ReadyIsComplete
  BY DEF ExportsInv
<1> QED BY <1>1, Safety, PTL

-----------------------------------------------------------------------------
(* What the milliseconds cost. *)

\* A cut instant is a multiple of a millisecond, and not more than one
\* millisecond is cut off.
LEMMA ToDateCuts ==
  ASSUME NEW t \in Nat
  PROVE  /\ ToDate(t) \in Nat /\ ToDate(t) <= t /\ t < ToDate(t) + Milli
         /\ \E q \in Nat : ToDate(t) = Milli * q
<1>1. Milli \in Nat /\ Milli > 0
  BY ExportsAssumption
<1>2. t % Milli \in 0 .. Milli - 1 /\ t \div Milli \in Nat
  BY <1>1
<1>3. t = Milli * (t \div Milli) + (t % Milli)
  BY <1>1
<1>4. ToDate(t) = Milli * (t \div Milli)
  BY <1>1, <1>2, <1>3 DEF ToDate
<1>5. Milli * (t \div Milli) \in Nat
  BY <1>1, <1>2
<1> QED BY <1>1, <1>2, <1>3, <1>4, <1>5

\* A multiple of a millisecond is cut to itself, so the cut instants of rows in
\* order are in order.
LEMMA ToDateAbove ==
  ASSUME NEW t \in Nat, NEW q \in Nat, Milli * q <= t
  PROVE  Milli * q <= ToDate(t)
<1>1. Milli \in Nat /\ Milli > 0
  BY ExportsAssumption
<1>2. PICK d \in Nat : ToDate(t) = Milli * d /\ t < Milli * d + Milli
  BY ToDateCuts
<1>3. Milli * q < Milli * (d + 1)
  BY <1>1, <1>2
<1>4. q < d + 1
  <2> SUFFICES ASSUME q >= d + 1 PROVE FALSE
    OBVIOUS
  <2>1. PICK k \in Nat : q = d + 1 + k
    <3>1. q - (d + 1) \in Nat /\ q = d + 1 + (q - (d + 1))
      OBVIOUS
    <3> QED BY <3>1
  <2>2. Milli * q = Milli * (d + 1) + Milli * k /\ Milli * k >= 0
    BY <1>1, <2>1
  <2> QED BY <1>1, <1>3, <2>2
<1>5. PICK k \in Nat : d = q + k
  <2>1. d - q \in Nat /\ d = q + (d - q)
    BY <1>4
  <2> QED BY <2>1
<1>6. Milli * d = Milli * q + Milli * k /\ Milli * k >= 0
  BY <1>1, <1>5
<1> QED BY <1>1, <1>2, <1>6

\* What a build has copied was created before the millisecond of its cursor ends.
CopiesInv ==
  \A j \in Jobs :
    /\ cursor[j] = NoCursor \/ \E q \in Nat : cursor[j].at = Milli * q
    /\ \A e \in Envelopes : copies[j][e] > 0 =>
         envelope[e] # "absent" /\ createdAt[e] < cursor[j].at + Milli

LEMMA CopiesUntouched ==
  ASSUME CopiesInv, UNCHANGED <<envelope, createdAt, cursor, copies>>
  PROVE  CopiesInv'
  BY DEF CopiesInv

\* A row that is sealed now has no copy yet.
LEMMA CopiesOfEnvelopes ==
  ASSUME TypeOK, CopiesInv, NEW e \in Envelopes, Seal(e) \/ Retire(e)
  PROVE  CopiesInv'
<1>1. UNCHANGED <<cursor, copies>>
  BY DEF Seal, Retire, buildVars
<1>2. \A f \in Envelopes : f # e => envelope'[f] = envelope[f] /\ createdAt'[f] = createdAt[f]
  BY DEF Seal, Retire, TypeOK
<1>3. \/ envelope[e] = "absent"
      \/ envelope'[e] = "deleted" /\ createdAt' = createdAt
  BY DEF Seal, Retire, TypeOK
<1>4. \A f \in Envelopes : envelope[f] # "absent" =>
        envelope'[f] # "absent" /\ createdAt'[f] = createdAt[f]
  BY <1>2, <1>3
<1> QED BY <1>1, <1>4 DEF CopiesInv

\* The cursor moves on to the millisecond of the last row of the page.
LEMMA CopiesOfAPage ==
  ASSUME TypeOK, CopiesInv, NEW j \in Jobs, WritePage(j)
  PROVE  CopiesInv'
<1>1. PICK page \in SUBSET Rest(j) : \E last \in page :
        /\ \A e \in page \ {last} : Before(e, last)
        /\ copies' = [copies EXCEPT ![j] =
             [e \in Envelopes |-> copies[j][e] + IF e \in page THEN 1 ELSE 0]]
        /\ cursor' = [cursor EXCEPT ![j] = [at |-> ToDate(createdAt[last]), id |-> last]]
  BY DEF WritePage
<1>2. PICK last \in page :
        /\ \A e \in page \ {last} : Before(e, last)
        /\ copies' = [copies EXCEPT ![j] =
             [e \in Envelopes |-> copies[j][e] + IF e \in page THEN 1 ELSE 0]]
        /\ cursor' = [cursor EXCEPT ![j] = [at |-> ToDate(createdAt[last]), id |-> last]]
  BY <1>1
<1>3. UNCHANGED <<envelope, createdAt>>
  BY DEF WritePage, envelopeVars
<1>4. /\ \A e \in Envelopes : copies'[j][e] = copies[j][e] + IF e \in page THEN 1 ELSE 0
      /\ \A k \in Jobs \ {j} : copies'[k] = copies[k] /\ cursor'[k] = cursor[k]
      /\ cursor'[j].at = ToDate(createdAt[last])
  BY <1>2 DEF TypeOK
<1>5. last \in Envelopes /\ After(cursor[j], last)
  BY DEF Rest, Stored
<1>6. /\ createdAt[last] \in Nat /\ cursor[j].at \in Int
      /\ createdAt[last] >= cursor[j].at /\ Milli \in Nat
  BY <1>5, ExportsAssumption DEF TypeOK, After
<1>7. /\ ToDate(createdAt[last]) \in Nat /\ createdAt[last] < ToDate(createdAt[last]) + Milli
      /\ \E q \in Nat : ToDate(createdAt[last]) = Milli * q
  BY <1>6, ToDateCuts
<1>8. cursor[j].at <= ToDate(createdAt[last])
  <2>1. CASE cursor[j] = NoCursor
    BY <1>7, <2>1 DEF NoCursor
  <2>2. CASE \E q \in Nat : cursor[j].at = Milli * q
    <3>1. PICK q \in Nat : cursor[j].at = Milli * q
      BY <2>2
    <3> QED BY <1>6, <3>1, ToDateAbove
  <2> QED BY <2>1, <2>2 DEF CopiesInv
<1> DEFINE D == ToDate(createdAt[last])
<1> HIDE DEF D
<1>9. ASSUME NEW e \in Envelopes, copies'[j][e] > 0
      PROVE  envelope[e] # "absent" /\ createdAt[e] < D + Milli
  <2>1. copies[j][e] \in Nat /\ createdAt[e] \in Nat
    BY DEF TypeOK
  <2>2. CASE e \in page
    <3>1. envelope[e] = "stored"
      BY <2>2 DEF Rest, Stored
    <3>2. createdAt[e] <= createdAt[last]
      BY <1>2, <1>6, <2>1, <2>2 DEF Before
    <3> QED BY <1>6, <1>7, <2>1, <3>1, <3>2 DEF D
  <2>3. CASE e \notin page
    <3>1. copies[j][e] > 0
      BY <1>4, <1>9, <2>1, <2>3
    <3>2. envelope[e] # "absent" /\ createdAt[e] < cursor[j].at + Milli
      BY <3>1 DEF CopiesInv
    <3> QED BY <1>6, <1>7, <1>8, <2>1, <3>2 DEF D
  <2> QED BY <2>2, <2>3
<1>10. ASSUME NEW k \in Jobs
       PROVE  /\ cursor'[k] = NoCursor \/ \E q \in Nat : cursor'[k].at = Milli * q
              /\ \A e \in Envelopes : copies'[k][e] > 0 =>
                   envelope'[e] # "absent" /\ createdAt'[e] < cursor'[k].at + Milli
  <2>1. CASE k = j
    BY <1>3, <1>4, <1>7, <1>9, <2>1 DEF D
  <2>2. CASE k # j
    BY <1>3, <1>4, <2>2 DEF CopiesInv
  <2> QED BY <2>1, <2>2
<1> QED BY <1>10 DEF CopiesInv

LEMMA CopiesKept ==
  ASSUME TypeOK, CopiesInv, [Next]_vars
  PROVE  CopiesInv'
<1>1. CASE Tick
  BY <1>1, CopiesUntouched DEF Tick, buildVars
<1>2. ASSUME NEW e \in Envelopes, Seal(e) \/ Retire(e) PROVE CopiesInv'
  BY <1>2, CopiesOfEnvelopes
<1>3. ASSUME NEW j \in Jobs, CreateJob(j) \/ Expire(j) \/ LazyExpire(j) \/ Purge(j) PROVE CopiesInv'
  BY <1>3, CopiesUntouched DEF CreateJob, Expire, LazyExpire, Purge, envelopeVars, buildVars
<1>4. ASSUME NEW j \in Jobs, Build(j) PROVE CopiesInv'
  <2>1. CASE WritePage(j)
    BY <2>1, CopiesOfAPage
  <2>2. CASE StartBuild(j) \/ CloseArchive(j) \/ MarkReady(j) \/ FailBuild(j) \/ Die(j)
    BY <2>2, CopiesUntouched DEF StartBuild, CloseArchive, MarkReady, FailBuild, Die, envelopeVars
  <2> QED BY <1>4, <2>1, <2>2 DEF Build
<1>5. ASSUME NEW s \in Sweeps, Sweep(s) PROVE CopiesInv'
  BY <1>5, CopiesUntouched
     DEF Sweep, SweepSelect, SweepUnlink, SweepDelete, SweepAbort, envelopeVars, buildVars
<1>6. CASE UNCHANGED vars
  BY <1>6, CopiesUntouched DEF vars, envelopeVars, buildVars
<1> QED BY <1>1, <1>2, <1>3, <1>4, <1>5, <1>6 DEF Next

\* Nothing but a page is copied.
LEMMA OnlyPagesCopy ==
  ASSUME [Next]_vars, copies' # copies
  PROVE  \E j \in Jobs : WritePage(j)
<1> DEFINE Some == \E j \in Jobs : WritePage(j)
<1>1. ~Tick
  BY DEF Tick, buildVars
<1>2. ASSUME NEW e \in Envelopes PROVE ~(Seal(e) \/ Retire(e))
  BY DEF Seal, Retire, buildVars
<1>3. ASSUME NEW j \in Jobs PROVE ~(CreateJob(j) \/ Expire(j) \/ LazyExpire(j) \/ Purge(j))
  BY DEF CreateJob, Expire, LazyExpire, Purge, buildVars
<1>4. ASSUME NEW j \in Jobs, Build(j) PROVE Some
  <2>1. ~(StartBuild(j) \/ CloseArchive(j) \/ MarkReady(j) \/ FailBuild(j) \/ Die(j))
    BY DEF StartBuild, CloseArchive, MarkReady, FailBuild, Die
  <2> QED BY <1>4, <2>1 DEF Build
<1>5. ASSUME NEW s \in Sweeps PROVE ~Sweep(s)
  BY DEF Sweep, SweepSelect, SweepUnlink, SweepDelete, SweepAbort, buildVars
<1>6. ~UNCHANGED vars
  BY DEF vars, buildVars
<1> HIDE DEF Some
<1>7. Some
  BY <1>1, <1>2, <1>3, <1>4, <1>5, <1>6 DEF Next
<1> QED BY <1>7 DEF Some

\* A build writes an envelope again only if it was created in the very
\* millisecond to which the cursor of the build was cut: what the missing
\* microseconds cost, whatever is sealed late or with an equal timestamp.
RereadInTheMillisecond ==
  [][\A j \in Jobs, e \in Envelopes : copies[j][e] > 0 /\ copies'[j][e] > copies[j][e] =>
       createdAt[e] \in cursor[j].at .. cursor[j].at + Milli - 1]_vars

\* That it holds of every behaviour.
THEOREM RereadsAreClose == Spec => RereadInTheMillisecond
<1>1. Init => CopiesInv
  BY DEF Init, CopiesInv
<1>2. CopiesInv /\ ExportsInv /\ [Next]_vars => CopiesInv'
  BY CopiesKept DEF ExportsInv
<1>3. ASSUME TypeOK, CopiesInv, [Next]_vars, NEW j \in Jobs, NEW e \in Envelopes,
             copies[j][e] > 0, copies'[j][e] > copies[j][e]
      PROVE  createdAt[e] \in cursor[j].at .. cursor[j].at + Milli - 1
  <2>1. copies[j][e] \in Nat /\ createdAt[e] \in Nat /\ cursor[j].at \in Int /\ Milli \in Nat
    BY <1>3, ExportsAssumption DEF TypeOK
  <2>2. copies' # copies
    BY <1>3, <2>1
  <2>3. PICK k \in Jobs : WritePage(k)
    BY <1>3, <2>2, OnlyPagesCopy
  <2>4. PICK page \in SUBSET Rest(k) :
          copies' = [copies EXCEPT ![k] =
            [f \in Envelopes |-> copies[k][f] + IF f \in page THEN 1 ELSE 0]]
    BY <2>3 DEF WritePage
  <2>5. k = j /\ e \in page
    BY <1>3, <2>1, <2>4 DEF TypeOK
  <2>6. createdAt[e] >= cursor[j].at
    BY <2>1, <2>4, <2>5 DEF Rest, After
  <2>7. createdAt[e] < cursor[j].at + Milli
    BY <1>3 DEF CopiesInv
  <2> QED BY <2>1, <2>6, <2>7
<1>4. TypeOK /\ CopiesInv /\ [Next]_vars =>
        [\A j \in Jobs, e \in Envelopes : copies[j][e] > 0 /\ copies'[j][e] > copies[j][e] =>
           createdAt[e] \in cursor[j].at .. cursor[j].at + Milli - 1]_vars
  BY <1>3
<1>5. ExportsInv => TypeOK
  BY DEF ExportsInv
<1> QED
  BY <1>1, <1>2, <1>4, <1>5, Safety, PTL DEF Spec, RereadInTheMillisecond
=============================================================================
