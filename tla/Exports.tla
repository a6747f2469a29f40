------------------------------ MODULE Exports ------------------------------
(***************************************************************************)
(* Bulk exports of one organisation (lib/server/exports.ts): a request     *)
(* becomes a job whose build pages through the stored envelopes into a TAR *)
(* file, while envelopes are sealed and swept, builds fail or die, owners  *)
(* delete jobs, and the daily sweep removes jobs past their expiry.        *)
(*                                                                         *)
(* Postgres keeps created_at in microseconds.  The build reads it into a   *)
(* JavaScript Date, in milliseconds, and sends that back as the cursor.    *)
(***************************************************************************)
EXTENDS Integers, FiniteSets

CONSTANTS
  Envelopes,        \* ids of the envelopes in scope, ordered as numbers
  Jobs,             \* rows of export_job, each with its build
  Sweeps,           \* concurrent runs of the sweep
  PageSize,         \* rows per page of a build
  Batch,            \* rows per batch of the sweep
  Milli,            \* instants of the clock per millisecond
  Lag,              \* how far behind the clock a row may become visible
  MaxTime,          \* bound: last instant
  MaxCopies         \* bound: copies of an envelope a build writes

ASSUME ExportsAssumption ==
  /\ Envelopes \subseteq Nat
  /\ PageSize \in Nat \ {0} /\ Batch \in Nat \ {0} /\ Milli \in Nat \ {0}
  /\ Lag \in Nat /\ MaxTime \in Nat /\ MaxCopies \in Nat

VARIABLES
  clock,
  \* table evidence_envelope
  envelope,         \* "absent", "stored" or "deleted"
  createdAt,
  \* table export_job
  status,           \* "absent", a status of the column, or "deleted"
  hasPath,          \* file_path is set
  overdue,          \* expires_at has passed
  \* a build and its file
  build,            \* "none", "queued", "paging" or "ending"
  cursor,
  file,             \* "none", "partial", "whole" or "removed"
  copies,           \* copies[j][e]: how often the file of j holds e
  atStart,          \* envelopes stored when the build started (history)
  \* a sweep
  sweepPc, sweepIds

envelopeVars == <<clock, envelope, createdAt>>
rowVars == <<status, hasPath, overdue>>
buildVars == <<build, cursor, file, copies, atStart>>
sweepVars == <<sweepPc, sweepIds>>
vars == <<envelopeVars, rowVars, buildVars, sweepVars>>

TypeOK ==
  /\ clock \in Nat
  /\ envelope \in [Envelopes -> {"absent", "stored", "deleted"}]
  /\ createdAt \in [Envelopes -> Nat]
  /\ status \in [Jobs -> {"absent", "pending", "building", "ready", "failed", "expired", "deleted"}]
  /\ hasPath \in [Jobs -> BOOLEAN] /\ overdue \in [Jobs -> BOOLEAN]
  /\ build \in [Jobs -> {"none", "queued", "paging", "ending"}]
  /\ cursor \in [Jobs -> [at : Int, id : Int]]
  /\ file \in [Jobs -> {"none", "partial", "whole", "removed"}]
  /\ copies \in [Jobs -> [Envelopes -> Nat]]
  /\ atStart \in [Jobs -> SUBSET Envelopes]
  /\ sweepPc \in [Sweeps -> {"idle", "selected", "unlinked"}]
  /\ sweepIds \in [Sweeps -> SUBSET Jobs]

NoCursor == [at |-> -1, id |-> -1]

Init ==
  /\ clock = 0
  /\ envelope = [e \in Envelopes |-> "absent"]
  /\ createdAt = [e \in Envelopes |-> 0]
  /\ status = [j \in Jobs |-> "absent"]
  /\ hasPath = [j \in Jobs |-> FALSE] /\ overdue = [j \in Jobs |-> FALSE]
  /\ build = [j \in Jobs |-> "none"]
  /\ cursor = [j \in Jobs |-> NoCursor]
  /\ file = [j \in Jobs |-> "none"]
  /\ copies = [j \in Jobs |-> [e \in Envelopes |-> 0]]
  /\ atStart = [j \in Jobs |-> {}]
  /\ sweepPc = [s \in Sweeps |-> "idle"]
  /\ sweepIds = [s \in Sweeps |-> {}]

Stored == {e \in Envelopes : envelope[e] = "stored"}

RowExists(j) == status[j] \notin {"absent", "deleted"}

-----------------------------------------------------------------------------
(* The envelopes. *)

Tick ==
  /\ clock < MaxTime
  /\ clock' = clock + 1
  /\ UNCHANGED <<envelope, createdAt, rowVars, buildVars, sweepVars>>

\* created_at defaults to the start of the transaction, the row is visible
\* from its commit on.
Seal(e) ==
  /\ envelope[e] = "absent"
  /\ envelope' = [envelope EXCEPT ![e] = "stored"]
  /\ \E t \in 0 .. clock : t >= clock - Lag /\ createdAt' = [createdAt EXCEPT ![e] = t]
  /\ UNCHANGED <<clock, rowVars, buildVars, sweepVars>>

\* The retention sweep deletes an expired envelope.
Retire(e) ==
  /\ envelope[e] = "stored"
  /\ envelope' = [envelope EXCEPT ![e] = "deleted"]
  /\ UNCHANGED <<clock, createdAt, rowVars, buildVars, sweepVars>>

-----------------------------------------------------------------------------
(* A job and its build. *)

CreateJob(j) ==
  /\ status[j] = "absent"
  /\ status' = [status EXCEPT ![j] = "pending"]
  /\ build' = [build EXCEPT ![j] = "queued"]
  /\ UNCHANGED <<envelopeVars, hasPath, overdue, cursor, file, copies, atStart, sweepVars>>

StartBuild(j) ==
  /\ build[j] = "queued"
  /\ IF RowExists(j)
       THEN /\ status' = [status EXCEPT ![j] = "building"]
            /\ build' = [build EXCEPT ![j] = "paging"]
            /\ file' = [file EXCEPT ![j] = "partial"]
            /\ atStart' = [atStart EXCEPT ![j] = Stored]
       ELSE build' = [build EXCEPT ![j] = "none"] /\ UNCHANGED <<status, file, atStart>>
  /\ UNCHANGED <<envelopeVars, hasPath, overdue, cursor, copies, sweepVars>>

\* ORDER BY created_at, id
Before(e, f) == createdAt[e] < createdAt[f] \/ (createdAt[e] = createdAt[f] /\ e < f)

\* (created_at, id) > (cursor.createdAt, cursor.id)
\* Mutant: created_at > cursor.createdAt.
MutAfter(c, e) == createdAt[e] > c.at

After(c, e) == createdAt[e] > c.at \/ (createdAt[e] = c.at /\ e > c.id)

Rest(j) == {e \in Stored : After(cursor[j], e)}

\* The first PageSize rows of the rest.
IsPage(page, rest) ==
  /\ page \subseteq rest
  /\ Cardinality(page) <= PageSize /\ (page = rest \/ Cardinality(page) = PageSize)
  /\ \A e \in page, f \in rest \ page : Before(e, f)

\* The microseconds a Date does not hold are cut off.
ToDate(t) == t - (t % Milli)

WritePage(j) ==
  /\ build[j] = "paging" /\ Rest(j) # {}
  /\ \E page \in SUBSET Rest(j) : \E last \in page :
       /\ IsPage(page, Rest(j))
       /\ \A e \in page \ {last} : Before(e, last)
       /\ \A e \in page : copies[j][e] < MaxCopies
       /\ copies' = [copies EXCEPT ![j] =
            [e \in Envelopes |-> copies[j][e] + IF e \in page THEN 1 ELSE 0]]
       /\ cursor' = [cursor EXCEPT ![j] = [at |-> ToDate(createdAt[last]), id |-> last]]
  /\ UNCHANGED <<envelopeVars, rowVars, build, file, atStart, sweepVars>>

\* An empty page ends the loop and closes the file.
CloseArchive(j) ==
  /\ build[j] = "paging" /\ Rest(j) = {}
  /\ build' = [build EXCEPT ![j] = "ending"]
  /\ file' = [file EXCEPT ![j] = "whole"]
  /\ UNCHANGED <<envelopeVars, rowVars, cursor, copies, atStart, sweepVars>>

\* An UPDATE of a row that has been swept changes nothing.
MarkReady(j) ==
  /\ build[j] = "ending"
  /\ build' = [build EXCEPT ![j] = "none"]
  /\ IF RowExists(j)
       THEN status' = [status EXCEPT ![j] = "ready"] /\ hasPath' = [hasPath EXCEPT ![j] = TRUE]
       ELSE UNCHANGED <<status, hasPath>>
  /\ UNCHANGED <<envelopeVars, overdue, cursor, file, copies, atStart, sweepVars>>

\* The file of a failed build stays where it is.
FailBuild(j) ==
  /\ build[j] = "paging"
  /\ build' = [build EXCEPT ![j] = "none"]
  /\ status' = IF RowExists(j) THEN [status EXCEPT ![j] = "failed"] ELSE status
  /\ UNCHANGED <<envelopeVars, hasPath, overdue, cursor, file, copies, atStart, sweepVars>>

\* The process ends, and with it the build: nothing starts it again.
Die(j) ==
  /\ build[j] # "none"
  /\ build' = [build EXCEPT ![j] = "none"]
  /\ UNCHANGED <<envelopeVars, rowVars, cursor, file, copies, atStart, sweepVars>>

-----------------------------------------------------------------------------
(* The end of a job. *)

Expire(j) ==
  /\ RowExists(j) /\ ~overdue[j]
  /\ overdue' = [overdue EXCEPT ![j] = TRUE]
  /\ UNCHANGED <<envelopeVars, status, hasPath, buildVars, sweepVars>>

\* A download past the expiry marks the row.
LazyExpire(j) ==
  /\ status[j] = "ready" /\ overdue[j]
  /\ status' = [status EXCEPT ![j] = "expired"]
  /\ UNCHANGED <<envelopeVars, hasPath, overdue, buildVars, sweepVars>>

\* The file at a row's path, and only that, is unlinked.
Unlink(js) ==
  file' = [j \in Jobs |-> IF j \in js /\ hasPath[j] THEN "removed" ELSE file[j]]

\* DELETE unlinks the file and leaves the row alone.
Purge(j) ==
  /\ RowExists(j) /\ hasPath[j]
  /\ Unlink({j})
  /\ UNCHANGED <<envelopeVars, rowVars, build, cursor, copies, atStart, sweepVars>>

\* Mutant: the sweep looks for finished jobs.
MutSwept == {j \in Jobs : status[j] \in {"ready", "expired"} /\ overdue[j]}

Swept == {j \in Jobs : RowExists(j) /\ overdue[j]}

SweepSelect(s) ==
  /\ sweepPc[s] = "idle" /\ Swept # {}
  /\ \E ids \in SUBSET Swept :
       /\ Cardinality(ids) <= Batch /\ (ids = Swept \/ Cardinality(ids) = Batch)
       /\ sweepIds' = [sweepIds EXCEPT ![s] = ids]
  /\ sweepPc' = [sweepPc EXCEPT ![s] = "selected"]
  /\ UNCHANGED <<envelopeVars, rowVars, buildVars>>

SweepUnlink(s) ==
  /\ sweepPc[s] = "selected"
  /\ sweepPc' = [sweepPc EXCEPT ![s] = "unlinked"]
  /\ Unlink({j \in sweepIds[s] : RowExists(j)})
  /\ UNCHANGED <<envelopeVars, rowVars, build, cursor, copies, atStart, sweepIds>>

EndSweep(s) ==
  /\ sweepPc' = [sweepPc EXCEPT ![s] = "idle"]
  /\ sweepIds' = [sweepIds EXCEPT ![s] = {}]

SweepDelete(s) ==
  /\ sweepPc[s] = "unlinked"
  /\ status' = [j \in Jobs |-> IF j \in sweepIds[s] THEN "deleted" ELSE status[j]]
  /\ EndSweep(s)
  /\ UNCHANGED <<envelopeVars, hasPath, overdue, buildVars>>

SweepAbort(s) ==
  /\ sweepPc[s] # "idle"
  /\ EndSweep(s)
  /\ UNCHANGED <<envelopeVars, rowVars, buildVars>>

-----------------------------------------------------------------------------
Build(j) ==
  StartBuild(j) \/ WritePage(j) \/ CloseArchive(j) \/ MarkReady(j) \/ FailBuild(j) \/ Die(j)

Sweep(s) == SweepSelect(s) \/ SweepUnlink(s) \/ SweepDelete(s) \/ SweepAbort(s)

Next ==
  \/ Tick \/ \E e \in Envelopes : Seal(e) \/ Retire(e)
  \/ \E j \in Jobs : CreateJob(j) \/ Build(j) \/ Expire(j) \/ LazyExpire(j) \/ Purge(j)
  \/ \E s \in Sweeps : Sweep(s)

Spec == Init /\ [][Next]_vars

\* A day passes, and a sweep that fails does not fail at the same step on
\* every later day.  Builds need not go on.
FairSpec ==
  /\ Spec
  /\ \A j \in Jobs : WF_vars(Expire(j))
  /\ \A s \in Sweeps :
       SF_vars(SweepSelect(s)) /\ SF_vars(SweepUnlink(s)) /\ SF_vars(SweepDelete(s))

-----------------------------------------------------------------------------
(* What an export promises. *)

Complete(j) ==
  status[j] = "ready" =>
    /\ file[j] \in {"whole", "removed"}
    /\ \A e \in atStart[j] \cap Stored : copies[j][e] > 0

\* Whatever is sealed and retired while the build reads page after page, with
\* the cursor cut to milliseconds, the archive of a ready job misses no
\* envelope that was stored when the build started and still is.
ReadyIsComplete == \A j \in Jobs : Complete(j)

\* The build reads no row twice.
WrittenOnce == \A j \in Jobs, e \in Envelopes : copies[j][e] <= 1

\* No job stays for ever, also if its build has died, failed or never ends.
JobIsSwept == \A j \in Jobs : (status[j] # "absent") ~> (status[j] = "deleted")

\* The strengthening: while a build pages, what it owes is copied or still
\* ahead of the cursor; when it has seen an empty page it owes nothing.
BuildInv(j) ==
  /\ build[j] = "paging" =>
       /\ file[j] = "partial" /\ ~hasPath[j]
       /\ \A e \in atStart[j] \cap Stored : copies[j][e] > 0 \/ After(cursor[j], e)
  /\ build[j] = "ending" =>
       /\ file[j] = "whole" /\ ~hasPath[j]
       /\ \A e \in atStart[j] \cap Stored : copies[j][e] > 0
  /\ build[j] = "queued" =>
       /\ file[j] = "none" /\ ~hasPath[j]
       /\ cursor[j] = NoCursor /\ status[j] \in {"pending", "deleted"}
  /\ status[j] = "absent" =>
       /\ build[j] = "none" /\ file[j] = "none"
       /\ ~hasPath[j] /\ cursor[j] = NoCursor
  /\ status[j] = "ready" => build[j] = "none"
  /\ \A e \in atStart[j] : envelope[e] # "absent"

ExportsInv == TypeOK /\ ReadyIsComplete /\ \A j \in Jobs : BuildInv(j)
=============================================================================
