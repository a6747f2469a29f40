---------------------------- MODULE ServiceProofs ----------------------------
(***************************************************************************)
(* Proofs about the rows the server keeps: stored evidence, signers and     *)
(* quotas, organisations and their projects, linked wallets and rate        *)
(* limits, for any number of requests in flight and of overlapping sweeps,  *)
(* and any users, projects, wallets, caps and limits.                       *)
(*                                                                          *)
(* What a sweep has selected had expired and stays so, because nothing      *)
(* rewrites an expiry, and so every step is one of RetainedStore.  A scope  *)
(* has at most one active signer, what is stored as signed was signed as    *)
(* asked, and the quota is passed by no more than the requests that ran at  *)
(* the same time.  Membership keeps its owner and leaves no orphans, every  *)
(* linked wallet is proven, and no window lets through more requests than   *)
(* its limit.                                                               *)
(***************************************************************************)
EXTENDS Retention, Sealing, Membership, SignIn, RateLimit, FiniteSetTheorems, SequenceTheorems, TLAPS

-----------------------------------------------------------------------------
(* Retention: types. *)

LEMMA WindowTypes ==
  /\ DefaultWindow \in Nat
  /\ \A w \in Windows : w \in Nat
  /\ RetentionTypeOK => EffectiveWindow \in Nat
BY RetentionAssumption DEF EffectiveWindow, RetentionTypeOK

LEMMA IntakeTypes ==
  ASSUME RetentionTypeOK, NEW e \in Envelopes, Intake(e)
  PROVE  RetentionTypeOK'
<1> USE DEF RetentionTypeOK, tableVars, verifyVars, sweepVars
<1>1. CASE ReadWindow(e)
  BY <1>1, WindowTypes DEF ReadWindow
<1>2. CASE InsertEnvelope(e)
  <2>1. day + window[e] \in Nat
    OBVIOUS
  <2> QED
    BY <1>2, <2>1 DEF InsertEnvelope
<1>3. CASE InsertAgentRun(e)
  BY <1>3 DEF InsertAgentRun
<1>4. CASE AbandonIntake(e)
  BY <1>4 DEF AbandonIntake
<1> QED
  BY <1>1, <1>2, <1>3, <1>4 DEF Intake

LEMMA VerifyTypes ==
  ASSUME RetentionTypeOK, NEW v \in Verifiers, Verify(v)
  PROVE  RetentionTypeOK'
<1> USE DEF RetentionTypeOK, tableVars, intakeVars, sweepVars, EndVerify
<1>1. CASE \E e \in Envelopes : ReadForVerify(v, e)
  BY <1>1 DEF ReadForVerify
<1>2. CASE WriteCount(v)
  <2> DEFINE e == verifying[v]
  <2>1. e \in Envelopes
    BY <1>2 DEF WriteCount
  <2>2. countRead[v] + 1 \in Nat /\ verifications[e] + 1 \in Nat
    BY <2>1
  <2>3. verificationCount' \in [Envelopes -> Nat] /\ verifications' \in [Envelopes -> Nat]
    BY <1>2, <2>1, <2>2 DEF WriteCount
  <2> QED
    BY <1>2, <2>3 DEF WriteCount
<1>3. CASE AbandonVerify(v)
  BY <1>3 DEF AbandonVerify
<1> QED
  BY <1>1, <1>2, <1>3 DEF Verify

LEMMA SweepTypes ==
  ASSUME RetentionTypeOK, NEW s \in Sweeps, Sweep(s)
  PROVE  RetentionTypeOK'
<1> USE DEF RetentionTypeOK, tableVars, intakeVars, verifyVars, EndSweep
<1>1. CASE SelectExpired(s)
  <2>1. selected' \in [Sweeps -> SUBSET Envelopes]
    BY <1>1 DEF SelectExpired, Expired
  <2> QED
    BY <1>1, <2>1 DEF SelectExpired
<1>2. CASE DeleteSelected(s)
  BY <1>2 DEF DeleteSelected
<1>3. CASE AnnounceSelected(s)
  BY <1>3 DEF AnnounceSelected
<1>4. CASE AbandonSweep(s)
  BY <1>4 DEF AbandonSweep
<1> QED
  BY <1>1, <1>2, <1>3, <1>4 DEF Sweep

LEMMA RetentionTypesKept ==
  ASSUME RetentionTypeOK, [RetentionNext]_retentionVars
  PROVE  RetentionTypeOK'
<1>1. CASE DayPasses
  BY <1>1 DEF DayPasses, RetentionTypeOK, tableVars, intakeVars, verifyVars, sweepVars
<1>2. CASE \E days \in Windows : SetRetentionPolicy(days)
  BY <1>2, WindowTypes
  DEF SetRetentionPolicy, RetentionTypeOK, tableVars, intakeVars, verifyVars, sweepVars
<1>3. CASE UNCHANGED retentionVars
  BY <1>3 DEF retentionVars, RetentionTypeOK, tableVars, intakeVars, verifyVars, sweepVars
<1> QED
  BY <1>1, <1>2, <1>3, IntakeTypes, VerifyTypes, SweepTypes DEF RetentionNext

-----------------------------------------------------------------------------
(* Retention: the invariant, part by part. *)

SelectionInv == \A s \in Sweeps : SelectedInv(s)
IntakesInv == \A e \in Envelopes : IntakeInv(e)
PolicyInv == policy \in Windows \cup {0}

LEMMA RetentionParts ==
  RetentionInv <=> /\ RetentionTypeOK /\ PolicyInv /\ AnnouncedIsGone /\ RunHasItsEnvelope
                   /\ SelectionInv /\ IntakesInv
BY DEF RetentionInv, PolicyInv, SelectionInv, IntakesInv

LEMMA RetentionPartsNext ==
  ASSUME RetentionTypeOK', PolicyInv', AnnouncedIsGone', RunHasItsEnvelope', SelectionInv',
         IntakesInv'
  PROVE  RetentionInv'
BY DEF RetentionInv, PolicyInv, SelectionInv, IntakesInv

LEMMA RetentionStart ==
  ASSUME RetentionInit
  PROVE  RetentionInv
<1>1. RetentionTypeOK
  BY DEF RetentionInit, RetentionTypeOK
<1>2. PolicyInv /\ AnnouncedIsGone /\ RunHasItsEnvelope
  BY DEF RetentionInit, PolicyInv, AnnouncedIsGone, RunHasItsEnvelope
<1>3. SelectionInv /\ IntakesInv
  BY DEF RetentionInit, SelectionInv, SelectedInv, IntakesInv, IntakeInv
<1> QED
  BY <1>1, <1>2, <1>3, RetentionParts

\* What the steps of intakes and verifications do to the rows: they never
\* touch one that a sweep has selected, announced or deleted.
RowsKept ==
  \A e \in Envelopes :
    /\ stored[e] # "absent" => stored'[e] = stored[e] /\ expiresAt'[e] = expiresAt[e]
    /\ agentRun'[e] => agentRun[e] \/ stored'[e] = "stored"

LEMMA KeptRowsSafe ==
  ASSUME RetentionTypeOK, RetentionTypeOK', RowsKept,
         AnnouncedIsGone, RunHasItsEnvelope, SelectionInv,
         UNCHANGED <<day, sweepVars>>
  PROVE  AnnouncedIsGone' /\ RunHasItsEnvelope' /\ SelectionInv'
<1>1. AnnouncedIsGone'
  BY DEF AnnouncedIsGone, RowsKept, sweepVars, RetentionTypeOK
<1>2. RunHasItsEnvelope'
  BY DEF RunHasItsEnvelope, RowsKept, RetentionTypeOK
<1>3. SelectionInv'
  <2> SUFFICES ASSUME NEW s \in Sweeps PROVE SelectedInv(s)'
    BY DEF SelectionInv
  <2>1. SelectedInv(s) /\ selected[s] \subseteq Envelopes
    BY DEF SelectionInv, RetentionTypeOK
  <2> QED
    BY <2>1 DEF SelectedInv, RowsKept, sweepVars
<1> QED
  BY <1>1, <1>2, <1>3

LEMMA IntakeKeeps ==
  ASSUME RetentionInv, NEW e \in Envelopes, Intake(e)
  PROVE  RowsKept /\ IntakesInv' /\ UNCHANGED <<day, policy, verifyVars, sweepVars>>
<1> USE DEF RetentionInv, RetentionTypeOK, IntakesInv, IntakeInv, RowsKept
<1>1. CASE ReadWindow(e)
  <2>1. EffectiveWindow \in Windows \cup {DefaultWindow}
    BY DEF EffectiveWindow
  <2> QED
    BY <1>1, <2>1 DEF ReadWindow, tableVars, verifyVars
<1>2. CASE InsertEnvelope(e)
  BY <1>2 DEF InsertEnvelope, verifyVars
<1>3. CASE InsertAgentRun(e)
  BY <1>3 DEF InsertAgentRun, verifyVars
<1>4. CASE AbandonIntake(e)
  BY <1>4 DEF AbandonIntake, tableVars, verifyVars
<1> QED
  BY <1>1, <1>2, <1>3, <1>4 DEF Intake

LEMMA VerifyKeeps ==
  ASSUME RetentionInv, NEW v \in Verifiers, Verify(v)
  PROVE  /\ UNCHANGED <<day, policy, stored, expiresAt, agentRun, intakeVars, sweepVars>>
         /\ IntakesInv'
<1>1. UNCHANGED <<day, policy, stored, expiresAt, agentRun, intakeVars, sweepVars>>
  BY DEF Verify, ReadForVerify, WriteCount, AbandonVerify, tableVars
<1>2. \A e \in Envelopes : stored[e] = "absent" =>
        verificationCount'[e] = verificationCount[e] /\ verifications'[e] = verifications[e]
  BY DEF Verify, ReadForVerify, WriteCount, AbandonVerify, tableVars, RetentionInv, RetentionTypeOK
<1> QED
  BY <1>1, <1>2 DEF IntakesInv, IntakeInv, RetentionInv, intakeVars

LEMMA SweepKeeps ==
  ASSUME RetentionInv, RetentionTypeOK', NEW s \in Sweeps, Sweep(s)
  PROVE  /\ AnnouncedIsGone' /\ RunHasItsEnvelope' /\ SelectionInv' /\ IntakesInv'
         /\ UNCHANGED <<day, policy, expiresAt>>
<1> USE DEF RetentionInv, RetentionTypeOK, EndSweep
<1>1. UNCHANGED <<day, policy, expiresAt, verificationCount, intakeVars, verifyVars>>
  BY DEF Sweep, SelectExpired, DeleteSelected, AnnounceSelected, AbandonSweep, tableVars
<1>2. CASE SelectExpired(s)
  <2>1. UNCHANGED <<stored, agentRun, announced>>
    BY <1>2 DEF SelectExpired, tableVars
  <2>2. /\ sweeping'[s] = "delete" /\ selected'[s] \subseteq Expired
        /\ \A r \in Sweeps : r # s => sweeping'[r] = sweeping[r] /\ selected'[r] = selected[r]
    BY <1>2 DEF SelectExpired
  <2>3. SelectionInv'
    BY <1>1, <2>1, <2>2 DEF SelectionInv, SelectedInv, Expired
  <2>4. IntakesInv'
    BY <1>1, <2>1 DEF IntakesInv, IntakeInv, intakeVars, verifyVars
  <2> QED
    BY <1>1, <2>1, <2>3, <2>4 DEF AnnouncedIsGone, RunHasItsEnvelope
<1>3. CASE DeleteSelected(s)
  <2>1. /\ stored' = [e \in Envelopes |-> IF e \in selected[s] THEN "gone" ELSE stored[e]]
        /\ agentRun' = [e \in Envelopes |-> agentRun[e] /\ e \notin selected[s]]
        /\ sweeping[s] = "delete" /\ sweeping' = [sweeping EXCEPT ![s] = "announce"]
        /\ UNCHANGED <<selected, announced>>
    BY <1>3 DEF DeleteSelected
  <2>2. \A e \in selected[s] : stored[e] # "absent"
    BY DEF SelectedInv
  <2>3. SelectionInv'
    BY <1>1, <2>1 DEF SelectionInv, SelectedInv
  <2>4. IntakesInv'
    BY <1>1, <2>1, <2>2 DEF IntakesInv, IntakeInv, intakeVars, verifyVars
  <2>5. AnnouncedIsGone' /\ RunHasItsEnvelope'
    BY <2>1 DEF AnnouncedIsGone, RunHasItsEnvelope
  <2> QED
    BY <1>1, <2>3, <2>4, <2>5
<1>4. CASE AnnounceSelected(s) \/ AbandonSweep(s)
  <2>1. UNCHANGED <<stored, agentRun>> /\ announced' \in {announced, announced \cup selected[s]}
    BY <1>4 DEF AnnounceSelected, AbandonSweep, tableVars
  <2>2. /\ announced' = announced \/ sweeping[s] = "announce"
        /\ sweeping'[s] = "idle" /\ selected'[s] = {}
        /\ \A r \in Sweeps : r # s => sweeping'[r] = sweeping[r] /\ selected'[r] = selected[r]
    BY <1>4 DEF AnnounceSelected, AbandonSweep
  <2>3. SelectionInv'
    BY <1>1, <2>1, <2>2 DEF SelectionInv, SelectedInv
  <2>4. AnnouncedIsGone'
    BY <2>1, <2>2 DEF AnnouncedIsGone, SelectedInv
  <2>5. IntakesInv'
    BY <1>1, <2>1 DEF IntakesInv, IntakeInv, intakeVars, verifyVars
  <2> QED
    BY <1>1, <2>1, <2>3, <2>4, <2>5 DEF RunHasItsEnvelope
<1> QED
  BY <1>1, <1>2, <1>3, <1>4 DEF Sweep

LEMMA RetentionKept ==
  ASSUME RetentionInv, [RetentionNext]_retentionVars
  PROVE  RetentionInv'
<1>1. RetentionTypeOK /\ RetentionTypeOK'
  BY RetentionTypesKept DEF RetentionInv
<1>2. CASE DayPasses
  <2>1. day' = day + 1 /\ UNCHANGED <<policy, tableVars, intakeVars, verifyVars, sweepVars>>
    BY <1>2 DEF DayPasses
  <2>2. SelectionInv'
    <3> SUFFICES ASSUME NEW s \in Sweeps, NEW e \in selected[s]
                 PROVE  expiresAt[e] < day'
      BY <2>1 DEF SelectionInv, SelectedInv, RetentionInv, tableVars, sweepVars
    <3>1. e \in Envelopes /\ expiresAt[e] < day /\ expiresAt[e] \in Nat /\ day \in Nat
      BY <1>1 DEF RetentionInv, SelectedInv, RetentionTypeOK
    <3> QED
      BY <2>1, <3>1
  <2> QED
    BY <1>1, <2>1, <2>2, RetentionParts, RetentionPartsNext
    DEF PolicyInv, AnnouncedIsGone, RunHasItsEnvelope, IntakesInv, IntakeInv, tableVars, intakeVars,
        verifyVars, sweepVars
<1>3. CASE \E days \in Windows : SetRetentionPolicy(days)
  <2>1. policy' \in Windows /\ UNCHANGED <<day, tableVars, intakeVars, verifyVars, sweepVars>>
    BY <1>3 DEF SetRetentionPolicy
  <2> QED
    BY <1>1, <2>1, RetentionParts, RetentionPartsNext
    DEF PolicyInv, AnnouncedIsGone, RunHasItsEnvelope, SelectionInv, SelectedInv, IntakesInv,
        IntakeInv, tableVars, intakeVars, verifyVars, sweepVars
<1>4. CASE \E e \in Envelopes : Intake(e)
  <2>1. RowsKept /\ IntakesInv' /\ UNCHANGED <<day, policy, sweepVars>>
    BY <1>4, IntakeKeeps
  <2> QED
    BY <1>1, <2>1, KeptRowsSafe, RetentionParts, RetentionPartsNext DEF PolicyInv
<1>5. CASE \E v \in Verifiers : Verify(v)
  <2>1. IntakesInv' /\ UNCHANGED <<day, policy, stored, expiresAt, agentRun, sweepVars>>
    BY <1>5, VerifyKeeps
  <2>2. RowsKept
    BY <2>1 DEF RowsKept
  <2> QED
    BY <1>1, <2>1, <2>2, KeptRowsSafe, RetentionParts, RetentionPartsNext DEF PolicyInv
<1>6. CASE \E s \in Sweeps : Sweep(s)
  BY <1>1, <1>6, SweepKeeps, RetentionParts, RetentionPartsNext DEF PolicyInv
<1>7. CASE UNCHANGED retentionVars
  BY <1>1, <1>7, RetentionParts, RetentionPartsNext
  DEF PolicyInv, AnnouncedIsGone, RunHasItsEnvelope, SelectionInv, SelectedInv, IntakesInv,
      IntakeInv, retentionVars, tableVars, intakeVars, verifyVars, sweepVars
<1> QED
  BY <1>2, <1>3, <1>4, <1>5, <1>6, <1>7 DEF RetentionNext

\* What the sweep has selected had expired, what it announces is gone, and an
\* agent run never outlives its envelope.
THEOREM RetentionSafety == RetentionSpec => []RetentionInv
<1> QED
  BY RetentionStart, RetentionKept, PTL DEF RetentionSpec

-----------------------------------------------------------------------------
(* Retention: the verifications. *)

\* The counts of one envelope agree with each other.
Counted(e) ==
  /\ verificationCount[e] <= verifications[e]
  /\ verifications[e] > 0 => verificationCount[e] > 0

LEMMA VerifyCounts ==
  ASSUME RetentionTypeOK, CountsInv, NEW v \in Verifiers, Verify(v)
  PROVE  CountsInv'
<1> USE DEF RetentionTypeOK, CountsInv, VerifiedIsCounted, EndVerify
<1>1. CASE \E e \in Envelopes : ReadForVerify(v, e)
  BY <1>1, RetentionAssumption DEF ReadForVerify, tableVars
<1>2. CASE WriteCount(v)
  <2> DEFINE e == verifying[v]
  <2>1. e \in Envelopes /\ countRead[v] \in Nat /\ countRead[v] <= verifications[e]
    BY <1>2 DEF WriteCount
  <2>2. /\ verifying' = [verifying EXCEPT ![v] = Nobody]
        /\ countRead' = [countRead EXCEPT ![v] = 0]
    BY <1>2 DEF WriteCount
  <2>3. CASE stored[e] = "stored"
    <3>1. /\ verificationCount' = [verificationCount EXCEPT ![e] = countRead[v] + 1]
          /\ verifications' = [verifications EXCEPT ![e] = verifications[e] + 1]
      BY <1>2, <2>3 DEF WriteCount
    <3>2. \A f \in Envelopes : Counted(f)'
      BY <2>1, <3>1 DEF Counted
    <3>3. \A f \in Envelopes : verifications[f] \in Nat /\ verifications'[f] \in Nat
                               /\ verifications[f] <= verifications'[f]
      BY <3>1
    <3>4. \A w \in Verifiers : verifying'[w] # Nobody =>
            verifying'[w] = verifying[w] /\ countRead'[w] = countRead[w] /\ verifying[w] \in Envelopes
      BY <2>2
    <3>5. \A w \in Verifiers : verifying'[w] # Nobody => countRead'[w] <= verifications'[verifying'[w]]
      <4> SUFFICES ASSUME NEW w \in Verifiers, verifying'[w] # Nobody
                   PROVE  countRead'[w] <= verifications'[verifying'[w]]
        OBVIOUS
      <4>1. countRead[w] \in Nat /\ countRead[w] <= verifications[verifying[w]]
        BY <3>4
      <4> QED
        BY <3>3, <3>4, <4>1
    <3> QED
      BY <3>2, <3>5 DEF Counted
  <2>4. CASE stored[e] # "stored"
    BY <1>2, <2>2, <2>4 DEF WriteCount
  <2> QED
    BY <2>3, <2>4
<1>3. CASE AbandonVerify(v)
  BY <1>3 DEF AbandonVerify, tableVars
<1> QED
  BY <1>1, <1>2, <1>3 DEF Verify

LEMMA CountsKept ==
  ASSUME RetentionInv, CountsInv, [RetentionNext]_retentionVars
  PROVE  CountsInv'
<1>1. CASE \E v \in Verifiers : Verify(v)
  BY <1>1, VerifyCounts DEF RetentionInv
<1>2. CASE ~ \E v \in Verifiers : Verify(v)
  <2>1. UNCHANGED <<verificationCount, verifyVars>>
    BY <1>2
    DEF RetentionNext, DayPasses, SetRetentionPolicy, Intake, ReadWindow, InsertEnvelope, InsertAgentRun,
        AbandonIntake, Sweep, SelectExpired, DeleteSelected, AnnounceSelected, AbandonSweep,
        tableVars, retentionVars
  <2> QED
    BY <2>1 DEF CountsInv, VerifiedIsCounted, verifyVars
<1> QED
  BY <1>1, <1>2

\* Concurrent verifications of an envelope may overwrite each other's count,
\* but what has been verified never counts as never verified, and no count
\* exceeds the verifications there were.
THEOREM CountsAgree == RetentionSpec => []VerifiedIsCounted
<1>1. RetentionInit => CountsInv
  BY DEF RetentionInit, CountsInv, VerifiedIsCounted
<1>2. RetentionInv /\ CountsInv /\ [RetentionNext]_retentionVars => CountsInv'
  BY CountsKept
<1>3. CountsInv => VerifiedIsCounted
  BY DEF CountsInv
<1> QED
  BY <1>1, <1>2, <1>3, RetentionSafety, PTL DEF RetentionSpec

-----------------------------------------------------------------------------
(* Retention: the refinement. *)

LEMMA StoreInit ==
  ASSUME RetentionInit
  PROVE  Store!Init
BY DEF RetentionInit, Store!Init

\* Steps that leave the days and the rows alone stutter; the others are steps
\* of the store.
LEMMA StoreStep ==
  ASSUME RetentionInv, [RetentionNext]_retentionVars
  PROVE  [Store!Next]_<<day, stored, expiresAt>>
<1> USE DEF RetentionInv, RetentionTypeOK
<1>1. CASE DayPasses
  BY <1>1 DEF DayPasses, tableVars, Store!Next, Store!Pass
<1>2. CASE \E days \in Windows : SetRetentionPolicy(days)
  BY <1>2 DEF SetRetentionPolicy, tableVars
<1>3. ASSUME NEW e \in Envelopes, Intake(e)
      PROVE  [Store!Next]_<<day, stored, expiresAt>>
  <2>1. CASE InsertEnvelope(e)
    <3>1. stored[e] = "absent" /\ window[e] \in Windows \cup {DefaultWindow}
      BY <2>1 DEF InsertEnvelope, IntakeInv
    <3>2. Store!Store(e)
      BY <2>1, <3>1 DEF InsertEnvelope, Store!Store
    <3> QED
      BY <3>2 DEF Store!Next
  <2>2. CASE ReadWindow(e) \/ InsertAgentRun(e) \/ AbandonIntake(e)
    BY <2>2 DEF ReadWindow, InsertAgentRun, AbandonIntake, tableVars
  <2> QED
    BY <1>3, <2>1, <2>2 DEF Intake
<1>4. CASE \E v \in Verifiers : Verify(v)
  BY <1>4, VerifyKeeps
<1>5. ASSUME NEW s \in Sweeps, Sweep(s)
      PROVE  [Store!Next]_<<day, stored, expiresAt>>
  <2>1. CASE DeleteSelected(s)
    <3> DEFINE gone == {e \in selected[s] : stored[e] = "stored"}
    <3>1. /\ stored' = [e \in Envelopes |-> IF e \in selected[s] THEN "gone" ELSE stored[e]]
          /\ UNCHANGED <<day, expiresAt>>
      BY <2>1 DEF DeleteSelected
    <3>2. \A e \in selected[s] : e \in Envelopes /\ expiresAt[e] < day /\ stored[e] # "absent"
      BY DEF SelectedInv
    <3>3. gone \in SUBSET {e \in Envelopes : stored[e] = "stored" /\ expiresAt[e] < day}
      BY <3>2
    <3>4. stored' = [e \in Envelopes |-> IF e \in gone THEN "gone" ELSE stored[e]]
      BY <3>1, <3>2
    <3>5. Store!Remove
      BY <3>1, <3>3, <3>4 DEF Store!Remove
    <3> QED
      BY <3>5 DEF Store!Next
  <2>2. CASE SelectExpired(s) \/ AnnounceSelected(s) \/ AbandonSweep(s)
    BY <2>2 DEF SelectExpired, AnnounceSelected, AbandonSweep, tableVars
  <2> QED
    BY <1>5, <2>1, <2>2 DEF Sweep
<1>6. CASE UNCHANGED retentionVars
  BY <1>6 DEF retentionVars, tableVars
<1> QED
  BY <1>1, <1>2, <1>3, <1>4, <1>5, <1>6 DEF RetentionNext

\* No change of policy, overlap of sweeps or crash makes an envelope expire at
\* another day than was fixed when it was stored, or go before that day.
THEOREM StoreRefinement == RetentionSpec => ImplementsRetainedStore
<1> QED
  BY StoreInit, StoreStep, RetentionSafety, PTL
  DEF RetentionSpec, ImplementsRetainedStore, Store!Spec

\* An agent run always has its envelope.
THEOREM RunsAreWhole == RetentionSpec => []RunHasItsEnvelope
<1>1. RetentionInv => RunHasItsEnvelope
  BY DEF RetentionInv
<1> QED
  BY <1>1, RetentionSafety, PTL

-----------------------------------------------------------------------------
(* Sealing: types. *)

LEMMA SignerTypes ==
  ASSUME SealingTypeOK, NEW k \in SignerKeys, Rotate(k)
  PROVE  SealingTypeOK'
<1> USE DEF SealingTypeOK, quotaVars, sealVars
<1>1. CASE StartRotation(k)
  <2>1. Active(ScopeOf[k]) \in SUBSET SignerKeys
    BY DEF Active
  <2> QED
    BY <1>1, <2>1 DEF StartRotation
<1>2. CASE CommitRotation(k)
  <2>1. signer' \in [SignerKeys -> {"new", "rotating", "active", "revoked", "failed"}]
    BY <1>2 DEF CommitRotation
  <2> QED
    BY <1>2, <2>1 DEF CommitRotation
<1>3. CASE AbandonRotation(k)
  BY <1>3 DEF AbandonRotation
<1> QED
  BY <1>1, <1>2, <1>3 DEF Rotate

LEMMA SealTypes ==
  ASSUME SealingTypeOK, NEW i \in Seals, SealOne(i)
  PROVE  SealingTypeOK'
<1> USE DEF SealingTypeOK, quotaVars, signerVars, Refuse
<1>1. CASE \E p \in KeyScopes[i] : BeginSeal(i, p)
  <2>1. PICK p \in Scopes : BeginSeal(i, p)
    BY <1>1, SealingAssumption
  <2>2. PICK scope \in SignScopes(p) :
          /\ signScope' = [signScope EXCEPT ![i] = scope]
          /\ deadAtStart' = [deadAtStart EXCEPT ![i] = IF scope = NoKey THEN {} ELSE Revoked]
          /\ seal' = [seal EXCEPT ![i] = IF scope = NoKey THEN "insert" ELSE "sign"]
    BY <2>1 DEF BeginSeal
  <2>3. scope \in Scopes \cup {NoKey} /\ Revoked \in SUBSET SignerKeys
    BY DEF SignScopes, Scopes, Revoked
  <2> QED
    BY <2>1, <2>2, <2>3 DEF BeginSeal
<1>2. CASE Sign(i)
  <2>1. CASE Active(signScope[i]) = {}
    BY <1>2, <2>1 DEF Sign, Scopes
  <2>2. CASE Active(signScope[i]) # {}
    <3>1. PICK k \in Active(signScope[i]) : signedBy' = [signedBy EXCEPT ![i] = k]
      BY <1>2, <2>2 DEF Sign
    <3>2. k \in SignerKeys
      BY <3>1 DEF Active
    <3> QED
      BY <1>2, <2>2, <3>1, <3>2 DEF Sign
  <2> QED
    BY <2>1, <2>2
<1>3. CASE InsertSealed(i)
  BY <1>3 DEF InsertSealed
<1>4. CASE AbandonSeal(i)
  BY <1>4 DEF AbandonSeal, Scopes
<1> QED
  BY <1>1, <1>2, <1>3, <1>4 DEF SealOne

\* What the month has of a project is a number, as what a cap admits is.
LEMMA HeldIsNat ==
  ASSUME SealingTypeOK, NEW p \in Projects
  PROVE  Held(p) \in Nat
<1>1. SealedThisMonth(p) \in SUBSET Seals /\ InFlightOf(p) \in SUBSET Seals
  BY DEF SealedThisMonth, InFlightOf, InFlight
<1>2. IsFiniteSet(SealedThisMonth(p)) /\ IsFiniteSet(InFlightOf(p))
  BY <1>1, SealingAssumption, FS_Subset
<1> QED
  BY <1>2, FS_CardinalityType DEF Held

LEMMA QuotaTypes ==
  ASSUME SealingTypeOK, NEW p \in Projects, NEW n \in Caps, UpdateProjectQuotas(p, n)
  PROVE  SealingTypeOK'
<1>1. n \in (Nat \ {0}) \cup {Unlimited}
  BY SealingAssumption
<1>2. envelopesPerMonth' \in [Projects -> (Nat \ {0}) \cup {Unlimited}]
  BY <1>1 DEF UpdateProjectQuotas, SealingTypeOK
<1>3. overCap' \in [Projects -> Nat]
  BY HeldIsNat DEF UpdateProjectQuotas, SealingTypeOK
<1> QED
  BY <1>2, <1>3 DEF UpdateProjectQuotas, SealingTypeOK, signerVars, sealVars

LEMMA SealingTypesKept ==
  ASSUME SealingTypeOK, [SealingNext]_sealingVars
  PROVE  SealingTypeOK'
<1>1. CASE MonthPasses
  BY <1>1 DEF MonthPasses, SealingTypeOK, signerVars, sealVars
<1>2. CASE \E scope \in Scopes : RevokeSigner(scope)
  <2>1. PICK scope \in Scopes : RevokeSigner(scope)
    BY <1>2
  <2> USE DEF quotaVars
  <2>2. signer' \in [SignerKeys -> {"new", "rotating", "active", "revoked", "failed"}]
    BY <2>1 DEF RevokeSigner, SealingTypeOK
  <2> QED
    BY <2>1, <2>2 DEF RevokeSigner, SealingTypeOK, sealVars
<1>3. CASE UNCHANGED sealingVars
  BY <1>3 DEF sealingVars, SealingTypeOK, quotaVars, signerVars, sealVars
<1> QED
  BY <1>1, <1>2, <1>3, SignerTypes, SealTypes, QuotaTypes DEF SealingNext

-----------------------------------------------------------------------------
(* Sealing: the signers. *)

\* What the steps of the signers leave alone.
RevokedStay == \A k \in SignerKeys : signer[k] = "revoked" => signer'[k] = "revoked"

LEMMA RotationKeeps ==
  ASSUME SealingTypeOK, OneActivePerScope, NEW k \in SignerKeys, Rotate(k)
  PROVE  OneActivePerScope' /\ RevokedStay /\ UNCHANGED <<month, quotaVars, sealVars>>
<1> USE DEF SealingTypeOK, OneActivePerScope, Active, RevokedStay
<1>1. CASE StartRotation(k)
  BY <1>1 DEF StartRotation
<1>2. CASE CommitRotation(k)
  <2>1. signer[k] = "rotating" /\ UNCHANGED <<month, quotaVars, sealVars>>
    BY <1>2 DEF CommitRotation
  <2>2. CASE Active(ScopeOf[k]) \subseteq candidates[k]
    <3>1. signer' = [j \in SignerKeys |->
            IF j = k THEN "active"
            ELSE IF j \in Active(ScopeOf[k]) THEN "revoked" ELSE signer[j]]
      BY <1>2, <2>2 DEF CommitRotation
    <3>2. RevokedStay
      BY <2>1, <3>1
    <3>3. \A j \in SignerKeys : signer'[j] = "active" =>
            j = k \/ (signer[j] = "active" /\ ScopeOf[j] # ScopeOf[k])
      BY <3>1
    <3>4. OneActivePerScope'
      BY <3>3
    <3> QED
      BY <2>1, <3>2, <3>4
  <2>3. CASE ~(Active(ScopeOf[k]) \subseteq candidates[k])
    <3>1. signer' = [signer EXCEPT ![k] = "failed"]
      BY <1>2, <2>3 DEF CommitRotation
    <3> QED
      BY <2>1, <3>1
  <2> QED
    BY <2>2, <2>3
<1>3. CASE AbandonRotation(k)
  BY <1>3 DEF AbandonRotation
<1> QED
  BY <1>1, <1>2, <1>3 DEF Rotate

LEMMA RevocationKeeps ==
  ASSUME SealingTypeOK, OneActivePerScope, NEW scope \in Scopes, RevokeSigner(scope)
  PROVE  OneActivePerScope' /\ RevokedStay /\ UNCHANGED <<month, quotaVars, sealVars>>
<1>1. signer' = [k \in SignerKeys |-> IF k \in Active(scope) THEN "revoked" ELSE signer[k]]
  BY DEF RevokeSigner
<1>2. \A k \in SignerKeys : signer'[k] = "active" => signer[k] = "active"
  BY <1>1
<1>3. OneActivePerScope'
  BY <1>2 DEF OneActivePerScope, Active
<1>4. RevokedStay
  BY <1>1 DEF RevokedStay
<1> QED
  BY <1>3, <1>4 DEF RevokeSigner

-----------------------------------------------------------------------------
(* Sealing: what an intake has signed with. *)

LEMMA SignersKeepSigned ==
  ASSUME SealingTypeOK, RevokedStay, UNCHANGED sealVars, NEW i \in Seals, SignInv(i)
  PROVE  SignInv(i)'
BY DEF SealingTypeOK, RevokedStay, sealVars, SignInv

LEMMA SealKeepsSigned ==
  ASSUME SealingTypeOK, NEW i \in Seals, SealOne(i), \A n \in Seals : SignInv(n)
  PROVE  \A n \in Seals : SignInv(n)'
<1> USE DEF SealingTypeOK, SignInv, Refuse
<1> SUFFICES ASSUME NEW n \in Seals PROVE SignInv(n)'
  OBVIOUS
<1>1. CASE \E p \in KeyScopes[i] : BeginSeal(i, p)
  <2>0. PICK p \in Scopes : BeginSeal(i, p)
    BY <1>1, SealingAssumption
  <2>1. PICK scope \in SignScopes(p) :
          /\ signScope' = [signScope EXCEPT ![i] = scope]
          /\ deadAtStart' = [deadAtStart EXCEPT ![i] = IF scope = NoKey THEN {} ELSE Revoked]
          /\ seal' = [seal EXCEPT ![i] = IF scope = NoKey THEN "insert" ELSE "sign"]
          /\ UNCHANGED <<signerVars, signedBy>>
    BY <2>0 DEF BeginSeal
  <2> QED
    BY <2>1 DEF Revoked, signerVars
<1>2. CASE Sign(i)
  <2>1. CASE Active(signScope[i]) = {}
    BY <1>2, <2>1 DEF Sign, signerVars
  <2>2. CASE Active(signScope[i]) # {}
    <3>1. PICK k \in Active(signScope[i]) : signedBy' = [signedBy EXCEPT ![i] = k]
      BY <1>2, <2>2 DEF Sign
    <3>2. k \in SignerKeys /\ ScopeOf[k] = signScope[i] /\ signer[k] = "active"
      BY <3>1 DEF Active
    <3>3. k \notin deadAtStart[i]
      BY <3>2
    <3>4. UNCHANGED <<signer, signScope, deadAtStart>> /\ seal' = [seal EXCEPT ![i] = "insert"]
      BY <1>2, <2>2 DEF Sign, signerVars
    <3> QED
      BY <3>1, <3>2, <3>3, <3>4
  <2> QED
    BY <2>1, <2>2
<1>3. CASE InsertSealed(i)
  BY <1>3 DEF InsertSealed, signerVars
<1>4. CASE AbandonSeal(i)
  BY <1>4 DEF AbandonSeal, signerVars
<1> QED
  BY <1>1, <1>2, <1>3, <1>4 DEF SealOne

-----------------------------------------------------------------------------
(* Sealing: the quota. *)

LEMMA SealSets ==
  ASSUME NEW S \in SUBSET Seals
  PROVE  /\ IsFiniteSet(S) /\ Cardinality(S) \in Nat
         /\ \A T \in SUBSET S : Cardinality(T) \in Nat /\ Cardinality(T) <= Cardinality(S)
         /\ \A i \in Seals \ S : Cardinality(S \cup {i}) = Cardinality(S) + 1
         /\ \A i \in S : Cardinality(S \ {i}) = Cardinality(S) - 1
<1>1. IsFiniteSet(S)
  BY SealingAssumption, FS_Subset
<1>2. \A T \in SUBSET S : IsFiniteSet(T) /\ Cardinality(T) <= Cardinality(S)
  BY <1>1, FS_Subset
<1> QED
  BY <1>1, <1>2, FS_CardinalityType, FS_AddElement, FS_RemoveElement

\* What QuotaOvershoot says of one project.
Within(p) == Held(p) <= Admits(envelopesPerMonth[p]) \/ Held(p) <= overCap[p]

LEMMA SealKeepsQuota ==
  ASSUME SealingTypeOK, FlightInv, QuotaOvershoot, NEW i \in Seals, SealOne(i)
  PROVE  FlightInv' /\ QuotaOvershoot'
<1> USE DEF SealingTypeOK, InFlight, Refuse
<1>1. MaxInFlight \in Nat /\ UNCHANGED <<month, envelopesPerMonth, overCap>>
  BY SealingAssumption DEF SealOne, BeginSeal, Sign, InsertSealed, AbandonSeal, quotaVars
<1>2. CASE \E p \in KeyScopes[i] : BeginSeal(i, p)
  <2>1. PICK p \in Scopes : BeginSeal(i, p)
    BY <1>2, SealingAssumption
  <2>2. /\ i \notin InFlight /\ seal[i] = "new" /\ seal'[i] \in {"sign", "insert"}
        /\ \A n \in Seals : n # i => seal'[n] = seal[n]
        /\ project' = [project EXCEPT ![i] = p] /\ sealedIn' = sealedIn
    BY <2>1 DEF BeginSeal
  <2>3. InFlight' = InFlight \cup {i} /\ InFlight \in SUBSET Seals
    BY <2>2
  <2>4. Cardinality(InFlight) < MaxInFlight /\ UnderQuota(p)
    BY <2>1 DEF BeginSeal
  <2>5. Cardinality(InFlight') = Cardinality(InFlight) + 1 /\ Cardinality(InFlight) \in Nat
    BY <2>2, <2>3, SealSets
  <2>6. FlightInv'
    BY <1>1, <2>2, <2>4, <2>5 DEF FlightInv
  <2>7. ASSUME NEW q \in Projects, envelopesPerMonth'[q] # Unlimited
        PROVE  Within(q)'
    <3>1. SealedThisMonth(q)' = SealedThisMonth(q)
      BY <1>1, <2>2 DEF SealedThisMonth
    <3>2. envelopesPerMonth[q] \in Nat /\ envelopesPerMonth[q] # Unlimited
      BY <1>1, <2>7, SealingAssumption
    <3>3. CASE q = p
      <4>1. Cardinality(SealedThisMonth(q)) < envelopesPerMonth[q]
        BY <2>4, <3>2, <3>3, SealingAssumption DEF UnderQuota
      <4>2. InFlightOf(q)' \in SUBSET InFlight' /\ InFlight' \in SUBSET Seals
        BY DEF InFlightOf
      <4>3. Cardinality(InFlightOf(q)') \in Nat /\ Cardinality(InFlightOf(q)') <= Cardinality(InFlight')
        BY <4>2, SealSets
      <4>4. Cardinality(SealedThisMonth(q)) \in Nat
        BY SealSets DEF SealedThisMonth
      <4> HIDE DEF InFlight
      <4> QED
        BY <1>1, <2>4, <2>5, <3>1, <3>2, <4>1, <4>3, <4>4 DEF Within, Held, Admits
    <3>4. CASE q # p
      <4>1. InFlightOf(q)' = InFlightOf(q)
        BY <2>2, <2>3, <3>4 DEF InFlightOf
      <4> QED
        BY <1>1, <3>1, <3>2, <4>1 DEF Within, Held, Admits, QuotaOvershoot
    <3> QED
      BY <3>3, <3>4
  <2> QED
    BY <2>6, <2>7 DEF QuotaOvershoot, Within
<1>3. CASE InsertSealed(i)
  <2>1. /\ seal[i] = "insert" /\ seal' = [seal EXCEPT ![i] = "stored"]
        /\ sealedIn' = [sealedIn EXCEPT ![i] = month] /\ project' = project
    BY <1>3 DEF InsertSealed
  <2>2. InFlight' = InFlight \ {i} /\ i \in InFlight /\ InFlight \in SUBSET Seals
    BY <2>1
  <2>3. Cardinality(InFlight') = Cardinality(InFlight) - 1 /\ Cardinality(InFlight) \in Nat
    BY <2>2, SealSets
  <2>4. FlightInv'
    BY <1>1, <2>1, <2>3 DEF FlightInv
  <2>5. ASSUME NEW q \in Projects, envelopesPerMonth'[q] # Unlimited
        PROVE  Within(q)'
    <3>1. Within(q)
      BY <1>1, <2>5 DEF QuotaOvershoot, Within
    <3>2. CASE q = project[i]
      <4>1. SealedThisMonth(q)' = SealedThisMonth(q) \cup {i} /\ i \notin SealedThisMonth(q)
        BY <1>1, <2>1, <3>2 DEF SealedThisMonth
      <4>2. InFlightOf(q)' = InFlightOf(q) \ {i} /\ i \in InFlightOf(q)
        BY <2>1, <2>2, <3>2 DEF InFlightOf
      <4>3. SealedThisMonth(q) \in SUBSET Seals /\ InFlightOf(q) \in SUBSET Seals
        BY DEF SealedThisMonth, InFlightOf
      <4>4. /\ Cardinality(SealedThisMonth(q)') = Cardinality(SealedThisMonth(q)) + 1
            /\ Cardinality(InFlightOf(q)') = Cardinality(InFlightOf(q)) - 1
            /\ Cardinality(SealedThisMonth(q)) \in Nat /\ Cardinality(InFlightOf(q)) \in Nat
        BY <4>1, <4>2, <4>3, SealSets
      <4> QED
        BY <1>1, <3>1, <4>4 DEF Within, Held, Admits
    <3>3. CASE q # project[i]
      <4>1. SealedThisMonth(q)' = SealedThisMonth(q) /\ InFlightOf(q)' = InFlightOf(q)
        BY <1>1, <2>1, <3>3 DEF SealedThisMonth, InFlightOf
      <4> QED
        BY <1>1, <3>1, <4>1 DEF Within, Held, Admits
    <3> QED
      BY <3>2, <3>3
  <2> QED
    BY <2>4, <2>5 DEF QuotaOvershoot, Within
<1>4. CASE Sign(i) \/ AbandonSeal(i)
  <2>1. /\ seal[i] \in {"sign", "insert"} /\ seal'[i] \in {"new", "insert"}
        /\ \A n \in Seals : n # i => seal'[n] = seal[n] /\ project'[n] = project[n]
        /\ seal'[i] # "new" => project'[i] = project[i]
        /\ sealedIn' = sealedIn
    BY <1>4 DEF Sign, AbandonSeal
  <2>2. InFlight' \in SUBSET InFlight /\ InFlight \in SUBSET Seals
    BY <2>1
  <2>3. /\ Cardinality(InFlight') <= Cardinality(InFlight)
        /\ Cardinality(InFlight) \in Nat /\ Cardinality(InFlight') \in Nat
    BY <2>2, SealSets
  <2>4. FlightInv'
    BY <1>1, <2>1, <2>3 DEF FlightInv
  <2>5. ASSUME NEW q \in Projects, envelopesPerMonth'[q] # Unlimited
        PROVE  Within(q)'
    <3>1. Within(q)
      BY <1>1, <2>5 DEF QuotaOvershoot, Within
    <3>2. SealedThisMonth(q)' = SealedThisMonth(q)
      BY <1>1, <2>1 DEF SealedThisMonth
    <3>3. InFlightOf(q)' \in SUBSET InFlightOf(q) /\ InFlightOf(q) \in SUBSET Seals
      BY <2>1 DEF InFlightOf
    <3>4. /\ Cardinality(InFlightOf(q)') <= Cardinality(InFlightOf(q))
          /\ Cardinality(InFlightOf(q)) \in Nat /\ Cardinality(InFlightOf(q)') \in Nat
      BY <3>3, SealSets
    <3>5. /\ Cardinality(SealedThisMonth(q)) \in Nat /\ envelopesPerMonth[q] \in Nat
          /\ overCap[q] \in Nat
      BY <1>1, <2>5, SealSets, SealingAssumption DEF SealedThisMonth
    <3> QED
      BY <1>1, <3>1, <3>2, <3>4, <3>5 DEF Within, Held, Admits
  <2> QED
    BY <2>4, <2>5 DEF QuotaOvershoot, Within
<1> QED
  BY <1>2, <1>3, <1>4 DEF SealOne

\* A new month has no rows yet.
LEMMA MonthKeepsQuota ==
  ASSUME SealingTypeOK, FlightInv, MonthPasses
  PROVE  FlightInv' /\ QuotaOvershoot'
<1>1. month' = month + 1 /\ UNCHANGED <<seal, project, sealedIn>> /\ month \in Nat
  BY DEF MonthPasses, sealVars, SealingTypeOK
<1>2. \A i \in Seals : sealedIn[i] \in Nat /\ sealedIn[i] <= month
  BY DEF SealingTypeOK, FlightInv
<1>3. FlightInv'
  BY <1>1, <1>2 DEF FlightInv, InFlight
<1>4. ASSUME NEW p \in Projects, envelopesPerMonth'[p] # Unlimited
      PROVE  Within(p)'
  <2>1. SealedThisMonth(p)' = {}
    BY <1>1, <1>2 DEF SealedThisMonth
  <2>2. InFlightOf(p)' \in SUBSET InFlight' /\ InFlight' \in SUBSET Seals
    BY DEF InFlightOf, InFlight
  <2>3. /\ Cardinality(InFlightOf(p)') <= Cardinality(InFlight')
        /\ Cardinality(InFlightOf(p)') \in Nat /\ Cardinality(InFlight') \in Nat
    BY <2>2, SealSets
  <2>4. envelopesPerMonth'[p] \in Nat \ {0} /\ MaxInFlight \in Nat
    BY <1>4, SealingAssumption DEF MonthPasses, SealingTypeOK
  <2>5. Cardinality(InFlight') <= MaxInFlight
    BY <1>3 DEF FlightInv
  <2>6. Cardinality(SealedThisMonth(p)') = 0
    BY <2>1, FS_EmptySet
  <2> QED
    BY <2>3, <2>4, <2>5, <2>6 DEF Within, Held, Admits
<1> QED
  BY <1>3, <1>4 DEF QuotaOvershoot, Within

LEMMA SignersKeepQuota ==
  ASSUME FlightInv, QuotaOvershoot, UNCHANGED <<month, quotaVars, sealVars>>
  PROVE  FlightInv' /\ QuotaOvershoot'
BY DEF FlightInv, QuotaOvershoot, quotaVars, sealVars, InFlight, InFlightOf, SealedThisMonth,
       Held, Admits

\* A cap set below what the month has is remembered with it.
LEMMA CapKeepsQuota ==
  ASSUME SealingTypeOK, FlightInv, QuotaOvershoot,
         NEW p \in Projects, NEW n \in Caps, UpdateProjectQuotas(p, n)
  PROVE  FlightInv' /\ QuotaOvershoot'
<1>1. UNCHANGED <<month, sealVars>>
  BY DEF UpdateProjectQuotas
<1>2. FlightInv'
  BY <1>1 DEF FlightInv, sealVars, InFlight
<1>3. \A q \in Projects : Held(q)' = Held(q)
  BY <1>1 DEF Held, SealedThisMonth, InFlightOf, InFlight, sealVars
<1>4. ASSUME NEW q \in Projects, envelopesPerMonth'[q] # Unlimited
      PROVE  Within(q)'
  <2>1. CASE q = p
    <3>1. envelopesPerMonth'[p] = n /\ n # Unlimited /\ n \in Nat /\ MaxInFlight \in Nat
      BY <1>4, <2>1, SealingAssumption DEF UpdateProjectQuotas, SealingTypeOK
    <3>2. overCap'[p] = IF Held(p) > Admits(n) THEN Held(p) ELSE 0
      BY <3>1 DEF UpdateProjectQuotas, SealingTypeOK
    <3>3. Held(p) \in Nat /\ Admits(n) \in Int
      BY <3>1, HeldIsNat DEF Admits
    <3>4. Admits(n)' = Admits(n)
      BY DEF Admits
    <3> QED
      BY <1>3, <2>1, <3>1, <3>2, <3>3, <3>4 DEF Within, Admits
  <2>2. CASE q # p
    <3>1. envelopesPerMonth'[q] = envelopesPerMonth[q] /\ overCap'[q] = overCap[q]
      BY <2>2 DEF UpdateProjectQuotas, SealingTypeOK
    <3> QED
      BY <1>3, <1>4, <3>1 DEF Within, Admits, QuotaOvershoot
  <2> QED
    BY <2>1, <2>2
<1> QED
  BY <1>2, <1>4 DEF QuotaOvershoot, Within

-----------------------------------------------------------------------------
(* Sealing: the invariant. *)

LEMMA SealingStart ==
  ASSUME SealingInit
  PROVE  SealingInv /\ QuotaOvershoot
<1>1. SealingTypeOK
  BY DEF SealingInit, SealingTypeOK, Scopes
<1>2. OneActivePerScope /\ \A i \in Seals : SignInv(i)
  BY DEF SealingInit, OneActivePerScope, Active, SignInv
<1>3. InFlight = {} /\ Cardinality({}) = 0
  BY FS_EmptySet DEF SealingInit, InFlight
<1>4. FlightInv
  BY <1>3, SealingAssumption DEF SealingInit, FlightInv
<1>5. QuotaOvershoot
  <2> SUFFICES ASSUME NEW p \in Projects, envelopesPerMonth[p] # Unlimited PROVE Within(p)
    BY DEF QuotaOvershoot, Within
  <2>1. SealedThisMonth(p) = {} /\ InFlightOf(p) = {}
    BY <1>3 DEF SealingInit, SealedThisMonth, InFlightOf
  <2> QED
    BY <1>3, <2>1, SealingAssumption DEF SealingInit, Within, Held, Admits
<1> QED
  BY <1>1, <1>2, <1>4, <1>5 DEF SealingInv

LEMMA SealingKept ==
  ASSUME SealingInv, QuotaOvershoot, [SealingNext]_sealingVars
  PROVE  SealingInv' /\ QuotaOvershoot'
<1>1. SealingTypeOK /\ SealingTypeOK' /\ OneActivePerScope /\ FlightInv
      /\ \A i \in Seals : SignInv(i)
  BY SealingTypesKept DEF SealingInv
<1>2. CASE \/ \E k \in SignerKeys : Rotate(k)
           \/ \E scope \in Scopes : RevokeSigner(scope)
  <2>1. OneActivePerScope' /\ RevokedStay /\ UNCHANGED <<month, quotaVars, sealVars>>
    BY <1>1, <1>2, RotationKeeps, RevocationKeeps
  <2>2. \A i \in Seals : SignInv(i)'
    BY <1>1, <2>1, SignersKeepSigned
  <2> QED
    BY <1>1, <2>1, <2>2, SignersKeepQuota DEF SealingInv
<1>3. CASE \E i \in Seals : SealOne(i)
  <2>1. PICK i \in Seals : SealOne(i)
    BY <1>3
  <2>2. UNCHANGED signer
    BY <2>1 DEF SealOne, BeginSeal, Sign, InsertSealed, AbandonSeal, signerVars
  <2>3. OneActivePerScope'
    BY <1>1, <2>2 DEF OneActivePerScope, Active
  <2> QED
    BY <1>1, <2>1, <2>3, SealKeepsSigned, SealKeepsQuota DEF SealingInv
<1>4. CASE MonthPasses
  <2>1. OneActivePerScope' /\ \A i \in Seals : SignInv(i)'
    BY <1>1, <1>4 DEF MonthPasses, signerVars, sealVars, OneActivePerScope, Active, SignInv
  <2> QED
    BY <1>1, <1>4, <2>1, MonthKeepsQuota DEF SealingInv
<1>5. CASE \E p \in Projects, n \in Caps : UpdateProjectQuotas(p, n)
  <2>1. UNCHANGED <<month, signerVars, sealVars>>
    BY <1>5 DEF UpdateProjectQuotas
  <2>2. OneActivePerScope' /\ \A i \in Seals : SignInv(i)'
    BY <1>1, <2>1 DEF signerVars, sealVars, OneActivePerScope, Active, SignInv
  <2> QED
    BY <1>1, <1>5, <2>2, CapKeepsQuota DEF SealingInv
<1>6. CASE UNCHANGED sealingVars
  <2>1. UNCHANGED <<month, quotaVars, signerVars, sealVars>>
    BY <1>6 DEF sealingVars
  <2>2. OneActivePerScope' /\ \A i \in Seals : SignInv(i)'
    BY <1>1, <2>1 DEF signerVars, sealVars, OneActivePerScope, Active, SignInv
  <2> QED
    BY <1>1, <2>1, <2>2, SignersKeepQuota DEF SealingInv
<1> QED
  BY <1>2, <1>3, <1>4, <1>5, <1>6 DEF SealingNext

\* At most one active signer per scope through any rotations and revocations,
\* and the facts about the requests in flight that the others rest on.
THEOREM SealingSafety == SealingSpec => []SealingInv
<1> QED
  BY SealingStart, SealingKept, PTL DEF SealingSpec

\* Requests in flight pass a monthly cap together by less than their number.
THEOREM QuotaBound == SealingSpec => []QuotaOvershoot
<1> QED
  BY SealingStart, SealingKept, PTL DEF SealingSpec

\* What asked for a signature is stored with one of its scope, by a signer that
\* was in force when the request began or later.
THEOREM SignedAsAsked == SealingSpec => []SealedAsAsked
<1>1. SealingInv => SealedAsAsked
  BY DEF SealingInv, SignInv, SealedAsAsked
<1> QED
  BY <1>1, SealingSafety, PTL

-----------------------------------------------------------------------------
(* Membership: the requests in flight. *)

\* What a request of each kind carries.
LEMMA PendingShapes ==
  ASSUME NEW q \in Pending
  PROVE  /\ q.op = "addMember" => q.on \in Users /\ q.role \in OrgRoles \ {"owner"}
         /\ q.op = "readTarget" => q.by \in Users /\ q.on \in Users /\ q.role \in OrgRoles
         /\ q.op = "removeMember" => q.on \in Users
         /\ q.op = "createTeam" => q.by \in Users /\ q.team \in Teams
         /\ q.op \in {"readOrgMember", "addTeamMember"} =>
              q.on \in Users /\ q.team \in Teams /\ q.role \in TeamRoles
         /\ q.op = "removeTeamMember" => q.on \in Users /\ q.team \in Teams
         /\ q.op = "deleteTeam" => q.team \in Teams
         /\ q.op \in {"readTeamMember", "createKey"} => q.by \in Users /\ q.team \in Teams
BY DEF Pending, Idle

LEMMA PendingMoves ==
  ASSUME NEW q \in Pending
  PROVE  /\ q.op = "readOrgMember" =>
              LET n == [q EXCEPT !.op = "addTeamMember"] IN
              n \in Pending /\ n.op = "addTeamMember" /\ n.team = q.team
         /\ q.op = "readTeamMember" =>
              LET n == [q EXCEPT !.op = "createKey"] IN
              n \in Pending /\ n.op = "createKey" /\ n.team = q.team
BY DEF Pending, Idle

\* A step that permits the request its next write, or lets it make its second
\* check.
Moves(r, next) ==
  /\ next \in Pending /\ request' = [request EXCEPT ![r] = next] /\ UNCHANGED rowVars
  /\ org # "absent"
  /\ next.op = "removeMember" => orgRole[next.on] # "owner"

\* A step that ends the request.
Ends(r) == request' = [request EXCEPT ![r] = Idle]

LEMMA Existence ==
  ASSUME MembershipInv
  PROVE  /\ \A u \in Users : orgRole[u] # "none" => org = "live"
         /\ \A p \in Teams, u \in Users : teamRole[p][u] # "none" => org = "live" /\ team[p] = "live"
         /\ \A r \in MemberRequests : request[r] # Idle => org # "absent"
BY DEF MembershipInv, OwnerStays, NoOrphanRows, RemovalInv, NoRoles

LEMMA OrgMoves ==
  ASSUME MembershipInv, NEW r \in MemberRequests, NEW u \in Users,
         \/ StartDeleteOrganization(r, u)
         \/ \E target \in Users, role \in OrgRoles \ {"owner"} : StartAddMember(r, u, target, role)
         \/ \E target \in Users : StartRemoveMember(r, u, target)
  PROVE  \E next \in Pending : Moves(r, next)
<1>1. orgRole[u] \in OrgRoles
  BY DEF StartDeleteOrganization, StartAddMember, StartRemoveMember, OrgRoles, MembershipInv,
         MembershipTypeOK
<1>2. org = "live"
  BY <1>1, Existence DEF OrgRoles
<1>3. CASE StartDeleteOrganization(r, u)
  <2> DEFINE next == [op |-> "deleteOrg"]
  <2>1. next \in Pending /\ next.op = "deleteOrg"
    BY DEF Pending
  <2> QED
    BY <1>2, <1>3, <2>1 DEF StartDeleteOrganization, Permitted, Moves
<1>4. ASSUME NEW target \in Users, NEW role \in OrgRoles \ {"owner"},
             StartAddMember(r, u, target, role)
      PROVE  \E next \in Pending : Moves(r, next)
  <2> DEFINE next == [op |-> "addMember", on |-> target, role |-> role]
  <2>1. next \in Pending /\ next.op = "addMember"
    BY DEF Pending
  <2> QED
    BY <1>2, <1>4, <2>1 DEF StartAddMember, Permitted, Moves
<1>5. ASSUME NEW target \in Users, StartRemoveMember(r, u, target)
      PROVE  \E next \in Pending : Moves(r, next)
  <2> DEFINE next == [op |-> "readTarget", by |-> u, on |-> target, role |-> orgRole[u]]
  <2>1. next \in Pending /\ next.op = "readTarget"
    BY <1>1 DEF Pending
  <2> QED
    BY <1>2, <1>5, <2>1 DEF StartRemoveMember, Permitted, Moves
<1> QED
  BY <1>3, <1>4, <1>5

LEMMA TeamMoves ==
  ASSUME MembershipInv, NEW r \in MemberRequests, NEW u \in Users, NEW p \in Teams,
         \/ StartCreateProject(r, u, p) \/ StartDeleteProject(r, u, p) \/ StartCreateKey(r, u, p)
         \/ \E target \in Users :
              \/ StartRemoveProjectMember(r, u, p, target)
              \/ \E role \in TeamRoles : StartAddProjectMember(r, u, p, target, role)
  PROVE  \E next \in Pending : Moves(r, next)
<1>1. CASE StartCreateProject(r, u, p)
  <2> DEFINE next == [op |-> "createTeam", by |-> u, team |-> p]
  <2>1. next \in Pending /\ next.op = "createTeam"
    BY DEF Pending
  <2> QED
    BY <1>1, <2>1, Existence DEF StartCreateProject, Permitted, Moves
<1>2. CASE StartDeleteProject(r, u, p)
  <2> DEFINE next == [op |-> "deleteTeam", team |-> p]
  <2>1. next \in Pending /\ next.op = "deleteTeam" /\ next.team = p
    BY DEF Pending
  <2> QED
    BY <1>2, <2>1, Existence DEF StartDeleteProject, Permitted, Moves
<1>3. CASE StartCreateKey(r, u, p)
  <2> DEFINE next == [op |-> "readTeamMember", by |-> u, team |-> p]
  <2>1. next \in Pending /\ next.op = "readTeamMember"
    BY DEF Pending
  <2> QED
    BY <1>3, <2>1, Existence DEF StartCreateKey, Permitted, Moves
<1>4. ASSUME NEW target \in Users, StartRemoveProjectMember(r, u, p, target)
      PROVE  \E next \in Pending : Moves(r, next)
  <2> DEFINE next == [op |-> "removeTeamMember", on |-> target, team |-> p]
  <2>1. next \in Pending /\ next.op = "removeTeamMember" /\ next.team = p
    BY DEF Pending
  <2> QED
    BY <1>4, <2>1, Existence DEF StartRemoveProjectMember, Permitted, Moves
<1>5. ASSUME NEW target \in Users, NEW role \in TeamRoles,
             StartAddProjectMember(r, u, p, target, role)
      PROVE  \E next \in Pending : Moves(r, next)
  <2> DEFINE next == [op |-> "readOrgMember", on |-> target, team |-> p, role |-> role]
  <2>1. next \in Pending /\ next.op = "readOrgMember" /\ next.team = p
    BY DEF Pending
  <2> QED
    BY <1>5, <2>1, Existence DEF StartAddProjectMember, Permitted, Moves
<1> QED
  BY <1>1, <1>2, <1>3, <1>4, <1>5

LEMMA CheckMoves ==
  ASSUME MembershipInv, NEW r \in MemberRequests,
         ReadTarget(r) \/ ReadOrgMember(r) \/ ReadTeamMember(r)
  PROVE  \E next \in Pending : Moves(r, next)
<1>1. request[r] \in Pending
  BY DEF MembershipInv, MembershipTypeOK
<1>2. org # "absent"
  BY Existence DEF ReadTarget, ReadOrgMember, ReadTeamMember, Idle
<1>3. CASE ReadTarget(r)
  <2> DEFINE next == [op |-> "removeMember", on |-> request[r].on]
  <2>1. request[r].on \in Users
    BY <1>1, <1>3, PendingShapes DEF ReadTarget
  <2>2. next \in Pending /\ next.op = "removeMember" /\ next.on = request[r].on
    BY <2>1 DEF Pending
  <2> QED
    BY <1>2, <1>3, <2>2 DEF ReadTarget, Goes, Moves
<1>4. CASE ReadOrgMember(r)
  BY <1>1, <1>2, <1>4, PendingMoves DEF ReadOrgMember, Goes, Moves
<1>5. CASE ReadTeamMember(r)
  BY <1>1, <1>2, <1>5, PendingMoves DEF ReadTeamMember, Goes, Moves
<1> QED
  BY <1>3, <1>4, <1>5

-----------------------------------------------------------------------------
(* Membership: what the steps keep. *)

LEMMA MovesKeep ==
  ASSUME MembershipInv, NEW r \in MemberRequests, NEW next \in Pending, Moves(r, next)
  PROVE  MembershipInv'
<1>1. MembershipTypeOK'
  BY DEF MembershipInv, MembershipTypeOK, Moves, rowVars
<1>2. OwnerStays' /\ NoOrphanRows'
  BY DEF MembershipInv, OwnerStays, Owners, NoOrphanRows, Moves, rowVars
<1>3. RemovalInv'
  BY DEF MembershipInv, MembershipTypeOK, RemovalInv, Moves, rowVars
<1> QED
  BY <1>1, <1>2, <1>3 DEF MembershipInv

\* A request that ends leaves fewer in flight.
LEMMA EndsKeep ==
  ASSUME MembershipInv, NEW r \in MemberRequests, Ends(r)
  PROVE  /\ request' \in [MemberRequests -> Pending]
         /\ \A q \in MemberRequests : request'[q] = Idle \/ request'[q] = request[q]
         /\ \A q \in MemberRequests : request'[q].op # "idle" => request'[q] = request[q]
BY DEF MembershipInv, MembershipTypeOK, Ends, Pending, Idle

LEMMA OrgWritesKeep ==
  ASSUME MembershipInv, NEW r \in MemberRequests,
         DeleteOrganization(r) \/ AddMember(r) \/ RemoveMember(r)
  PROVE  MembershipInv'
<1>1. Ends(r) /\ request[r] \in Pending /\ request[r] # Idle
  BY DEF DeleteOrganization, AddMember, RemoveMember, Finish, Ends, MembershipInv,
         MembershipTypeOK, Idle
<1>2. request' \in [MemberRequests -> Pending]
      /\ \A q \in MemberRequests : request'[q] = Idle \/ request'[q] = request[q]
  BY <1>1, EndsKeep
<1>3. org # "absent"
  BY <1>1, Existence
<1>4. CASE DeleteOrganization(r)
  <2>1. /\ org' = "gone" /\ orgRole' = NoRoles /\ keys' = {} /\ named' = NothingNamed
        /\ team' = [p \in Teams |-> IF team[p] = "live" THEN "gone" ELSE team[p]]
        /\ teamRole' = [p \in Teams |-> NoRoles]
    BY <1>4 DEF DeleteOrganization
  <2>2. MembershipTypeOK'
    BY <1>2, <2>1 DEF MembershipInv, MembershipTypeOK, NoRoles, NothingNamed
  <2>3. OwnerStays' /\ NoOrphanRows'
    BY <2>1 DEF NothingNamed, OwnerStays, NoOrphanRows, MembershipInv, MembershipTypeOK
  <2>4. RemovalInv'
    BY <1>2, <2>1, PendingShapes DEF RemovalInv, NoRoles, Idle
  <2> QED
    BY <2>2, <2>3, <2>4 DEF MembershipInv
<1>5. CASE AddMember(r)
  <2>1. /\ org = "live" /\ orgRole[request[r].on] = "none"
        /\ orgRole' = [orgRole EXCEPT ![request[r].on] = request[r].role]
        /\ UNCHANGED <<org, team, teamRole, keys, named>>
    BY <1>5 DEF AddMember
  <2>2. request[r].on \in Users /\ request[r].role \in OrgRoles \ {"owner"}
    BY <1>1, <1>5, PendingShapes DEF AddMember
  <2>3. MembershipTypeOK'
    BY <1>2, <2>1, <2>2 DEF MembershipInv, MembershipTypeOK
  <2>4. OwnerStays'
    <3>1. \A u \in Users : orgRole'[u] = "owner" <=> orgRole[u] = "owner"
      BY <2>1, <2>2 DEF MembershipInv, MembershipTypeOK
    <3>2. Owners' = Owners
      BY <3>1 DEF Owners
    <3> QED
      BY <2>1, <3>2 DEF OwnerStays, MembershipInv
  <2>5. NoOrphanRows'
    BY <2>1 DEF NoOrphanRows, MembershipInv
  <2>6. RemovalInv'
    BY <1>2, <2>1, <2>2, PendingShapes DEF RemovalInv, Idle, MembershipInv, MembershipTypeOK
  <2> QED
    BY <2>3, <2>4, <2>5, <2>6 DEF MembershipInv
<1>6. CASE RemoveMember(r)
  <2>1. /\ orgRole[request[r].on] # "owner"
        /\ orgRole' = [orgRole EXCEPT ![request[r].on] = "none"]
        /\ UNCHANGED <<org, team, teamRole, keys, named>>
    BY <1>6 DEF RemoveMember, RemovalInv, MembershipInv
  <2>2. request[r].on \in Users
    BY <1>1, <1>6, PendingShapes DEF RemoveMember
  <2>3. MembershipTypeOK'
    BY <1>2, <2>1, <2>2 DEF MembershipInv, MembershipTypeOK
  <2>4. OwnerStays'
    <3>1. \A u \in Users : orgRole'[u] = "owner" <=> orgRole[u] = "owner"
      BY <2>1, <2>2 DEF MembershipInv, MembershipTypeOK
    <3>2. Owners' = Owners /\ (orgRole = NoRoles => orgRole' = NoRoles)
      BY <2>1, <2>2, <3>1 DEF Owners, NoRoles
    <3> QED
      BY <2>1, <3>2 DEF OwnerStays, MembershipInv
  <2>5. NoOrphanRows'
    BY <2>1 DEF NoOrphanRows, MembershipInv
  <2>6. RemovalInv'
    BY <1>2, <1>3, <2>1, <2>2, PendingShapes
    DEF RemovalInv, Idle, MembershipInv, MembershipTypeOK
  <2> QED
    BY <2>3, <2>4, <2>5, <2>6 DEF MembershipInv
<1> QED
  BY <1>4, <1>5, <1>6

\* The writes to a project leave the organisation alone, so only the types and
\* the orphans are at stake.
LEMMA TeamWriteKeeps ==
  ASSUME MembershipInv, NEW r \in MemberRequests, Ends(r), org # "absent",
         UNCHANGED <<org, orgRole>>, MembershipTypeOK', NoOrphanRows'
  PROVE  MembershipInv'
<1>1. OwnerStays'
  BY DEF MembershipInv, OwnerStays, Owners
<1>2. RemovalInv'
  BY EndsKeep DEF MembershipInv, RemovalInv, Idle
<1> QED
  BY <1>1, <1>2 DEF MembershipInv

LEMMA TeamWritesKeep ==
  ASSUME MembershipInv, NEW r \in MemberRequests,
         \/ CreateProject(r) \/ DeleteProject(r) \/ AddProjectMember(r)
         \/ RemoveProjectMember(r) \/ CreateKey(r)
  PROVE  MembershipInv'
<1>1. Ends(r) /\ request[r] \in Pending /\ request[r] # Idle /\ UNCHANGED <<org, orgRole>>
  BY DEF CreateProject, DeleteProject, AddProjectMember, RemoveProjectMember, CreateKey, Finish,
         Ends, MembershipInv, MembershipTypeOK, Idle
<1>2. request' \in [MemberRequests -> Pending] /\ org # "absent"
  BY <1>1, EndsKeep, Existence
<1> DEFINE q == request[r]
<1>3. CASE CreateProject(r)
  <2>1. q.by \in Users /\ q.team \in Teams
    BY <1>1, <1>3, PendingShapes DEF CreateProject
  <2>2. /\ org = "live" /\ team[q.team] = "absent" /\ UNCHANGED <<keys, named>>
        /\ team' = [team EXCEPT ![q.team] = "live"]
        /\ teamRole' = [teamRole EXCEPT ![q.team][q.by] = "lead"]
    BY <1>3 DEF CreateProject
  <2>3. MembershipTypeOK'
    BY <1>1, <1>2, <2>1, <2>2 DEF MembershipInv, MembershipTypeOK, TeamRoles
  <2>4. NoOrphanRows'
    BY <1>1, <2>1, <2>2 DEF MembershipInv, MembershipTypeOK, NoOrphanRows
  <2> QED
    BY <1>1, <1>2, <2>3, <2>4, TeamWriteKeeps
<1>4. CASE DeleteProject(r)
  <2>1. q.team \in Teams
    BY <1>1, <1>4, PendingShapes DEF DeleteProject
  <2>2. /\ team' = [team EXCEPT ![q.team] = "gone"]
        /\ teamRole' = [teamRole EXCEPT ![q.team] = NoRoles]
        /\ keys' = keys \ ({q.team} \X Users)
        /\ named[q.team] = "nothing" /\ named' = named
    BY <1>4 DEF DeleteProject
  <2>3. MembershipTypeOK'
    BY <1>1, <1>2, <2>1, <2>2 DEF MembershipInv, MembershipTypeOK, NoRoles
  <2>4. NoOrphanRows'
    BY <1>1, <2>1, <2>2 DEF MembershipInv, MembershipTypeOK, NoOrphanRows
  <2> QED
    BY <1>1, <1>2, <2>3, <2>4, TeamWriteKeeps
<1>5. CASE AddProjectMember(r) \/ RemoveProjectMember(r)
  <2>1. /\ q.on \in Users /\ q.team \in Teams
        /\ q.op \in {"addTeamMember", "removeTeamMember"}
    BY <1>1, <1>5, PendingShapes DEF AddProjectMember, RemoveProjectMember
  <2>2. PICK role \in TeamRoles \cup {"none"} :
          /\ teamRole' = [teamRole EXCEPT ![q.team][q.on] = role]
          /\ UNCHANGED <<team, keys, named>>
          /\ team[q.team] = "live" \/ role = "none"
    BY <1>1, <1>5, PendingShapes DEF AddProjectMember, RemoveProjectMember
  <2>3. MembershipTypeOK'
    BY <1>1, <1>2, <2>1, <2>2 DEF MembershipInv, MembershipTypeOK
  <2>4. NoOrphanRows'
    <3>1. \A p \in Teams : team[p] # "live" => teamRole'[p] = NoRoles
      <4> SUFFICES ASSUME NEW p \in Teams, team[p] # "live" PROVE teamRole'[p] = NoRoles
        OBVIOUS
      <4>1. teamRole[p] = NoRoles
        BY DEF MembershipInv, NoOrphanRows
      <4>2. CASE p = q.team
        <5>1. teamRole'[p] = [teamRole[p] EXCEPT ![q.on] = "none"]
          BY <2>1, <2>2, <4>2 DEF MembershipInv, MembershipTypeOK
        <5> QED
          BY <4>1, <5>1 DEF NoRoles
      <4>3. CASE p # q.team
        BY <2>1, <2>2, <4>1, <4>3 DEF MembershipInv, MembershipTypeOK
      <4> QED
        BY <4>2, <4>3
    <3> QED
      BY <1>1, <2>2, <3>1 DEF MembershipInv, NoOrphanRows
  <2> QED
    BY <1>1, <1>2, <2>3, <2>4, TeamWriteKeeps
<1>6. CASE CreateKey(r)
  <2>1. q.by \in Users /\ q.team \in Teams
    BY <1>1, <1>6, PendingShapes DEF CreateKey
  <2>2. /\ team[q.team] = "live" /\ UNCHANGED <<team, teamRole, named>>
        /\ keys' = keys \cup {<<q.team, q.by>>}
    BY <1>6 DEF CreateKey
  <2>3. MembershipTypeOK'
    BY <1>1, <1>2, <2>1, <2>2 DEF MembershipInv, MembershipTypeOK
  <2>4. NoOrphanRows'
    BY <1>1, <2>1, <2>2 DEF MembershipInv, MembershipTypeOK, NoOrphanRows
  <2> QED
    BY <1>1, <1>2, <2>2, <2>3, <2>4, TeamWriteKeeps
<1> QED
  BY <1>3, <1>4, <1>5, <1>6

LEMMA OthersKeep ==
  ASSUME MembershipInv,
         \/ \E u \in Users : CreateOrganization(u)
         \/ \E p \in Teams, u \in Users :
              RevokeKey(p, u) \/ \E row \in {"envelope", "job"} : UseKey(p, u, row)
         \/ \E p \in Teams : ForgetEnvelopes(p)
         \/ \E r \in MemberRequests : AbandonRequest(r)
         \/ UNCHANGED membershipVars
  PROVE  MembershipInv'
<1>1. ASSUME NEW u \in Users, CreateOrganization(u)
      PROVE  MembershipInv'
  <2>1. /\ org = "absent" /\ org' = "live" /\ orgRole' = [orgRole EXCEPT ![u] = "owner"]
        /\ UNCHANGED <<team, teamRole, keys, named, request>>
    BY <1>1 DEF CreateOrganization
  <2>2. MembershipTypeOK' /\ orgRole = NoRoles
    BY <2>1 DEF MembershipInv, MembershipTypeOK, OrgRoles, OwnerStays
  <2>3. Owners' = {u}
    BY <2>1, <2>2 DEF Owners, NoRoles
  <2>4. OwnerStays' /\ NoOrphanRows' /\ RemovalInv'
    BY <2>1, <2>3 DEF OwnerStays, MembershipInv, NoOrphanRows, RemovalInv, Idle
  <2> QED
    BY <2>2, <2>4 DEF MembershipInv
<1>2. ASSUME NEW p \in Teams, NEW u \in Users, RevokeKey(p, u)
      PROVE  MembershipInv'
  <2>1. keys' \subseteq keys /\ UNCHANGED <<org, orgRole, team, teamRole, named, request>>
    BY <1>2 DEF RevokeKey
  <2> QED
    BY <2>1 DEF MembershipInv, MembershipTypeOK, OwnerStays, Owners, NoOrphanRows, RemovalInv
<1>3. ASSUME NEW r \in MemberRequests, AbandonRequest(r)
      PROVE  MembershipInv'
  <2>1. Ends(r) /\ UNCHANGED <<org, orgRole, team, teamRole, keys, named>> /\ org # "absent"
    BY <1>3, Existence DEF AbandonRequest, Finish, Ends, rowVars
  <2>2. MembershipTypeOK' /\ NoOrphanRows'
    BY <2>1, EndsKeep DEF MembershipInv, MembershipTypeOK, NoOrphanRows
  <2> QED
    BY <2>1, <2>2, TeamWriteKeeps
<1>4. ASSUME NEW p \in Teams, NEW row \in {"nothing", "envelope", "job"},
             named' = [named EXCEPT ![p] = row], team[p] = "live" \/ row = "nothing",
             UNCHANGED <<org, orgRole, team, teamRole, keys, request>>
      PROVE  MembershipInv'
  <2>1. MembershipTypeOK' /\ NoOrphanRows'
    BY <1>4 DEF MembershipInv, MembershipTypeOK, NoOrphanRows
  <2> QED
    BY <1>4, <2>1 DEF MembershipInv, OwnerStays, Owners, RemovalInv
<1>5. ASSUME NEW p \in Teams, NEW u \in Users, NEW row \in {"envelope", "job"}, UseKey(p, u, row)
      PROVE  MembershipInv'
  <2>1. team[p] = "live"
    BY <1>5 DEF UseKey, MembershipInv, MembershipTypeOK, NoOrphanRows
  <2> QED
    BY <1>4, <1>5, <2>1 DEF UseKey
<1>6. ASSUME NEW p \in Teams, ForgetEnvelopes(p)
      PROVE  MembershipInv'
  BY <1>4, <1>6 DEF ForgetEnvelopes
<1>7. CASE UNCHANGED membershipVars
  <2>1. UNCHANGED <<org, orgRole, team, teamRole, keys, named, request>>
    BY <1>7 DEF membershipVars, rowVars
  <2> QED
    BY <2>1 DEF MembershipInv, MembershipTypeOK, OwnerStays, Owners, NoOrphanRows, RemovalInv
<1> QED
  BY <1>1, <1>2, <1>3, <1>5, <1>6, <1>7

LEMMA MembershipKept ==
  ASSUME MembershipInv, [MembershipNext]_membershipVars
  PROVE  MembershipInv'
<1>1. ASSUME NEW r \in MemberRequests, OrgStep(r)
      PROVE  MembershipInv'
  BY <1>1, OrgMoves, CheckMoves, MovesKeep, OrgWritesKeep DEF OrgStep
<1>2. ASSUME NEW r \in MemberRequests, TeamStep(r)
      PROVE  MembershipInv'
  <2>1. ASSUME NEW u \in Users, NEW p \in Teams,
               \/ StartCreateProject(r, u, p) \/ StartDeleteProject(r, u, p)
               \/ StartCreateKey(r, u, p)
               \/ \E target \in Users :
                    \/ StartRemoveProjectMember(r, u, p, target)
                    \/ \E role \in TeamRoles : StartAddProjectMember(r, u, p, target, role)
        PROVE  MembershipInv'
    BY <2>1, TeamMoves, MovesKeep
  <2>2. CASE ReadOrgMember(r) \/ ReadTeamMember(r)
    BY <2>2, CheckMoves, MovesKeep
  <2>3. CASE \/ CreateProject(r) \/ DeleteProject(r) \/ AddProjectMember(r)
             \/ RemoveProjectMember(r) \/ CreateKey(r)
    BY <2>3, TeamWritesKeep
  <2> QED
    BY <1>2, <2>1, <2>2, <2>3 DEF TeamStep
<1> QED
  BY <1>1, <1>2, OthersKeep, FoundersAssumption DEF MembershipNext

LEMMA MembershipStart ==
  ASSUME MembershipInit
  PROVE  MembershipInv
BY DEF MembershipInit, NothingNamed, MembershipInv, MembershipTypeOK, OwnerStays, NoOrphanRows,
       RemovalInv, NoRoles, Pending, Idle

\* An organisation has exactly one owner while it exists, and no project,
\* membership or key outlives what it belongs to, whatever is in flight.
THEOREM MembershipSafety == MembershipSpec => []MembershipInv
<1> QED
  BY MembershipKept, MembershipStart, PTL DEF MembershipSpec

-----------------------------------------------------------------------------
(* Sign-in. *)

LEMMA SignInStart == SignInInit => SignInInv
<1> SUFFICES ASSUME SignInInit PROVE SignInInv
  OBVIOUS
<1> USE SignInAssumption DEF SignInInit
<1>1. AnyWallet \in Wallets /\ AnyNonce \in Nonces
  <2>1. PICK f \in Families, a \in Addresses : TRUE
    OBVIOUS
  <2>2. [family |-> f, address |-> a] \in Wallets
    BY DEF Wallets
  <2> QED
    BY <2>2, Zenon DEF AnyWallet, AnyNonce
<1>2. \A r \in Earlier : r.user \in Accounts /\ r.wallet \in Wallets /\ r.proof \in Nonces
  BY DEF LinkRows
<1>3. \A r \in Earlier : (CHOOSE q \in Earlier : q.proof = r.proof) = r
  BY Zenon
<1>4. \A n \in Nonces :
        (\E r \in Earlier : r.proof = n) => (CHOOSE r \in Earlier : r.proof = n).wallet \in Wallets
  BY <1>2, <1>3
<1>5. SignInTypeOK
  BY <1>1, <1>2, <1>4 DEF SignInTypeOK
<1>6. EveryLinkIsProven
  BY <1>2, <1>3 DEF EveryLinkIsProven
<1>7. ServedOnce /\ SignsInAHolder /\ NoStrandedAccount
  BY DEF ServedOnce, SignsInAHolder, NoStrandedAccount
<1>8. \A p \in ProofRequests : ProofInv(p)
  BY DEF ProofInv, UnderWay
<1> QED
  BY <1>5, <1>6, <1>7, <1>8 DEF SignInInv

\* Nonces that are used stay as they are, in a step that moves no row.
UsedStay ==
  \A m \in Nonces : nonce[m] = "used" => nonce'[m] = "used" /\ nonceOf'[m] = nonceOf[m]

LEMMA RowsStay ==
  ASSUME SignInTypeOK, EveryLinkIsProven, NoStrandedAccount, UsedStay, UNCHANGED <<linked, accounts>>,
         unlinked' = unlinked
  PROVE  EveryLinkIsProven' /\ NoStrandedAccount'
<1>1. \A r \in linked : r.proof \in Nonces
  BY DEF SignInTypeOK, LinkRows
<1>2. EveryLinkIsProven'
  BY <1>1 DEF EveryLinkIsProven, UsedStay
<1>3. NoStrandedAccount'
  BY DEF NoStrandedAccount
<1> QED
  BY <1>2, <1>3

LEMMA NonceSteps ==
  ASSUME SignInInv, NEW n \in Nonces, NonceExpires(n) \/ \E w \in Wallets : IssueNonce(n, w)
  PROVE  SignInInv'
<1>1. UNCHANGED <<accounts, linked>> /\ UNCHANGED proofVars /\ UNCHANGED <<heldSince, unlinked>>
  BY DEF NonceExpires, IssueNonce, walletVars
<1>2. UNCHANGED <<proof, proves, byNonce, linksTo, replaces, session>>
  BY <1>1 DEF proofVars
<1>3. /\ UsedStay
      /\ nonce' \in [Nonces -> {"new", "issued", "expired", "used"}] /\ nonceOf' \in [Nonces -> Wallets]
  <2>1. CASE NonceExpires(n)
    BY <2>1 DEF SignInInv, SignInTypeOK, NonceExpires, UsedStay
  <2>2. ASSUME NEW w \in Wallets, IssueNonce(n, w)
        PROVE  /\ UsedStay /\ nonce' \in [Nonces -> {"new", "issued", "expired", "used"}]
               /\ nonceOf' \in [Nonces -> Wallets]
    BY <2>2 DEF SignInInv, SignInTypeOK, IssueNonce, UsedStay
  <2> QED
    BY <2>1, <2>2
<1>4. SignInTypeOK'
  BY <1>1, <1>2, <1>3 DEF SignInInv, SignInTypeOK
<1>5. EveryLinkIsProven' /\ NoStrandedAccount'
  BY <1>1, <1>3, RowsStay DEF SignInInv
<1>6. ServedOnce' /\ SignsInAHolder'
  BY <1>1, <1>2 DEF SignInInv, ServedOnce, SignsInAHolder
<1>7. ASSUME NEW p \in ProofRequests PROVE ProofInv(p)'
  <2>1. byNonce[p] \in Nonces /\ ProofInv(p)
    BY DEF SignInInv, SignInTypeOK
  <2> QED
    BY <1>1, <1>2, <1>3, <2>1 DEF ProofInv, UnderWay, HoldersOf, UsedStay
<1> QED
  BY <1>4, <1>5, <1>6, <1>7 DEF SignInInv

LEMMA ConsumeStep ==
  ASSUME SignInInv, NEW p \in ProofRequests, NEW n \in Nonces,
         NEW account \in accounts \cup {NoAccount}, ConsumeNonce(p, n, account)
  PROVE  SignInInv'
<1>1. /\ nonce[n] = "issued" /\ proof[p] = "new"
      /\ nonce' = [nonce EXCEPT ![n] = "used"] /\ byNonce' = [byNonce EXCEPT ![p] = n]
      /\ proves' = [proves EXCEPT ![p] = nonceOf[n]] /\ linksTo' = [linksTo EXCEPT ![p] = account]
      /\ heldSince' = [heldSince EXCEPT ![p] = HoldersOf(nonceOf[n], linked)]
      /\ UNCHANGED <<accounts, linked, nonceOf, replaces, session, unlinked>>
  BY DEF ConsumeNonce, walletVars
<1>2. PICK to \in {"find", "check", "refused"} :
        /\ proof' = [proof EXCEPT ![p] = to]
        /\ to = "check" => account # NoAccount
        /\ to = "find" => account = NoAccount
  BY DEF ConsumeNonce
<1>3. SignInTypeOK /\ EveryLinkIsProven /\ ServedOnce /\ SignsInAHolder /\ NoStrandedAccount
      /\ \A q \in ProofRequests : ProofInv(q)
  BY DEF SignInInv
<1>4. UsedStay
  BY <1>1, <1>3 DEF UsedStay, SignInTypeOK
<1>5. SignInTypeOK'
  <2>1. HoldersOf(nonceOf[n], linked) \subseteq Accounts
    BY <1>3 DEF SignInTypeOK, HoldersOf, LinkRows
  <2>2. account \in Accounts \cup {NoAccount}
    BY <1>3 DEF SignInTypeOK
  <2> QED
    BY <1>1, <1>2, <1>3, <2>1, <2>2 DEF SignInTypeOK
<1>6. EveryLinkIsProven' /\ NoStrandedAccount'
  BY <1>1, <1>3, <1>4, RowsStay
<1>7. ServedOnce'
  <2>1. \A q \in ProofRequests : proof[q] # "new" => byNonce[q] # n
    BY <1>1, <1>3 DEF ProofInv
  <2>2. \A q \in ProofRequests \ {p} : proof'[q] = proof[q] /\ byNonce'[q] = byNonce[q]
    BY <1>1, <1>2, <1>3 DEF SignInTypeOK
  <2>3. byNonce'[p] = n
    BY <1>1, <1>3 DEF SignInTypeOK
  <2> QED
    BY <1>3, <2>1, <2>2, <2>3 DEF ServedOnce
<1>8. SignsInAHolder'
  <2>1. session[p] = NoAccount
    BY <1>1, <1>3 DEF SignsInAHolder, ProofInv
  <2> QED
    BY <1>1, <1>3, <2>1 DEF SignsInAHolder, SignInTypeOK
<1>9. ASSUME NEW q \in ProofRequests PROVE ProofInv(q)'
  <2>1. CASE q = p
    <3>1. \A r \in linked : r.proof # n
      BY <1>1, <1>3 DEF EveryLinkIsProven
    <3> QED
      <4>1. /\ proof'[p] = to /\ byNonce'[p] = n /\ nonce'[n] = "used" /\ proves'[p] = nonceOf[n]
            /\ linksTo'[p] = account /\ heldSince'[p] = HoldersOf(nonceOf[n], linked)
            /\ nonceOf' = nonceOf /\ linked' = linked /\ replaces' = replaces
            /\ session' = session /\ accounts' = accounts
        BY <1>1, <1>2, <1>3 DEF SignInTypeOK
      <4>2. ProofInv(p) /\ replaces[p] = {} /\ session[p] = NoAccount
        BY <1>1, <1>3 DEF ProofInv
      <4> QED
        BY <1>2, <2>1, <3>1, <4>1, <4>2 DEF ProofInv, UnderWay, HoldersOf
  <2>2. CASE q # p
    <3>1. /\ proof'[q] = proof[q] /\ byNonce'[q] = byNonce[q] /\ proves'[q] = proves[q]
          /\ linksTo'[q] = linksTo[q] /\ heldSince'[q] = heldSince[q]
          /\ nonceOf' = nonceOf /\ linked' = linked /\ replaces' = replaces
          /\ session' = session /\ accounts' = accounts
      BY <1>1, <1>2, <1>3, <2>2 DEF SignInTypeOK
    <3>2. ProofInv(q) /\ byNonce[q] \in Nonces
      BY <1>3 DEF SignInTypeOK
    <3> QED
      BY <1>4, <3>1, <3>2 DEF ProofInv, UnderWay, HoldersOf, UsedStay
  <2> QED
    BY <2>1, <2>2
<1> QED
  BY <1>5, <1>6, <1>7, <1>8, <1>9 DEF SignInInv

\* A step of one request that leaves the nonces alone.
OnlyMoves(p) ==
  /\ UNCHANGED <<nonce, nonceOf, proves, byNonce, linksTo>>
  /\ \A q \in ProofRequests \ {p} :
       proof'[q] = proof[q] /\ replaces'[q] = replaces[q] /\ session'[q] = session[q]

LEMMA MoveFacts ==
  ASSUME SignInInv, NEW p \in ProofRequests,
         \/ FindHolder(p) \/ CreateAccount(p) \/ CheckElsewhere(p)
         \/ StartRelink(p) \/ CommitRelink(p) \/ AbandonProof(p)
  PROVE  OnlyMoves(p) /\ UnderWay(p) /\ proof'[p] \notin {"new", "find"}
<1> USE DEF SignInInv, SignInTypeOK, Move, UnderWay, OnlyMoves, nonceVars, walletVars
<1>1. CASE FindHolder(p)
  BY <1>1 DEF FindHolder
<1>2. CASE CreateAccount(p)
  BY <1>2 DEF CreateAccount
<1>3. CASE CheckElsewhere(p)
  BY <1>3 DEF CheckElsewhere
<1>4. CASE StartRelink(p)
  BY <1>4 DEF StartRelink
<1>5. CASE CommitRelink(p)
  BY <1>5 DEF CommitRelink
<1>6. CASE AbandonProof(p)
  BY <1>6 DEF AbandonProof
<1> QED
  BY <1>1, <1>2, <1>3, <1>4, <1>5, <1>6

\* A step of one request that moves no row either.
LEMMA NoRowMoves ==
  ASSUME SignInInv, NEW p \in ProofRequests, OnlyMoves(p), UnderWay(p), proof'[p] # "new",
         UNCHANGED <<accounts, linked, heldSince, unlinked>>, SignInTypeOK', ProofInv(p)',
         session'[p] # NoAccount => session'[p] \in heldSince[p]
  PROVE  SignInInv'
<1>1. EveryLinkIsProven' /\ NoStrandedAccount'
  BY RowsStay DEF SignInInv, OnlyMoves, UsedStay
<1>2. ServedOnce'
  <2>1. \A q \in ProofRequests : proof'[q] # "new" => proof[q] # "new"
    BY DEF OnlyMoves, UnderWay
  <2> QED
    BY <2>1 DEF SignInInv, ServedOnce, OnlyMoves
<1>3. SignsInAHolder'
  BY DEF SignInInv, SignsInAHolder, OnlyMoves
<1>4. ASSUME NEW q \in ProofRequests \ {p} PROVE ProofInv(q)'
  <2>1. ProofInv(q)
    BY DEF SignInInv
  <2>2. /\ proof'[q] = proof[q] /\ replaces'[q] = replaces[q] /\ session'[q] = session[q]
        /\ UNCHANGED <<nonce, nonceOf, proves, byNonce, linksTo, accounts, linked, heldSince>>
    BY DEF OnlyMoves
  <2> QED
    BY <2>1, <2>2 DEF ProofInv, UnderWay, HoldersOf
<1> QED
  BY <1>1, <1>2, <1>3, <1>4 DEF SignInInv

LEMMA QuietSteps ==
  ASSUME SignInInv, NEW p \in ProofRequests,
         \/ FindHolder(p) \/ CheckElsewhere(p) \/ StartRelink(p) \/ AbandonProof(p)
  PROVE  SignInInv'
<1>1. OnlyMoves(p) /\ UnderWay(p) /\ proof'[p] \notin {"new", "find"}
  BY MoveFacts
<1>2. UNCHANGED <<accounts, linked, heldSince, unlinked>>
  BY DEF FindHolder, CheckElsewhere, StartRelink, AbandonProof, walletVars
<1>3. SignInTypeOK /\ ProofInv(p) /\ \A q \in ProofRequests : ProofInv(q)
  BY DEF SignInInv
<1>4. HoldersOf(proves[p], linked) \subseteq Accounts
  BY <1>3 DEF SignInTypeOK, HoldersOf, LinkRows
<1>5. /\ SignInTypeOK' /\ ProofInv(p)'
      /\ session'[p] # NoAccount => session'[p] \in heldSince[p]
  <2> USE DEF SignInTypeOK, Move, nonceVars, walletVars, OnlyMoves
  <2>1. CASE FindHolder(p)
    <3>1. proof[p] = "find" /\ session[p] = NoAccount /\ HoldersOf(proves[p], linked) \subseteq heldSince[p]
      BY <1>3, <2>1 DEF ProofInv, FindHolder
    <3>2. /\ session' \in [ProofRequests -> Accounts \cup {NoAccount}]
          /\ session'[p] # NoAccount => session'[p] \in heldSince[p] /\ proof'[p] = "signed in"
          /\ proof'[p] = "create" => HoldersOf(proves[p], linked) = {}
          /\ proof' = [proof EXCEPT ![p] = "signed in"] \/ proof' = [proof EXCEPT ![p] = "create"]
          /\ UNCHANGED replaces
      BY <1>3, <1>4, <2>1, <3>1 DEF FindHolder
    <3>3. SignInTypeOK'
      BY <1>1, <1>2, <1>3, <3>2
    <3>4. ProofInv(p)'
      <4>1. proof'[p] \in {"signed in", "create"} /\ (session'[p] # NoAccount => proof'[p] = "signed in")
        BY <1>3, <3>2
      <4>2. replaces'[p] = {}
        BY <1>3, <3>1, <3>2 DEF ProofInv
      <4>3. ProofInv(p) /\ UNCHANGED <<nonce, nonceOf, proves, byNonce, linked, heldSince>>
        BY <1>1, <1>2, <1>3
      <4> HIDE DEF SignInTypeOK, Move, nonceVars, walletVars, OnlyMoves
      <4> QED
        BY <3>1, <4>1, <4>2, <4>3 DEF ProofInv, UnderWay, HoldersOf
    <3> QED
      BY <3>2, <3>3, <3>4
  <2>2. CASE CheckElsewhere(p)
    <3>1. /\ proof[p] = "check" /\ UNCHANGED <<replaces, session>>
          /\ proof' = [proof EXCEPT ![p] = "refused"] \/ proof' = [proof EXCEPT ![p] = "relink"]
      BY <2>2 DEF CheckElsewhere
    <3>2. SignInTypeOK'
      BY <1>1, <1>2, <1>3, <3>1
    <3>3. proof'[p] \in {"refused", "relink"}
      BY <1>3, <3>1
    <3>4. ProofInv(p) /\ UNCHANGED <<nonce, nonceOf, proves, byNonce, linksTo, accounts, linked, heldSince>>
      BY <1>1, <1>2, <1>3
    <3>5. replaces[p] = {} /\ session[p] = NoAccount
      BY <3>1, <3>4 DEF ProofInv
    <3> HIDE DEF SignInTypeOK, Move, nonceVars, walletVars, OnlyMoves
    <3>6. ProofInv(p)'
      BY <3>1, <3>3, <3>4, <3>5 DEF ProofInv, UnderWay, HoldersOf
    <3> QED
      BY <3>1, <3>2, <3>5, <3>6
  <2>3. CASE StartRelink(p)
    <3> DEFINE rows == {r \in linked : r.user = linksTo[p] /\ r.wallet.family = proves[p].family}
    <3>1. /\ proof[p] = "relink" /\ proof' = [proof EXCEPT ![p] = "commit"]
          /\ replaces' = [replaces EXCEPT ![p] = rows] /\ UNCHANGED session
      BY <2>3 DEF StartRelink
    <3>2. rows \subseteq LinkRows
      BY <1>3
    <3> HIDE DEF rows
    <3>3. SignInTypeOK'
      BY <1>1, <1>2, <1>3, <3>1, <3>2
    <3>4. replaces'[p] = rows /\ proof'[p] = "commit" /\ session'[p] = NoAccount
      BY <1>3, <3>1 DEF ProofInv
    <3>5. ProofInv(p)'
      BY <1>1, <1>2, <1>3, <3>1, <3>4 DEF ProofInv, UnderWay, rows
    <3> QED
      BY <3>3, <3>4, <3>5
  <2>4. CASE AbandonProof(p)
    <3>1. /\ proof' = [proof EXCEPT ![p] = "threw"] /\ UNCHANGED session
          /\ replaces' = [replaces EXCEPT ![p] = {}]
      BY <2>4 DEF AbandonProof
    <3>2. session[p] = NoAccount
      BY <1>1, <1>3 DEF ProofInv, UnderWay
    <3>3. SignInTypeOK'
      BY <1>1, <1>2, <1>3, <3>1
    <3>4. proof'[p] = "threw" /\ replaces'[p] = {} /\ session'[p] = NoAccount
      BY <1>3, <3>1, <3>2
    <3>5. ProofInv(p) /\ UNCHANGED <<nonce, nonceOf, proves, byNonce, linksTo, accounts, linked, heldSince>>
      BY <1>1, <1>2, <1>3
    <3> HIDE DEF SignInTypeOK, Move, nonceVars, walletVars, OnlyMoves
    <3>6. ProofInv(p)'
      BY <1>1, <3>4, <3>5 DEF ProofInv, UnderWay
    <3> QED
      BY <3>3, <3>4, <3>6
  <2> QED
    BY <2>1, <2>2, <2>3, <2>4
<1> QED
  BY <1>1, <1>2, <1>5, NoRowMoves

LEMMA HeldGrows ==
  ASSUME SignInTypeOK, NEW rows \in SUBSET LinkRows, SetLinked(rows)
  PROVE  /\ linked' = rows /\ heldSince' \in [ProofRequests -> SUBSET Accounts]
         /\ \A q \in ProofRequests :
              /\ heldSince[q] \subseteq heldSince'[q]
              /\ proof[q] \in {"find", "create"} => HoldersOf(proves[q], rows) \subseteq heldSince'[q]
<1>1. \A w \in Wallets : HoldersOf(w, rows) \subseteq Accounts
  BY DEF HoldersOf, LinkRows
<1> QED
  BY <1>1 DEF SetLinked, SignInTypeOK

\* A request links its wallet to an account, in place of rows of that account.
LEMMA LinksWallet ==
  ASSUME SignInInv, NEW p \in ProofRequests, OnlyMoves(p), UnderWay(p),
         NEW a \in Accounts, NEW rest \in SUBSET linked, SetLinked(rest \cup {RowOf(p, a)}),
         ~Conflicts(RowOf(p, a), rest), \A r \in linked \ rest : r.user = a,
         accounts' = accounts \cup {a}, unlinked' = unlinked,
         proof' \in [ProofRequests -> {"new", "find", "create", "check", "relink", "commit",
                                       "signed in", "linked", "refused", "threw"}],
         replaces' \in [ProofRequests -> SUBSET LinkRows], replaces'[p] = {},
         session' \in [ProofRequests -> Accounts \cup {NoAccount}],
         \/ proof'[p] = "linked" /\ session'[p] = NoAccount
         \/ proof[p] = "create" /\ proof'[p] = "signed in" /\ session'[p] = a
  PROVE  SignInInv'
<1> DEFINE row == RowOf(p, a)
<1>1. SignInTypeOK /\ EveryLinkIsProven /\ ServedOnce /\ SignsInAHolder /\ NoStrandedAccount
      /\ \A q \in ProofRequests : ProofInv(q)
  BY DEF SignInInv
<1>2. /\ row \in LinkRows /\ row.user = a /\ row.wallet = proves[p] /\ row.proof = byNonce[p]
      /\ row.wallet \in Wallets
  BY <1>1 DEF RowOf, LinkRows, SignInTypeOK
<1>3. /\ \A r \in rest : r.wallet # proves[p] /\ (r.user # a \/ r.wallet.family # proves[p].family)
      /\ \A r \in linked : r.proof # byNonce[p]
      /\ nonce[byNonce[p]] = "used" /\ nonceOf[byNonce[p]] = proves[p] /\ proof[p] # "new"
  <2>1. \A r \in rest : r.wallet # row.wallet /\ (r.user # row.user \/ r.wallet.family # row.wallet.family)
    BY Zenon DEF Conflicts
  <2>2. ProofInv(p)
    BY <1>1
  <2> QED
    BY <1>2, <2>1, <2>2 DEF ProofInv, UnderWay
<1> HIDE DEF row
<1>4. rest \cup {row} \in SUBSET LinkRows
  BY <1>1, <1>2 DEF SignInTypeOK
<1>5. /\ linked' = rest \cup {row} /\ heldSince' \in [ProofRequests -> SUBSET Accounts]
      /\ \A q \in ProofRequests :
           /\ heldSince[q] \subseteq heldSince'[q]
           /\ proof[q] \in {"find", "create"} => HoldersOf(proves[q], linked') \subseteq heldSince'[q]
  BY <1>1, <1>4, HeldGrows DEF row
<1>6. SignInTypeOK'
  BY <1>1, <1>4, <1>5 DEF SignInTypeOK, OnlyMoves
<1>7. EveryLinkIsProven'
  <2>1. \A r \in rest : r.user \in accounts /\ nonce[r.proof] = "used" /\ nonceOf[r.proof] = r.wallet
    BY <1>1 DEF EveryLinkIsProven
  <2>2. \A r, q \in rest :
          r.wallet = q.wallet \/ r.proof = q.proof
            \/ (r.user = q.user /\ r.wallet.family = q.wallet.family) => r = q
    BY <1>1 DEF EveryLinkIsProven
  <2>3. \A r \in rest :
          /\ r.wallet # row.wallet /\ r.proof # row.proof
          /\ r.user # row.user \/ r.wallet.family # row.wallet.family
    BY <1>2, <1>3
  <2>4. /\ row.user \in accounts' /\ nonce[row.proof] = "used" /\ nonceOf[row.proof] = row.wallet
        /\ accounts \subseteq accounts' /\ linked' = rest \cup {row} /\ UNCHANGED <<nonce, nonceOf>>
    BY <1>2, <1>3, <1>5 DEF OnlyMoves
  <2>5. \A r, q \in linked' :
          r.wallet = q.wallet \/ r.proof = q.proof
            \/ (r.user = q.user /\ r.wallet.family = q.wallet.family) => r = q
    <3> SUFFICES ASSUME NEW r \in rest \cup {row}, NEW q \in rest \cup {row},
                        r.wallet = q.wallet \/ r.proof = q.proof
                          \/ (r.user = q.user /\ r.wallet.family = q.wallet.family)
                 PROVE  r = q
      BY <2>4
    <3>1. CASE r \in rest /\ q \in rest
      BY <2>2, <3>1
    <3>2. CASE r = row /\ q \in rest
      BY <2>3, <3>2
    <3>3. CASE r \in rest /\ q = row
      BY <2>3, <3>3
    <3> QED
      BY <3>1, <3>2, <3>3
  <2> QED
    BY <2>1, <2>4, <2>5 DEF EveryLinkIsProven
<1>8. ServedOnce'
  <2>1. \A q \in ProofRequests : proof'[q] # "new" => proof[q] # "new"
    BY <1>3 DEF OnlyMoves
  <2> QED
    BY <1>1, <2>1 DEF ServedOnce, OnlyMoves
<1>9. SignsInAHolder'
  <2>1. proof[p] = "create" => a \in heldSince'[p]
    BY <1>2, <1>5 DEF HoldersOf
  <2> QED
    BY <1>1, <1>5, <2>1 DEF SignsInAHolder, OnlyMoves
<1>10. NoStrandedAccount'
  BY <1>1, <1>2, <1>5 DEF NoStrandedAccount
<1>11. ASSUME NEW q \in ProofRequests PROVE ProofInv(q)'
  <2>1. CASE q = p
    BY <1>3, <2>1 DEF ProofInv, UnderWay, OnlyMoves
  <2>2. CASE q # p
    <3>1. /\ proof'[q] = proof[q] /\ replaces'[q] = replaces[q] /\ session'[q] = session[q]
          /\ UNCHANGED <<nonce, nonceOf, proves, byNonce, linksTo>>
      BY <2>2 DEF OnlyMoves
    <3>2. proof[q] # "new" => byNonce[q] # byNonce[p]
      BY <1>1, <1>3, <2>2 DEF ServedOnce
    <3>3. ProofInv(q)
      BY <1>1
    <3> QED
      BY <1>2, <1>5, <3>1, <3>2, <3>3 DEF ProofInv, UnderWay
  <2> QED
    BY <2>1, <2>2
<1> QED
  BY <1>6, <1>7, <1>8, <1>9, <1>10, <1>11 DEF SignInInv

\* A request that loses a race, or whose row the indexes refuse.
LEMMA Rejected ==
  ASSUME SignInInv, NEW p \in ProofRequests, OnlyMoves(p), UnderWay(p),
         proof' = [proof EXCEPT ![p] = "threw"], UNCHANGED <<accounts, session, unlinked>>, KeepLinked,
         replaces' = [replaces EXCEPT ![p] = {}] \/ (UNCHANGED replaces /\ proof[p] # "commit")
  PROVE  SignInInv'
<1>1. SignInTypeOK /\ ProofInv(p)
  BY DEF SignInInv
<1>2. session[p] = NoAccount /\ proof'[p] = "threw" /\ replaces'[p] = {}
  BY <1>1 DEF ProofInv, UnderWay, SignInTypeOK
<1>3. SignInTypeOK'
  BY <1>1 DEF SignInTypeOK, OnlyMoves, KeepLinked
<1>4. ProofInv(p)'
  BY <1>1, <1>2 DEF ProofInv, UnderWay, OnlyMoves
<1> QED
  BY <1>2, <1>3, <1>4, NoRowMoves DEF KeepLinked

LEMMA CreateAccountStep ==
  ASSUME SignInInv, NEW p \in ProofRequests, CreateAccount(p)
  PROVE  SignInInv'
<1>1. OnlyMoves(p) /\ UnderWay(p)
  BY MoveFacts
<1>2. /\ proof[p] = "create" /\ UNCHANGED <<proves, byNonce, linksTo, replaces, unlinked>>
      /\ SignInTypeOK /\ ProofInv(p) /\ EveryLinkIsProven
  BY DEF CreateAccount, Move, SignInInv
<1>3. CASE HoldersOf(proves[p], linked) # {}
  BY <1>1, <1>2, <1>3, Rejected DEF CreateAccount, Move
<1>4. CASE HoldersOf(proves[p], linked) = {}
  <2>1. PICK a \in Accounts \ accounts :
          /\ accounts' = accounts \cup {a} /\ SetLinked(linked \cup {RowOf(p, a)})
          /\ session' = [session EXCEPT ![p] = a] /\ proof' = [proof EXCEPT ![p] = "signed in"]
    BY <1>4 DEF CreateAccount, Move
  <2>2. \A r \in linked : r.user # a /\ r.wallet # proves[p]
    <3>1. \A r \in linked : r.user \in accounts
      BY <1>2 DEF EveryLinkIsProven
    <3>2. ASSUME NEW r \in linked, r.wallet = proves[p] PROVE FALSE
      <4>1. r.user \in HoldersOf(proves[p], linked)
        BY <3>2 DEF HoldersOf
      <4> QED
        BY <1>4, <4>1
    <3> QED
      BY <2>1, <3>1, <3>2
  <2>3. ~Conflicts(RowOf(p, a), linked)
    BY <2>2 DEF Conflicts, RowOf
  <2>4. /\ proof' \in [ProofRequests -> {"new", "find", "create", "check", "relink", "commit",
                                       "signed in", "linked", "refused", "threw"}]
        /\ replaces' \in [ProofRequests -> SUBSET LinkRows] /\ replaces'[p] = {}
        /\ session' \in [ProofRequests -> Accounts \cup {NoAccount}]
        /\ proof'[p] = "signed in" /\ session'[p] = a
    BY <1>2, <2>1 DEF SignInTypeOK, ProofInv
  <2> QED
    BY <1>1, <1>2, <2>1, <2>3, <2>4, LinksWallet
<1> QED
  BY <1>3, <1>4

LEMMA CommitRelinkStep ==
  ASSUME SignInInv, NEW p \in ProofRequests, CommitRelink(p)
  PROVE  SignInInv'
<1> DEFINE a == linksTo[p]
           rest == linked \ replaces[p]
<1>1. OnlyMoves(p) /\ UnderWay(p)
  BY MoveFacts
<1>2. /\ proof[p] = "commit" /\ replaces' = [replaces EXCEPT ![p] = {}]
      /\ UNCHANGED <<accounts, session, unlinked>>
  BY DEF CommitRelink, Move
<1>3. SignInTypeOK /\ ProofInv(p) /\ a \in accounts /\ a \in Accounts
      /\ \A r \in linked \ rest : r.user = a
  BY <1>2 DEF SignInInv, SignInTypeOK, ProofInv
<1>4. CASE Conflicts(RowOf(p, a), rest)
  <2>1. proof' = [proof EXCEPT ![p] = "threw"] /\ KeepLinked
    BY <1>4 DEF CommitRelink, Move
  <2> QED
    <3>1. UNCHANGED <<accounts, session, unlinked>>
      BY <1>2
    <3>2. replaces' = [replaces EXCEPT ![p] = {}] \/ (UNCHANGED replaces /\ proof[p] # "commit")
      BY <1>2
    <3> HIDE DEF a, rest
    <3> QED
      BY <1>1, <2>1, <3>1, <3>2, Rejected
<1>5. CASE ~Conflicts(RowOf(p, a), rest)
  <2>1. proof' = [proof EXCEPT ![p] = "linked"] /\ SetLinked(rest \cup {RowOf(p, a)})
    BY <1>5 DEF CommitRelink, Move
  <2>2. /\ proof' \in [ProofRequests -> {"new", "find", "create", "check", "relink", "commit",
                                       "signed in", "linked", "refused", "threw"}]
        /\ replaces' \in [ProofRequests -> SUBSET LinkRows] /\ replaces'[p] = {}
        /\ session' \in [ProofRequests -> Accounts \cup {NoAccount}]
        /\ proof'[p] = "linked" /\ session'[p] = NoAccount
    BY <1>2, <1>3, <2>1 DEF SignInTypeOK, ProofInv
  <2>3. accounts' = accounts \cup {a} /\ rest \in SUBSET linked
    BY <1>2, <1>3
  <2> HIDE DEF a, rest
  <2> QED
    BY <1>1, <1>2, <1>3, <1>5, <2>1, <2>2, <2>3, LinksWallet
<1> QED
  BY <1>4, <1>5

LEMMA OtherSignInSteps ==
  ASSUME SignInInv,
         (\E a \in Accounts : CreateOAuthAccount(a)) \/ (\E r \in linked : Unlink(r))
  PROVE  SignInInv'
<1>1. SignInTypeOK /\ EveryLinkIsProven /\ ServedOnce /\ SignsInAHolder /\ NoStrandedAccount
      /\ \A q \in ProofRequests : ProofInv(q)
  BY DEF SignInInv
<1>2. ASSUME NEW a \in Accounts, CreateOAuthAccount(a) PROVE SignInInv'
  <2>1. /\ accounts' = accounts \cup {a} /\ unlinked' = unlinked \cup {a}
        /\ UNCHANGED <<nonce, nonceOf, linked, heldSince>>
        /\ UNCHANGED <<proof, proves, byNonce, linksTo, replaces, session>>
    BY <1>2 DEF CreateOAuthAccount, nonceVars, proofVars
  <2>2. SignInTypeOK'
    BY <1>1, <2>1 DEF SignInTypeOK
  <2>3. EveryLinkIsProven' /\ ServedOnce' /\ SignsInAHolder' /\ NoStrandedAccount'
    BY <1>1, <2>1 DEF EveryLinkIsProven, ServedOnce, SignsInAHolder, NoStrandedAccount
  <2>4. \A q \in ProofRequests : ProofInv(q)'
    BY <1>1, <2>1 DEF ProofInv, UnderWay, HoldersOf
  <2> QED
    BY <2>2, <2>3, <2>4 DEF SignInInv
<1>3. ASSUME NEW r \in linked, Unlink(r) PROVE SignInInv'
  <2>1. /\ SetLinked(linked \ {r}) /\ unlinked' = unlinked \cup {r.user}
        /\ UNCHANGED <<nonce, nonceOf, accounts>>
        /\ UNCHANGED <<proof, proves, byNonce, linksTo, replaces, session>>
    BY <1>3 DEF Unlink, nonceVars, proofVars
  <2>2. linked \ {r} \in SUBSET LinkRows /\ r.user \in Accounts
    BY <1>1 DEF SignInTypeOK, LinkRows
  <2>3. /\ linked' = linked \ {r} /\ heldSince' \in [ProofRequests -> SUBSET Accounts]
        /\ \A q \in ProofRequests :
             /\ heldSince[q] \subseteq heldSince'[q]
             /\ proof[q] \in {"find", "create"} => HoldersOf(proves[q], linked') \subseteq heldSince'[q]
    BY <1>1, <2>1, <2>2, HeldGrows
  <2>4. SignInTypeOK'
    BY <1>1, <2>1, <2>2, <2>3 DEF SignInTypeOK
  <2>5. EveryLinkIsProven' /\ ServedOnce' /\ SignsInAHolder' /\ NoStrandedAccount'
    BY <1>1, <2>1, <2>3 DEF EveryLinkIsProven, ServedOnce, SignsInAHolder, NoStrandedAccount
  <2>6. \A q \in ProofRequests : ProofInv(q)'
    BY <1>1, <2>1, <2>3 DEF ProofInv, UnderWay
  <2> QED
    BY <2>4, <2>5, <2>6 DEF SignInInv
<1> QED
  BY <1>2, <1>3

\* However sign-ins, links and unlinks of any accounts interleave: one account
\* of a wallet, one wallet of an account in a family, each proven over a nonce
\* of its own; every session is of an account that held the wallet; and a
\* sign-in that loses a race leaves no account behind.
THEOREM SignInSafety == SignInSpec => []SignInInv
<1>1. SignInInit => SignInInv
  BY SignInStart
<1>2. SignInInv /\ [SignInNext]_signInVars => SignInInv'
  <2> SUFFICES ASSUME SignInInv, [SignInNext]_signInVars PROVE SignInInv'
    OBVIOUS
  <2>1. CASE \E n \in Nonces : NonceExpires(n) \/ \E w \in Wallets : IssueNonce(n, w)
    BY <2>1, NonceSteps
  <2>2. CASE (\E a \in Accounts : CreateOAuthAccount(a)) \/ (\E r \in linked : Unlink(r))
    BY <2>2, OtherSignInSteps
  <2>3. CASE \E p \in ProofRequests : Prove(p)
    BY <2>3, ConsumeStep, QuietSteps, CreateAccountStep, CommitRelinkStep DEF Prove
  <2>4. CASE UNCHANGED signInVars
    <3>1. /\ UNCHANGED <<nonce, nonceOf, accounts, linked, heldSince, unlinked>>
          /\ UNCHANGED <<proof, proves, byNonce, linksTo, replaces, session>>
      BY <2>4 DEF signInVars, nonceVars, walletVars, proofVars
    <3> QED
      <4>0. SignInTypeOK'
        BY <3>1 DEF SignInInv, SignInTypeOK
      <4>1. EveryLinkIsProven' /\ ServedOnce' /\ SignsInAHolder' /\ NoStrandedAccount'
        <5>1. EveryLinkIsProven'
          BY <3>1 DEF SignInInv, EveryLinkIsProven
        <5> QED
          BY <3>1, <5>1 DEF SignInInv, ServedOnce, SignsInAHolder, NoStrandedAccount
      <4>2. \A q \in ProofRequests : ProofInv(q)'
        BY <3>1 DEF SignInInv, ProofInv, UnderWay, HoldersOf
      <4> QED
        BY <4>0, <4>1, <4>2 DEF SignInInv
  <2> QED
    BY <2>1, <2>2, <2>3, <2>4 DEF SignInNext
<1> QED
  BY <1>1, <1>2, PTL DEF SignInSpec

-----------------------------------------------------------------------------
(* Rate limits. *)

LEMMA RateConstants ==
  /\ KeepWindows \in Nat /\ MaxLag \in Nat /\ MaxLag <= KeepWindows /\ MaxMinute \in Nat
  /\ \A s \in RateScopes : Limit[s] \in Nat
BY RateAssumption

\* One request more in a window.
LEMMA OneMore ==
  ASSUME NEW S, IsFiniteSet(S), NEW c
  PROVE  /\ IsFiniteSet(S \cup {c}) /\ Cardinality(S) \in Nat /\ Cardinality(S \cup {c}) \in Nat
         /\ Cardinality(S \cup {c}) <= Cardinality(S) + 1
<1>1. Cardinality(S) \in Nat
  BY FS_CardinalityType
<1>2. IsFiniteSet(S \cup {c})
  BY FS_AddElement
<1>3. Cardinality(S \cup {c}) = IF c \in S THEN Cardinality(S) ELSE Cardinality(S) + 1
  BY FS_AddElement
<1> QED
  BY <1>1, <1>2, <1>3

\* The windows: no more let through than counted while a window is not swept,
\* and never more than the cap.
WindowInv(s, w) ==
  /\ IsFiniteSet(passed[s][w]) /\ Cardinality(passed[s][w]) <= Limit[s]
  /\ w >= minute - KeepWindows => Cardinality(passed[s][w]) <= count[s][w]

LagInv(c) ==
  /\ call[c] \in {"ip", "key"} => windowStart[c] <= minute /\ minute <= windowStart[c] + MaxLag
  /\ call[c] = "key" => key[c] # BadKey

LEMMA RateParts ==
  RateInv <=> /\ RateTypeOK /\ AddressFirst
              /\ \A s \in RateScopes, w \in Minutes : WindowInv(s, w)
              /\ \A c \in Calls : LagInv(c)
BY DEF RateInv, WithinLimit, WindowInv, LagInv

LEMMA RatePartsNext ==
  ASSUME RateTypeOK', AddressFirst', \A s \in RateScopes, w \in Minutes : WindowInv(s, w)',
         \A c \in Calls : LagInv(c)'
  PROVE  RateInv'
BY DEF RateInv, WithinLimit, WindowInv, LagInv

\* The upsert of one bucket.
LEMMA BumpKeeps ==
  ASSUME RateInv, NEW c \in Calls, call[c] \in {"ip", "key"}, NEW s \in RateScopes,
         NEW next \in {"find", "served"}, BumpAndCheck(c, s, next),
         UNCHANGED <<minute, ip, key, windowStart>>,
         call[c] = "ip" => s = ip[c], next = "served" <=> call[c] = "key"
  PROVE  RateInv'
<1> DEFINE w == windowStart[c]
<1> USE DEF RateTypeOK
<1>0. RateTypeOK /\ AddressFirst /\ (\A r \in RateScopes, v \in Minutes : WindowInv(r, v)) /\ \A d \in Calls : LagInv(d)
  BY RateParts
<1>1. w \in Minutes /\ count[s][w] \in Nat /\ w >= minute - KeepWindows
  BY <1>0, RateConstants DEF LagInv, Minutes
<1>2. count' = [count EXCEPT ![s] = [count[s] EXCEPT ![w] = count[s][w] + 1]]
  BY <1>0, <1>1 DEF BumpAndCheck
<1>3. count' \in [RateScopes -> [Minutes -> Nat]]
  BY <1>0, <1>1, <1>2
<1>4. \A d \in Calls : d # c => call'[d] = call[d]
  BY <1>0 DEF BumpAndCheck
<1>5. CASE count[s][w] + 1 > Limit[s]
  <2>1. call' = [call EXCEPT ![c] = "limited"] /\ passed' = passed
    BY <1>5 DEF BumpAndCheck
  <2>2. RateTypeOK'
    BY <1>0, <1>3, <2>1
  <2>3. ASSUME NEW r \in RateScopes, NEW v \in Minutes PROVE WindowInv(r, v)'
    <3>1. WindowInv(r, v) /\ count[r][v] \in Nat /\ count'[r][v] \in Nat /\ count[r][v] <= count'[r][v]
      BY <1>0, <1>1, <1>2
    <3>2. IsFiniteSet(passed[r][v]) /\ Cardinality(passed[r][v]) \in Nat
      BY <3>1, FS_CardinalityType DEF WindowInv
    <3> QED
      BY <2>1, <3>1, <3>2 DEF WindowInv
  <2>4. AddressFirst'
    BY <1>0, <2>1 DEF AddressFirst
  <2>5. \A d \in Calls : LagInv(d)'
    BY <1>0, <2>1 DEF LagInv
  <2> QED
    BY <2>2, <2>3, <2>4, <2>5, RatePartsNext
<1>6. CASE count[s][w] + 1 <= Limit[s]
  <2> DEFINE more == passed[s][w] \cup {c}
  <2>1. call' = [call EXCEPT ![c] = next]
        /\ passed' = [passed EXCEPT ![s] = [passed[s] EXCEPT ![w] = more]]
    BY <1>0, <1>1, <1>6, RateConstants DEF BumpAndCheck
  <2>2. passed' \in [RateScopes -> [Minutes -> SUBSET Calls]]
    BY <1>0, <1>1, <2>1
  <2>3. RateTypeOK'
    BY <1>0, <1>3, <2>1, <2>2
  <2>4. ASSUME NEW r \in RateScopes, NEW v \in Minutes PROVE WindowInv(r, v)'
    <3>1. WindowInv(r, v)
      BY <1>0
    <3>2. CASE r = s /\ v = w
      <4>1. passed'[r][v] = more /\ count'[r][v] = count[s][w] + 1
        BY <1>0, <1>1, <1>2, <2>1, <3>2
      <4>2. IsFiniteSet(passed[s][w]) /\ Cardinality(passed[s][w]) <= count[s][w]
        BY <1>1, <3>1, <3>2 DEF WindowInv
      <4>3. /\ IsFiniteSet(more) /\ Cardinality(passed[s][w]) \in Nat /\ Cardinality(more) \in Nat
            /\ Cardinality(more) <= Cardinality(passed[s][w]) + 1
        BY <4>2, OneMore
      <4>4. Limit[s] \in Nat
        BY RateConstants
      <4>5. Cardinality(more) <= count[s][w] + 1 /\ Cardinality(more) <= Limit[s]
        BY <1>1, <1>6, <4>2, <4>3, <4>4
      <4> HIDE DEF more
      <4> QED
        BY <3>2, <4>1, <4>3, <4>5 DEF WindowInv
    <3>3. CASE ~(r = s /\ v = w)
      <4>1. passed'[r][v] = passed[r][v] /\ count'[r][v] = count[r][v]
        BY <1>0, <1>1, <1>2, <2>1, <3>3
      <4> QED
        BY <3>1, <4>1 DEF WindowInv
    <3> QED
      BY <3>2, <3>3
  <2>5. \A r \in RateScopes, v \in Minutes : passed[r][v] \subseteq passed'[r][v]
    BY <1>0, <1>1, <2>1
  <2>6. AddressFirst'
    <3> SUFFICES ASSUME NEW d \in Calls, call'[d] \in {"find", "key", "served", "anonymous"}
                 PROVE  \E v \in Minutes : d \in passed'[ip[d]][v]
      BY DEF AddressFirst
    <3>1. ip[d] \in RateScopes
      BY <1>0 DEF RateScopes
    <3>2. CASE d = c /\ call[c] = "ip"
      <4>1. c \in passed'[s][w]
        BY <1>0, <1>1, <2>1
      <4> QED
        BY <1>1, <3>2, <4>1
    <3>3. CASE call[d] \in {"find", "key", "served", "anonymous"}
      <4>1. PICK v \in Minutes : d \in passed[ip[d]][v]
        BY <1>0, <3>3 DEF AddressFirst
      <4> QED
        BY <2>5, <3>1, <4>1
    <3> QED
      BY <1>4, <3>2, <3>3
  <2>7. \A d \in Calls : LagInv(d)'
    BY <1>0, <2>1 DEF LagInv
  <2> QED
    BY <2>3, <2>4, <2>6, <2>7, RatePartsNext
<1> QED
  BY <1>1, <1>5, <1>6, RateConstants

\* A clock that is read is not behind by more than MaxLag.
LEMMA ClockIsRead ==
  ASSUME RateTypeOK, NEW c \in Calls, ReadsClock(c)
  PROVE  /\ windowStart' \in [Calls -> Minutes]
         /\ windowStart'[c] <= minute /\ minute <= windowStart'[c] + MaxLag
         /\ \A d \in Calls : d # c => windowStart'[d] = windowStart[d]
BY DEF RateTypeOK, ReadsClock

\* Steps that count nothing.
LEMMA CallKeeps ==
  ASSUME RateInv, NEW c \in Calls, ReceiveCall(c) \/ FindKey(c)
  PROVE  RateInv'
<1>0. RateTypeOK /\ AddressFirst /\ (\A r \in RateScopes, v \in Minutes : WindowInv(r, v)) /\ \A d \in Calls : LagInv(d)
  BY RateParts
<1>1. /\ UNCHANGED <<minute, count, ip, key, passed>>
      /\ call' \in [Calls -> {"new", "ip", "find", "key", "served", "limited", "anonymous"}]
      /\ \A d \in Calls : d # c => call'[d] = call[d]
      /\ call'[c] \in {"key", "anonymous"} => call[c] = "find"
      /\ call'[c] \in {"ip", "key", "anonymous"}
      /\ call'[c] = "key" => key[c] # BadKey
      /\ IF call'[c] = "anonymous" THEN UNCHANGED windowStart ELSE ReadsClock(c)
  BY <1>0 DEF ReceiveCall, FindKey, RateTypeOK
<1>2. /\ windowStart' \in [Calls -> Minutes]
      /\ call'[c] # "anonymous" => windowStart'[c] <= minute /\ minute <= windowStart'[c] + MaxLag
      /\ \A d \in Calls : d # c => windowStart'[d] = windowStart[d]
  BY <1>0, <1>1, ClockIsRead DEF RateTypeOK
<1>3. RateTypeOK'
  BY <1>0, <1>1, <1>2 DEF RateTypeOK
<1>4. AddressFirst'
  BY <1>0, <1>1 DEF AddressFirst
<1>5. \A s \in RateScopes, w \in Minutes : WindowInv(s, w)'
  BY <1>0, <1>1 DEF WindowInv
<1>6. \A d \in Calls : LagInv(d)'
  BY <1>0, <1>1, <1>2 DEF LagInv
<1> QED
  BY <1>3, <1>4, <1>5, <1>6, RatePartsNext

\* The clock and the sweep: no window that a request under way may count in
\* is behind the cutoff.
LEMMA ClockKeeps ==
  ASSUME RateInv, MinutePasses \/ SweepWindows \/ UNCHANGED rateVars
  PROVE  RateInv'
<1>0. RateTypeOK /\ AddressFirst /\ (\A r \in RateScopes, v \in Minutes : WindowInv(r, v)) /\ \A d \in Calls : LagInv(d)
  BY RateParts
<1>1. UNCHANGED <<call, ip, key, windowStart, passed>>
  BY DEF MinutePasses, SweepWindows, rateVars, callVars
<1>2. AddressFirst'
  BY <1>0, <1>1 DEF AddressFirst
<1>3. CASE MinutePasses
  <2>1. /\ minute' = minute + 1 /\ minute < MaxMinute /\ count' = count
        /\ \A c \in Calls : call[c] \in {"ip", "key"} => minute < windowStart[c] + MaxLag
    BY <1>3 DEF MinutePasses
  <2>2. minute \in Nat /\ \A c \in Calls : windowStart[c] \in Nat
    BY <1>0 DEF RateTypeOK, Minutes
  <2>3. RateTypeOK'
    BY <1>0, <1>1, <2>1, <2>2, RateConstants DEF RateTypeOK, Minutes
  <2>4. \A s \in RateScopes, w \in Minutes : WindowInv(s, w)'
    BY <1>0, <1>1, <2>1, <2>2, RateConstants DEF WindowInv, Minutes
  <2>5. \A c \in Calls : LagInv(c)'
    BY <1>0, <1>1, <2>1, <2>2, RateConstants DEF LagInv
  <2> QED
    BY <1>2, <2>3, <2>4, <2>5, RatePartsNext
<1>4. CASE SweepWindows
  <2>1. PICK gone \in SUBSET {w \in Minutes : w < minute - KeepWindows} :
          count' = [s \in RateScopes |-> [w \in Minutes |-> IF w \in gone THEN 0 ELSE count[s][w]]]
    BY <1>4 DEF SweepWindows
  <2>2. minute' = minute
    BY <1>4 DEF SweepWindows
  <2>3. RateTypeOK'
    BY <1>0, <1>1, <2>1, <2>2 DEF RateTypeOK
  <2>4. ASSUME NEW s \in RateScopes, NEW w \in Minutes PROVE WindowInv(s, w)'
    <3>1. w >= minute - KeepWindows => count'[s][w] = count[s][w]
      BY <1>0, <2>1, RateConstants DEF RateTypeOK, Minutes
    <3> QED
      BY <1>0, <1>1, <2>2, <3>1 DEF WindowInv
  <2>5. \A c \in Calls : LagInv(c)'
    BY <1>0, <1>1, <2>2 DEF LagInv
  <2> QED
    BY <1>2, <2>3, <2>4, <2>5, RatePartsNext
<1>5. CASE UNCHANGED rateVars
  <2>1. minute' = minute /\ count' = count
    BY <1>5 DEF rateVars
  <2> QED
    BY <1>0, <1>1, <1>2, <2>1, RatePartsNext DEF RateTypeOK, WindowInv, LagInv
<1> QED
  BY <1>3, <1>4, <1>5

\* For any number of requests, addresses and keys, and clocks that lag: no
\* bucket lets more through in a window than its cap, and no request goes on
\* that its address has not been counted for.
THEOREM RatesHold == RateSpec => []RateInv
<1>1. RateInit => RateInv
  <2> SUFFICES ASSUME RateInit PROVE RateInv
    OBVIOUS
  <2>1. RateTypeOK
    BY RateConstants DEF RateInit, RateTypeOK, Minutes
  <2>2. AddressFirst /\ \A c \in Calls : LagInv(c)
    BY DEF RateInit, AddressFirst, LagInv
  <2>3. \A s \in RateScopes, w \in Minutes : WindowInv(s, w)
    BY RateConstants, FS_EmptySet DEF RateInit, WindowInv
  <2> QED
    BY <2>1, <2>2, <2>3, RateParts
<1>2. RateInv /\ [RateNext]_rateVars => RateInv'
  <2> SUFFICES ASSUME RateInv, [RateNext]_rateVars PROVE RateInv'
    OBVIOUS
  <2>1. ASSUME NEW c \in Calls, EnforceIpRateLimit(c) PROVE RateInv'
    <3>1. ip[c] \in RateScopes
      BY DEF RateInv, RateTypeOK, RateScopes
    <3> QED
      BY <2>1, <3>1, BumpKeeps DEF EnforceIpRateLimit
  <2>2. ASSUME NEW c \in Calls, EnforceApiKeyRateLimit(c) PROVE RateInv'
    <3>1. key[c] \in RateScopes
      BY <2>2, RateParts DEF LagInv, RateTypeOK, RateScopes, EnforceApiKeyRateLimit
    <3> QED
      BY <2>2, <3>1, BumpKeeps DEF EnforceApiKeyRateLimit
  <2> QED
    BY <2>1, <2>2, CallKeeps, ClockKeeps DEF RateNext
<1> QED
  BY <1>1, <1>2, PTL DEF RateSpec
=============================================================================
