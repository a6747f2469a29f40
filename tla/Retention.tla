----------------------------- MODULE Retention -----------------------------
(***************************************************************************)
(* The life of the stored evidence of one organisation: intake bakes the   *)
(* expiry of the policy in force into the row (lib/server/evidence.ts), an *)
(* agent run adds its row in a second statement (agent-runs.ts),           *)
(* verifications count on it (verify-server.ts), and the retention sweep   *)
(* deletes what has expired and announces it (retention.ts).               *)
(*                                                                         *)
(* Time is counted in days.  Every await separates two steps, and requests *)
(* and sweeps may die at any of them.                                      *)
(***************************************************************************)
EXTENDS Integers, FiniteSets

CONSTANTS
  Envelopes,        \* rows of evidence_envelope, one per intake
  AgentEnvelopes,   \* those submitted through the agent-runs route
  Verifiers,        \* verification requests
  Sweeps,           \* retention sweeps that may overlap
  SweepCrons,       \* those of the cron, that do not die for ever
  Windows,          \* window_days an organisation may set
  DefaultWindow,    \* DEFAULT_RETENTION_DAYS
  BatchSize,        \* rows a sweep selects at most
  Nobody,           \* no envelope
  MaxDay,           \* bound: no day after it
  Verifiable,       \* bound: the envelopes that are verified
  MaxVerifications  \* bound: an envelope is not verified more often

ASSUME RetentionAssumption ==
  /\ AgentEnvelopes \subseteq Envelopes /\ Nobody \notin Envelopes
  /\ SweepCrons \subseteq Sweeps
  /\ Windows \subseteq Nat \ {0} /\ DefaultWindow \in Nat \ {0}
  /\ BatchSize \in Nat \ {0} /\ MaxDay \in Nat /\ MaxVerifications \in Nat

VARIABLES
  day,
  policy,           \* retention_policy.window_days, or 0 without a row
  \* table evidence_envelope
  stored,           \* stored[e]: "absent", "stored" or "gone"
  expiresAt, verificationCount,
  agentRun,         \* agentRun[e]: the envelope has its agent_run row
  \* an intake: its point, and the window it has read
  intake, window,
  \* a verification: its envelope, and the count it has read
  verifying, countRead,
  verifications,    \* history: verifications[e] have written their count
  \* a sweep: its point, and the rows it has selected
  sweeping, selected,
  announced         \* envelopes whose evidence.expired has been fanned out

tableVars == <<stored, expiresAt, verificationCount, agentRun>>
intakeVars == <<intake, window>>
verifyVars == <<verifying, countRead, verifications>>
sweepVars == <<sweeping, selected, announced>>
retentionVars == <<day, policy, tableVars, intakeVars, verifyVars, sweepVars>>

RetentionTypeOK ==
  /\ day \in Nat /\ policy \in Nat
  /\ stored \in [Envelopes -> {"absent", "stored", "gone"}]
  /\ expiresAt \in [Envelopes -> Nat]
  /\ verificationCount \in [Envelopes -> Nat]
  /\ agentRun \in [Envelopes -> BOOLEAN]
  /\ intake \in [Envelopes -> {"new", "insert", "run", "over"}]
  /\ window \in [Envelopes -> Nat]
  /\ verifying \in [Verifiers -> Envelopes \cup {Nobody}]
  /\ countRead \in [Verifiers -> Nat]
  /\ verifications \in [Envelopes -> Nat]
  /\ sweeping \in [Sweeps -> {"idle", "delete", "announce"}]
  /\ selected \in [Sweeps -> SUBSET Envelopes]
  /\ announced \in SUBSET Envelopes

RetentionInit ==
  /\ day = 0 /\ policy = 0
  /\ stored = [e \in Envelopes |-> "absent"]
  /\ expiresAt = [e \in Envelopes |-> 0]
  /\ verificationCount = [e \in Envelopes |-> 0]
  /\ agentRun = [e \in Envelopes |-> FALSE]
  /\ intake = [e \in Envelopes |-> "new"]
  /\ window = [e \in Envelopes |-> 0]
  /\ verifying = [v \in Verifiers |-> Nobody]
  /\ countRead = [v \in Verifiers |-> 0]
  /\ verifications = [e \in Envelopes |-> 0]
  /\ sweeping = [s \in Sweeps |-> "idle"]
  /\ selected = [s \in Sweeps |-> {}]
  /\ announced = {}

DayPasses ==
  /\ day < MaxDay
  /\ day' = day + 1
  /\ UNCHANGED <<policy, tableVars, intakeVars, verifyVars, sweepVars>>

-----------------------------------------------------------------------------
(* The policy. *)

\* Mutant: a new policy rewrites the expiry of the rows that are stored.
MutSetRetentionPolicy(days) ==
  /\ policy' = days
  /\ expiresAt' = [e \in Envelopes |->
       IF stored[e] = "stored" THEN day + days ELSE expiresAt[e]]
  /\ UNCHANGED <<day, stored, verificationCount, agentRun, intakeVars, verifyVars, sweepVars>>

\* An upsert; rows already stored keep the expiry they have.
SetRetentionPolicy(days) ==
  /\ policy' = days
  /\ UNCHANGED <<day, tableVars, intakeVars, verifyVars, sweepVars>>

EffectiveWindow == IF policy > 0 THEN policy ELSE DefaultWindow

-----------------------------------------------------------------------------
(* Intake. *)

ReadWindow(e) ==
  /\ intake[e] = "new"
  /\ intake' = [intake EXCEPT ![e] = "insert"]
  /\ window' = [window EXCEPT ![e] = EffectiveWindow]
  /\ UNCHANGED <<day, policy, tableVars, verifyVars, sweepVars>>

\* created_at is read after the window and stored with the sum of the two.
InsertEnvelope(e) ==
  /\ intake[e] = "insert"
  /\ stored' = [stored EXCEPT ![e] = "stored"]
  /\ expiresAt' = [expiresAt EXCEPT ![e] = day + window[e]]
  /\ intake' = [intake EXCEPT ![e] = IF e \in AgentEnvelopes THEN "run" ELSE "over"]
  /\ UNCHANGED <<day, policy, verificationCount, agentRun, window, verifyVars, sweepVars>>

\* The agent_run row refers to its envelope: once a sweep has taken it, the
\* insert fails.
InsertAgentRun(e) ==
  /\ intake[e] = "run"
  /\ agentRun' = [agentRun EXCEPT ![e] = (stored[e] = "stored")]
  /\ intake' = [intake EXCEPT ![e] = "over"]
  /\ UNCHANGED <<day, policy, stored, expiresAt, verificationCount, window, verifyVars, sweepVars>>

\* The request dies, or one of its statements throws.
AbandonIntake(e) ==
  /\ intake[e] \in {"insert", "run"}
  /\ intake' = [intake EXCEPT ![e] = "over"]
  /\ UNCHANGED <<day, policy, tableVars, window, verifyVars, sweepVars>>

-----------------------------------------------------------------------------
(* Verification by envelope id. *)

ReadForVerify(v, e) ==
  /\ verifying[v] = Nobody
  /\ stored[e] = "stored" /\ e \in Verifiable /\ verifications[e] < MaxVerifications
  /\ verifying' = [verifying EXCEPT ![v] = e]
  /\ countRead' = [countRead EXCEPT ![v] = verificationCount[e]]
  /\ UNCHANGED <<day, policy, tableVars, intakeVars, verifications, sweepVars>>

EndVerify(v) ==
  /\ verifying' = [verifying EXCEPT ![v] = Nobody]
  /\ countRead' = [countRead EXCEPT ![v] = 0]

\* Mutant: the count is written with what was read.
MutWriteCount(v) ==
  LET e == verifying[v] IN
  /\ e # Nobody
  /\ IF stored[e] = "stored"
       THEN /\ verificationCount' = [verificationCount EXCEPT ![e] = countRead[v]]
            /\ verifications' = [verifications EXCEPT ![e] = @ + 1]
       ELSE UNCHANGED <<verificationCount, verifications>>
  /\ EndVerify(v)
  /\ UNCHANGED <<day, policy, stored, expiresAt, agentRun, intakeVars, sweepVars>>

\* The count that was read before the verification, plus one; an UPDATE of a
\* row that the sweep has taken meanwhile changes nothing.
WriteCount(v) ==
  LET e == verifying[v] IN
  /\ e # Nobody
  /\ IF stored[e] = "stored"
       THEN /\ verificationCount' = [verificationCount EXCEPT ![e] = countRead[v] + 1]
            /\ verifications' = [verifications EXCEPT ![e] = @ + 1]
       ELSE UNCHANGED <<verificationCount, verifications>>
  /\ EndVerify(v)
  /\ UNCHANGED <<day, policy, stored, expiresAt, agentRun, intakeVars, sweepVars>>

\* The request dies, or the update fails and the failure is logged only.
AbandonVerify(v) ==
  /\ verifying[v] # Nobody
  /\ EndVerify(v)
  /\ UNCHANGED <<day, policy, tableVars, intakeVars, verifications, sweepVars>>

-----------------------------------------------------------------------------
(* The sweep. *)

Expired == {e \in Envelopes : stored[e] = "stored" /\ expiresAt[e] < day}

\* Mutant: the batch is announced as it is selected.
MutSelectExpired(s) ==
  /\ sweeping[s] = "idle"
  /\ Expired # {}
  /\ \E batch \in SUBSET Expired :
       /\ Cardinality(batch) <= BatchSize
       /\ batch = Expired \/ Cardinality(batch) = BatchSize
       /\ selected' = [selected EXCEPT ![s] = batch]
       /\ announced' = announced \cup batch
  /\ sweeping' = [sweeping EXCEPT ![s] = "delete"]
  /\ UNCHANGED <<day, policy, tableVars, intakeVars, verifyVars>>

\* Any batch of the expired rows, in no order; all of them when they fit.
SelectExpired(s) ==
  /\ sweeping[s] = "idle"
  /\ Expired # {}
  /\ \E batch \in SUBSET Expired :
       /\ Cardinality(batch) <= BatchSize
       /\ batch = Expired \/ Cardinality(batch) = BatchSize
       /\ selected' = [selected EXCEPT ![s] = batch]
  /\ sweeping' = [sweeping EXCEPT ![s] = "delete"]
  /\ UNCHANGED <<day, policy, tableVars, intakeVars, verifyVars, announced>>

\* Mutant: agent_run restricts the delete of its envelope instead of cascading.
MutDeleteSelected(s) ==
  /\ sweeping[s] = "delete"
  /\ stored' = IF \E e \in selected[s] : agentRun[e] THEN stored
                ELSE [e \in Envelopes |-> IF e \in selected[s] THEN "gone" ELSE stored[e]]
  /\ agentRun' = agentRun
  /\ sweeping' = [sweeping EXCEPT ![s] = "announce"]
  /\ UNCHANGED <<day, policy, expiresAt, verificationCount, intakeVars, verifyVars, selected, announced>>

\* By id, without a second look at the expiry; the agent_run rows cascade.
DeleteSelected(s) ==
  /\ sweeping[s] = "delete"
  /\ stored' = [e \in Envelopes |-> IF e \in selected[s] THEN "gone" ELSE stored[e]]
  /\ agentRun' = [e \in Envelopes |-> agentRun[e] /\ e \notin selected[s]]
  /\ sweeping' = [sweeping EXCEPT ![s] = "announce"]
  /\ UNCHANGED <<day, policy, expiresAt, verificationCount, intakeVars, verifyVars, selected, announced>>

EndSweep(s) ==
  /\ sweeping' = [sweeping EXCEPT ![s] = "idle"]
  /\ selected' = [selected EXCEPT ![s] = {}]

\* Every row that was selected is announced, whichever sweep has deleted it.
\* A full batch is followed by the next, which is a SelectExpired.
AnnounceSelected(s) ==
  /\ sweeping[s] = "announce"
  /\ announced' = announced \cup selected[s]
  /\ EndSweep(s)
  /\ UNCHANGED <<day, policy, tableVars, intakeVars, verifyVars>>

\* The sweep dies, or a statement throws; what it has deleted stays deleted,
\* and is announced by nobody.
AbandonSweep(s) ==
  /\ sweeping[s] # "idle"
  /\ EndSweep(s)
  /\ UNCHANGED <<day, policy, tableVars, intakeVars, verifyVars, announced>>

-----------------------------------------------------------------------------
Intake(e) == ReadWindow(e) \/ InsertEnvelope(e) \/ InsertAgentRun(e) \/ AbandonIntake(e)

Verify(v) == (\E e \in Envelopes : ReadForVerify(v, e)) \/ WriteCount(v) \/ AbandonVerify(v)

Sweep(s) == SelectExpired(s) \/ DeleteSelected(s) \/ AnnounceSelected(s) \/ AbandonSweep(s)

RetentionNext ==
  \/ DayPasses
  \/ \E days \in Windows : SetRetentionPolicy(days)
  \/ \E e \in Envelopes : Intake(e)
  \/ \E v \in Verifiers : Verify(v)
  \/ \E s \in Sweeps : Sweep(s)

RetentionSpec == RetentionInit /\ [][RetentionNext]_retentionVars

-----------------------------------------------------------------------------
(* What the store promises. *)

\* A sweep has only selected rows that had expired, and deletes only those,
\* though it looks at no expiry when it deletes.
SelectedInv(s) ==
  /\ sweeping[s] = "idle" => selected[s] = {}
  /\ \A e \in selected[s] :
       /\ expiresAt[e] < day /\ stored[e] # "absent"
       /\ sweeping[s] = "announce" => stored[e] = "gone"

\* evidence.expired is only announced of an envelope that is gone, with
\* overlapping and dying sweeps.
AnnouncedIsGone == \A e \in announced : stored[e] = "gone"

\* An agent run always has its envelope, whatever the order in which the
\* sweep and the second insert of the request come.
RunHasItsEnvelope == \A e \in Envelopes : agentRun[e] => stored[e] = "stored"

IntakeInv(e) ==
  /\ intake[e] = "new" => stored[e] = "absent"
  /\ intake[e] = "insert" => stored[e] = "absent" /\ window[e] \in Windows \cup {DefaultWindow}
  /\ stored[e] = "absent" => expiresAt[e] = 0 /\ verifications[e] = 0 /\ verificationCount[e] = 0

RetentionInv ==
  /\ RetentionTypeOK
  /\ policy \in Windows \cup {0}
  /\ AnnouncedIsGone /\ RunHasItsEnvelope
  /\ \A s \in Sweeps : SelectedInv(s)
  /\ \A e \in Envelopes : IntakeInv(e)

\* Concurrent verifications may lose each other's count, but an envelope that
\* has been verified never counts as never verified, and the count never
\* exceeds the verifications there were.
VerifiedIsCounted ==
  \A e \in Envelopes :
    /\ verificationCount[e] <= verifications[e]
    /\ verifications[e] > 0 => verificationCount[e] > 0

\* What it rests on: a count that was read is of verifications that have been
\* written since, so writing one more is never ahead of them.
CountsInv ==
  /\ VerifiedIsCounted
  /\ \A v \in Verifiers : verifying[v] # Nobody => countRead[v] <= verifications[verifying[v]]

\* Under a cron that does not die at the same point for ever, a backlog of
\* expired envelopes is worked off, whatever the other sweeps do: an expired
\* row stays one until it is deleted, so each of them is.
ExpiredIsDeleted == (Expired # {}) ~> (Expired = {})

\* Every step of intake, verification and sweep is a step of RetainedStore or
\* changes nothing of it: no policy change, overlap or crash makes an envelope
\* expire earlier or later than was fixed when it was sealed.
Store == INSTANCE RetainedStore WITH
  Records <- Envelopes, Windows <- Windows \cup {DefaultWindow},
  today <- day, state <- stored, until <- expiresAt

ImplementsRetainedStore == Store!Spec
=============================================================================
