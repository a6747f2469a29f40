------------------------------ MODULE Uploader ------------------------------
(***************************************************************************)
(* A pay-as-you-go upload in the browser: anchorPayg of                    *)
(* hooks/useFileUploader.ts, the record of lib/anchor/resume.ts it resumes *)
(* from, and the loop over the sends of a pass (anchorChunkedFile of       *)
(* packages/sdk-evm, runSequentialChunkedAnchor of packages/utils).        *)
(*                                                                         *)
(* One file with one set of settings.  When another chain stores the       *)
(* bytes, a storing pass precedes the anchoring pass.  Each pass sends the *)
(* chunks 0 .. Chunks - 1 and then the file anchor, number Chunks.  A hash *)
(* stands for the send it is of.                                           *)
(***************************************************************************)
EXTENDS Integers, Sequences

CONSTANTS
  Chunks,           \* chunks of the file
  MaxLanded         \* bound: a send does not land more often

ASSUME UploaderAssumption == Chunks \in Nat \ {0} /\ MaxLanded \in Nat \ {0}

VARIABLES
  apart,            \* the bytes go to another chain than the anchors
  run,              \* "idle", a pass, "done", "simulated" or "served"
  resume,           \* the record this run has started from
  at, hashes,       \* of the pass: its next send, and the hashes it has
  storageHashes,    \* of the storing pass that this run has completed or reused
  kept, saved,      \* the record in memory (partialAnchor) and in localStorage
  \* the chains
  landed,           \* landed[p][i]: how often send i of pass p has landed
  doubtful,         \* history: sends that landed with their answer lost
  forgotten         \* history: a record, or hashes not yet in one, were lost

runVars == <<run, resume, at, hashes, storageHashes>>
chainVars == <<landed, doubtful>>
uploaderVars == <<apart, runVars, kept, saved, chainVars, forgotten>>

Passes == {"storing", "anchoring"}
Sends == 0 .. Chunks

NoRecord == [phase |-> "none"]
Records ==
  [phase : Passes, from : Sends, hashes : Seq(Sends), storageHashes : Seq(Sends)] \cup {NoRecord}

UploaderTypeOK ==
  /\ apart \in BOOLEAN
  /\ run \in {"idle", "done", "simulated", "served"} \cup Passes
  /\ {resume, kept, saved} \subseteq Records
  /\ at \in 0 .. Chunks + 1
  /\ hashes \in Seq(Sends) /\ storageHashes \in Seq(Sends)
  /\ landed \in [Passes -> [Sends -> Nat]]
  /\ doubtful \in SUBSET (Passes \X Sends) /\ forgotten \in BOOLEAN

UploaderInit ==
  /\ apart \in BOOLEAN
  /\ run = "idle" /\ resume = NoRecord
  /\ at = 0 /\ hashes = <<>> /\ storageHashes = <<>>
  /\ kept = NoRecord /\ saved = NoRecord
  /\ landed = [p \in Passes |-> [i \in Sends |-> 0]]
  /\ doubtful = {} /\ forgotten = FALSE

\* The first send of a pass, and the hashes it begins with.
StartOf(phase, r) == IF r.phase = phase THEN r.from ELSE 0
PriorOf(phase, r) == IF r.phase = phase THEN r.hashes ELSE <<>>

BeginPass(phase, r) ==
  run' = phase /\ at' = StartOf(phase, r) /\ hashes' = PriorOf(phase, r)

-----------------------------------------------------------------------------
\* Mutant: the bytes are stored again when the anchoring pass is resumed.
MutAnchor ==
  /\ run = "idle"
  /\ resume' = kept
  /\ BeginPass(IF apart THEN "storing" ELSE "anchoring", kept) /\ storageHashes' = <<>>
  /\ UNCHANGED <<apart, kept, saved, chainVars, forgotten>>

\* The user confirms the upload.  A record of the anchoring pass stands for a
\* storing pass that was completed.
Anchor ==
  /\ run = "idle"
  /\ resume' = kept
  /\ IF apart /\ kept.phase # "anchoring"
       THEN BeginPass("storing", kept) /\ storageHashes' = <<>>
       ELSE /\ BeginPass("anchoring", kept)
            /\ storageHashes' = IF kept.phase = "anchoring" THEN kept.storageHashes ELSE <<>>
  /\ UNCHANGED <<apart, kept, saved, chainVars, forgotten>>

Stopped == run' = "idle" /\ resume' = NoRecord /\ at' = 0 /\ hashes' = <<>> /\ storageHashes' = <<>>

\* The wallet is not connected, or the like: the pass ends before its first
\* send with an error that is not a PartialAnchorError, and records nothing.
SetupFails ==
  /\ run \in Passes /\ at = StartOf(run, resume)
  /\ hashes = PriorOf(run, resume)
  /\ Stopped
  /\ forgotten' = (forgotten \/ (run = "anchoring" /\ apart /\ resume.phase # "anchoring"))
  /\ UNCHANGED <<apart, kept, saved, chainVars>>

\* ChainNotProvisionedError of the settlement chain: the simulated flow.
FallBack ==
  /\ run = "anchoring" /\ at = StartOf(run, resume)
  /\ run' = "simulated"
  /\ UNCHANGED <<apart, resume, at, hashes, storageHashes, kept, saved, chainVars, forgotten>>

Lands(p, i) == landed' = [landed EXCEPT ![p][i] = @ + 1]

SendLands ==
  /\ run \in Passes /\ at \in Sends /\ landed[run][at] < MaxLanded
  /\ Lands(run, at)
  /\ hashes' = Append(hashes, at) /\ at' = at + 1
  /\ UNCHANGED <<apart, run, resume, storageHashes, kept, saved, doubtful, forgotten>>

\* savePartialAnchor swallows the error of a full or forbidden localStorage.
Keep(record) ==
  /\ kept' = record
  /\ saved' \in {record, saved}

\* Mutant: the record holds the hashes of this attempt only.
MutRecordPartial ==
  Keep([phase |-> run, from |-> at,
        hashes |-> SubSeq(hashes, Len(PriorOf(run, resume)) + 1, Len(hashes)),
        storageHashes |-> storageHashes])

RecordPartial ==
  Keep([phase |-> run, from |-> at, hashes |-> hashes, storageHashes |-> storageHashes])

\* PartialAnchorError: the send has failed, or has landed and its answer has
\* not come, which the page cannot tell apart.
SendFails ==
  /\ run \in Passes /\ at \in Sends
  /\ \/ UNCHANGED chainVars
     \/ /\ landed[run][at] < MaxLanded
        /\ Lands(run, at) /\ doubtful' = doubtful \cup {<<run, at>>}
  /\ RecordPartial
  /\ Stopped
  /\ UNCHANGED <<apart, forgotten>>

StoringEnds ==
  /\ run = "storing" /\ at = Chunks + 1
  /\ storageHashes' = hashes
  /\ BeginPass("anchoring", resume)
  /\ UNCHANGED <<apart, resume, kept, saved, chainVars, forgotten>>

ForgetRecord == kept' = NoRecord /\ saved' = NoRecord

AnchoringEnds ==
  /\ run = "anchoring" /\ at = Chunks + 1
  /\ run' = "done"
  /\ ForgetRecord
  /\ UNCHANGED <<apart, resume, at, hashes, storageHashes, chainVars, forgotten>>

\* The user pays with credits or an own key: the server anchors the file.
AnchorOnServer ==
  /\ run = "idle"
  /\ run' = "served"
  /\ ForgetRecord
  /\ UNCHANGED <<apart, resume, at, hashes, storageHashes, chainVars, forgotten>>

-----------------------------------------------------------------------------
(* What happens around a run. *)

\* The page is reloaded, or another file is prepared and then this one again:
\* what is in localStorage is taken up.
Reload ==
  /\ run \in Passes \cup {"idle"}
  /\ kept' = saved
  /\ forgotten' = (forgotten \/ run \in Passes \/ kept # saved)
  /\ Stopped
  /\ UNCHANGED <<apart, saved, chainVars>>

\* The record is older than a week, or is overwritten by that of another
\* upload: there is one key in localStorage.
LoseRecord ==
  /\ run = "idle" /\ saved # NoRecord
  /\ ForgetRecord
  /\ forgotten' = TRUE
  /\ UNCHANGED <<apart, runVars, chainVars>>

UploaderNext ==
  \/ Anchor \/ SetupFails \/ FallBack \/ SendLands \/ SendFails \/ StoringEnds \/ AnchoringEnds
  \/ AnchorOnServer \/ Reload \/ LoseRecord

UploaderSpec == UploaderInit /\ [][UploaderNext]_uploaderVars

-----------------------------------------------------------------------------
(* What an upload promises. *)

Landed(p, i) == landed[p][i] > 0

\* Chunks come first, whatever attempts a pass is made of: the file anchor has
\* landed only behind all of its chunks, and the anchoring pass has sent
\* nothing before the bytes are stored.
ChunksFirst ==
  /\ \A p \in Passes : Landed(p, Chunks) => \A i \in Sends : Landed(p, i)
  /\ apart /\ (\E i \in Sends : Landed("anchoring", i)) => \A i \in Sends : Landed("storing", i)

\* The hashes of the first n sends, in order.
Prefix(n) == [i \in 1 .. n |-> i - 1]

All == Prefix(Chunks + 1)

\* An upload that ends has every send on the chain, and its outcome lists one
\* hash of each, in order, across all of the attempts, the storage hashes too.
OutcomeIsComplete ==
  run = "done" =>
    /\ \A i \in Sends : Landed("anchoring", i)
    /\ hashes = All
    /\ apart => storageHashes = All

\* The two together, with the types.
UploadInv == UploaderTypeOK /\ ChunksFirst /\ OutcomeIsComplete

\* Nothing that is known to have landed is sent and paid for again, as long as
\* no record or unrecorded progress is lost.
NothingPaidTwice ==
  ~forgotten =>
    \A p \in Passes, i \in Sends : landed[p][i] > 1 => <<p, i>> \in doubtful

\* What the two rest on.  A record and a pass have the hashes of exactly the
\* sends that their pass has behind it.
SentTo(p, n) == \A i \in Sends : i < n => Landed(p, i)

Stored(storage) == apart => storage = All /\ SentTo("storing", Chunks + 1)

RecordInv(r) ==
  r # NoRecord =>
    /\ r.hashes = Prefix(r.from) /\ SentTo(r.phase, r.from)
    /\ r.phase = "storing" => apart
    /\ r.phase = "anchoring" => Stored(r.storageHashes)

PassInv ==
  run \in Passes =>
    /\ resume = kept /\ hashes = Prefix(at) /\ SentTo(run, at)
    /\ run = "storing" => apart /\ resume.phase # "anchoring"
    /\ run = "anchoring" => Stored(storageHashes)

\* What is known to have landed lies before where the pass is, or where the
\* record will let the next one begin.
KnownTo(p, n) == \A i \in Sends : Landed(p, i) /\ <<p, i>> \notin doubtful => i < n

ProgressInv ==
  ~forgotten =>
    /\ run \in Passes => KnownTo(run, at)
    /\ run = "storing" => KnownTo("anchoring", 0)
    /\ run = "idle" =>
         /\ KnownTo("anchoring", StartOf("anchoring", kept))
         /\ kept.phase # "anchoring" => KnownTo("storing", StartOf("storing", kept))

ResumeInv ==
  /\ UploadInv /\ NothingPaidTwice
  /\ RecordInv(kept) /\ RecordInv(saved) /\ PassInv /\ ProgressInv
  /\ ~apart => \A i \in Sends : ~Landed("storing", i)
=============================================================================
