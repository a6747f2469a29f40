---------------------------- MODULE Verification ----------------------------
(***************************************************************************)
(* The life of an evidence envelope and what the verifier reports of it:   *)
(* the functions that build, finalise and sign one                         *)
(* (packages/protocol/src/envelope.ts, packages/sdk/src/evidence.ts) and   *)
(* verifyEnvelope with its receipt adapters (packages/verify/src).         *)
(*                                                                         *)
(* An envelope is a document in a file: between two calls anyone may edit  *)
(* any part of it, but nobody can sign with a key that is not theirs.  A   *)
(* digest is the content itself, a signature the key and what it signed.   *)
(* The subject stands for all that an artifact signature binds: subject,   *)
(* claims, profile, purpose and scope.  Lists are sets, and the document   *)
(* is one that validateEnvelope accepts, which looks into no payload and   *)
(* does not ask that the adapter of a receipt be one of its type.          *)
(***************************************************************************)
EXTENDS Naturals

CONSTANTS
  Subjects, Roots,  \* sha256 digests of subjects, roots of Merkle trees
  LeavesOf,         \* LeavesOf[r]: the subjects under r
  SigningKeys,
  Txs,              \* the chain and transaction hash a receipt may name
  Anchors,          \* Anchors[t]: [evm, hash, ok, binds]: its system has an
                    \* online check, what is written for its hash, it succeeds,
                    \* the values its payload names
  NoTx,             \* no chain and no hash
  NoRoot, NoLeaf, NoBytes, Draft,
  ForgedSettlements, ForgedInclusions,   \* the receipts an editor writes
  MaxSteps          \* bound: changes of the document

Hashes == {"none", "malformed", "well-formed"}

\* A receipt of any list.  Its adapter is a kind of behaviour: Merkle proof,
\* anchoring transaction, stored copy, or none that is registered.  Its payload
\* may hold what any of them reads: a proof that leads from one leaf to a root
\* and may name its leaf; a transaction, in the block it names, if any, or in
\* another; a location of the bytes and what the storage adapter says of it.
Receipts ==
  [adapter : {"merkle", "anchor", "storage", "other"},
   root : Roots \cup {NoRoot}, proves : Subjects \cup {NoLeaf}, leafDigest : Subjects \cup {NoLeaf},
   tx : Txs, otherBlock : BOOLEAN, located : {"pass", "unknown", "fail"}]

ASSUME VerificationAssumption ==
  /\ LeavesOf \in [Roots -> SUBSET Subjects]
  /\ Anchors \in [Txs -> [evm : BOOLEAN, hash : Hashes, ok : BOOLEAN,
                         binds : SUBSET (Subjects \cup Roots)]]
  /\ NoTx \in Txs /\ Anchors[NoTx].hash = "none" /\ ~Anchors[NoTx].evm
  /\ NoRoot \notin Roots /\ NoRoot \notin Subjects
  /\ NoLeaf \notin Subjects /\ NoBytes \notin Subjects
  /\ ForgedSettlements \subseteq Receipts /\ ForgedInclusions \subseteq Receipts
  /\ MaxSteps \in Nat

Modes == {"offline", "down", "up"}    \* online with a dead or a live endpoint

VARIABLES
  doc,              \* the envelope
  signed,           \* every [key, over] that the owner of a key has signed
  mined,            \* transactions on their chain
  fresh,            \* its digest was stamped after the last change of its content
  edited,           \* somebody has edited it by hand
  steps

verificationVars == <<doc, signed, mined, fresh, edited, steps>>

Content(d) ==
  [subject |-> d.subject, signatures |-> d.signatures, settlement |-> d.settlement,
   inclusion |-> d.inclusion]

\* The receipts that the packages write.
SettlementReceipt(t) ==
  [adapter |-> "anchor", root |-> NoRoot, proves |-> NoLeaf, leafDigest |-> NoLeaf,
   tx |-> t, otherBlock |-> FALSE, located |-> "fail"]

InclusionReceipt(r, s) ==
  [adapter |-> "merkle", root |-> r, proves |-> s, leafDigest |-> NoLeaf,
   tx |-> NoTx, otherBlock |-> FALSE, located |-> "fail"]

Sig(key, over) == [key |-> key, over |-> over, payloadDigest |-> over]

Change(d) == d # doc /\ doc' = d /\ steps < MaxSteps /\ steps' = steps + 1

-----------------------------------------------------------------------------
(* Building. *)

\* createEvidence without finalising: artifact signatures, no receipts yet.
BuildEnvelope(s, keys) ==
  [subject |-> s, signatures |-> {Sig(k, s) : k \in keys}, settlement |-> {}, inclusion |-> {},
   envelope |-> Draft]

VerificationInit ==
  /\ \E s \in Subjects, keys \in SUBSET SigningKeys :
       /\ doc = BuildEnvelope(s, keys)
       /\ signed = {[key |-> k, over |-> s] : k \in keys}
  /\ mined = {} /\ fresh = FALSE /\ edited = FALSE /\ steps = 0

\* What a settlement of the envelope may be about.
SettlementBindingTargets(d) ==
  {d.subject} \cup ({i.root : i \in d.inclusion} \ {NoRoot})

\* An honest receipt is of a transaction that anchors the evidence.
AddSettlement(t) ==
  /\ Anchors[t].hash = "well-formed" /\ Anchors[t].ok
  /\ Anchors[t].binds \cap SettlementBindingTargets(doc) # {}
  /\ Change([doc EXCEPT !.settlement = @ \cup {SettlementReceipt(t)}])
  /\ fresh' = FALSE
  /\ UNCHANGED <<signed, mined, edited>>

AddInclusion(r) ==
  /\ doc.subject \in LeavesOf[r]
  /\ Change([doc EXCEPT !.inclusion = @ \cup {InclusionReceipt(r, doc.subject)}])
  /\ fresh' = FALSE
  /\ UNCHANGED <<signed, mined, edited>>

OldSignatures(d) == IF d.envelope = Draft THEN {} ELSE d.envelope.signatures

\* Mutant: finalising again keeps the signatures over the old digest.
MutFinalizeEnvelope(d) ==
  [d EXCEPT !.envelope = [digest |-> Content(d), signatures |-> OldSignatures(d)]]

FinalizeEnvelope(d) ==
  [d EXCEPT !.envelope =
     [digest |-> Content(d),
      signatures |-> {s \in OldSignatures(d) : s.payloadDigest = Content(d)}]]

Finalize ==
  /\ Change(FinalizeEnvelope(doc))
  /\ fresh' = TRUE
  /\ UNCHANGED <<signed, mined, edited>>

\* A draft is finalised first; of a finalised one the digest that it states is
\* signed.  The hosted signer does the same to what is submitted to it.
SignEnvelope(k) ==
  LET final == IF doc.envelope = Draft THEN FinalizeEnvelope(doc) ELSE doc
      digest == final.envelope.digest IN
  /\ Change([final EXCEPT !.envelope.signatures = @ \cup {Sig(k, digest)}])
  /\ signed' = signed \cup {[key |-> k, over |-> digest]}
  /\ fresh' = (fresh \/ doc.envelope = Draft)
  /\ UNCHANGED <<mined, edited>>

\* Only of a chain with an online check does anyone ask.  A transaction stays in
\* the block it was mined in.
Mine(t) ==
  /\ Anchors[t].evm /\ Anchors[t].hash = "well-formed" /\ mined' = mined \cup {t}
  /\ UNCHANGED <<doc, signed, fresh, edited, steps>>

-----------------------------------------------------------------------------
(* Editing (external): all of it but the signing. *)

Made(s) == [key |-> s.key, over |-> s.over] \in signed

\* Any signature its owner has made may be put anywhere, with another digest.
Replays(d) ==
  {s \in [key : SigningKeys, over : {q.over : q \in signed},
          payloadDigest : {d.subject, Content(d)}] : Made(s)}

Edits(d) ==
  {[d EXCEPT !.subject = s] : s \in Subjects}
  \cup {[d EXCEPT !.settlement = @ \cup {r}] : r \in ForgedSettlements}
  \cup {[d EXCEPT !.inclusion = @ \cup {i}] : i \in ForgedInclusions}
  \cup {[d EXCEPT !.settlement = {}, !.inclusion = {}], [d EXCEPT !.signatures = {}]}
  \cup {[d EXCEPT !.signatures = {s}] : s \in Replays(d)}
  \cup {[d EXCEPT !.envelope = [digest |-> Content(d), signatures |-> {}]]}
  \cup {[d EXCEPT !.envelope = [digest |-> Content(d), signatures |-> {s}]] : s \in Replays(d)}

Edit ==
  /\ \E d \in Edits(doc) : Change(d)
  /\ edited' = TRUE
  /\ UNCHANGED <<signed, mined, fresh>>

VerificationNext ==
  \/ \E t \in Txs : AddSettlement(t) \/ Mine(t)
  \/ \E r \in Roots : AddInclusion(r)
  \/ Finalize
  \/ \E k \in SigningKeys : SignEnvelope(k)
  \/ Edit

VerificationSpec == VerificationInit /\ [][VerificationNext]_verificationVars

-----------------------------------------------------------------------------
(* The verifier.  A check is its group and its status. *)

Check(group, status) == [group |-> group, status |-> status]

\* payloadDigest is compared before the signature is looked at.
SignatureStatus(s, payload) ==
  IF s.payloadDigest = payload /\ s.over = payload THEN "pass" ELSE "fail"

SubjectChecks(d, bytes) ==
  {Check("subject", CASE bytes = NoBytes -> "skipped"
                      [] bytes = d.subject -> "pass"
                      [] OTHER -> "fail")}

ArtifactChecks(d) ==
  IF d.signatures = {} THEN {Check("artifact-signatures", "warning")}
  ELSE {Check("artifact-signatures", SignatureStatus(s, d.subject)) : s \in d.signatures}
       \cup {Check("key-status", "unknown") :
               s \in {q \in d.signatures : q.payloadDigest = d.subject}}

ValidSignatures(d) ==
  {s \in d.envelope.signatures : SignatureStatus(s, d.envelope.digest) = "pass"}

EnvelopeChecks(d) ==
  IF d.envelope = Draft THEN {Check("envelope", "warning")}
  ELSE {Check("envelope",
              IF d.envelope.digest # Content(d) THEN "fail"
              ELSE IF ValidSignatures(d) # {} THEN "pass" ELSE "warning")}
       \cup (IF d.envelope.signatures = {} THEN {Check("envelope-signatures", "unknown")} ELSE {})
       \cup {Check("envelope-signatures", SignatureStatus(s, d.envelope.digest)) :
               s \in d.envelope.signatures}

Leaf(i, d) == IF i.leafDigest = NoLeaf THEN d.subject ELSE i.leafDigest

MerkleCheck(r, d) ==
  IF r.root # NoRoot /\ r.proves = Leaf(r, d) /\ r.proves \in LeavesOf[r.root] THEN "pass" ELSE "fail"

OfflineSettlementCheck(r) == IF Anchors[r.tx].hash = "none" THEN "fail" ELSE "unknown"

\* The adapter is looked up by its id, whatever the type of the receipt.
CheckOffline(r, d) ==
  CASE r.adapter = "merkle" -> MerkleCheck(r, d)
    [] r.adapter = "anchor" -> OfflineSettlementCheck(r)
    [] r.adapter = "storage" -> r.located
    [] OTHER -> "unknown"

\* What is no transaction hash fails before anything is asked of the endpoint.
ConfirmEvmAnchorOnline(r, d, mode) ==
  IF Anchors[r.tx].hash # "well-formed" THEN "fail"
  ELSE IF mode = "down" \/ r.tx \notin mined THEN "unknown"
  ELSE IF /\ Anchors[r.tx].ok /\ ~r.otherBlock
          /\ Anchors[r.tx].binds \cap SettlementBindingTargets(d) # {}
    THEN "pass" ELSE "fail"

\* The other adapters have no online check.
OnlineStatus(r, d, mode) ==
  IF r.adapter # "anchor" \/ ~Anchors[r.tx].evm THEN "unknown" ELSE ConfirmEvmAnchorOnline(r, d, mode)

OnlineChecks(r, d, mode, group) ==
  IF mode # "offline" THEN {Check(group, OnlineStatus(r, d, mode))}
  ELSE IF r.adapter = "anchor" THEN {Check(group, "skipped")} ELSE {}

SettlementChecks(d, mode) ==
  UNION {{Check("settlement-receipts", CheckOffline(r, d))}
           \cup OnlineChecks(r, d, mode, "settlement-receipts") : r \in d.settlement}

\* Mutant: a settlement receipt that names the root is enough.
MutAnchored(root, d, mode) ==
  \E r \in d.settlement : root \in Anchors[r.tx].binds

Anchored(root, d, mode) ==
  mode # "offline" /\ \E r \in d.settlement :
    OnlineStatus(r, d, mode) = "pass" /\ root \in Anchors[r.tx].binds

\* What passes and names a root counts only when a confirmed settlement has
\* anchored it.
InclusionStatus(i, d, mode) ==
  IF CheckOffline(i, d) # "pass" \/ i.root = NoRoot \/ Anchored(i.root, d, mode)
    THEN CheckOffline(i, d) ELSE "unknown"

InclusionChecks(d, mode) ==
  UNION {{Check("inclusion-receipts", InclusionStatus(i, d, mode))}
           \cup OnlineChecks(i, d, mode, "inclusion-receipts") : i \in d.inclusion}

Checks(d, bytes, mode) ==
  SubjectChecks(d, bytes) \cup ArtifactChecks(d) \cup EnvelopeChecks(d)
  \cup SettlementChecks(d, mode) \cup InclusionChecks(d, mode)

With(checks, status) == {c \in checks : c.status = status}

Summarize(checks, incomplete) ==
  IF With(checks, "fail") # {} THEN "invalid"
  ELSE IF incomplete THEN "incomplete"
  ELSE IF With(checks, "warning") \cup With(checks, "unknown") # {} THEN "valid-with-warnings"
  ELSE "valid"

VerifyEnvelope(d, bytes, mode) ==
  LET checks == Checks(d, bytes, mode) IN
  [status |-> Summarize(checks, d.envelope = Draft),
   attested |-> \E c \in With(checks, "pass") :
                  c.group \in {"artifact-signatures", "envelope-signatures"},
   checks |-> checks]
-----------------------------------------------------------------------------
(* Properties *)

\* A document and its signatures are no more than their fields.
DocShape ==
  /\ doc = [subject |-> doc.subject, signatures |-> doc.signatures, settlement |-> doc.settlement,
            inclusion |-> doc.inclusion, envelope |-> doc.envelope]
  /\ doc.envelope # Draft =>
       doc.envelope = [digest |-> doc.envelope.digest, signatures |-> doc.envelope.signatures]

VerificationTypeOK ==
  /\ DocShape
  /\ doc.subject \in Subjects /\ doc.settlement \subseteq Receipts
  /\ doc.inclusion \subseteq Receipts
  /\ \A s \in doc.signatures \cup OldSignatures(doc) : s.key \in SigningKeys /\ Made(s)
  /\ \A q \in signed : q.key \in SigningKeys
  /\ mined \subseteq Txs /\ fresh \in BOOLEAN /\ edited \in BOOLEAN /\ steps \in 0..MaxSteps

Bytes == Subjects \cup {NoBytes}

\* Some key has signed this very value.
Vouched(value) == \E q \in signed : q.over = value

\* An attested report that is not invalid rests on a signature over what the
\* document says now: over its subject as it stands or over its whole content
\* (summarize's attested, the context binding of envelope-verify.ts).
AttestedIsSigned ==
  \A bytes \in Bytes, mode \in Modes :
    LET report == VerifyEnvelope(doc, bytes, mode) IN
    report.status # "invalid" /\ report.attested =>
      Vouched(doc.subject) \/ Vouched(Content(doc))

\* When the digest check passes, somebody has signed exactly this content:
\* no receipt was added or removed since (envelope-verify.ts's own words).
DigestIsSigned ==
  \A mode \in Modes :
    Check("envelope", "pass") \in Checks(doc, NoBytes, mode) => Vouched(Content(doc))

\* An inclusion that names a root passes only online, when a transaction that a
\* settlement receipt names, successful and on its chain, carries the root; one
\* of the Merkle adapter always names a root, and its leaf is under it.  (A
\* receipt of the storage adapter in the list of inclusions names none, or one
\* its bytes are not under: it proves no inclusion, and may pass.)
InclusionIsAnchored ==
  \A i \in doc.inclusion, mode \in Modes :
    InclusionStatus(i, doc, mode) = "pass" =>
      /\ i.adapter = "merkle" => i.root # NoRoot /\ Leaf(i, doc) \in LeavesOf[i.root]
      /\ i.root # NoRoot =>
           /\ mode = "up"
           /\ \E r \in doc.settlement :
                r.tx \in mined /\ Anchors[r.tx].ok /\ Anchors[r.tx].evm /\ i.root \in Anchors[r.tx].binds

\* The receipts of an online check that name no transaction hash.
Malformed(receipts) ==
  {r \in receipts : r.adapter = "anchor" /\ Anchors[r.tx].evm /\ Anchors[r.tx].hash # "well-formed"}

\* A dead endpoint makes nothing pass, and nothing fail but a hash that is none;
\* what it decides, a live one decides the same way.
OutageDecidesNothing ==
  \A bytes \in Bytes :
    LET Of(mode, status) == With(Checks(doc, bytes, mode), status) IN
    /\ Of("down", "pass") = Of("offline", "pass")
    /\ Of("down", "fail") =
         Of("offline", "fail")
           \cup {Check("settlement-receipts", "fail") : r \in Malformed(doc.settlement)}
           \cup {Check("inclusion-receipts", "fail") : r \in Malformed(doc.inclusion)}
    /\ Of("down", "pass") \subseteq Of("up", "pass")
    /\ Of("down", "fail") \subseteq Of("up", "fail")

\* What a report says stands on what was signed and what is on the chains,
\* whoever has edited the document.
ReportIsSound ==
  /\ VerificationTypeOK
  /\ AttestedIsSigned /\ DigestIsSigned /\ InclusionIsAnchored /\ OutageDecidesNothing

\* What the functions of the packages leave in a document: signatures over
\* what it says or says its digest is, settlements that anchored its subject or
\* a root it is under, and, when it is fresh, the digest of its content.
HonestInv ==
  ~edited =>
    /\ \A s \in doc.signatures : s.over = doc.subject /\ s.payloadDigest = doc.subject
    /\ \A r \in doc.settlement :
         /\ r.adapter = "anchor" /\ ~r.otherBlock
         /\ Anchors[r.tx].hash = "well-formed" /\ Anchors[r.tx].ok
         /\ Anchors[r.tx].binds \cap SettlementBindingTargets(doc) # {}
    /\ \A i \in doc.inclusion :
         /\ i.adapter = "merkle" /\ i.root \in Roots /\ i.leafDigest = NoLeaf
         /\ i.proves = doc.subject /\ doc.subject \in LeavesOf[i.root]
    /\ doc.envelope # Draft =>
         \A s \in doc.envelope.signatures :
           s.over = doc.envelope.digest /\ s.payloadDigest = doc.envelope.digest
    /\ doc.envelope # Draft /\ fresh => doc.envelope.digest = Content(doc)

\* A document that went only through the functions of the packages, finalised
\* after its last receipt, never fails, whatever has been mined meanwhile and
\* in every mode (a re-finalised one keeps no signature of the old digest).  A
\* transaction that a reorganisation mines again in another block is left out:
\* a receipt that names its first block fails then, as a block mismatch.
HonestIsNeverInvalid ==
  ~edited /\ (doc.envelope = Draft \/ fresh) =>
    \A bytes \in {NoBytes, doc.subject}, mode \in Modes :
      VerifyEnvelope(doc, bytes, mode).status # "invalid"
=============================================================================
