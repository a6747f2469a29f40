------------------------------ MODULE Sealing ------------------------------
(***************************************************************************)
(* Server-side sealing of one organisation: the signers of the             *)
(* organisation and of its projects, their rotation and revocation         *)
(* (lib/server/cloud-signer.ts), the monthly quota of a project            *)
(* (quotas.ts, projects.ts), and the intake that reads both before it      *)
(* inserts its row (evidence.ts).                                          *)
(*                                                                         *)
(* A rotation is a transaction whose UPDATE sees the signers of the moment *)
(* it starts; another may commit before it does.  An intake that is        *)
(* refused leaves no row, and none of its reads is kept.                   *)
(***************************************************************************)
EXTENDS Integers, FiniteSets

CONSTANTS
  Org, Projects,    \* the scopes of a signer: the organisation, its projects
  SignerKeys,       \* rows of cloud_signer, one per rotation request
  ScopeOf,          \* ScopeOf[k]: the scope a rotation is for
  Seals,            \* intakes, one row of evidence_envelope each
  KeyScopes,        \* KeyScopes[i]: the scopes of the API keys intake i may carry
  NoKey,            \* no signer
  Unlimited,        \* no cap (NULL)
  Caps,             \* caps that a lead may set, Unlimited among them
  MaxInFlight,      \* bound: intakes that run at the same time
  MaxMonth          \* bound: no month after it

Scopes == Projects \cup {Org}

ASSUME SealingAssumption ==
  /\ Org \notin Projects
  /\ ScopeOf \in [SignerKeys -> Scopes] /\ NoKey \notin SignerKeys
  /\ KeyScopes \in [Seals -> SUBSET Scopes]
  /\ Unlimited \notin Nat
  /\ Caps \subseteq (Nat \ {0}) \cup {Unlimited}
  /\ IsFiniteSet(Seals) /\ MaxInFlight \in Nat \ {0} /\ MaxMonth \in Nat

VARIABLES
  month,
  envelopesPerMonth,\* envelopesPerMonth[p]: the cap of a project
  overCap,          \* history: what a project had in this month when its cap was
                    \* last set, if more than the cap admits
  signer,           \* signer[k]: "new", "rotating", "active", "revoked", "failed"
  candidates,       \* candidates[k]: the signers its transaction revokes
  \* an intake: its point, its project or Org, the scope it asks to sign
  seal, project, signScope,
  signedBy,         \* the signer of its envelope, or NoKey
  sealedIn,         \* the month of its row
  deadAtStart       \* history: signers revoked when an intake to sign began

quotaVars == <<envelopesPerMonth, overCap>>
signerVars == <<signer, candidates>>
sealVars == <<seal, project, signScope, signedBy, sealedIn, deadAtStart>>
sealingVars == <<month, quotaVars, signerVars, sealVars>>

InFlight == {i \in Seals : seal[i] \in {"sign", "insert"}}

SealingTypeOK ==
  /\ month \in Nat
  /\ envelopesPerMonth \in [Projects -> (Nat \ {0}) \cup {Unlimited}]
  /\ overCap \in [Projects -> Nat]
  /\ signer \in [SignerKeys -> {"new", "rotating", "active", "revoked", "failed"}]
  /\ candidates \in [SignerKeys -> SUBSET SignerKeys]
  /\ seal \in [Seals -> {"new", "sign", "insert", "stored"}]
  /\ project \in [Seals -> Scopes]
  /\ signScope \in [Seals -> Scopes \cup {NoKey}]
  /\ signedBy \in [Seals -> SignerKeys \cup {NoKey}]
  /\ sealedIn \in [Seals -> Nat]
  /\ deadAtStart \in [Seals -> SUBSET SignerKeys]

SealingInit ==
  /\ month = 0
  /\ envelopesPerMonth = [p \in Projects |-> Unlimited]
  /\ overCap = [p \in Projects |-> 0]
  /\ signer = [k \in SignerKeys |-> "new"]
  /\ candidates = [k \in SignerKeys |-> {}]
  /\ seal = [i \in Seals |-> "new"]
  /\ project = [i \in Seals |-> Org]
  /\ signScope = [i \in Seals |-> NoKey]
  /\ signedBy = [i \in Seals |-> NoKey]
  /\ sealedIn = [i \in Seals |-> 0]
  /\ deadAtStart = [i \in Seals |-> {}]

MonthPasses ==
  /\ month < MaxMonth
  /\ month' = month + 1
  /\ overCap' = [p \in Projects |-> 0]
  /\ UNCHANGED <<envelopesPerMonth, signerVars, sealVars>>

-----------------------------------------------------------------------------
(* The signers. *)

Active(scope) == {k \in SignerKeys : ScopeOf[k] = scope /\ signer[k] = "active"}

Revoked == {k \in SignerKeys : signer[k] = "revoked"}

StartRotation(k) ==
  /\ signer[k] = "new"
  /\ signer' = [signer EXCEPT ![k] = "rotating"]
  /\ candidates' = [candidates EXCEPT ![k] = Active(ScopeOf[k])]
  /\ UNCHANGED <<month, quotaVars, sealVars>>

\* Mutant: the table has no index of one active signer per scope.
MutCommitRotation(k) ==
  /\ signer[k] = "rotating"
  /\ candidates' = [candidates EXCEPT ![k] = {}]
  /\ signer' = [j \in SignerKeys |->
       IF j = k THEN "active"
       ELSE IF j \in candidates[k] /\ signer[j] = "active" THEN "revoked" ELSE signer[j]]
  /\ UNCHANGED <<month, quotaVars, sealVars>>

\* The partial unique index refuses the new signer when one is active that the
\* transaction has not seen, and all of it is rolled back.
CommitRotation(k) ==
  /\ signer[k] = "rotating"
  /\ candidates' = [candidates EXCEPT ![k] = {}]
  /\ signer' = IF Active(ScopeOf[k]) \subseteq candidates[k]
       THEN [j \in SignerKeys |->
               IF j = k THEN "active"
               ELSE IF j \in Active(ScopeOf[k]) THEN "revoked" ELSE signer[j]]
       ELSE [signer EXCEPT ![k] = "failed"]
  /\ UNCHANGED <<month, quotaVars, sealVars>>

AbandonRotation(k) ==
  /\ signer[k] = "rotating"
  /\ candidates' = [candidates EXCEPT ![k] = {}]
  /\ signer' = [signer EXCEPT ![k] = "failed"]
  /\ UNCHANGED <<month, quotaVars, sealVars>>

RevokeSigner(scope) ==
  /\ Active(scope) # {}
  /\ signer' = [k \in SignerKeys |-> IF k \in Active(scope) THEN "revoked" ELSE signer[k]]
  /\ UNCHANGED <<month, quotaVars, candidates, sealVars>>

-----------------------------------------------------------------------------
(* Intake. *)

SealedThisMonth(p) ==
  {i \in Seals : seal[i] = "stored" /\ project[i] = p /\ sealedIn[i] = month}

\* The scope a server-side signature is asked for: the project's takes
\* precedence, and only an envelope of the project can ask for it.
SignScopes(p) == {NoKey, Org, p}

InFlightOf(p) == {i \in InFlight : project[i] = p}

\* What the month has of the project, and may still get.
Held(p) == Cardinality(SealedThisMonth(p)) + Cardinality(InFlightOf(p))

\* What a cap admits of requests that do not see each other's rows.
Admits(n) == n + MaxInFlight - 1

\* A lead sets the cap, whatever has been stored or is under way.
UpdateProjectQuotas(p, n) ==
  /\ envelopesPerMonth' = [envelopesPerMonth EXCEPT ![p] = n]
  /\ overCap' = [overCap EXCEPT ![p] =
       IF n # Unlimited /\ Held(p) > Admits(n) THEN Held(p) ELSE 0]
  /\ UNCHANGED <<month, signerVars, sealVars>>

\* Mutant: the count may reach the cap and one more is let through.
MutUnderQuota(p) ==
  p # Org /\ envelopesPerMonth[p] # Unlimited =>
    Cardinality(SealedThisMonth(p)) <= envelopesPerMonth[p]

\* The cap and the count are read side by side, in one step here.
UnderQuota(p) ==
  p # Org /\ envelopesPerMonth[p] # Unlimited =>
    Cardinality(SealedThisMonth(p)) < envelopesPerMonth[p]

BeginSeal(i, p) ==
  /\ seal[i] = "new" /\ Cardinality(InFlight) < MaxInFlight
  /\ UnderQuota(p)
  /\ project' = [project EXCEPT ![i] = p]
  /\ \E scope \in SignScopes(p) :
       /\ signScope' = [signScope EXCEPT ![i] = scope]
       /\ deadAtStart' = [deadAtStart EXCEPT ![i] = IF scope = NoKey THEN {} ELSE Revoked]
       /\ seal' = [seal EXCEPT ![i] = IF scope = NoKey THEN "insert" ELSE "sign"]
  /\ UNCHANGED <<month, quotaVars, signerVars, signedBy, sealedIn>>

\* The request ends, and what it has read goes with it.
Refuse(i) ==
  /\ seal' = [seal EXCEPT ![i] = "new"]
  /\ project' = [project EXCEPT ![i] = Org]
  /\ signScope' = [signScope EXCEPT ![i] = NoKey]
  /\ signedBy' = [signedBy EXCEPT ![i] = NoKey]
  /\ deadAtStart' = [deadAtStart EXCEPT ![i] = {}]

\* Without an active signer the request is refused, never stored unsigned.
Sign(i) ==
  /\ seal[i] = "sign"
  /\ IF Active(signScope[i]) = {}
       THEN Refuse(i)
       ELSE /\ seal' = [seal EXCEPT ![i] = "insert"]
            /\ \E k \in Active(signScope[i]) : signedBy' = [signedBy EXCEPT ![i] = k]
            /\ UNCHANGED <<project, signScope, deadAtStart>>
  /\ UNCHANGED <<month, quotaVars, signerVars, sealedIn>>

\* The row carries the month of its insert, whatever month the quota was
\* counted in.
InsertSealed(i) ==
  /\ seal[i] = "insert"
  /\ seal' = [seal EXCEPT ![i] = "stored"]
  /\ sealedIn' = [sealedIn EXCEPT ![i] = month]
  /\ UNCHANGED <<month, quotaVars, signerVars, project, signScope, signedBy, deadAtStart>>

\* The request dies, is invalid, or one of its statements throws.
AbandonSeal(i) ==
  /\ i \in InFlight
  /\ Refuse(i)
  /\ UNCHANGED <<month, quotaVars, signerVars, sealedIn>>

-----------------------------------------------------------------------------
Rotate(k) == StartRotation(k) \/ CommitRotation(k) \/ AbandonRotation(k)

SealOne(i) ==
  (\E p \in KeyScopes[i] : BeginSeal(i, p)) \/ Sign(i) \/ InsertSealed(i) \/ AbandonSeal(i)

SealingNext ==
  \/ MonthPasses
  \/ \E p \in Projects, n \in Caps : UpdateProjectQuotas(p, n)
  \/ \E k \in SignerKeys : Rotate(k)
  \/ \E scope \in Scopes : RevokeSigner(scope)
  \/ \E i \in Seals : SealOne(i)

SealingSpec == SealingInit /\ [][SealingNext]_sealingVars

-----------------------------------------------------------------------------
(* What sealing promises. *)

\* However rotations and revocations overlap, a scope has at most one active
\* signer.
OneActivePerScope == \A scope \in Scopes : \A j, k \in Active(scope) : j = k

\* An envelope that asked for a signature is stored with one, of the scope it
\* asked for, by a signer that was not yet revoked when the request began,
\* however the signers change while it runs.
SealedAsAsked ==
  \A i \in Seals : seal[i] = "stored" /\ signScope[i] # NoKey =>
    /\ signedBy[i] \in SignerKeys /\ ScopeOf[signedBy[i]] = signScope[i]
    /\ signedBy[i] \notin deadAtStart[i]

\* The count is read before the insert, so requests that run at the same time
\* may pass the cap together: at most those in flight, less the one the cap
\* leaves room for.  A month that ends meanwhile adds nothing to that, and a cap
\* that is lowered below what the month holds lets nothing in any more that was
\* not under way.
QuotaOvershoot ==
  \A p \in Projects : envelopesPerMonth[p] # Unlimited =>
    Held(p) <= Admits(envelopesPerMonth[p]) \/ Held(p) <= overCap[p]

\* The strengthening of SealedAsAsked: what an intake has signed with, and that
\* a revoked signer stays revoked.
SignInv(i) ==
  /\ seal[i] \in {"insert", "stored"} /\ signScope[i] # NoKey =>
       /\ signedBy[i] \in SignerKeys /\ ScopeOf[signedBy[i]] = signScope[i]
       /\ signedBy[i] \notin deadAtStart[i]
  /\ \A k \in deadAtStart[i] : signer[k] = "revoked"

\* That of QuotaOvershoot: the bound is respected, and no row is of a month to
\* come.
FlightInv ==
  /\ Cardinality(InFlight) <= MaxInFlight
  /\ \A i \in Seals : sealedIn[i] <= month

SealingInv ==
  /\ SealingTypeOK /\ OneActivePerScope /\ FlightInv
  /\ \A i \in Seals : SignInv(i)
=============================================================================
