------------------------------- MODULE SignIn -------------------------------
(***************************************************************************)
(* Wallet sign-in and linked wallets: the nonce route                      *)
(* (app/api/auth/wallet/nonce), verifyWalletSignature of                   *)
(* lib/auth/verify-wallet.ts, the authorize callback of                    *)
(* lib/auth/config.ts, and the routes that link and unlink a wallet        *)
(* (app/api/wallets).                                                      *)
(*                                                                         *)
(* Whether a signature verifies is the signer's doing: a request that has  *)
(* consumed its nonce has a good signature or a bad one.  A request whose  *)
(* nonce is unknown, expired, used, or of another wallet is refused        *)
(* without a trace.                                                        *)
(***************************************************************************)
EXTENDS FiniteSets

CONSTANTS
  Accounts,         \* ids that rows of user may get
  Families,         \* chain families
  Addresses,        \* the same string may be an address in two families
  Nonces,           \* rows of auth_nonce
  ProofRequests,    \* sign-ins and link requests, one signature each
  NoAccount,
  Earlier           \* rows of wallet that an instance starts with

Wallets == [family : Families, address : Addresses]

VARIABLES
  nonce,            \* nonce[n]: "new", "issued", "expired", "used"
  nonceOf,          \* the wallet it was issued for
  accounts,         \* rows of user
  linked,           \* rows of wallet: [user, wallet, proof]
  \* a request: its point, the nonce it has consumed with the wallet it proves,
  \* the account it links to (NoAccount in a sign-in), the row of that account
  \* which its transaction replaces, and the account it signs in
  proof, proves, byNonce, linksTo, replaces, session,
  heldSince,        \* history: accounts that held its wallet since it consumed
  unlinked          \* history: accounts that removed a wallet themselves

nonceVars == <<nonce, nonceOf>>
walletVars == <<accounts, linked>>
proofVars == <<proof, proves, byNonce, linksTo, replaces, session>>
signInVars == <<nonceVars, walletVars, proofVars, heldSince, unlinked>>

AnyWallet == CHOOSE w \in Wallets : TRUE
AnyNonce == CHOOSE n \in Nonces : TRUE

LinkRows == [user : Accounts, wallet : Wallets, proof : Nonces]

SignInTypeOK ==
  /\ nonce \in [Nonces -> {"new", "issued", "expired", "used"}]
  /\ nonceOf \in [Nonces -> Wallets]
  /\ accounts \subseteq Accounts /\ linked \subseteq LinkRows
  /\ proof \in [ProofRequests -> {"new", "find", "create", "check", "relink", "commit", "signed in",
                           "linked", "refused", "threw"}]
  /\ proves \in [ProofRequests -> Wallets] /\ byNonce \in [ProofRequests -> Nonces]
  /\ linksTo \in [ProofRequests -> Accounts \cup {NoAccount}]
  /\ replaces \in [ProofRequests -> SUBSET LinkRows]
  /\ session \in [ProofRequests -> Accounts \cup {NoAccount}]
  /\ heldSince \in [ProofRequests -> SUBSET Accounts]
  /\ unlinked \subseteq Accounts

\* What the unique indexes of the table of wallets and the columns demand of
\* the rows at the start.
ASSUME SignInAssumption ==
  /\ Earlier \subseteq LinkRows /\ NoAccount \notin Accounts
  /\ Families # {} /\ Addresses # {} /\ Nonces # {}
  /\ \A r, q \in Earlier :
       r.wallet = q.wallet \/ r.proof = q.proof
         \/ (r.user = q.user /\ r.wallet.family = q.wallet.family) => r = q

SignInInit ==
  /\ linked = Earlier /\ accounts = {r.user : r \in Earlier}
  /\ nonce = [n \in Nonces |-> IF \E r \in Earlier : r.proof = n THEN "used" ELSE "new"]
  /\ nonceOf = [n \in Nonces |->
       IF \E r \in Earlier : r.proof = n THEN (CHOOSE r \in Earlier : r.proof = n).wallet
                                        ELSE AnyWallet]
  /\ proof = [p \in ProofRequests |-> "new"]
  /\ proves = [p \in ProofRequests |-> AnyWallet] /\ byNonce = [p \in ProofRequests |-> AnyNonce]
  /\ linksTo = [p \in ProofRequests |-> NoAccount] /\ replaces = [p \in ProofRequests |-> {}]
  /\ session = [p \in ProofRequests |-> NoAccount]
  /\ heldSince = [p \in ProofRequests |-> {}] /\ unlinked = {}

HoldersOf(w, rows) == {r.user : r \in {q \in rows : q.wallet = w}}

\* The table of wallets changes, and the history of every request under way.
SetLinked(rows) ==
  /\ linked' = rows
  /\ heldSince' = [p \in ProofRequests |->
       IF proof[p] \in {"find", "create"} THEN heldSince[p] \cup HoldersOf(proves[p], rows)
                                          ELSE heldSince[p]]

KeepLinked == UNCHANGED <<linked, heldSince>>

Move(p, from, to) == proof[p] = from /\ proof' = [proof EXCEPT ![p] = to]

-----------------------------------------------------------------------------
(* The challenge. *)

IssueNonce(n, w) ==
  /\ nonce[n] = "new"
  /\ nonce' = [nonce EXCEPT ![n] = "issued"]
  /\ nonceOf' = [nonceOf EXCEPT ![n] = w]
  /\ UNCHANGED <<walletVars, proofVars, heldSince, unlinked>>

NonceExpires(n) ==
  /\ nonce[n] = "issued"
  /\ nonce' = [nonce EXCEPT ![n] = "expired"]
  /\ UNCHANGED <<nonceOf, walletVars, proofVars, heldSince, unlinked>>

\* One conditional UPDATE takes the nonce before the signature is looked at; a
\* bad signature uses it up.  A link request comes from a signed-in account.
ConsumeNonce(p, n, account) ==
  /\ proof[p] = "new" /\ nonce[n] = "issued"
  /\ nonce' = [nonce EXCEPT ![n] = "used"]
  /\ proves' = [proves EXCEPT ![p] = nonceOf[n]] /\ byNonce' = [byNonce EXCEPT ![p] = n]
  /\ linksTo' = [linksTo EXCEPT ![p] = account]
  /\ heldSince' = [heldSince EXCEPT ![p] = HoldersOf(nonceOf[n], linked)]
  /\ \/ proof' = [proof EXCEPT ![p] = IF account = NoAccount THEN "find" ELSE "check"]
     \/ proof' = [proof EXCEPT ![p] = "refused"]
  /\ UNCHANGED <<nonceOf, walletVars, replaces, session, unlinked>>

-----------------------------------------------------------------------------
(* Sign-in. *)

FindHolder(p) ==
  /\ proof[p] = "find"
  /\ LET holders == HoldersOf(proves[p], linked) IN
     \/ /\ \E a \in holders : session' = [session EXCEPT ![p] = a]
        /\ Move(p, "find", "signed in")
     \/ holders = {} /\ Move(p, "find", "create") /\ UNCHANGED session
  /\ UNCHANGED <<nonceVars, walletVars, proves, byNonce, linksTo, replaces, heldSince, unlinked>>

RowOf(p, a) == [user |-> a, wallet |-> proves[p], proof |-> byNonce[p]]

\* A new account with its wallet, in one transaction: when another request has
\* linked the wallet meanwhile, neither is kept.
CreateAccount(p) ==
  /\ \/ /\ HoldersOf(proves[p], linked) # {}
        /\ Move(p, "create", "threw") /\ KeepLinked /\ UNCHANGED <<accounts, session>>
     \/ /\ HoldersOf(proves[p], linked) = {}
        /\ Move(p, "create", "signed in")
        /\ \E a \in Accounts \ accounts :
             /\ accounts' = accounts \cup {a}
             /\ SetLinked(linked \cup {RowOf(p, a)})
             /\ session' = [session EXCEPT ![p] = a]
  /\ UNCHANGED <<nonceVars, proves, byNonce, linksTo, replaces, unlinked>>

\* A sign-in with Google or GitHub makes an account that has no wallet (external).
CreateOAuthAccount(a) ==
  /\ a \in Accounts \ accounts
  /\ accounts' = accounts \cup {a} /\ unlinked' = unlinked \cup {a}
  /\ UNCHANGED <<nonceVars, linked, proofVars, heldSince>>

-----------------------------------------------------------------------------
(* Linked wallets. *)

CheckElsewhere(p) ==
  /\ Move(p, "check",
          IF HoldersOf(proves[p], linked) \ {linksTo[p]} # {} THEN "refused" ELSE "relink")
  /\ UNCHANGED <<nonceVars, walletVars, proves, byNonce, linksTo, replaces, session, heldSince,
                 unlinked>>

\* The DELETE of the transaction sees the row of the family at its start; a row
\* that another transaction inserts meanwhile it does not see.
StartRelink(p) ==
  /\ Move(p, "relink", "commit")
  /\ replaces' = [replaces EXCEPT ![p] =
       {r \in linked : r.user = linksTo[p] /\ r.wallet.family = proves[p].family}]
  /\ UNCHANGED <<nonceVars, walletVars, proves, byNonce, linksTo, session, heldSince, unlinked>>

\* Mutant: a link request replaces whoever holds the wallet.
MutCommitRelink(p) ==
  /\ Move(p, "commit", "linked")
  /\ SetLinked({r \in linked \ replaces[p] : r.wallet # proves[p]} \cup {RowOf(p, linksTo[p])})
  /\ replaces' = [replaces EXCEPT ![p] = {}]
  /\ UNCHANGED <<nonceVars, accounts, proves, byNonce, linksTo, session, unlinked>>

\* The unique indexes of the table of wallets: of the address, and of the
\* account's wallet of a family.
Conflicts(row, rows) ==
  \E r \in rows : \/ r.wallet = row.wallet
                  \/ r.user = row.user /\ r.wallet.family = row.wallet.family

\* A row that the indexes refuse rolls the delete back.
CommitRelink(p) ==
  /\ LET row == RowOf(p, linksTo[p])
         rest == linked \ replaces[p] IN
     IF Conflicts(row, rest)
       THEN Move(p, "commit", "threw") /\ KeepLinked
       ELSE Move(p, "commit", "linked") /\ SetLinked(rest \cup {row})
  /\ replaces' = [replaces EXCEPT ![p] = {}]
  /\ UNCHANGED <<nonceVars, accounts, proves, byNonce, linksTo, session, unlinked>>

Unlink(r) ==
  /\ r \in linked
  /\ SetLinked(linked \ {r})
  /\ unlinked' = unlinked \cup {r.user}
  /\ UNCHANGED <<nonceVars, accounts, proofVars>>

UnderWay(p) == proof[p] \in {"find", "create", "check", "relink", "commit"}

AbandonProof(p) ==
  /\ UnderWay(p)
  /\ proof' = [proof EXCEPT ![p] = "threw"]
  /\ replaces' = [replaces EXCEPT ![p] = {}]
  /\ UNCHANGED <<nonceVars, walletVars, proves, byNonce, linksTo, session, heldSince, unlinked>>

-----------------------------------------------------------------------------
Prove(p) ==
  \/ \E n \in Nonces, a \in accounts \cup {NoAccount} : ConsumeNonce(p, n, a)
  \/ FindHolder(p) \/ CreateAccount(p)
  \/ CheckElsewhere(p) \/ StartRelink(p) \/ CommitRelink(p) \/ AbandonProof(p)

SignInNext ==
  \/ \E n \in Nonces : NonceExpires(n) \/ \E w \in Wallets : IssueNonce(n, w)
  \/ \E a \in Accounts : CreateOAuthAccount(a)
  \/ \E p \in ProofRequests : Prove(p)
  \/ \E r \in linked : Unlink(r)

SignInSpec == SignInInit /\ [][SignInNext]_signInVars

-----------------------------------------------------------------------------
(* What sign-in promises. *)

\* However sign-ins, links and unlinks interleave, a wallet is of one account,
\* an account has one wallet of a family, and each link was proven over a nonce
\* that was issued for this wallet and links no other.
EveryLinkIsProven ==
  \A r, q \in linked :
    /\ r.wallet = q.wallet \/ r.proof = q.proof
         \/ (r.user = q.user /\ r.wallet.family = q.wallet.family) => r = q
    /\ r.user \in accounts
    /\ nonce[r.proof] = "used" /\ nonceOf[r.proof] = r.wallet

\* A nonce serves one request, also when two present it at the same time.
ServedOnce ==
  \A p, q \in ProofRequests :
    proof[p] # "new" /\ proof[q] # "new" /\ byNonce[p] = byNonce[q] => p = q

\* A sign-in answers with an account that has held the wallet at some moment
\* since its nonce was consumed, whoever links or unlinks it meanwhile.
SignsInAHolder ==
  \A p \in ProofRequests : session[p] # NoAccount => session[p] \in heldSince[p]

\* A sign-in that loses a race leaves no account behind: an account without a
\* wallet has removed it itself, or was not made by a wallet.
NoStrandedAccount ==
  \A a \in accounts \ unlinked : \E r \in linked : r.user = a

\* What a request under way holds: its nonce is used and proves no link yet,
\* and the account that it links to is there.
ProofInv(p) ==
  /\ proof[p] # "new" => nonce[byNonce[p]] = "used"
  /\ UnderWay(p) =>
       nonceOf[byNonce[p]] = proves[p] /\ \A r \in linked : r.proof # byNonce[p]
  /\ proof[p] \in {"check", "relink", "commit"} => linksTo[p] \in accounts
  /\ proof[p] \in {"find", "create"} => HoldersOf(proves[p], linked) \subseteq heldSince[p]
  /\ \A r \in replaces[p] : proof[p] = "commit" /\ r.user = linksTo[p]
  /\ session[p] # NoAccount => proof[p] = "signed in"

\* The parts above with what makes them inductive.
SignInInv ==
  /\ SignInTypeOK /\ EveryLinkIsProven /\ ServedOnce /\ SignsInAHolder /\ NoStrandedAccount
  /\ \A p \in ProofRequests : ProofInv(p)
=============================================================================
