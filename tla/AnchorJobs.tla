----------------------------- MODULE AnchorJobs -----------------------------
(***************************************************************************)
(* Hosted anchoring against account credits: the request handler           *)
(* anchorWithAccount (lib/server/anchor-service.ts), the ledger it debits  *)
(* and refunds (credits.ts) and the worker that broadcasts one transaction *)
(* per requested chain (anchor-worker.ts).                                 *)
(*                                                                         *)
(* A job is one request.  Requests of one account run concurrently; each   *)
(* database statement or transaction is a step, each chain's send is a     *)
(* process of its own, and the function may die between two steps.         *)
(***************************************************************************)
EXTENDS Integers, FiniteSets

CONSTANTS
  Users,
  Jobs,             \* rows of upload_job, one per request
  OwnerOf,          \* OwnerOf[j]: the account of job j
  Chains,           \* chains of the registry that are open for anchoring
  Configured,       \* those provisioned, with their signer secrets set
  Costs,            \* what a job may cost (micro-USDC); 0 for BYOK and for
                    \* chains with no estimate
  None,             \* nobody holds the lock
  MaxBalance,       \* bound: no deposit takes a balance above it
  MayFail           \* whether the function and the database may fail

ASSUME AnchorJobsAssumption ==
  /\ OwnerOf \in [Jobs -> Users]
  /\ Configured \subseteq Chains
  /\ Costs \subseteq Nat
  /\ None \notin Jobs
  /\ MaxBalance \in Nat
  /\ MayFail \in BOOLEAN

VARIABLES
  balance,          \* sum of the account's credit_ledger rows
  lock,             \* lock[u]: the job whose debit holds the advisory lock
  \* table upload_job
  status,           \* "absent", "pending", "complete" or "failed"
  cost,             \* cost_micro_usdc
  chainIds,         \* chain_ids
  \* ledger rows with ref_id j and reason anchor_debit / refund
  debits, refunds,
  \* the request
  pc, seen,         \* seen[j]: the balance its transaction has read
  sends,            \* sends[j][c]: "none", "sending", "ok" or "error"
  broadcast         \* broadcast[j]: chains that took its transaction

rowVars == <<status, cost, chainIds>>
ledgerVars == <<balance, debits, refunds>>
sendVars == <<sends, broadcast>>
vars == <<ledgerVars, lock, rowVars, pc, seen, sendVars>>

Active == {"debit", "locked", "refused", "errored", "worker", "sending",
           "complete", "failing", "refund"}

TypeOK ==
  /\ balance \in [Users -> Int]
  /\ lock \in [Users -> Jobs \cup {None}]
  /\ status \in [Jobs -> {"absent", "pending", "complete", "failed"}]
  /\ cost \in [Jobs -> Nat]
  /\ chainIds \in [Jobs -> SUBSET Chains]
  /\ debits \in [Jobs -> Nat] /\ refunds \in [Jobs -> Nat]
  /\ pc \in [Jobs -> Active \cup {"new", "returned", "threw", "dead"}]
  /\ seen \in [Jobs -> Int]
  /\ sends \in [Jobs -> [Chains -> {"none", "sending", "ok", "error"}]]
  /\ broadcast \in [Jobs -> SUBSET Chains]

Init ==
  /\ balance = [u \in Users |-> 0]
  /\ lock = [u \in Users |-> None]
  /\ status = [j \in Jobs |-> "absent"]
  /\ cost = [j \in Jobs |-> 0]
  /\ chainIds = [j \in Jobs |-> {}]
  /\ debits = [j \in Jobs |-> 0] /\ refunds = [j \in Jobs |-> 0]
  /\ pc = [j \in Jobs |-> "new"]
  /\ seen = [j \in Jobs |-> 0]
  /\ sends = [j \in Jobs |-> [c \in Chains |-> "none"]]
  /\ broadcast = [j \in Jobs |-> {}]

Goto(j, from, to) == pc[j] = from /\ pc' = [pc EXCEPT ![j] = to]

Mark(j, s) == status' = [status EXCEPT ![j] = s] /\ UNCHANGED <<cost, chainIds>>

-----------------------------------------------------------------------------
(* The ledger. *)

\* creditAccount, called with a confirmed deposit.
Deposit(u) ==
  /\ \E n \in 1 .. MaxBalance :
       balance[u] + n <= MaxBalance /\ balance' = [balance EXCEPT ![u] = @ + n]
  /\ UNCHANGED <<debits, refunds, lock, rowVars, pc, seen, sendVars>>

\* debitCredits runs in one transaction.  It waits for the account's advisory
\* lock and sums the ledger...
\* Mutant: no lock.
MutLockBalance(j) ==
  /\ Goto(j, "debit", "locked")
  /\ seen' = [seen EXCEPT ![j] = balance[OwnerOf[j]]]
  /\ UNCHANGED <<ledgerVars, lock, rowVars, sendVars>>

LockBalance(j) ==
  LET u == OwnerOf[j] IN
  /\ Goto(j, "debit", "locked")
  /\ lock[u] = None
  /\ lock' = [lock EXCEPT ![u] = j]
  /\ seen' = [seen EXCEPT ![j] = balance[u]]
  /\ UNCHANGED <<ledgerVars, rowVars, sendVars>>

\* Mutant: a lock of the session, which the end of a transaction keeps.
MutEndTransaction(j) == UNCHANGED lock /\ seen' = [seen EXCEPT ![j] = 0]

EndTransaction(j) ==
  /\ lock' = [u \in Users |-> IF lock[u] = j THEN None ELSE lock[u]]
  /\ seen' = [seen EXCEPT ![j] = 0]

TakeDebit(j) ==
  /\ balance' = [balance EXCEPT ![OwnerOf[j]] = @ - cost[j]]
  /\ debits' = [debits EXCEPT ![j] = @ + 1]
  /\ UNCHANGED refunds

\* ...and inserts the debit, unless the sum does not cover it.  The lock goes
\* with the transaction.
Debit(j) ==
  /\ IF seen[j] < cost[j]
       THEN Goto(j, "locked", "refused") /\ UNCHANGED ledgerVars
       ELSE Goto(j, "locked", "worker") /\ TakeDebit(j)
  /\ EndTransaction(j)
  /\ UNCHANGED <<rowVars, sendVars>>

\* The transaction throws: it has rolled back, or it has committed and the
\* answer is lost.
DebitThrows(j) ==
  /\ MayFail
  /\ \/ Goto(j, "debit", "errored") /\ UNCHANGED ledgerVars
     \/ /\ Goto(j, "locked", "errored")
        /\ UNCHANGED ledgerVars \/ (seen[j] >= cost[j] /\ TakeDebit(j))
  /\ EndTransaction(j)
  /\ UNCHANGED <<rowVars, sendVars>>

-----------------------------------------------------------------------------
(* The request. *)

\* The quota check before this is a no-op: parseAnchorPayload drops projectId.
\* A BYOK request with a usable key, like any free job, skips the debit.
CreateJob(j) ==
  /\ \E m \in Costs, cs \in (SUBSET Chains) \ {{}} :
       /\ status' = [status EXCEPT ![j] = "pending"]
       /\ cost' = [cost EXCEPT ![j] = m]
       /\ chainIds' = [chainIds EXCEPT ![j] = cs]
       /\ Goto(j, "new", IF m > 0 THEN "debit" ELSE "worker")
  /\ UNCHANGED <<ledgerVars, lock, seen, sendVars>>

\* The debit was refused (402) or threw (500); nothing is refunded.
MarkUnpaid(j) ==
  /\ Goto(j, "refused", "returned") \/ Goto(j, "errored", "threw")
  /\ Mark(j, "failed")
  /\ UNCHANGED <<ledgerVars, lock, seen, sendVars>>

\* runAnchorWorker resolves the chain and the signer of every requested chain
\* before it starts any send.
\* Mutant: each send resolves its own.
MutStartSends(j) ==
  /\ Goto(j, "worker", "sending")
  /\ sends' = [sends EXCEPT ![j] =
       [c \in Chains |-> IF c \notin chainIds[j] THEN "none"
                         ELSE IF c \in Configured THEN "sending" ELSE "error"]]
  /\ UNCHANGED <<ledgerVars, lock, rowVars, seen, broadcast>>

StartSends(j) ==
  /\ IF chainIds[j] \subseteq Configured
       THEN /\ Goto(j, "worker", "sending")
            /\ sends' = [sends EXCEPT ![j] =
                 [c \in Chains |-> IF c \in chainIds[j] THEN "sending" ELSE "none"]]
       ELSE Goto(j, "worker", "failing") /\ UNCHANGED sends
  /\ UNCHANGED <<ledgerVars, lock, rowVars, seen, broadcast>>

\* Reading the user's RPC overrides throws.
PrepareThrows(j) ==
  /\ MayFail
  /\ Goto(j, "worker", "failing")
  /\ UNCHANGED <<ledgerVars, lock, rowVars, seen, sendVars>>

\* A send that returns has broadcast its transaction; one that throws may have.
SendEnds(j, c) ==
  /\ pc[j] = "sending" /\ sends[j][c] = "sending"
  /\ \/ /\ sends' = [sends EXCEPT ![j][c] = "ok"]
        /\ broadcast' = [broadcast EXCEPT ![j] = @ \cup {c}]
     \/ /\ sends' = [sends EXCEPT ![j][c] = "error"]
        /\ \/ UNCHANGED broadcast
           \/ broadcast' = [broadcast EXCEPT ![j] = @ \cup {c}]
  /\ UNCHANGED <<ledgerVars, lock, rowVars, pc, seen>>

Fulfilled(j) == {c \in Chains : sends[j][c] = "ok"}

\* allSettled: every send is waited for, and one rejection fails the job.
\* Mutant: any send that went through completes the job.
MutSettle(j) ==
  /\ \A c \in Chains : sends[j][c] # "sending"
  /\ Goto(j, "sending", IF Fulfilled(j) # {} THEN "complete" ELSE "failing")
  /\ UNCHANGED <<ledgerVars, lock, rowVars, seen, sendVars>>

Settle(j) ==
  /\ \A c \in Chains : sends[j][c] # "sending"
  /\ Goto(j, "sending", IF Fulfilled(j) = chainIds[j] THEN "complete" ELSE "failing")
  /\ UNCHANGED <<ledgerVars, lock, rowVars, seen, sendVars>>

MarkComplete(j) ==
  /\ Goto(j, "complete", "returned")
  /\ Mark(j, "complete")
  /\ UNCHANGED <<ledgerVars, lock, seen, sendVars>>

MarkFailed(j) ==
  /\ Goto(j, "failing", IF cost[j] > 0 THEN "refund" ELSE "returned")
  /\ Mark(j, "failed")
  /\ UNCHANGED <<ledgerVars, lock, seen, sendVars>>

Refund(j) ==
  /\ Goto(j, "refund", "returned")
  /\ balance' = [balance EXCEPT ![OwnerOf[j]] = @ + cost[j]]
  /\ refunds' = [refunds EXCEPT ![j] = @ + 1]
  /\ UNCHANGED <<debits, lock, rowVars, seen, sendVars>>

\* The function is killed, or a statement outside the handlers above throws:
\* an open transaction rolls back, a send under way may still get through.
Die(j) ==
  /\ MayFail
  /\ pc[j] \in Active
  /\ pc' = [pc EXCEPT ![j] = "dead"]
  /\ EndTransaction(j)
  /\ \E cs \in SUBSET {c \in Chains : sends[j][c] = "sending"} :
       broadcast' = [broadcast EXCEPT ![j] = @ \cup cs]
  /\ UNCHANGED <<ledgerVars, rowVars, sends>>

-----------------------------------------------------------------------------
Proceed(j) ==
  \/ LockBalance(j) \/ Debit(j) \/ MarkUnpaid(j)
  \/ StartSends(j) \/ \E c \in Chains : SendEnds(j, c)
  \/ Settle(j) \/ MarkComplete(j) \/ MarkFailed(j) \/ Refund(j)

Fail(j) == DebitThrows(j) \/ PrepareThrows(j) \/ Die(j)

Next ==
  \/ \E u \in Users : Deposit(u)
  \/ \E j \in Jobs : CreateJob(j) \/ Proceed(j) \/ Fail(j)

Spec == Init /\ [][Next]_vars

\* A request that is not killed goes on: its statements and sends answer, with
\* a result or an error (RPC transports time out).
FairSpec == Spec /\ \A j \in Jobs : WF_vars(Proceed(j))

-----------------------------------------------------------------------------
(* What the flow promises. *)

\* Any number of concurrent requests and refunds of an account never spend
\* more than its ledger holds.
NeverOverdrawn == \A u \in Users : balance[u] >= 0

Due(j) == IF cost[j] > 0 THEN 1 ELSE 0

\* A request that answers without a server error has settled its account: it
\* is complete, paid for, and every requested chain took its transaction, or
\* it is failed and what it was debited is back.
Settled(j) ==
  \/ /\ status[j] = "complete"
     /\ debits[j] = Due(j) /\ refunds[j] = 0
     /\ chainIds[j] \subseteq broadcast[j]
  \/ status[j] = "failed" /\ debits[j] = refunds[j]

AnswerIsSettled == \A j \in Jobs : pc[j] = "returned" => Settled(j)

\* A job that names a chain without a configured signer broadcasts on none of
\* its chains: a missing sibling signer causes no partial settlement.
MissingSignerSendsNothing ==
  \A j \in Jobs : broadcast[j] # {} => chainIds[j] \subseteq Configured

\* What each point of the request knows of its job.
PointInv(j) ==
  /\ pc[j] = "new" => status[j] = "absent" /\ cost[j] = 0
  /\ pc[j] # "new" => cost[j] \in Costs /\ status[j] # "absent"
  /\ pc[j] \in {"new", "debit", "locked", "refused"} => debits[j] = 0
  /\ pc[j] \in {"debit", "locked", "refused", "errored", "refund"} => cost[j] > 0
  /\ pc[j] \in {"worker", "sending", "complete", "failing", "refund"} => debits[j] = Due(j)
  /\ pc[j] \in Active \ {"refund"} => status[j] = "pending"
  /\ pc[j] = "refund" => status[j] = "failed"
  /\ pc[j] \notin {"returned", "dead"} => refunds[j] = 0
  /\ pc[j] = "complete" => chainIds[j] \subseteq broadcast[j]
  /\ pc[j] = "returned" => Settled(j)
  /\ pc[j] = "threw" => status[j] = "failed"

\* The request that holds an account's lock has read a balance that nothing
\* but deposits and refunds has changed since, so the debit it is about to
\* insert is covered.
LockInv(j) ==
  pc[j] = "locked" => lock[OwnerOf[j]] = j /\ seen[j] <= balance[OwnerOf[j]]

\* The job's ledger rows, and its sends.
LedgerInv(j) ==
  /\ refunds[j] <= debits[j] /\ debits[j] <= Due(j)
  /\ status[j] = "complete" => debits[j] = Due(j) /\ refunds[j] = 0
  /\ refunds[j] > 0 => status[j] = "failed"

SendInv(j) ==
  /\ pc[j] = "new" => broadcast[j] = {} /\ \A c \in Chains : sends[j][c] = "none"
  /\ broadcast[j] # {} => chainIds[j] \subseteq Configured
  /\ \A c \in Chains :
       /\ sends[j][c] # "none" => chainIds[j] \subseteq Configured
       /\ sends[j][c] = "ok" => c \in broadcast[j]

\* The strengthening that makes the three invariants above inductive.
JobsInv ==
  /\ TypeOK
  /\ NeverOverdrawn
  /\ \A j \in Jobs : PointInv(j) /\ LockInv(j) /\ LedgerInv(j) /\ SendInv(j)

\* Every request that has made its job ends, though the requests of an account
\* queue for its lock and any of them may be killed holding it: with a settled
\* job, with the 500 of a debit whose transaction threw (its row is failed, a
\* debit that had committed stays), or by its own death.
RequestIsAnswered ==
  \A j \in Jobs :
    pc[j] # "new" ~> \/ pc[j] = "returned" /\ Settled(j)
                     \/ pc[j] = "threw" /\ status[j] = "failed"
                     \/ pc[j] = "dead"

-----------------------------------------------------------------------------
(* A job is an order that is paid in advance. *)

PhaseOf(s, d, r) ==
  CASE s = "absent"             -> "none"
    [] s = "complete"           -> "settled"
    [] s # "complete" /\ d > r  -> "paid"
    [] s = "pending" /\ d = r   -> "open"
    [] s = "failed" /\ d = r    -> IF r = 0 THEN "refused" ELSE "refunded"

Phase(j) == PhaseOf(status[j], debits[j], refunds[j])

Abstract == INSTANCE PrepaidOrder WITH
  Accounts <- Users, Orders <- Jobs, Prices <- Costs,
  price <- cost, phase <- [j \in Jobs |-> Phase(j)]

\* Every step of the handler, of its sends and of its failures is one step of
\* PrepaidOrder or leaves balance, price and phase alone: a debit is taken
\* once, from a balance that covers it, and given back at most once, and never
\* after the job is complete.
ImplementsPrepaidOrder == Abstract!Spec
=============================================================================
