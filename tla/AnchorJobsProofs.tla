-------------------------- MODULE AnchorJobsProofs --------------------------
(***************************************************************************)
(* AnchorJobs: type correctness, the inductive invariant and the step      *)
(* simulation of PrepaidOrder, for any accounts, jobs, chains and costs.   *)
(***************************************************************************)
EXTENDS AnchorJobs, TLAPS

\* Taking a debit keeps the ledger's types.
LEMMA DebitTypes ==
  ASSUME TypeOK, NEW j \in Jobs, TakeDebit(j)
  PROVE  /\ balance' \in [Users -> Int]
         /\ debits' \in [Jobs -> Nat] /\ refunds' \in [Jobs -> Nat]
<1>1. balance[OwnerOf[j]] - cost[j] \in Int /\ debits[j] + 1 \in Nat
  BY AnchorJobsAssumption DEF TypeOK
<1> QED
  BY <1>1, AnchorJobsAssumption DEF TypeOK, TakeDebit

\* Every step keeps the types.
LEMMA TypeStep == TypeOK /\ [Next]_vars => TypeOK'
<1> SUFFICES ASSUME TypeOK, [Next]_vars PROVE TypeOK'
  OBVIOUS
<1> USE AnchorJobsAssumption DEF TypeOK, Active
<1> USE DEF rowVars, ledgerVars, sendVars, Goto, Mark, EndTransaction, TakeDebit
<1>1. ASSUME NEW u \in Users, Deposit(u) PROVE TypeOK'
  BY <1>1 DEF Deposit
<1>2. ASSUME NEW j \in Jobs, CreateJob(j) PROVE TypeOK'
  <2>1. PICK m \in Costs, cs \in SUBSET Chains :
          /\ status' = [status EXCEPT ![j] = "pending"]
          /\ cost' = [cost EXCEPT ![j] = m]
          /\ chainIds' = [chainIds EXCEPT ![j] = cs]
          /\ Goto(j, "new", IF m > 0 THEN "debit" ELSE "worker")
    BY <1>2 DEF CreateJob
  <2>2. m \in Nat
    OBVIOUS
  <2>3. pc' \in [Jobs -> Active \cup {"new", "returned", "threw", "dead"}]
    BY <2>1
  <2>4. cost' \in [Jobs -> Nat] /\ chainIds' \in [Jobs -> SUBSET Chains]
    BY <2>1, <2>2
  <2> QED
    BY <1>2, <2>1, <2>3, <2>4 DEF CreateJob
<1>3. ASSUME NEW j \in Jobs, LockBalance(j) PROVE TypeOK'
  BY <1>3 DEF LockBalance
<1>4. ASSUME NEW j \in Jobs, Debit(j) PROVE TypeOK'
  <2>1. lock' \in [Users -> Jobs \cup {None}] /\ seen' \in [Jobs -> Int]
    BY <1>4 DEF Debit
  <2>2. pc' \in [Jobs -> Active \cup {"new", "returned", "threw", "dead"}]
    BY <1>4 DEF Debit
  <2>3. balance' \in [Users -> Int] /\ debits' \in [Jobs -> Nat] /\ refunds' \in [Jobs -> Nat]
    BY <1>4, DebitTypes DEF Debit
  <2> QED
    BY <1>4, <2>1, <2>2, <2>3 DEF Debit
<1>5. ASSUME NEW j \in Jobs, MarkUnpaid(j) PROVE TypeOK'
  BY <1>5 DEF MarkUnpaid
<1>6. ASSUME NEW j \in Jobs, StartSends(j) PROVE TypeOK'
  <2> DEFINE start == [c \in Chains |-> IF c \in chainIds[j] THEN "sending" ELSE "none"]
  <2>1. start \in [Chains -> {"none", "sending", "ok", "error"}]
    OBVIOUS
  <2>2. sends' = sends \/ sends' = [sends EXCEPT ![j] = start]
    BY <1>6 DEF StartSends
  <2>3. sends' \in [Jobs -> [Chains -> {"none", "sending", "ok", "error"}]]
    <3> HIDE DEF start
    <3> QED
      BY <2>1, <2>2
  <2> QED
    BY <1>6, <2>3 DEF StartSends
<1>7. ASSUME NEW j \in Jobs, NEW c \in Chains, SendEnds(j, c) PROVE TypeOK'
  <2>1. PICK v \in {"ok", "error"} : sends' = [sends EXCEPT ![j][c] = v]
    BY <1>7 DEF SendEnds
  <2> DEFINE row == [sends[j] EXCEPT ![c] = v]
  <2>2. row \in [Chains -> {"none", "sending", "ok", "error"}]
    BY <2>1
  <2>3. sends' = [sends EXCEPT ![j] = row]
    BY <2>1
  <2>4. sends' \in [Jobs -> [Chains -> {"none", "sending", "ok", "error"}]]
    <3> HIDE DEF row
    <3> QED
      BY <2>2, <2>3
  <2>5. broadcast[j] \cup {c} \in SUBSET Chains
    OBVIOUS
  <2>6. broadcast' \in [Jobs -> SUBSET Chains]
    BY <1>7, <2>5 DEF SendEnds
  <2> QED
    BY <1>7, <2>4, <2>6 DEF SendEnds
<1>8. ASSUME NEW j \in Jobs, Settle(j) PROVE TypeOK'
  BY <1>8 DEF Settle
<1>9. ASSUME NEW j \in Jobs, MarkComplete(j) PROVE TypeOK'
  BY <1>9 DEF MarkComplete
<1>10. ASSUME NEW j \in Jobs, MarkFailed(j) PROVE TypeOK'
  BY <1>10 DEF MarkFailed
<1>11. ASSUME NEW j \in Jobs, Refund(j) PROVE TypeOK'
  BY <1>11 DEF Refund
<1>12. ASSUME NEW j \in Jobs, DebitThrows(j) PROVE TypeOK'
  <2>1. lock' \in [Users -> Jobs \cup {None}] /\ seen' \in [Jobs -> Int]
    BY <1>12 DEF DebitThrows
  <2>2. pc' \in [Jobs -> Active \cup {"new", "returned", "threw", "dead"}]
    BY <1>12 DEF DebitThrows
  <2>3. balance' \in [Users -> Int] /\ debits' \in [Jobs -> Nat] /\ refunds' \in [Jobs -> Nat]
    BY <1>12, DebitTypes DEF DebitThrows
  <2> QED
    BY <1>12, <2>1, <2>2, <2>3 DEF DebitThrows
<1>13. ASSUME NEW j \in Jobs, PrepareThrows(j) PROVE TypeOK'
  BY <1>13 DEF PrepareThrows
<1>14. ASSUME NEW j \in Jobs, Die(j) PROVE TypeOK'
  BY <1>14 DEF Die
<1>15. CASE UNCHANGED vars
  BY <1>15 DEF vars
<1> QED
  BY <1>1, <1>2, <1>3, <1>4, <1>5, <1>6, <1>7, <1>8, <1>9, <1>10, <1>11,
     <1>12, <1>13, <1>14, <1>15 DEF Next, Proceed, Fail

LEMMA TypeInit == Init => TypeOK
BY AnchorJobsAssumption DEF Init, TypeOK, Active

\* Every variable keeps its type.
THEOREM TypeCorrect == Spec => []TypeOK
BY TypeInit, TypeStep, PTL DEF Spec

-----------------------------------------------------------------------------
JobInv(j) == PointInv(j) /\ LockInv(j) /\ LedgerInv(j) /\ SendInv(j)

\* A step of another job changes nothing of job k but its account's balance,
\* which a job that holds the lock only sees grow.
LEMMA OthersKeep ==
  ASSUME TypeOK, TypeOK', NEW k \in Jobs, JobInv(k),
         /\ status'[k] = status[k] /\ cost'[k] = cost[k] /\ chainIds'[k] = chainIds[k]
         /\ debits'[k] = debits[k] /\ refunds'[k] = refunds[k]
         /\ pc'[k] = pc[k] /\ seen'[k] = seen[k]
         /\ sends'[k] = sends[k] /\ broadcast'[k] = broadcast[k],
         pc[k] = "locked" => /\ lock'[OwnerOf[k]] = k
                             /\ balance'[OwnerOf[k]] >= balance[OwnerOf[k]]
  PROVE  JobInv(k)'
<1>1. PointInv(k)'
  BY DEF JobInv, PointInv, Settled, Due
<1>2. LockInv(k)'
  <2>1. /\ seen[k] \in Int /\ balance[OwnerOf[k]] \in Int /\ balance'[OwnerOf[k]] \in Int
    BY AnchorJobsAssumption DEF TypeOK
  <2> QED
    BY <2>1 DEF JobInv, LockInv
<1>3. LedgerInv(k)'
  BY DEF JobInv, LedgerInv, Due
<1>4. SendInv(k)'
  BY DEF JobInv, SendInv
<1> QED
  BY <1>1, <1>2, <1>3, <1>4 DEF JobInv

\* The job itself, where a step leaves its ledger rows and its sends alone.
LEMMA LedgerKept ==
  ASSUME NEW j \in Jobs, LedgerInv(j),
         /\ status'[j] = status[j] /\ cost'[j] = cost[j]
         /\ debits'[j] = debits[j] /\ refunds'[j] = refunds[j]
  PROVE  LedgerInv(j)'
BY DEF LedgerInv, Due

LEMMA SendsKept ==
  ASSUME NEW j \in Jobs, SendInv(j), pc'[j] # "new",
         /\ chainIds'[j] = chainIds[j]
         /\ sends'[j] = sends[j] /\ broadcast'[j] = broadcast[j]
  PROVE  SendInv(j)'
BY DEF SendInv

\* A step of job j leaves the row, the sends and the locks of the others alone.
Only(j) ==
  \A k \in Jobs \ {j} :
    /\ status'[k] = status[k] /\ cost'[k] = cost[k] /\ chainIds'[k] = chainIds[k]
    /\ debits'[k] = debits[k] /\ refunds'[k] = refunds[k]
    /\ pc'[k] = pc[k] /\ seen'[k] = seen[k]
    /\ sends'[k] = sends[k] /\ broadcast'[k] = broadcast[k]
    /\ lock[OwnerOf[k]] = k => lock'[OwnerOf[k]] = k

\* A step of job j keeps the invariant if it keeps j's part, and what it does
\* to a balance is seen by no other job that holds the account's lock.
LEMMA StepKeeps ==
  ASSUME JobsInv, TypeOK', NEW j \in Jobs, Only(j), JobInv(j)',
         \A u \in Users : balance'[u] >= 0,
         \A u \in Users : balance'[u] >= balance[u] \/ lock[u] = j
  PROVE  JobsInv'
<1>1. ASSUME NEW k \in Jobs, k # j PROVE JobInv(k)'
  <2>1. TypeOK /\ JobInv(k)
    BY DEF JobsInv, JobInv
  <2>2. OwnerOf[k] \in Users
    BY AnchorJobsAssumption
  <2>3. pc[k] = "locked" => /\ lock'[OwnerOf[k]] = k
                            /\ balance'[OwnerOf[k]] >= balance[OwnerOf[k]]
    BY <1>1, <2>1, <2>2 DEF JobInv, LockInv, Only
  <2> QED
    BY <1>1, <2>1, <2>3, OthersKeep DEF Only
<1>2. \A k \in Jobs : JobInv(k)'
  BY <1>1
<1>3. \A k \in Jobs : (PointInv(k) /\ LockInv(k) /\ LedgerInv(k) /\ SendInv(k))'
  BY <1>2 DEF JobInv
<1> QED
  BY <1>3 DEF JobsInv, NeverOverdrawn

\* Steps that only move the request, and perhaps mark its row.
LEMMA MarkSteps ==
  ASSUME JobsInv, TypeOK', NEW j \in Jobs,
         MarkUnpaid(j) \/ PrepareThrows(j) \/ Settle(j) \/ MarkComplete(j) \/ MarkFailed(j)
  PROVE  JobsInv'
<1> USE DEF rowVars, ledgerVars, sendVars, Goto, Mark
<1>0. TypeOK /\ PointInv(j) /\ LedgerInv(j) /\ SendInv(j)
  BY DEF JobsInv
<1>1. Only(j)
  BY <1>0 DEF Only, TypeOK, MarkUnpaid, PrepareThrows, Settle, MarkComplete, MarkFailed
<1>2. UNCHANGED <<balance, debits, refunds, lock, cost, chainIds, seen, sends, broadcast>>
  BY DEF MarkUnpaid, PrepareThrows, Settle, MarkComplete, MarkFailed
<1>3. pc[j] \in Active \ {"locked"} /\ pc'[j] \notin {"new", "locked"}
  BY <1>0 DEF TypeOK, Active, MarkUnpaid, PrepareThrows, Settle, MarkComplete, MarkFailed
<1>4. LockInv(j)'
  BY <1>3 DEF LockInv
<1>5. SendInv(j)'
  BY <1>0, <1>2, <1>3 DEF SendInv
<1>6. PointInv(j)' /\ LedgerInv(j)'
  <2>1. debits[j] \in Nat /\ refunds[j] \in Nat
    BY <1>0 DEF TypeOK
  <2>2. CASE MarkUnpaid(j)
    BY <1>0, <1>2, <2>1, <2>2 DEF MarkUnpaid, PointInv, LedgerInv, Settled, Due, Active, TypeOK
  <2>3. CASE PrepareThrows(j)
    BY <1>0, <1>2, <2>1, <2>3 DEF PrepareThrows, PointInv, LedgerInv, Settled, Due, Active, TypeOK
  <2>4. CASE Settle(j)
    <3>1. Fulfilled(j) = chainIds[j] => chainIds[j] \subseteq broadcast[j]
      BY <1>0 DEF Fulfilled, SendInv, TypeOK
    <3> QED
      BY <1>0, <1>2, <2>1, <2>4, <3>1 DEF Settle, PointInv, LedgerInv, Settled, Due, Active, TypeOK
  <2>5. CASE MarkComplete(j)
    BY <1>0, <1>2, <2>1, <2>5 DEF MarkComplete, PointInv, LedgerInv, Settled, Due, Active, TypeOK
  <2>6. CASE MarkFailed(j)
    BY <1>0, <1>2, <2>1, <2>6 DEF MarkFailed, PointInv, LedgerInv, Settled, Due, Active, TypeOK
  <2> QED
    BY <2>2, <2>3, <2>4, <2>5, <2>6
<1>7. \A u \in Users : balance'[u] >= 0 /\ balance'[u] >= balance[u]
  BY <1>2 DEF JobsInv, NeverOverdrawn, TypeOK
<1> QED
  BY <1>1, <1>4, <1>5, <1>6, <1>7, StepKeeps DEF JobInv

\* A new job owes nothing yet.
LEMMA CreateStep ==
  ASSUME JobsInv, TypeOK', NEW j \in Jobs, CreateJob(j)
  PROVE  JobsInv'
<1> USE DEF rowVars, ledgerVars, sendVars, Goto
<1>0. TypeOK /\ PointInv(j) /\ LedgerInv(j) /\ SendInv(j)
  BY DEF JobsInv
<1>1. PICK m \in Costs, cs \in SUBSET Chains :
        /\ status' = [status EXCEPT ![j] = "pending"]
        /\ cost' = [cost EXCEPT ![j] = m]
        /\ chainIds' = [chainIds EXCEPT ![j] = cs]
        /\ Goto(j, "new", IF m > 0 THEN "debit" ELSE "worker")
  BY DEF CreateJob
<1>2. UNCHANGED <<balance, debits, refunds, lock, seen, sends, broadcast>>
  BY DEF CreateJob
<1>3. Only(j)
  BY <1>0, <1>1, <1>2 DEF Only, TypeOK
<1>4. m \in Nat /\ status'[j] = "pending" /\ cost'[j] = m
  BY <1>0, <1>1, AnchorJobsAssumption DEF TypeOK
<1>5. pc[j] = "new" /\ pc'[j] = IF m > 0 THEN "debit" ELSE "worker"
  BY <1>0, <1>1 DEF TypeOK
<1>6. debits[j] = 0 /\ refunds[j] = 0
  BY <1>0, <1>5 DEF PointInv
<1>7. JobInv(j)'
  <2>1. LedgerInv(j)' /\ LockInv(j)' /\ SendInv(j)'
    BY <1>0, <1>2, <1>4, <1>5, <1>6 DEF LedgerInv, LockInv, SendInv, Due
  <2>2. PointInv(j)'
    BY <1>2, <1>4, <1>5, <1>6 DEF PointInv, Due, Active
  <2> QED
    BY <2>1, <2>2 DEF JobInv
<1>8. \A u \in Users : balance'[u] >= 0 /\ balance'[u] >= balance[u]
  BY <1>2 DEF JobsInv, NeverOverdrawn, TypeOK
<1> QED
  BY <1>3, <1>7, <1>8, StepKeeps

\* The lock is taken by one job, which reads the balance under it.
LEMMA LockStep ==
  ASSUME JobsInv, TypeOK', NEW j \in Jobs, LockBalance(j)
  PROVE  JobsInv'
<1> USE DEF rowVars, ledgerVars, sendVars, Goto
<1>0. TypeOK /\ PointInv(j) /\ LedgerInv(j) /\ SendInv(j) /\ OwnerOf[j] \in Users
  BY AnchorJobsAssumption DEF JobsInv
<1>1. UNCHANGED <<balance, debits, refunds, status, cost, chainIds, sends, broadcast>>
  BY DEF LockBalance
<1>2. /\ lock[OwnerOf[j]] = None /\ lock' = [lock EXCEPT ![OwnerOf[j]] = j]
      /\ seen' = [seen EXCEPT ![j] = balance[OwnerOf[j]]]
      /\ pc[j] = "debit" /\ pc' = [pc EXCEPT ![j] = "locked"]
  BY DEF LockBalance
<1>3. Only(j)
  BY <1>0, <1>1, <1>2, AnchorJobsAssumption DEF Only, TypeOK
<1>4. /\ pc'[j] = "locked" /\ lock'[OwnerOf[j]] = j /\ seen'[j] = balance[OwnerOf[j]]
      /\ balance[OwnerOf[j]] \in Int
  BY <1>0, <1>2 DEF TypeOK
<1>5. JobInv(j)'
  <2>1. LedgerInv(j)' /\ SendInv(j)'
    BY <1>0, <1>1, <1>4 DEF LedgerInv, SendInv, Due
  <2>2. LockInv(j)'
    BY <1>1, <1>4 DEF LockInv
  <2>3. PointInv(j)'
    BY <1>0, <1>1, <1>2, <1>4 DEF PointInv, Active, Due
  <2> QED
    BY <2>1, <2>2, <2>3 DEF JobInv
<1>6. \A u \in Users : balance'[u] >= 0 /\ balance'[u] >= balance[u]
  BY <1>1 DEF JobsInv, NeverOverdrawn, TypeOK
<1> QED
  BY <1>3, <1>5, <1>6, StepKeeps

\* The transaction of a job releases its own lock only.
LEMMA EndTransactionOnly ==
  ASSUME TypeOK, NEW j \in Jobs, EndTransaction(j)
  PROVE  \A k \in Jobs \ {j} :
           seen'[k] = seen[k] /\ (lock[OwnerOf[k]] = k => lock'[OwnerOf[k]] = k)
BY AnchorJobsAssumption DEF TypeOK, EndTransaction

\* A debit is taken under the lock, from a balance that covers it.
LEMMA TakeDebitCovered ==
  ASSUME JobsInv, NEW j \in Jobs, pc[j] = "locked", seen[j] >= cost[j], TakeDebit(j)
  PROVE  /\ \A u \in Users : balance'[u] >= 0
         /\ \A u \in Users : balance'[u] >= balance[u] \/ lock[u] = j
         /\ debits'[j] = 1 /\ refunds'[j] = 0 /\ Due(j) = 1
         /\ \A k \in Jobs \ {j} : debits'[k] = debits[k]
<1>0. /\ TypeOK /\ PointInv(j) /\ LockInv(j) /\ OwnerOf[j] \in Users
      /\ \A u \in Users : balance[u] \in Int /\ balance[u] >= 0
  BY AnchorJobsAssumption DEF JobsInv, TypeOK, NeverOverdrawn
<1>1. lock[OwnerOf[j]] = j /\ seen[j] <= balance[OwnerOf[j]]
  BY <1>0 DEF LockInv
<1>2. cost[j] \in Nat /\ seen[j] \in Int
  BY <1>0 DEF TypeOK
<1>3. balance' = [balance EXCEPT ![OwnerOf[j]] = balance[OwnerOf[j]] - cost[j]]
  BY DEF TakeDebit
<1>4. balance'[OwnerOf[j]] >= 0
  BY <1>0, <1>1, <1>2, <1>3 DEF TypeOK
<1>5. \A u \in Users : balance'[u] >= 0 /\ (balance'[u] >= balance[u] \/ lock[u] = j)
  BY <1>0, <1>1, <1>3, <1>4 DEF TypeOK
<1>6. debits[j] = 0 /\ refunds[j] = 0 /\ cost[j] > 0
  BY <1>0 DEF PointInv
<1> QED
  BY <1>0, <1>2, <1>5, <1>6 DEF TakeDebit, TypeOK, Due

LEMMA DebitSteps ==
  ASSUME JobsInv, TypeOK', NEW j \in Jobs, Debit(j) \/ DebitThrows(j)
  PROVE  JobsInv'
<1> USE DEF rowVars, ledgerVars, sendVars, Goto
<1>0. TypeOK /\ PointInv(j) /\ LedgerInv(j) /\ SendInv(j)
  BY DEF JobsInv
<1>1. UNCHANGED <<status, cost, chainIds, sends, broadcast>> /\ EndTransaction(j)
  BY DEF Debit, DebitThrows
<1>2. /\ pc[j] \in {"debit", "locked"} /\ debits[j] = 0 /\ refunds[j] = 0
      /\ status[j] = "pending" /\ cost[j] > 0 /\ cost[j] \in Costs
      /\ cost[j] \in Nat /\ seen[j] \in Int /\ Due(j) = 1
  BY <1>0 DEF Debit, DebitThrows, PointInv, Active, Due, TypeOK
<1>3. \E q \in {"refused", "errored", "worker"} : pc' = [pc EXCEPT ![j] = q]
  BY DEF Debit, DebitThrows
<1>4. /\ pc'[j] \in {"refused", "errored", "worker"}
      /\ \A k \in Jobs \ {j} : pc'[k] = pc[k]
  BY <1>0, <1>3 DEF TypeOK
<1>5. \/ UNCHANGED ledgerVars /\ pc'[j] # "worker"
      \/ /\ pc[j] = "locked" /\ seen[j] >= cost[j] /\ TakeDebit(j)
         /\ pc'[j] # "refused"
  <2>1. CASE Debit(j)
    <3>1. CASE seen[j] < cost[j]
      BY <1>0, <2>1, <3>1 DEF Debit, TypeOK
    <3>2. CASE ~(seen[j] < cost[j])
      BY <1>0, <1>2, <2>1, <3>2 DEF Debit, TypeOK
    <3> QED
      BY <3>1, <3>2
  <2>2. CASE DebitThrows(j)
    BY <1>0, <2>2 DEF DebitThrows, TypeOK
  <2> QED
    BY <2>1, <2>2
<1>6. CASE UNCHANGED ledgerVars /\ pc'[j] # "worker"
  <2>1. Only(j)
    BY <1>0, <1>1, <1>4, <1>6, EndTransactionOnly DEF Only
  <2>2. JobInv(j)'
    BY <1>0, <1>1, <1>2, <1>4, <1>6 DEF JobInv, PointInv, LockInv, LedgerInv, SendInv, Due, Active
  <2>3. \A u \in Users : balance'[u] >= 0 /\ balance'[u] >= balance[u]
    BY <1>6 DEF JobsInv, NeverOverdrawn, TypeOK
  <2> QED
    BY <2>1, <2>2, <2>3, StepKeeps
<1>7. CASE pc[j] = "locked" /\ seen[j] >= cost[j] /\ TakeDebit(j) /\ pc'[j] # "refused"
  <2>1. /\ \A u \in Users : balance'[u] >= 0
        /\ \A u \in Users : balance'[u] >= balance[u] \/ lock[u] = j
        /\ debits'[j] = 1 /\ refunds'[j] = 0 /\ Due(j) = 1
        /\ \A k \in Jobs \ {j} : debits'[k] = debits[k]
    BY <1>7, TakeDebitCovered
  <2>2. UNCHANGED refunds
    BY <1>7 DEF TakeDebit
  <2>3. Only(j)
    BY <1>0, <1>1, <1>4, <2>1, <2>2, EndTransactionOnly DEF Only
  <2>4. JobInv(j)'
    BY <1>0, <1>1, <1>2, <1>4, <1>7, <2>1 DEF JobInv, PointInv, LockInv, LedgerInv, SendInv, Due, Active
  <2> QED
    BY <2>1, <2>3, <2>4, StepKeeps
<1> QED
  BY <1>5, <1>6, <1>7

LEMMA SendSteps ==
  ASSUME JobsInv, TypeOK', NEW j \in Jobs,
         StartSends(j) \/ \E c \in Chains : SendEnds(j, c)
  PROVE  JobsInv'
<1> USE DEF rowVars, ledgerVars, sendVars, Goto
<1>0. TypeOK /\ PointInv(j) /\ LedgerInv(j) /\ SendInv(j)
  BY DEF JobsInv
<1>1. UNCHANGED <<balance, debits, refunds, lock, status, cost, chainIds, seen>>
  BY DEF StartSends, SendEnds
<1>2. Only(j)
  BY <1>0, <1>1 DEF Only, TypeOK, StartSends, SendEnds
<1>3. pc[j] \in {"worker", "sending"} /\ pc'[j] \in {"sending", "failing"}
  BY <1>0 DEF TypeOK, StartSends, SendEnds
<1>4. PointInv(j)' /\ LockInv(j)' /\ LedgerInv(j)'
  BY <1>0, <1>1, <1>3 DEF PointInv, LockInv, LedgerInv, Due, Active
<1>5. SendInv(j)'
  <2>1. CASE StartSends(j)
    <3>1. CASE chainIds[j] \subseteq Configured
      <4>1. /\ sends' = [sends EXCEPT ![j] =
                 [c \in Chains |-> IF c \in chainIds[j] THEN "sending" ELSE "none"]]
            /\ broadcast' = broadcast
        BY <2>1, <3>1 DEF StartSends
      <4>2. \A c \in Chains : sends'[j][c] \in {"sending", "none"}
        BY <1>0, <4>1 DEF TypeOK
      <4> QED
        BY <1>0, <1>1, <1>3, <3>1, <4>1, <4>2 DEF SendInv
    <3>2. CASE ~(chainIds[j] \subseteq Configured)
      BY <1>0, <1>1, <1>3, <2>1, <3>2 DEF StartSends, SendInv
    <3> QED
      BY <3>1, <3>2
  <2>2. ASSUME NEW c \in Chains, SendEnds(j, c) PROVE SendInv(j)'
    <3>1. chainIds[j] \subseteq Configured
      BY <1>0, <2>2 DEF SendEnds, SendInv
    <3>2. /\ broadcast[j] \subseteq broadcast'[j]
          /\ \A d \in Chains \ {c} : sends'[j][d] = sends[j][d]
          /\ sends'[j][c] = "ok" => c \in broadcast'[j]
      BY <1>0, <2>2 DEF SendEnds, TypeOK
    <3> QED
      BY <1>0, <1>1, <1>3, <3>1, <3>2 DEF SendInv
  <2> QED
    BY <2>1, <2>2
<1>6. \A u \in Users : balance'[u] >= 0 /\ balance'[u] >= balance[u]
  BY <1>1 DEF JobsInv, NeverOverdrawn, TypeOK
<1> QED
  BY <1>2, <1>4, <1>5, <1>6, StepKeeps DEF JobInv

LEMMA RefundStep ==
  ASSUME JobsInv, TypeOK', NEW j \in Jobs, Refund(j)
  PROVE  JobsInv'
<1> USE DEF rowVars, ledgerVars, sendVars, Goto
<1>0. /\ TypeOK /\ PointInv(j) /\ LedgerInv(j) /\ SendInv(j) /\ OwnerOf[j] \in Users
      /\ \A u \in Users : balance[u] \in Int /\ balance[u] >= 0
  BY AnchorJobsAssumption DEF JobsInv, NeverOverdrawn, TypeOK
<1>1. UNCHANGED <<debits, lock, status, cost, chainIds, seen, sends, broadcast>>
  BY DEF Refund
<1>2. /\ pc[j] = "refund" /\ pc'[j] = "returned" /\ status[j] = "failed"
      /\ cost[j] \in Nat /\ cost[j] > 0 /\ debits[j] = 1
      /\ refunds[j] = 0 /\ refunds'[j] = 1
  BY <1>0 DEF Refund, PointInv, Due, TypeOK
<1>3. Only(j)
  BY <1>0, <1>1 DEF Only, TypeOK, Refund
<1>4. JobInv(j)'
  BY <1>0, <1>1, <1>2 DEF JobInv, PointInv, Settled, LockInv, LedgerInv, SendInv, Due, Active
<1>5. balance' = [balance EXCEPT ![OwnerOf[j]] = balance[OwnerOf[j]] + cost[j]]
  BY DEF Refund
<1>6. \A u \in Users : balance'[u] >= 0 /\ balance'[u] >= balance[u]
  BY <1>0, <1>2, <1>5 DEF TypeOK
<1> QED
  BY <1>3, <1>4, <1>6, StepKeeps

LEMMA DieStep ==
  ASSUME JobsInv, TypeOK', NEW j \in Jobs, Die(j)
  PROVE  JobsInv'
<1> USE DEF rowVars, ledgerVars, sendVars
<1>0. TypeOK /\ PointInv(j) /\ LedgerInv(j) /\ SendInv(j)
  BY DEF JobsInv
<1>1. UNCHANGED <<balance, debits, refunds, status, cost, chainIds, sends>> /\ EndTransaction(j)
  BY DEF Die
<1>2. PICK cs \in SUBSET {c \in Chains : sends[j][c] = "sending"} :
        broadcast' = [broadcast EXCEPT ![j] = broadcast[j] \cup cs]
  BY DEF Die
<1>3. /\ pc[j] \in Active /\ pc'[j] = "dead"
      /\ broadcast'[j] = broadcast[j] \cup cs
      /\ \A k \in Jobs \ {j} : pc'[k] = pc[k] /\ broadcast'[k] = broadcast[k]
  BY <1>0, <1>2 DEF Die, TypeOK
<1>4. Only(j)
  BY <1>0, <1>1, <1>3, EndTransactionOnly DEF Only
<1>5. SendInv(j)'
  BY <1>0, <1>1, <1>2, <1>3 DEF SendInv
<1>6. PointInv(j)' /\ LockInv(j)' /\ LedgerInv(j)'
  BY <1>0, <1>1, <1>3 DEF PointInv, LockInv, LedgerInv, Due, Active
<1>7. \A u \in Users : balance'[u] >= 0 /\ balance'[u] >= balance[u]
  BY <1>1 DEF JobsInv, NeverOverdrawn, TypeOK
<1> QED
  BY <1>4, <1>5, <1>6, <1>7, StepKeeps DEF JobInv

LEMMA DepositStep ==
  ASSUME JobsInv, TypeOK', NEW u \in Users, Deposit(u)
  PROVE  JobsInv'
<1> USE DEF rowVars, ledgerVars, sendVars
<1>0. TypeOK /\ \A v \in Users : balance[v] \in Int /\ balance[v] >= 0
  BY DEF JobsInv, TypeOK, NeverOverdrawn
<1>1. UNCHANGED <<debits, refunds, lock, status, cost, chainIds, pc, seen, sends, broadcast>>
  BY DEF Deposit
<1>2. \A v \in Users : balance'[v] >= balance[v] /\ balance'[v] >= 0
  BY <1>0, AnchorJobsAssumption DEF Deposit, TypeOK
<1>3. ASSUME NEW k \in Jobs PROVE JobInv(k)'
  <2>1. JobInv(k) /\ OwnerOf[k] \in Users
    BY AnchorJobsAssumption DEF JobsInv, JobInv
  <2>2. pc[k] = "locked" => lock'[OwnerOf[k]] = k
    BY <1>1, <2>1 DEF JobInv, LockInv
  <2> QED
    BY <1>0, <1>1, <1>2, <2>1, <2>2, OthersKeep
<1>4. \A k \in Jobs : (PointInv(k) /\ LockInv(k) /\ LedgerInv(k) /\ SendInv(k))'
  BY <1>3 DEF JobInv
<1> QED
  BY <1>2, <1>4 DEF JobsInv, NeverOverdrawn

LEMMA InvInit == Init => JobsInv
<1> SUFFICES ASSUME Init PROVE JobsInv
  OBVIOUS
<1>1. TypeOK
  BY TypeInit
<1>2. ASSUME NEW j \in Jobs PROVE PointInv(j) /\ LockInv(j) /\ LedgerInv(j) /\ SendInv(j)
  BY DEF Init, PointInv, LockInv, LedgerInv, SendInv, Due, Active
<1> QED
  BY <1>1, <1>2 DEF JobsInv, NeverOverdrawn, Init

LEMMA InvStep == JobsInv /\ [Next]_vars => JobsInv'
<1> SUFFICES ASSUME JobsInv, [Next]_vars PROVE JobsInv'
  OBVIOUS
<1>0. TypeOK'
  BY TypeStep DEF JobsInv
<1>1. ASSUME NEW u \in Users, Deposit(u) PROVE JobsInv'
  BY <1>0, <1>1, DepositStep
<1>2. ASSUME NEW j \in Jobs, CreateJob(j) \/ Proceed(j) \/ Fail(j) PROVE JobsInv'
  BY <1>0, <1>2, CreateStep, LockStep, DebitSteps, MarkSteps, SendSteps, RefundStep, DieStep
     DEF Proceed, Fail
<1>3. CASE UNCHANGED vars
  <2>1. ASSUME NEW j \in Jobs PROVE JobInv(j)'
    <3>1. PointInv(j)'
      BY <1>3 DEF vars, rowVars, ledgerVars, JobsInv, PointInv, Settled, Due, sendVars
    <3>2. LockInv(j)' /\ LedgerInv(j)'
      BY <1>3 DEF vars, rowVars, ledgerVars, JobsInv, LockInv, LedgerInv, Due
    <3>3. SendInv(j)'
      BY <1>3 DEF vars, rowVars, sendVars, JobsInv, SendInv
    <3> QED
      BY <3>1, <3>2, <3>3 DEF JobInv
  <2>2. NeverOverdrawn'
    BY <1>3 DEF vars, ledgerVars, JobsInv, NeverOverdrawn
  <2> QED
    BY <1>0, <2>1, <2>2 DEF JobsInv, JobInv
<1> QED
  BY <1>1, <1>2, <1>3 DEF Next

\* The inductive invariant of the anchoring flow, for any number of accounts,
\* concurrent requests and chains, with failures at every step.
THEOREM Safety == Spec => []JobsInv
BY InvInit, InvStep, PTL DEF Spec

\* No account is ever overdrawn, whatever its requests interleave.
THEOREM NoOverdraft == Spec => []NeverOverdrawn
<1>1. JobsInv => NeverOverdrawn
  BY DEF JobsInv
<1> QED
  BY <1>1, Safety, PTL

\* Every answered request has settled its account.
THEOREM AnswersSettled == Spec => []AnswerIsSettled
<1>1. JobsInv => AnswerIsSettled
  BY DEF JobsInv, PointInv, AnswerIsSettled
<1> QED
  BY <1>1, Safety, PTL

\* A job that names a chain with no configured signer broadcasts nothing.
THEOREM NothingSentUnconfigured == Spec => []MissingSignerSendsNothing
<1>1. JobsInv => MissingSignerSendsNothing
  BY DEF JobsInv, SendInv, MissingSignerSendsNothing
<1> QED
  BY <1>1, Safety, PTL

-----------------------------------------------------------------------------
(* The step simulation of PrepaidOrder. *)

phase == [j \in Jobs |-> Phase(j)]

\* The phases of a row, one by one.
LEMMA PhaseCases ==
  /\ PhaseOf("absent", 0, 0) = "none"
  /\ PhaseOf("complete", 0, 0) = "settled" /\ PhaseOf("complete", 1, 0) = "settled"
  /\ PhaseOf("pending", 1, 0) = "paid" /\ PhaseOf("failed", 1, 0) = "paid"
  /\ PhaseOf("pending", 0, 0) = "open"
  /\ PhaseOf("failed", 0, 0) = "refused" /\ PhaseOf("failed", 1, 1) = "refunded"
<1>1. PhaseOf("absent", 0, 0) = "none"
  BY DEF PhaseOf
<1>5. PhaseOf("complete", 0, 0) = "settled" /\ PhaseOf("complete", 1, 0) = "settled"
  BY DEF PhaseOf
<1>2. PhaseOf("pending", 1, 0) = "paid" /\ PhaseOf("failed", 1, 0) = "paid"
  BY DEF PhaseOf
<1>3. PhaseOf("pending", 0, 0) = "open"
  BY DEF PhaseOf
<1>4. PhaseOf("failed", 0, 0) = "refused" /\ PhaseOf("failed", 1, 1) = "refunded"
  BY DEF PhaseOf
<1> QED
  BY <1>1, <1>2, <1>3, <1>4, <1>5

\* A step that changes the rows of one job moves the phase of that job.
LEMMA PhaseMoves ==
  ASSUME NEW j \in Jobs, NEW from, NEW to, Phase(j) = from, Phase(j)' = to,
         \A k \in Jobs \ {j} :
           status'[k] = status[k] /\ debits'[k] = debits[k] /\ refunds'[k] = refunds[k]
  PROVE  Abstract!Move(j, from, to)
<1>1. \A k \in Jobs \ {j} : Phase(k)' = Phase(k)
  BY DEF Phase
<1>2. phase' = [phase EXCEPT ![j] = to]
  BY <1>1 DEF phase
<1> QED
  BY <1>2 DEF Abstract!Move, phase

\* Steps that leave the rows and the ledger alone are stutters.
LEMMA PhaseKept ==
  ASSUME UNCHANGED <<balance, cost, status, debits, refunds>>
  PROVE  UNCHANGED <<balance, cost, phase>>
BY DEF phase, Phase

LEMMA SimulationInit == Init => Abstract!Init
<1> SUFFICES ASSUME Init PROVE Abstract!Init
  OBVIOUS
<1>1. \A j \in Jobs : Phase(j) = "none"
  BY PhaseCases DEF Init, Phase
<1> QED
  BY <1>1 DEF Init, Abstract!Init

\* Every step of the handler is a step of PrepaidOrder or a stutter.
LEMMA SimulationStep ==
  JobsInv /\ [Next]_vars => [Abstract!Next]_<<balance, cost, phase>>
<1> SUFFICES ASSUME JobsInv, [Next]_vars
             PROVE  [Abstract!Next]_<<balance, cost, phase>>
  OBVIOUS
<1> USE DEF rowVars, ledgerVars, sendVars, Goto, Mark
<1>0. TypeOK /\ \A j \in Jobs : PointInv(j) /\ LedgerInv(j) /\ LockInv(j)
  BY DEF JobsInv
<1>1. ASSUME NEW u \in Users, Deposit(u) PROVE Abstract!Next
  <2>1. UNCHANGED <<cost, status, debits, refunds>>
    BY <1>1 DEF Deposit
  <2>2. UNCHANGED phase
    BY <2>1 DEF phase, Phase
  <2>3. PICK n \in 1 .. MaxBalance : balance' = [balance EXCEPT ![u] = balance[u] + n]
    BY <1>1 DEF Deposit
  <2>4. balance'[u] = balance[u] + n /\ balance'[u] >= balance[u]
    BY <1>0, <2>3, AnchorJobsAssumption DEF TypeOK
  <2>5. Abstract!Deposit(u)
    BY <2>1, <2>2, <2>3, <2>4 DEF Abstract!Deposit, phase
  <2> QED
    BY <2>5 DEF Abstract!Next
<1>2. ASSUME NEW j \in Jobs, CreateJob(j) PROVE Abstract!Next
  <2>1. PICK m \in Costs, cs \in SUBSET Chains :
          status' = [status EXCEPT ![j] = "pending"] /\ cost' = [cost EXCEPT ![j] = m]
    BY <1>2 DEF CreateJob
  <2>2. UNCHANGED <<balance, debits, refunds>> /\ pc[j] = "new"
    BY <1>2 DEF CreateJob
  <2>3. status[j] = "absent" /\ debits[j] = 0 /\ refunds[j] = 0 /\ status'[j] = "pending"
    BY <1>0, <2>1, <2>2 DEF PointInv, TypeOK
  <2>4. Phase(j) = "none" /\ Phase(j)' = "open"
    BY <2>2, <2>3, PhaseCases DEF Phase
  <2>5. Abstract!Move(j, "none", "open")
    BY <1>0, <2>1, <2>2, <2>4, PhaseMoves DEF TypeOK
  <2> QED
    BY <2>1, <2>2, <2>5 DEF Abstract!Next, Abstract!Open
<1>3. ASSUME NEW j \in Jobs, Debit(j) \/ DebitThrows(j)
      PROVE  [Abstract!Next]_<<balance, cost, phase>>
  <2>1. UNCHANGED <<status, cost>>
    BY <1>3 DEF Debit, DebitThrows
  <2>2. CASE UNCHANGED ledgerVars
    BY <2>1, <2>2, PhaseKept
  <2>3. CASE pc[j] = "locked" /\ seen[j] >= cost[j] /\ TakeDebit(j)
    <3>1. /\ status[j] = "pending" /\ debits[j] = 0 /\ refunds[j] = 0 /\ cost[j] > 0
          /\ seen[j] <= balance[OwnerOf[j]]
      BY <1>0, <2>3 DEF PointInv, LockInv, Active
    <3>2. debits' = [debits EXCEPT ![j] = debits[j] + 1] /\ UNCHANGED refunds
      BY <2>3 DEF TakeDebit
    <3>3. debits'[j] = 1
      BY <1>0, <3>1, <3>2 DEF TypeOK
    <3>4. Phase(j) = "open" /\ Phase(j)' = "paid"
      BY <2>1, <3>1, <3>2, <3>3, PhaseCases DEF Phase
    <3>5. Abstract!Move(j, "open", "paid")
      BY <1>0, <2>1, <3>2, <3>4, PhaseMoves DEF TypeOK
    <3>6. /\ cost[j] \in Nat /\ seen[j] \in Int /\ balance[OwnerOf[j]] \in Int
      BY <1>0, AnchorJobsAssumption DEF TypeOK
    <3>7. cost[j] <= balance[OwnerOf[j]]
      BY <2>3, <3>1, <3>6
    <3>8. balance' = [balance EXCEPT ![OwnerOf[j]] = balance[OwnerOf[j]] + (-cost[j])]
      BY <2>3, <3>6 DEF TakeDebit
    <3>9. Abstract!Pay(j)
      BY <2>1, <3>1, <3>5, <3>7, <3>8 DEF Abstract!Pay, Abstract!Add
    <3> QED
      BY <3>9 DEF Abstract!Next
  <2>4. CASE Debit(j)
    <3>1. CASE seen[j] < cost[j]
      BY <2>2, <2>4, <3>1 DEF Debit
    <3>2. CASE ~(seen[j] < cost[j])
      <4>1. seen[j] >= cost[j]
        BY <1>0, <3>2 DEF TypeOK
      <4> QED
        BY <2>3, <2>4, <3>2, <4>1 DEF Debit
    <3> QED
      BY <3>1, <3>2
  <2>5. CASE DebitThrows(j)
    BY <2>2, <2>3, <2>5 DEF DebitThrows
  <2> QED
    BY <1>3, <2>4, <2>5
<1>4. ASSUME NEW j \in Jobs, MarkUnpaid(j) \/ MarkFailed(j)
      PROVE  [Abstract!Next]_<<balance, cost, phase>>
  <2>1. UNCHANGED <<balance, cost, debits, refunds>> /\ status' = [status EXCEPT ![j] = "failed"]
    BY <1>4 DEF MarkUnpaid, MarkFailed
  <2>2. status[j] = "pending" /\ refunds[j] = 0 /\ debits[j] \in {0, 1} /\ status'[j] = "failed"
    <3>1. pc[j] \in {"refused", "errored", "failing"}
      BY <1>4 DEF MarkUnpaid, MarkFailed
    <3>2. status[j] = "pending" /\ refunds[j] = 0
      BY <1>0, <3>1 DEF PointInv, Active
    <3>3. debits[j] \in Nat /\ debits[j] <= 1
      BY <1>0 DEF LedgerInv, Due, TypeOK
    <3>4. status'[j] = "failed"
      BY <1>0, <2>1 DEF TypeOK
    <3> QED
      BY <3>2, <3>3, <3>4
  <2>3. CASE debits[j] = 0
    <3>1. Phase(j) = "open" /\ Phase(j)' = "refused"
      BY <2>1, <2>2, <2>3, PhaseCases DEF Phase
    <3>2. Abstract!Move(j, "open", "refused")
      BY <1>0, <2>1, <3>1, PhaseMoves DEF TypeOK
    <3> QED
      BY <2>1, <3>2 DEF Abstract!Next, Abstract!Refuse
  <2>4. CASE debits[j] = 1
    <3>1. Phase(j) = "paid" /\ Phase(j)' = "paid"
      BY <2>1, <2>2, <2>4, PhaseCases DEF Phase
    <3>2. \A k \in Jobs : Phase(k)' = Phase(k)
      BY <1>0, <2>1, <3>1 DEF Phase, TypeOK
    <3> QED
      BY <2>1, <3>2 DEF phase
  <2> QED
    BY <2>2, <2>3, <2>4
<1>5. ASSUME NEW j \in Jobs, MarkComplete(j) PROVE Abstract!Next
  <2>1. UNCHANGED <<balance, cost, debits, refunds>> /\ status' = [status EXCEPT ![j] = "complete"]
    BY <1>5 DEF MarkComplete
  <2>2. /\ status[j] = "pending" /\ refunds[j] = 0 /\ debits[j] = Due(j)
        /\ status'[j] = "complete" /\ cost[j] \in Nat
    BY <1>0, <1>5, <2>1 DEF MarkComplete, PointInv, Active, TypeOK
  <2>3. CASE cost[j] = 0
    <3>1. Phase(j) = "open" /\ Phase(j)' = "settled"
      BY <2>1, <2>2, <2>3, PhaseCases DEF Phase, Due
    <3>2. Abstract!Move(j, "open", "settled")
      BY <1>0, <2>1, <3>1, PhaseMoves DEF TypeOK
    <3> QED
      BY <2>1, <2>3, <3>2 DEF Abstract!Next, Abstract!Settle
  <2>4. CASE cost[j] > 0
    <3>1. Phase(j) = "paid" /\ Phase(j)' = "settled"
      BY <2>1, <2>2, <2>4, PhaseCases DEF Phase, Due
    <3>2. Abstract!Move(j, "paid", "settled")
      BY <1>0, <2>1, <3>1, PhaseMoves DEF TypeOK
    <3> QED
      BY <2>1, <3>2 DEF Abstract!Next, Abstract!Settle
  <2> QED
    BY <2>2, <2>3, <2>4
<1>6. ASSUME NEW j \in Jobs, Refund(j) PROVE Abstract!Next
  <2>1. UNCHANGED <<cost, debits, status>> /\ refunds' = [refunds EXCEPT ![j] = refunds[j] + 1]
    BY <1>6 DEF Refund
  <2>2. status[j] = "failed" /\ refunds[j] = 0 /\ debits[j] = 1 /\ refunds'[j] = 1
    BY <1>0, <1>6, <2>1 DEF Refund, PointInv, Due, TypeOK
  <2>3. Phase(j) = "paid" /\ Phase(j)' = "refunded"
    BY <2>1, <2>2, PhaseCases DEF Phase
  <2>4. Abstract!Move(j, "paid", "refunded")
    BY <1>0, <2>1, <2>3, PhaseMoves DEF TypeOK
  <2> QED
    BY <1>6, <2>1, <2>4 DEF Abstract!Next, Abstract!Refund, Abstract!Add, Refund
<1>7. ASSUME NEW j \in Jobs,
             \/ LockBalance(j) \/ StartSends(j) \/ \E c \in Chains : SendEnds(j, c)
             \/ Settle(j) \/ PrepareThrows(j) \/ Die(j)
      PROVE  UNCHANGED <<balance, cost, phase>>
  <2>1. UNCHANGED <<balance, cost, status, debits, refunds>>
    BY <1>7 DEF LockBalance, StartSends, SendEnds, Settle, PrepareThrows, Die
  <2> QED
    BY <2>1, PhaseKept
<1>8. CASE UNCHANGED vars
  BY <1>8, PhaseKept DEF vars
<1> QED
  BY <1>1, <1>2, <1>3, <1>4, <1>5, <1>6, <1>7, <1>8 DEF Next, Proceed, Fail

\* The anchoring flow implements the prepaid order: one debit, from a balance
\* that covers it, answered by the anchor or by one refund and never by both.
THEOREM Refinement == Spec => ImplementsPrepaidOrder
BY SimulationInit, SimulationStep, Safety, PTL
   DEF Spec, ImplementsPrepaidOrder, Abstract!Spec, phase

=============================================================================
