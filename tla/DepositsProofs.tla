--------------------------- MODULE DepositsProofs ---------------------------
(***************************************************************************)
(* Deposits: type correctness, the inductive invariant, what a step leaves *)
(* final, the cursor of the watcher, and the step simulation of PaidOnce,  *)
(* for any users, rows, transactions, ticks and requests.                  *)
(***************************************************************************)
EXTENDS Deposits, TLAPS

USE DEF Block

\* Every variable keeps its type, and a request in progress names a row and a
\* transaction.
THEOREM TypeCorrect == Spec => []TypeOK
<1> USE DepositsAssumption DEF TypeOK
<1>1. Init => TypeOK
  BY DEF Init
<1>2. TypeOK /\ [Next]_vars => TypeOK'
  <2> SUFFICES ASSUME TypeOK, [Next]_vars PROVE TypeOK'
    OBVIOUS
  <2> USE DEF rowVars, chainVars, cursorVars, tickVars, reqVars
  <2>1. CASE Mine
    BY <2>1 DEF Mine
  <2>2. CASE Finalize
    BY <2>2 DEF Finalize
  <2>3. CASE Reorg
    BY <2>3 DEF Reorg
  <2>4. ASSUME NEW d \in DepositIds, NEW u \in Users, NEW a \in Amounts, CreateDeposit(d, u, a)
        PROVE  TypeOK'
    BY <2>4 DEF CreateDeposit
  <2>5. ASSUME NEW w \in Ticks, TickReadCursor(w)
        PROVE  TypeOK'
    BY <2>5 DEF TickReadCursor
  <2>6. ASSUME NEW w \in Ticks, TickFetchLogs(w)
        PROVE  TypeOK'
    <3>1. SafeTo(tickFrom[w]) \in Nat /\ (tickFrom[w] <= SafeTo(tickFrom[w]) => SafeTo(tickFrom[w]) \in Block)
      BY DEF SafeTo
    <3>2. CASE tickFrom[w] > SafeTo(tickFrom[w])
      BY <2>6, <3>2 DEF TickFetchLogs, ToIdle
    <3>3. CASE ~(tickFrom[w] > SafeTo(tickFrom[w]))
      <4>1. SafeTo(tickFrom[w]) \in Block
        BY <3>1, <3>3 DEF SafeTo
      <4>2. {e \in Entry : minedAt[e[1]] # 0 /\ minedAt[e[1]] \in tickFrom[w] .. SafeTo(tickFrom[w])} \in SUBSET Entry
        OBVIOUS
      <4> QED
        BY <2>6, <3>3, <4>1, <4>2 DEF TickFetchLogs
    <3> QED
      BY <3>2, <3>3
  <2>7. ASSUME NEW w \in Ticks, TickReadPending(w)
        PROVE  TypeOK'
    <3> DEFINE addresses == {owner[d] : d \in {e \in DepositIds : status[e] = "pending"}}
    <3>1. addresses \in SUBSET Users
      OBVIOUS
    <3>2. CASE addresses = {}
      BY <2>7, <3>2 DEF TickReadPending, ToIdle
    <3>3. CASE addresses # {}
      <4>1. /\ tickPc' = [tickPc EXCEPT ![w] = "confirm"]
            /\ tickPending' = [tickPending EXCEPT ![w] = addresses]
            /\ UNCHANGED <<rowVars, credits, chainVars, cursorVars, tickFrom, tickTo, tickLogs, reqVars>>
        BY <2>7, <3>3 DEF TickReadPending
      <4> HIDE DEF addresses
      <4> QED
        BY <3>1, <4>1
    <3> QED
      BY <3>2, <3>3
  <2>8. ASSUME NEW w \in Ticks, NEW e \in tickLogs[w], TickConfirm(w, e)
        PROVE  TypeOK'
    BY <2>8 DEF TickConfirm, Confirm, Matching, Entry, NextLog
  <2>9. ASSUME NEW w \in Ticks, NEW e \in tickLogs[w], TickConfirmThrows(w, e)
        PROVE  TypeOK'
    BY <2>9 DEF TickConfirmThrows, NextLog
  <2>10. ASSUME NEW w \in Ticks, TickWriteCursor(w)
         PROVE  TypeOK'
    BY <2>10 DEF TickWriteCursor, ToIdle
  <2>11. ASSUME NEW w \in Ticks, TickAbort(w)
         PROVE  TypeOK'
    BY <2>11 DEF TickAbort, ToIdle
  <2>12. ASSUME NEW r \in Requests, NEW d \in DepositIds, NEW h \in Hashes, ReqReadPending(r, d, h)
         PROVE  TypeOK'
    BY <2>12 DEF ReqReadPending
  <2>13. ASSUME NEW r \in Requests, ReqCheckClaimed(r)
         PROVE  TypeOK'
    BY <2>13 DEF ReqCheckClaimed, ReqStep, ReqEnd
  <2>14. ASSUME NEW r \in Requests, ReqVerify(r)
         PROVE  TypeOK'
    BY <2>14 DEF ReqVerify, ReqStep, ReqEnd
  <2>15. ASSUME NEW r \in Requests, ReqUpdate(r)
         PROVE  TypeOK'
    BY <2>15 DEF ReqUpdate, ReqStep, ReqEnd, Confirm
  <2>16. ASSUME NEW r \in Requests, ReqCredit(r)
         PROVE  TypeOK'
    BY <2>16 DEF ReqCredit, ReqEnd
  <2>17. ASSUME NEW r \in Requests, ReqAbort(r)
         PROVE  TypeOK'
    BY <2>17 DEF ReqAbort, ReqEnd
  <2>18. CASE UNCHANGED vars
    BY <2>18 DEF vars
  <2> QED
    BY <2>1, <2>2, <2>3, <2>4, <2>5, <2>6, <2>7, <2>8, <2>9, <2>10, <2>11, <2>12,
       <2>13, <2>14, <2>15, <2>16, <2>17, <2>18
       DEF Next, ChainNext, TickNext, ReqNext
<1> QED
  BY <1>1, <1>2, PTL DEF Spec

-----------------------------------------------------------------------------
\* Amounts are numbers, so an exact transfer covers.
LEMMA AmountIsNat ==
  ASSUME TypeOK, NEW d \in DepositIds
  PROVE  amount[d] \in Nat
<1>1. CASE amount[d] \in Amounts
  BY <1>1, DepositsAssumption
<1>2. CASE amount[d] = 0
  BY <1>2
<1> QED
  BY <1>1, <1>2 DEF TypeOK

\* A transaction recorded as used makes the row untouched-by-others fact the
\* unique index stands for.
LEMMA ConfirmPreserves ==
  ASSUME DepositsInv, NEW d \in DepositIds, NEW h \in Hashes,
         status[d] = "pending", Unused(h), Covers(TxOf[h], d), Confirm(d, h)
  PROVE  /\ OneHashOneDeposit'
         /\ ConfirmedIsCovered'
         /\ \A e \in DepositIds : e # d =>
              status'[e] = status[e] /\ txHash'[e] = txHash[e]
         /\ status'[d] = "confirmed" /\ txHash'[d] = h
         /\ \A s \in Txs, e \in DepositIds : Covers(s, e) => Covers(s, e)'
<1> USE DepositsAssumption DEF DepositsInv, TypeOK, Confirm
<1>1. /\ \A e \in DepositIds : e # d => status'[e] = status[e] /\ txHash'[e] = txHash[e]
      /\ status'[d] = "confirmed" /\ txHash'[d] = h
  OBVIOUS
<1>2. OneHashOneDeposit'
  BY <1>1 DEF OneHashOneDeposit, Unused
<1>3. \A s \in Txs, e \in DepositIds : Covers(s, e) => Covers(s, e)'
  BY DEF Covers
<1>4. ConfirmedIsCovered'
  BY <1>1, <1>3 DEF ConfirmedIsCovered
<1> QED
  BY <1>1, <1>2, <1>3, <1>4

\* The inductive invariant, and with it the three safety invariants: at most
\* one credit per deposit, at most one deposit per hash, no confirmation
\* without a covering transfer.
THEOREM Safety == Spec => []DepositsInv
<1> USE DepositsAssumption
<1>1. Init => DepositsInv
  BY DEF Init, DepositsInv, TypeOK, CreditedOnce, OneHashOneDeposit, ConfirmedIsCovered, Block
<1>2. TypeOK' /\ DepositsInv /\ [Next]_vars => DepositsInv'
  <2> SUFFICES ASSUME TypeOK', DepositsInv, [Next]_vars PROVE DepositsInv'
    OBVIOUS
  <2> USE DEF rowVars, chainVars, cursorVars, tickVars, reqVars, TypeOK, DepositsInv
  <2>0. ASSUME UNCHANGED <<rowVars, credits, reqVars>>
        PROVE  DepositsInv'
    BY <2>0 DEF CreditedOnce, OneHashOneDeposit, ConfirmedIsCovered, Covers
  <2>1. CASE Mine
    BY <2>0, <2>1 DEF Mine
  <2>2. CASE Finalize
    BY <2>0, <2>2 DEF Finalize
  <2>3. CASE Reorg
    BY <2>0, <2>3 DEF Reorg
  <2>4. ASSUME NEW d \in DepositIds, NEW u \in Users, NEW a \in Amounts, CreateDeposit(d, u, a)
        PROVE  DepositsInv'
    BY <2>4 DEF CreateDeposit, CreditedOnce, OneHashOneDeposit, ConfirmedIsCovered, Covers
  <2>5. ASSUME NEW w \in Ticks, TickReadCursor(w)
        PROVE  DepositsInv'
    BY <2>0, <2>5 DEF TickReadCursor
  <2>6. ASSUME NEW w \in Ticks, TickFetchLogs(w)
        PROVE  DepositsInv'
    BY <2>0, <2>6 DEF TickFetchLogs
  <2>7. ASSUME NEW w \in Ticks, TickReadPending(w)
        PROVE  DepositsInv'
    BY <2>0, <2>7 DEF TickReadPending
  <2>8. ASSUME NEW w \in Ticks, NEW e \in tickLogs[w], TickConfirm(w, e)
        PROVE  DepositsInv'
    <3>1. e[1] \in Txs /\ e[1] \in Hashes /\ TxOf[e[1]] = e[1] /\ e[2] \in Logs[e[1]]
      BY DEF Entry
    <3>2. CASE UNCHANGED <<rowVars, credits>>
      BY <2>0, <2>8, <3>2 DEF TickConfirm
    <3>3. ASSUME NEW d \in Matching(e[2].to, e[2].value), Unused(e[1]), Confirm(d, e[1]),
                 credits' = [credits EXCEPT ![d] = @ + 1]
          PROVE  DepositsInv'
      <4>1. d \in DepositIds /\ status[d] = "pending" /\ owner[d] = e[2].to /\ amount[d] = e[2].value
        BY DEF Matching
      <4>2. Covers(TxOf[e[1]], d)
        <5>1. e[2].value >= amount[d]
          BY <4>1, AmountIsNat
        <5> QED
          BY <3>1, <4>1, <5>1 DEF Covers
      <4>3. credits[d] = 0
        BY <4>1
      <4>4. UNCHANGED reqVars
        BY <2>8 DEF TickConfirm
      <4> QED
        BY <3>1, <3>3, <4>1, <4>2, <4>3, <4>4, ConfirmPreserves DEF CreditedOnce
    <3> QED
      BY <2>8, <3>2, <3>3 DEF TickConfirm
  <2>9. ASSUME NEW w \in Ticks, NEW e \in tickLogs[w], TickConfirmThrows(w, e)
        PROVE  DepositsInv'
    BY <2>0, <2>9 DEF TickConfirmThrows
  <2>10. ASSUME NEW w \in Ticks, TickWriteCursor(w)
         PROVE  DepositsInv'
    BY <2>0, <2>10 DEF TickWriteCursor
  <2>11. ASSUME NEW w \in Ticks, TickAbort(w)
         PROVE  DepositsInv'
    BY <2>0, <2>11 DEF TickAbort
  <2> USE DEF ReqStep, ReqEnd
  <2>12. ASSUME NEW r \in Requests, UNCHANGED <<rowVars, credits>>, ReqEnd(r)
         PROVE  DepositsInv'
    BY <2>12 DEF CreditedOnce, OneHashOneDeposit, ConfirmedIsCovered, Covers
  <2>13. ASSUME NEW r \in Requests, NEW d \in DepositIds, NEW h \in Hashes, ReqReadPending(r, d, h)
         PROVE  DepositsInv'
    BY <2>13 DEF ReqReadPending, CreditedOnce, OneHashOneDeposit, ConfirmedIsCovered, Covers
  <2>14. ASSUME NEW r \in Requests, ReqCheckClaimed(r)
         PROVE  DepositsInv'
    <3>1. CASE ReqEnd(r)
      BY <2>12, <2>14, <3>1 DEF ReqCheckClaimed
    <3>2. CASE ReqStep(r, "claimed", "verify")
      BY <2>14, <3>2 DEF ReqCheckClaimed, CreditedOnce, OneHashOneDeposit, ConfirmedIsCovered, Covers
    <3> QED
      BY <2>14, <3>1, <3>2 DEF ReqCheckClaimed
  <2>15. ASSUME NEW r \in Requests, ReqVerify(r)
         PROVE  DepositsInv'
    <3>1. CASE ReqEnd(r)
      BY <2>12, <2>15, <3>1 DEF ReqVerify
    <3>2. CASE ReqStep(r, "verify", "update") /\ Covers(TxOf[reqHash[r]], reqDeposit[r])
      BY <2>15, <3>2 DEF ReqVerify, CreditedOnce, OneHashOneDeposit, ConfirmedIsCovered, Covers
    <3> QED
      BY <2>15, <3>1, <3>2 DEF ReqVerify
  <2>16. ASSUME NEW r \in Requests, ReqUpdate(r)
         PROVE  DepositsInv'
    <3>1. CASE ReqEnd(r) /\ UNCHANGED rowVars
      BY <2>12, <2>16, <3>1 DEF ReqUpdate
    <3>2. ASSUME status[reqDeposit[r]] = "pending", Unused(reqHash[r]),
                 Confirm(reqDeposit[r], reqHash[r]), ReqStep(r, "update", "credit")
          PROVE  DepositsInv'
      <4>1. reqDeposit[r] \in DepositIds /\ reqHash[r] \in Hashes /\ Covers(TxOf[reqHash[r]], reqDeposit[r])
        BY <2>16, <3>2
      <4>2. UNCHANGED credits
        BY <2>16 DEF ReqUpdate
      <4>3. \A q \in Requests : q # r /\ reqPc[q] = "credit" => reqDeposit[q] # reqDeposit[r]
        BY <3>2
      <4> QED
        BY <3>2, <4>1, <4>2, <4>3, ConfirmPreserves DEF CreditedOnce
    <3> QED
      BY <2>16, <3>1, <3>2 DEF ReqUpdate
  <2>17. ASSUME NEW r \in Requests, ReqCredit(r)
         PROVE  DepositsInv'
    BY <2>17 DEF ReqCredit, CreditedOnce, OneHashOneDeposit, ConfirmedIsCovered, Covers
  <2>18. ASSUME NEW r \in Requests, ReqAbort(r)
         PROVE  DepositsInv'
    BY <2>12, <2>18 DEF ReqAbort
  <2>19. CASE UNCHANGED vars
    BY <2>0, <2>19 DEF vars
  <2> QED
    BY <2>1, <2>2, <2>3, <2>4, <2>5, <2>6, <2>7, <2>8, <2>9, <2>10, <2>11,
       <2>13, <2>14, <2>15, <2>16, <2>17, <2>18, <2>19
       DEF Next, ChainNext, TickNext, ReqNext
<1> QED
  BY <1>1, <1>2, TypeCorrect, PTL DEF Spec

\* A deposit is credited at most once, and only when confirmed.
THEOREM CreditedAtMostOnce == Spec => []CreditedOnce
BY Safety, PTL DEF DepositsInv

\* The text of a hash confirms at most one deposit.
THEOREM HashUsedOnce == Spec => []OneHashOneDeposit
BY Safety, PTL DEF DepositsInv

\* Every confirmed deposit names a transfer that covers it.
THEOREM ConfirmedCovered == Spec => []ConfirmedIsCovered
BY Safety, PTL DEF DepositsInv

-----------------------------------------------------------------------------
\* The only ways in which rows change: an intent is opened, or a pending row
\* that has no transaction is confirmed with an unused one.
LEMMA RowStep ==
  ASSUME DepositsInv, [Next]_vars
  PROVE  \/ UNCHANGED rowVars
         \/ /\ \E d \in DepositIds, u \in Users, a \in Amounts : CreateDeposit(d, u, a)
            /\ UNCHANGED <<chainVars, cursorVars, tickVars>>
         \/ /\ \E d \in DepositIds, h \in Hashes :
                 status[d] = "pending" /\ txHash[d] = None /\ Confirm(d, h)
            /\ UNCHANGED chainVars
<1> DEFINE confirmed ==
      \E d \in DepositIds, h \in Hashes : status[d] = "pending" /\ txHash[d] = None /\ Confirm(d, h)
<1>1. ASSUME NEW d \in DepositIds, NEW u \in Users, NEW a \in Amounts, CreateDeposit(d, u, a)
      PROVE  UNCHANGED <<chainVars, cursorVars, tickVars>>
  BY <1>1 DEF CreateDeposit
<1>2. ASSUME NEW w \in Ticks, NEW e \in tickLogs[w], TickConfirm(w, e)
      PROVE  (UNCHANGED rowVars \/ confirmed) /\ UNCHANGED chainVars
  <2>1. e[1] \in Hashes
    BY DepositsAssumption DEF DepositsInv, TypeOK, Entry
  <2>2. ASSUME NEW d \in Matching(e[2].to, e[2].value), Confirm(d, e[1])
        PROVE  confirmed
    BY <2>1, <2>2 DEF Matching, DepositsInv
  <2> QED
    BY <1>2, <2>2 DEF TickConfirm
<1>3. ASSUME NEW r \in Requests, ReqUpdate(r)
      PROVE  (UNCHANGED rowVars \/ confirmed) /\ UNCHANGED chainVars
  <2>1. reqDeposit[r] \in DepositIds /\ reqHash[r] \in Hashes
    BY <1>3 DEF ReqUpdate, DepositsInv, TypeOK
  <2> QED
    BY <1>3, <2>1 DEF ReqUpdate, DepositsInv
<1> QED
  BY <1>1, <1>2, <1>3
     DEF Next, ChainNext, TickNext, ReqNext, vars, Mine, Finalize, Reorg,
         TickReadCursor, TickFetchLogs, TickReadPending, TickConfirmThrows,
         TickWriteCursor, TickAbort, ReqReadPending, ReqCheckClaimed,
         ReqVerify, ReqCredit, ReqAbort

\* Credits only grow, and only of the row that a step credits.
LEMMA CreditsGrow ==
  ASSUME DepositsInv, [Next]_vars, NEW d \in DepositIds
  PROVE  credits'[d] >= credits[d]
<1> USE DEF DepositsInv, TypeOK
<1>1. ASSUME NEW c \in DepositIds, credits' = [credits EXCEPT ![c] = @ + 1]
      PROVE  credits'[d] >= credits[d]
  BY <1>1
<1>2. ASSUME NEW w \in Ticks, NEW e \in tickLogs[w], TickConfirm(w, e)
      PROVE  credits'[d] >= credits[d]
  BY <1>1, <1>2 DEF TickConfirm, Matching
<1>3. ASSUME NEW r \in Requests, ReqCredit(r)
      PROVE  credits'[d] >= credits[d]
  BY <1>1, <1>3 DEF ReqCredit
<1>4. CASE UNCHANGED credits
  BY <1>4
<1> QED
  BY <1>2, <1>3, <1>4
     DEF Next, ChainNext, TickNext, ReqNext, vars, Mine, Finalize, Reorg, CreateDeposit,
         TickReadCursor, TickFetchLogs, TickReadPending, TickConfirmThrows,
         TickWriteCursor, TickAbort, ReqReadPending, ReqCheckClaimed,
         ReqVerify, ReqUpdate, ReqAbort

\* Nothing about a confirmed deposit changes, and no credit is taken back.
THEOREM ConfirmedStays == Spec => ConfirmedIsFinal
<1>1. ASSUME DepositsInv, [Next]_vars, NEW d \in DepositIds
      PROVE  /\ status[d] = "confirmed" =>
                  UNCHANGED <<status[d], owner[d], amount[d], txHash[d]>>
             /\ credits'[d] >= credits[d]
  <2>1. credits'[d] >= credits[d]
    BY <1>1, CreditsGrow
  <2>2. CASE UNCHANGED rowVars
    BY <2>1, <2>2 DEF rowVars
  <2>3. ASSUME NEW c \in DepositIds, NEW u \in Users, NEW a \in Amounts, CreateDeposit(c, u, a),
               status[d] = "confirmed"
        PROVE  UNCHANGED <<status[d], owner[d], amount[d], txHash[d]>>
    BY <1>1, <2>3 DEF CreateDeposit, DepositsInv, TypeOK
  <2>4. ASSUME NEW c \in DepositIds, NEW h \in Hashes, status[c] = "pending", Confirm(c, h),
               status[d] = "confirmed"
        PROVE  UNCHANGED <<status[d], owner[d], amount[d], txHash[d]>>
    BY <1>1, <2>4 DEF Confirm, DepositsInv, TypeOK
  <2> QED
    BY <1>1, <2>1, <2>2, <2>3, <2>4, RowStep
<1>2. DepositsInv /\ [Next]_vars =>
        [\A d \in DepositIds :
           /\ status[d] = "confirmed" =>
                UNCHANGED <<status[d], owner[d], amount[d], txHash[d]>>
           /\ credits'[d] >= credits[d]]_vars
  BY <1>1
<1> QED
  BY <1>2, Safety, PTL DEF Spec, ConfirmedIsFinal

-----------------------------------------------------------------------------
\* A step of the chain changes no row, and other steps change no block.
LEMMA ChainStep ==
  ASSUME [Next]_vars
  PROVE  UNCHANGED chainVars \/ (ChainNext /\ UNCHANGED <<rowVars, cursorVars, tickVars>>)
BY DEF Next, ChainNext, TickNext, ReqNext, vars, Mine, Finalize, Reorg, CreateDeposit,
       TickReadCursor, TickFetchLogs, TickReadPending, TickConfirm, TickConfirmThrows,
       TickWriteCursor, TickAbort, ReqReadPending, ReqCheckClaimed,
       ReqVerify, ReqUpdate, ReqCredit, ReqAbort

Blocks == \A t \in Txs : minedAt[t] <= latest

LEMMA BlocksStep ==
  ASSUME DepositsInv, Blocks, [Next]_vars
  PROVE  Blocks' /\ finalized' >= finalized
<1> USE DepositsAssumption DEF DepositsInv, TypeOK, Blocks, chainVars
<1>1. CASE UNCHANGED chainVars
  BY <1>1
<1>2. CASE Mine
  BY <1>2 DEF Mine
<1>3. CASE Finalize
  BY <1>3 DEF Finalize
<1>4. CASE Reorg
  BY <1>4 DEF Reorg
<1> QED
  BY <1>1, <1>2, <1>3, <1>4, ChainStep DEF ChainNext

\* No step forgets that a confirm transaction threw.
LEMMA ThrewGrows ==
  ASSUME [Next]_vars
  PROVE  threw \subseteq threw'
BY DEF Next, ChainNext, TickNext, ReqNext, vars, cursorVars, Mine, Finalize, Reorg, CreateDeposit,
       TickReadCursor, TickFetchLogs, TickReadPending, TickConfirm, TickConfirmThrows,
       TickWriteCursor, TickAbort, ReqReadPending, ReqCheckClaimed,
       ReqVerify, ReqUpdate, ReqCredit, ReqAbort

\* What is wanted, or owed, after a step was so before it, or has become final by it.
LEMMA WantedBefore ==
  ASSUME DepositsInv, Blocks, [Next]_vars,
         NEW d \in DepositIds, NEW t \in Txs, NEW l \in Logs[t], Wanted(d, t, l)'
  PROVE  /\ minedAt'[t] # 0 /\ minedAt'[t] <= finalized'
         /\ \/ minedAt'[t] > finalized
            \/ Wanted(d, t, l) /\ minedAt'[t] = minedAt[t] /\ owner'[d] = owner[d]
<1> USE DepositsAssumption DEF DepositsInv, TypeOK, Blocks, rowVars, chainVars
<1>0. minedAt'[t] # 0 /\ minedAt'[t] <= finalized'
  <2>1. since'[d] \in Nat
    BY RowStep DEF CreateDeposit, Confirm
  <2>2. minedAt'[t] \in Nat
    <3>1. CASE ChainNext
      BY <3>1 DEF ChainNext, Mine, Finalize, Reorg
    <3> QED
      BY <3>1, ChainStep
  <2> QED
    BY <2>1, <2>2 DEF Wanted, Paid
<1>1. CASE ChainNext /\ UNCHANGED rowVars
  <2>1. CASE Mine
    BY <1>1, <2>1 DEF Mine, Wanted, Paid, Unused
  <2>2. CASE Finalize
    BY <1>1, <2>2 DEF Finalize, Wanted, Paid, Unused
  <2>3. CASE Reorg
    BY <1>0, <1>1, <2>3 DEF Reorg, Wanted, Paid, Unused
  <2> QED
    BY <1>0, <1>1, <2>1, <2>2, <2>3 DEF ChainNext
<1>2. CASE UNCHANGED chainVars
  <2>1. CASE UNCHANGED rowVars
    BY <1>0, <1>2, <2>1 DEF Wanted, Paid, Unused
  <2>2. ASSUME NEW c \in DepositIds, NEW u \in Users, NEW a \in Amounts, CreateDeposit(c, u, a)
        PROVE  Wanted(d, t, l) /\ owner'[d] = owner[d]
    <3>1. c # d
      BY <1>2, <2>2 DEF CreateDeposit, Wanted, Paid
    <3> QED
      BY <1>2, <2>2, <3>1 DEF CreateDeposit, Wanted, Paid, Unused
  <2>3. ASSUME NEW c \in DepositIds, NEW h \in Hashes,
               status[c] = "pending", txHash[c] = None, Confirm(c, h)
        PROVE  Wanted(d, t, l) /\ owner'[d] = owner[d]
    <3>1. c # d
      BY <2>3 DEF Confirm, Wanted, Paid
    <3>2. Unused(t)
      BY <2>3 DEF Confirm, Wanted, Paid, Unused
    <3> QED
      BY <1>2, <2>3, <3>1, <3>2 DEF Confirm, Wanted, Paid
  <2> QED
    BY <1>0, <1>2, <2>1, <2>2, <2>3, RowStep
<1> QED
  BY <1>1, <1>2, ChainStep

LEMMA OwedBefore ==
  ASSUME DepositsInv, Blocks, [Next]_vars,
         NEW d \in DepositIds, NEW t \in Txs, NEW l \in Logs[t], Owed(d, t, l)'
  PROVE  /\ Wanted(d, t, l)' /\ WatcherSees(l.to) /\ <<t, l>> \notin threw'
         /\ minedAt'[t] # 0 /\ minedAt'[t] <= finalized'
         /\ \/ minedAt'[t] > finalized
            \/ Owed(d, t, l) /\ minedAt'[t] = minedAt[t] /\ owner'[d] = owner[d]
<1>1. Wanted(d, t, l)' /\ WatcherSees(l.to) /\ <<t, l>> \notin threw'
  BY DEF Owed, WatcherSees
<1>2. <<t, l>> \notin threw
  BY <1>1, ThrewGrows
<1> QED
  BY <1>1, <1>2, WantedBefore DEF Owed

\* So a bound below the final block stays one.
LEMMA OwedAbove ==
  ASSUME DepositsInv, Blocks, [Next]_vars, NEW n \in Int, n <= finalized, NothingOwedUpTo(n)
  PROVE  NothingOwedUpTo(n)'
<1> SUFFICES ASSUME NEW d \in DepositIds, NEW t \in Txs, NEW l \in Logs[t], Owed(d, t, l)'
             PROVE  minedAt'[t] > n
  BY DEF NothingOwedUpTo
<1>1. minedAt[t] \in Int /\ finalized \in Int
  BY DEF DepositsInv, TypeOK
<1>2. minedAt'[t] \in Int
  BY BlocksStep, ChainStep DEF DepositsInv, TypeOK, ChainNext, Mine, Finalize, Reorg, chainVars
<1>3. minedAt'[t] > finalized \/ (Owed(d, t, l) /\ minedAt'[t] = minedAt[t])
  BY OwedBefore
<1>4. Owed(d, t, l) => minedAt[t] > n
  BY DEF NothingOwedUpTo
<1> QED
  BY <1>1, <1>2, <1>3, <1>4

\* A step of others leaves a window as it is.
LEMMA WindowKept ==
  ASSUME DepositsInv, Blocks, [Next]_vars, NEW w \in Ticks, WindowInv(w),
         tickPc'[w] = tickPc[w], tickFrom'[w] = tickFrom[w], tickTo'[w] = tickTo[w],
         tickLogs'[w] = tickLogs[w], tickPending'[w] = tickPending[w]
  PROVE  WindowInv(w)'
<1> USE DEF DepositsInv, TypeOK
<1>1. finalized' >= finalized /\ finalized \in Nat /\ finalized' \in Int
  BY BlocksStep, ChainStep DEF ChainNext, Mine, Finalize, Reorg, chainVars
<1>2. tickPc[w] # "idle" => tickFrom'[w] - 1 <= finalized' /\ NothingOwedUpTo(tickFrom[w] - 1)'
  BY <1>1, OwedAbove DEF WindowInv
<1>3. ASSUME tickPc[w] \in {"pending", "confirm"},
             NEW d \in DepositIds, NEW t \in Txs, NEW l \in Logs[t],
             Owed(d, t, l)', minedAt'[t] <= tickTo[w]
      PROVE  /\ <<t, l>> \in tickLogs[w]
             /\ tickPc[w] = "confirm" => owner'[d] \in tickPending[w]
  <2>1. ~(minedAt'[t] > finalized)
    <3>1. minedAt'[t] \in Int
      BY ChainStep DEF ChainNext, Mine, Finalize, Reorg, chainVars
    <3> QED
      BY <1>1, <1>3, <3>1 DEF WindowInv
  <2>2. Owed(d, t, l) /\ minedAt'[t] = minedAt[t] /\ owner'[d] = owner[d]
    BY <1>3, <2>1, OwedBefore
  <2> QED
    BY <1>3, <2>2 DEF WindowInv
<1>4. tickPc[w] \in {"pending", "confirm"} => tickTo'[w] <= finalized'
  BY <1>1 DEF WindowInv
<1>5. tickPc[w] # "idle" => NothingOwedUpTo(tickFrom[w] - 1)' = NothingOwedUpTo(tickFrom[w] - 1)'
  OBVIOUS
<1> QED
  BY <1>2, <1>3, <1>4 DEF WindowInv, NothingOwedUpTo

-----------------------------------------------------------------------------
\* A step of tick w moves no other tick and no block, and only its last one
\* moves the cursor.
LEMMA TickMovesItself ==
  ASSUME DepositsInv, NEW w \in Ticks, TickNext(w) \/ TickAbort(w)
  PROVE  /\ UNCHANGED chainVars
         /\ UNCHANGED cursor \/ TickWriteCursor(w)
         /\ \A v \in Ticks \ {w} :
              UNCHANGED <<tickPc[v], tickFrom[v], tickTo[v], tickLogs[v], tickPending[v]>>
<1> USE DEF DepositsInv, TypeOK, ToIdle, cursorVars
<1>1. CASE TickReadCursor(w)
  BY <1>1 DEF TickReadCursor
<1>2. CASE TickFetchLogs(w)
  BY <1>2 DEF TickFetchLogs
<1>3. CASE TickReadPending(w)
  BY <1>3 DEF TickReadPending
<1>4. ASSUME NEW e \in tickLogs[w], TickConfirm(w, e)
      PROVE  /\ UNCHANGED <<chainVars, cursor, tickPc, tickFrom, tickTo, tickPending>>
             /\ \A v \in Ticks \ {w} : UNCHANGED tickLogs[v]
  BY <1>4 DEF TickConfirm
<1>5. ASSUME NEW e \in tickLogs[w], TickConfirmThrows(w, e)
      PROVE  /\ UNCHANGED <<chainVars, cursor, tickPc, tickFrom, tickTo, tickPending>>
             /\ \A v \in Ticks \ {w} : UNCHANGED tickLogs[v]
  BY <1>5 DEF TickConfirmThrows
<1>6. CASE TickWriteCursor(w)
  BY <1>6 DEF TickWriteCursor
<1>7. CASE TickAbort(w)
  BY <1>7 DEF TickAbort
<1> QED
  BY <1>1, <1>2, <1>3, <1>4, <1>5, <1>6, <1>7 DEF TickNext

\* The end of a window: once its logs are done, nothing owed is below it.
LEMMA WindowDone ==
  ASSUME DepositsInv, NEW w \in Ticks, WindowInv(w), tickPc[w] = "confirm", tickLogs[w] = {}
  PROVE  tickTo[w] <= finalized /\ NothingOwedUpTo(tickTo[w])
<1>1. \A d \in DepositIds, t \in Txs : \A l \in Logs[t] :
        ~(Owed(d, t, l) /\ minedAt[t] <= tickTo[w])
  BY DEF WindowInv
<1> QED
  BY <1>1 DEF WindowInv, NothingOwedUpTo, DepositsInv, TypeOK

\* A transaction of a tick that commits never walks past a log that pays a
\* pending deposit at an address it sees without confirming one with it.
LEMMA LogIsTaken ==
  ASSUME DepositsInv, NEW w \in Ticks, NEW e \in tickLogs[w], TickConfirm(w, e), NEW d \in DepositIds, Owed(d, e[1], e[2]),
         owner[d] \in tickPending[w]
  PROVE  ~Unused(e[1])'
<1> USE DEF DepositsInv, TypeOK
<1>1. d \in Matching(e[2].to, e[2].value) /\ WatcherSees(e[2].to)
  BY DEF Matching, Owed, Wanted, Paid, WatcherSees
<1>2. PICK c \in Matching(e[2].to, e[2].value) : Confirm(c, e[1])
  BY <1>1 DEF TickConfirm, Owed, Wanted, Paid
<1>3. c \in DepositIds
  BY DEF Matching
<1> QED
  BY <1>2, <1>3 DEF Confirm, Unused

\* The step of a tick keeps what it knows of its own window.
LEMMA WindowMoves ==
  ASSUME DepositsInv, CursorInv, [Next]_vars,
         NEW w \in Ticks, TickNext(w) \/ TickAbort(w)
  PROVE  WindowInv(w)'
<1> USE DepositsAssumption DEF DepositsInv, TypeOK, chainVars, cursorVars
<1>0. /\ UNCHANGED chainVars
      /\ WindowInv(w) /\ Blocks
  BY TickMovesItself DEF CursorInv, Blocks
<1>1. ASSUME NEW d \in DepositIds, NEW t \in Txs, NEW l \in Logs[t],
             Owed(d, t, l)'
      PROVE  /\ Owed(d, t, l) /\ minedAt'[t] = minedAt[t] /\ owner'[d] = owner[d]
             /\ minedAt[t] # 0 /\ minedAt[t] <= finalized
  <2>1. /\ minedAt'[t] # 0 /\ minedAt'[t] <= finalized'
        /\ \/ minedAt'[t] > finalized
           \/ Owed(d, t, l) /\ minedAt'[t] = minedAt[t] /\ owner'[d] = owner[d]
    BY <1>0, <1>1, OwedBefore
  <2> QED
    BY <1>0, <2>1
<1>2. CASE ToIdle(w)
  BY <1>2 DEF ToIdle, WindowInv
<1>3. CASE TickReadCursor(w)
  <2>1. /\ tickPc'[w] = "head" /\ tickFrom'[w] = cursor + 1
    BY <1>3 DEF TickReadCursor
  <2>2. NothingOwedUpTo(cursor)'
    <3>1. cursor \in Int /\ cursor' = cursor
      BY <1>3 DEF TickReadCursor
    <3> QED
      BY <1>0, <3>1, OwedAbove DEF CursorInv, NothingOwedBehindCursor, NothingOwedUpTo
  <2>3. (cursor + 1) - 1 = cursor /\ UNCHANGED cursor
    BY <1>3 DEF TickReadCursor
  <2>4. NothingOwedUpTo(tickFrom[w] - 1)'
    BY <2>1, <2>2, <2>3 DEF NothingOwedUpTo
  <2>5. tickFrom'[w] - 1 <= finalized'
    BY <1>0, <2>1, <2>3 DEF CursorInv
  <2> QED
    BY <2>1, <2>4, <2>5 DEF WindowInv
<1>4. CASE TickFetchLogs(w) /\ ~ToIdle(w)
  <2> DEFINE from == tickFrom[w]
             to == SafeTo(tickFrom[w])
             logs == {e \in Entry : minedAt[e[1]] # 0 /\ minedAt[e[1]] \in from .. to}
  <2>1. /\ tickPc[w] = "head" /\ tickPc'[w] = "pending"
        /\ tickFrom'[w] = from /\ tickTo'[w] = to /\ tickLogs'[w] = logs
    BY <1>4 DEF TickFetchLogs
  <2>2. to <= finalized /\ to \in Int
    BY DEF SafeTo
  <2>3. from - 1 <= finalized /\ NothingOwedUpTo(from - 1) /\ from - 1 \in Int
    BY <1>0, <2>1 DEF WindowInv
  <2>4. NothingOwedUpTo(from - 1)'
    BY <1>0, <2>1, <2>3, OwedAbove DEF NothingOwedUpTo
  <2>5. ASSUME NEW d \in DepositIds, NEW t \in Txs, NEW l \in Logs[t],
               Owed(d, t, l)', minedAt'[t] <= to
        PROVE  <<t, l>> \in logs
    <3>1. Owed(d, t, l) /\ minedAt[t] # 0 /\ minedAt[t] <= to
      BY <1>1, <2>5
    <3>2. minedAt[t] > from - 1
      BY <2>3, <3>1 DEF NothingOwedUpTo
    <3>3. minedAt[t] \in from .. to
      BY <2>2, <3>1, <3>2
    <3>4. <<t, l>> \in Entry
      BY DEF Entry
    <3> QED
      BY <3>1, <3>3, <3>4
  <2> HIDE DEF from, to, logs
  <2>6. tickTo'[w] <= finalized'
    BY <1>0, <2>1, <2>2
  <2>7. tickFrom'[w] - 1 <= finalized' /\ NothingOwedUpTo(tickFrom[w] - 1)'
    BY <1>0, <2>1, <2>3, <2>4 DEF from, NothingOwedUpTo
  <2> QED
    BY <2>1, <2>5, <2>6, <2>7 DEF WindowInv
<1>5. ASSUME tickPc[w] \in {"pending", "confirm"}, tickPc'[w] = "confirm",
             tickFrom'[w] = tickFrom[w], tickTo'[w] = tickTo[w],
             \A d \in DepositIds, t \in Txs : \A l \in Logs[t] :
               Owed(d, t, l) /\ Owed(d, t, l)' /\ <<t, l>> \in tickLogs[w]
                 /\ minedAt[t] <= tickTo[w] =>
               <<t, l>> \in tickLogs'[w] /\ owner[d] \in tickPending'[w]
      PROVE  WindowInv(w)'
  <2>1. tickTo'[w] <= finalized' /\ tickFrom'[w] - 1 <= finalized'
    BY <1>0, <1>5 DEF WindowInv
  <2>2. NothingOwedUpTo(tickFrom[w] - 1)'
    <3>1. tickFrom[w] - 1 \in Int /\ tickFrom[w] - 1 <= finalized /\ NothingOwedUpTo(tickFrom[w] - 1)
      BY <1>0, <1>5 DEF WindowInv
    <3> QED
      BY <1>0, <1>5, <3>1, OwedAbove DEF NothingOwedUpTo
  <2>3. ASSUME NEW d \in DepositIds, NEW t \in Txs, NEW l \in Logs[t],
               Owed(d, t, l)', minedAt'[t] <= tickTo'[w]
        PROVE  <<t, l>> \in tickLogs'[w] /\ owner'[d] \in tickPending'[w]
    <3>1. Owed(d, t, l) /\ minedAt[t] <= tickTo[w] /\ owner'[d] = owner[d]
      BY <1>1, <1>5, <2>3
    <3>2. <<t, l>> \in tickLogs[w]
      BY <1>0, <1>5, <3>1 DEF WindowInv
    <3> QED
      BY <1>5, <2>3, <3>1, <3>2
  <2> QED
    BY <1>5, <2>1, <2>2, <2>3 DEF WindowInv
<1>6. CASE TickReadPending(w) /\ ~ToIdle(w)
  <2> DEFINE addresses == {owner[d] : d \in {e \in DepositIds : status[e] = "pending"}}
  <2>1. /\ tickPc[w] = "pending" /\ tickPc'[w] = "confirm"
        /\ tickPending'[w] = addresses
        /\ UNCHANGED <<tickFrom, tickTo, tickLogs>>
    BY <1>6 DEF TickReadPending
  <2>2. \A d \in DepositIds, t \in Txs : \A l \in Logs[t] :
          Owed(d, t, l) => owner[d] \in addresses
    BY DEF Owed, Wanted, Paid
  <2> HIDE DEF addresses
  <2> QED
    BY <1>5, <2>1, <2>2
<1>7. ASSUME NEW e \in tickLogs[w], TickConfirm(w, e)
      PROVE  WindowInv(w)'
  <2>1. /\ tickPc[w] = "confirm"
        /\ tickLogs'[w] = tickLogs[w] \ {e}
        /\ UNCHANGED <<tickPc, tickFrom, tickTo, tickPending>>
    BY <1>7 DEF TickConfirm, NextLog
  <2>2. ASSUME NEW d \in DepositIds, NEW t \in Txs, NEW l \in Logs[t],
               Owed(d, t, l), Owed(d, t, l)', minedAt[t] <= tickTo[w]
        PROVE  <<t, l>> # e /\ owner[d] \in tickPending[w]
    <3>1. owner[d] \in tickPending[w]
      BY <1>0, <2>1, <2>2 DEF WindowInv
    <3>2. <<t, l>> # e
      <4>1. SUFFICES ASSUME e = <<t, l>> PROVE FALSE
        OBVIOUS
      <4>2. e[1] = t /\ e[2] = l
        BY <4>1
      <4>3. ~Unused(t)'
        BY <1>7, <2>2, <3>1, <4>2, LogIsTaken
      <4> QED
        BY <2>2, <4>3 DEF Owed, Wanted, Paid
    <3> QED
      BY <3>1, <3>2
  <2> QED
    BY <1>5, <2>1, <2>2
<1>8. ASSUME NEW e \in tickLogs[w], TickConfirmThrows(w, e)
      PROVE  WindowInv(w)'
  <2>1. /\ tickPc[w] = "confirm"
        /\ tickLogs'[w] = tickLogs[w] \ {e}
        /\ e \in threw'
        /\ UNCHANGED <<tickPc, tickFrom, tickTo, tickPending>>
    BY <1>8 DEF TickConfirmThrows, NextLog
  <2>2. ASSUME NEW d \in DepositIds, NEW t \in Txs, NEW l \in Logs[t],
               Owed(d, t, l), Owed(d, t, l)', minedAt[t] <= tickTo[w]
        PROVE  <<t, l>> # e /\ owner[d] \in tickPending[w]
    <3>1. owner[d] \in tickPending[w]
      BY <1>0, <2>1, <2>2 DEF WindowInv
    <3>2. <<t, l>> \notin threw'
      BY <1>0, <2>2, OwedBefore
    <3> QED
      BY <2>1, <3>1, <3>2
  <2> QED
    BY <1>5, <2>1, <2>2
<1> QED
  BY <1>2, <1>3, <1>4, <1>6, <1>7, <1>8 DEF TickNext, TickAbort, TickWriteCursor

\* The invariant of the cursor is inductive.
LEMMA CursorStep ==
  ASSUME DepositsInv, CursorInv, [Next]_vars
  PROVE  CursorInv'
<1> USE DEF DepositsInv, TypeOK
<1>1. Blocks /\ Blocks' /\ finalized' >= finalized /\ finalized \in Int /\ finalized' \in Int
  BY BlocksStep, ChainStep DEF CursorInv, Blocks, ChainNext, Mine, Finalize, Reorg, chainVars
<1>2. ASSUME NEW n \in Int, n <= finalized, NothingOwedUpTo(n), cursor' = n
      PROVE  cursor' <= finalized' /\ NothingOwedBehindCursor'
  <2>1. NothingOwedUpTo(n)'
    BY <1>1, <1>2, OwedAbove
  <2>2. NothingOwedBehindCursor'
    BY <1>2, <2>1 DEF NothingOwedBehindCursor, NothingOwedUpTo
  <2> QED
    BY <1>1, <1>2, <2>2
<1>3. CASE UNCHANGED cursor /\ UNCHANGED tickVars
  <2>1. \A w \in Ticks : WindowInv(w)'
    BY <1>1, <1>3, WindowKept DEF CursorInv, tickVars
  <2>2. cursor' <= finalized' /\ NothingOwedBehindCursor'
    BY <1>2, <1>3 DEF CursorInv, NothingOwedBehindCursor
  <2> QED
    BY <1>1, <2>1, <2>2 DEF CursorInv, Blocks
<1>4. ASSUME NEW w \in Ticks, TickNext(w) \/ TickAbort(w)
      PROVE  CursorInv'
  <2>1. WindowInv(w)'
    BY <1>4, WindowMoves
  <2>2. \A v \in Ticks \ {w} : WindowInv(v)'
    BY <1>1, <1>4, TickMovesItself, WindowKept DEF CursorInv
  <2>3. cursor' <= finalized' /\ NothingOwedBehindCursor'
    <3>1. CASE UNCHANGED cursor
      BY <1>2, <3>1 DEF CursorInv, NothingOwedBehindCursor
    <3>2. CASE TickWriteCursor(w)
      <4>1. tickTo[w] <= finalized /\ NothingOwedUpTo(tickTo[w])
        BY <3>2, WindowDone DEF TickWriteCursor, CursorInv
      <4>2. cursor' = tickTo[w] /\ tickTo[w] \in Int
        BY <3>2 DEF TickWriteCursor
      <4> QED
        BY <1>2, <4>1, <4>2
    <3> QED
      BY <1>4, <3>1, <3>2, TickMovesItself
  <2> QED
    BY <1>1, <2>1, <2>2, <2>3 DEF CursorInv, Blocks
<1> QED
  BY <1>3, <1>4
     DEF Next, ChainNext, ReqNext, vars, Mine, Finalize, Reorg, CreateDeposit, cursorVars, tickVars,
         ReqReadPending, ReqCheckClaimed, ReqVerify, ReqUpdate, ReqCredit, ReqAbort

\* The watcher leaves the exact payment of a pending deposit behind its cursor
\* only when its confirm transaction threw or the address has an upper-case
\* letter, whatever the other ticks, the requests and reorganisations do.
THEOREM CursorSafe == Spec => []NothingOwedBehindCursor
<1>1. Init => CursorInv
  <2> SUFFICES ASSUME Init PROVE CursorInv
    OBVIOUS
  <2>1. NothingOwedUpTo(-1)
    BY DEF Init, NothingOwedUpTo, Owed, Wanted, Paid
  <2> QED
    BY <2>1, DepositsAssumption DEF Init, CursorInv, WindowInv, NothingOwedBehindCursor
<1>2. DepositsInv /\ CursorInv /\ [Next]_vars => CursorInv'
  BY CursorStep
<1>3. Spec => []CursorInv
  BY <1>1, <1>2, Safety, PTL DEF Spec
<1> QED
  BY <1>3, PTL DEF CursorInv

-----------------------------------------------------------------------------
\* Changing one row changes the mapped phase of that row only.
LEMMA PhaseMoves ==
  ASSUME NEW d \in DepositIds, NEW from, NEW to,
         Phase(d) = from, Phase(d)' = to,
         \A e \in DepositIds \ {d} : Phase(e)' = Phase(e)
  PROVE  Abstract!Move(d, from, to)
<1> DEFINE phase == [e \in DepositIds |-> Phase(e)]
<1>1. phase[d] = from
  OBVIOUS
<1>2. phase' = [e \in DepositIds |-> Phase(e)']
  OBVIOUS
<1>3. phase' = [phase EXCEPT ![d] = to]
  BY <1>2
<1> QED
  BY <1>1, <1>3 DEF Abstract!Move

\* The deposit flow implements PaidOnce: each step maps to a step of it or to
\* a stutter.
THEOREM Refinement == Spec => ImplementsPaidOnce
<1> USE DepositsAssumption
<1> DEFINE phase == [d \in DepositIds |-> Phase(d)]
<1>1. Init => Abstract!Init
  BY DEF Init, Abstract!Init, Phase
<1>2. DepositsInv /\ [Next]_vars => [Abstract!Next]_<<phase, txHash>>
  <2> SUFFICES ASSUME DepositsInv, [Next]_vars
               PROVE  [Abstract!Next]_<<phase, txHash>>
    OBVIOUS
  <2> USE DEF rowVars, chainVars, cursorVars, tickVars, reqVars, TypeOK, DepositsInv
  <2>0. ASSUME UNCHANGED <<rowVars, credits>>
        PROVE  UNCHANGED <<phase, txHash>>
    BY <2>0 DEF Phase
  <2>4. ASSUME NEW d \in DepositIds, NEW u \in Users, NEW a \in Amounts, CreateDeposit(d, u, a)
        PROVE  Abstract!Next
    <3>1. Phase(d) = "absent" /\ Phase(d)' = "pending" /\ UNCHANGED txHash
      BY <2>4 DEF CreateDeposit, Phase
    <3>2. \A e \in DepositIds \ {d} : Phase(e)' = Phase(e)
      BY <2>4 DEF CreateDeposit, Phase
    <3>3. Abstract!Move(d, "absent", "pending")
      BY <3>1, <3>2, PhaseMoves
    <3> QED
      BY <3>1, <3>3 DEF Abstract!Next, Abstract!Open
  <2>8. ASSUME NEW w \in Ticks, NEW e \in tickLogs[w], TickConfirm(w, e)
        PROVE  [Abstract!Next]_<<phase, txHash>>
    <3>1. CASE UNCHANGED <<rowVars, credits>>
      BY <2>0, <3>1
    <3>2. ASSUME NEW d \in Matching(e[2].to, e[2].value), Unused(e[1]), Confirm(d, e[1]),
                 credits' = [credits EXCEPT ![d] = @ + 1]
          PROVE  Abstract!Next
      <4>1. d \in DepositIds /\ status[d] = "pending" /\ credits[d] = 0 /\ e[1] \in Hashes
        BY DEF Matching, Entry
      <4>2. Abstract!Move(d, "pending", "credited")
        <5>1. Phase(d) = "pending" /\ Phase(d)' = "credited"
          BY <3>2, <4>1 DEF Phase, Confirm
        <5>2. \A f \in DepositIds \ {d} : Phase(f)' = Phase(f)
          BY <3>2, <4>1 DEF Phase, Confirm
        <5> QED
          BY <4>1, <5>1, <5>2, PhaseMoves
      <4>3. Abstract!Pay(d, e[1])
        BY <3>2, <4>1 DEF Abstract!Pay, Unused, Confirm
      <4> QED
        BY <4>1, <4>2, <4>3 DEF Abstract!Next, Abstract!ConfirmAndCredit
    <3> QED
      BY <2>8, <3>1, <3>2 DEF TickConfirm
  <2>16. ASSUME NEW r \in Requests, ReqUpdate(r)
         PROVE  [Abstract!Next]_<<phase, txHash>>
    <3>0. PICK d \in DepositIds, h \in Hashes : d = reqDeposit[r] /\ h = reqHash[r]
      BY <2>16 DEF ReqUpdate
    <3>1. CASE UNCHANGED rowVars
      BY <2>0, <2>16, <3>1 DEF ReqUpdate
    <3>2. CASE status[d] = "pending" /\ Unused(h) /\ Confirm(d, h)
      <4>1. Abstract!Move(d, "pending", "confirmed")
        <5>0. UNCHANGED credits /\ credits[d] = 0
          BY <2>16, <3>0, <3>2 DEF ReqUpdate
        <5>1. Phase(d) = "pending" /\ Phase(d)' = "confirmed"
          BY <3>0, <3>2, <5>0 DEF Phase, Confirm
        <5>2. \A f \in DepositIds \ {d} : Phase(f)' = Phase(f)
          BY <3>0, <3>2, <5>0 DEF Phase, Confirm
        <5> QED
          BY <3>0, <5>1, <5>2, PhaseMoves
      <4>2. Abstract!Pay(d, h)
        BY <3>0, <3>2 DEF Abstract!Pay, Unused, Confirm
      <4>3. Abstract!Confirm(d, h)
        BY <4>1, <4>2 DEF Abstract!Confirm
      <4> QED
        BY <3>0, <4>3 DEF Abstract!Next
    <3> QED
      BY <2>16, <3>0, <3>1, <3>2 DEF ReqUpdate
  <2>17. ASSUME NEW r \in Requests, ReqCredit(r)
         PROVE  Abstract!Next
    <3>1. PICK d \in DepositIds : d = reqDeposit[r] /\ status[d] = "confirmed" /\ credits[d] = 0
      BY <2>17 DEF ReqCredit
    <3>2. Phase(d) = "confirmed" /\ Phase(d)' = "credited" /\ UNCHANGED txHash
      BY <2>17, <3>1 DEF ReqCredit, Phase
    <3>3. \A f \in DepositIds \ {d} : Phase(f)' = Phase(f)
      BY <2>17, <3>1 DEF ReqCredit, Phase
    <3>4. Abstract!Move(d, "confirmed", "credited")
      BY <3>1, <3>2, <3>3, PhaseMoves
    <3> QED
      BY <3>1, <3>2, <3>4 DEF Abstract!Next, Abstract!Credit
  <2>18. CASE UNCHANGED <<rowVars, credits>>
    BY <2>0, <2>18
  <2> QED
    BY <2>4, <2>8, <2>16, <2>17, <2>18
       DEF Next, ChainNext, TickNext, ReqNext, vars, Mine, Finalize, Reorg,
           TickReadCursor, TickFetchLogs, TickReadPending, TickConfirmThrows,
           TickWriteCursor, TickAbort, ReqReadPending, ReqCheckClaimed,
           ReqVerify, ReqAbort
<1> QED
  BY <1>1, <1>2, Safety, PTL DEF Spec, ImplementsPaidOnce, Abstract!Spec
=============================================================================
