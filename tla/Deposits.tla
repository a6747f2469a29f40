------------------------------ MODULE Deposits ------------------------------
(***************************************************************************)
(* USDC deposits: a user opens a deposit intent, sends USDC to a per-user  *)
(* treasury address, and the deposit is confirmed and credited either by   *)
(* the watcher cron (lib/server/deposits.ts) or by the owner's confirm     *)
(* request (api/credits/deposit/[id]/confirm/route.ts).                    *)
(*                                                                         *)
(* One chain is modelled; chains are independent (own cursor, own rows).   *)
(* A database statement, or a database transaction, is one step; every     *)
(* await between two of them is a point where other processes run.         *)
(***************************************************************************)
EXTENDS Integers, FiniteSets

CONSTANTS
  Users,            \* account owners; an address is named by its owner
  MixedCase,        \* owners whose checksummed address has an upper-case letter
  DepositIds,       \* rows of table deposit
  Amounts,          \* declared and transferred amounts (micro-USDC)
  Txs,              \* transactions, named by the lower-case hash RPCs return
  Hashes,           \* the texts a caller may name a transaction by, any hex case
  TxOf,             \* TxOf[h]: the transaction an RPC finds for the text h
  Logs,             \* Logs[t]: the USDC Transfer logs of transaction t
  None,             \* a NULL column, or no deposit / transaction in hand
  Ticks,            \* concurrent runs of the watcher (cron, ops script)
  Requests,         \* concurrent confirm requests
  Window,           \* SCAN_WINDOW_BLOCKS
  MaxBlock,         \* bound: last block the chain produces
  MayThrow          \* whether a confirm transaction may fail inside the batch

Transfer == [to : Users, value : Amounts]

ASSUME DepositsAssumption ==
  /\ MixedCase \subseteq Users
  /\ Amounts \subseteq Nat \ {0}
  /\ None \notin Hashes \cup DepositIds \cup Users
  /\ Txs \subseteq Hashes
  /\ TxOf \in [Hashes -> Txs]
  /\ \A t \in Txs : TxOf[t] = t
  /\ Logs \in [Txs -> SUBSET Transfer]
  /\ Window \in Nat
  /\ MaxBlock \in Nat
  /\ MayThrow \in BOOLEAN

VARIABLES
  \* table deposit
  status,           \* "absent", "pending" or "confirmed"
  owner,            \* user_id; the deposit address is derived from it
  amount,           \* amount_micro_usdc
  txHash,           \* tx_hash: a text (unique index, case-sensitive)
  since,            \* latest block when the intent was created (created_at)
  \* table credit_ledger: number of rows with reason deposit and ref_id d
  credits,
  \* the chain
  minedAt,          \* block of a transaction, 0 while it is not in the chain
  latest, finalized,
  \* table deposit_cursor; -1 while the row is missing
  cursor,
  \* a watcher tick
  tickPc, tickFrom, tickTo, tickLogs, tickPending,
  \* a confirm request
  reqPc, reqDeposit, reqHash,
  \* history: logs whose confirm transaction threw in some tick
  threw

rowVars  == <<status, owner, amount, txHash, since>>
chainVars == <<minedAt, latest, finalized>>
tickVars == <<tickPc, tickFrom, tickTo, tickLogs, tickPending>>
reqVars  == <<reqPc, reqDeposit, reqHash>>
cursorVars == <<cursor, threw>>
vars == <<rowVars, credits, chainVars, cursorVars, tickVars, reqVars>>

Block == 0 .. MaxBlock
Entry == {e \in Txs \X Transfer : e[2] \in Logs[e[1]]}

TypeOK ==
  /\ status \in [DepositIds -> {"absent", "pending", "confirmed"}]
  /\ owner \in [DepositIds -> Users \cup {None}]
  /\ amount \in [DepositIds -> Amounts \cup {0}]
  /\ txHash \in [DepositIds -> Hashes \cup {None}]
  /\ since \in [DepositIds -> Block]
  /\ credits \in [DepositIds -> Nat]
  /\ minedAt \in [Txs -> Block]
  /\ latest \in Block /\ finalized \in 0 .. latest
  /\ cursor \in -1 .. MaxBlock
  /\ tickPc \in [Ticks -> {"idle", "head", "pending", "confirm"}]
  /\ tickFrom \in [Ticks -> 0 .. MaxBlock + 1]
  /\ tickTo \in [Ticks -> Block]
  /\ tickLogs \in [Ticks -> SUBSET Entry]
  /\ tickPending \in [Ticks -> SUBSET Users]
  /\ reqPc \in [Requests -> {"idle", "claimed", "verify", "update", "credit"}]
  /\ reqDeposit \in [Requests -> DepositIds \cup {None}]
  /\ reqHash \in [Requests -> Hashes \cup {None}]
  /\ threw \subseteq Entry
  /\ \A d \in DepositIds : status[d] # "absent" => owner[d] \in Users
  /\ \A r \in Requests : reqPc[r] # "idle" =>
       reqDeposit[r] \in DepositIds /\ reqHash[r] \in Hashes

Init ==
  /\ status = [d \in DepositIds |-> "absent"]
  /\ owner = [d \in DepositIds |-> None]
  /\ amount = [d \in DepositIds |-> 0]
  /\ txHash = [d \in DepositIds |-> None]
  /\ since = [d \in DepositIds |-> 0]
  /\ credits = [d \in DepositIds |-> 0]
  /\ minedAt = [t \in Txs |-> 0]
  /\ latest = 0 /\ finalized = 0
  /\ cursor = -1
  /\ tickPc = [w \in Ticks |-> "idle"]
  /\ tickFrom = [w \in Ticks |-> 0]
  /\ tickTo = [w \in Ticks |-> 0]
  /\ tickLogs = [w \in Ticks |-> {}]
  /\ tickPending = [w \in Ticks |-> {}]
  /\ reqPc = [r \in Requests |-> "idle"]
  /\ reqDeposit = [r \in Requests |-> None]
  /\ reqHash = [r \in Requests |-> None]
  /\ threw = {}

-----------------------------------------------------------------------------
(* The chain, as the RPC shows it. *)

\* A block is produced, empty or with one transaction; a transaction is in
\* the chain at most once.
Mine ==
  /\ latest < MaxBlock
  /\ latest' = latest + 1
  /\ \/ UNCHANGED minedAt
     \/ \E t \in Txs : minedAt[t] = 0 /\ minedAt' = [minedAt EXCEPT ![t] = latest + 1]
  /\ UNCHANGED <<rowVars, credits, finalized, cursorVars, tickVars, reqVars>>

Finalize ==
  /\ finalized < latest
  /\ finalized' = finalized + 1
  /\ UNCHANGED <<rowVars, credits, minedAt, latest, cursorVars, tickVars, reqVars>>

\* A reorganisation drops the blocks that are not final.
Reorg ==
  /\ finalized < latest
  /\ latest' = finalized
  /\ minedAt' = [t \in Txs |-> IF minedAt[t] > finalized THEN 0 ELSE minedAt[t]]
  /\ UNCHANGED <<rowVars, credits, finalized, cursorVars, tickVars, reqVars>>

-----------------------------------------------------------------------------
(* POST /api/credits/deposit *)

CreateDeposit(d, u, a) ==
  /\ status[d] = "absent"
  /\ status' = [status EXCEPT ![d] = "pending"]
  /\ owner' = [owner EXCEPT ![d] = u]
  /\ amount' = [amount EXCEPT ![d] = a]
  /\ since' = [since EXCEPT ![d] = latest]
  /\ UNCHANGED <<txHash, credits, chainVars, cursorVars, tickVars, reqVars>>

-----------------------------------------------------------------------------
(* The watcher: one tick of scanChain. *)

\* The watcher compares the stored, checksummed address with a lower-cased
\* one: a row is visible to it only when the two spellings agree.
WatcherSees(u) == u \notin MixedCase

\* Hashes are compared as text, letter case included.
Unused(h) == \A d \in DepositIds : txHash[d] # h

Confirm(d, h) ==
  /\ status' = [status EXCEPT ![d] = "confirmed"]
  /\ txHash' = [txHash EXCEPT ![d] = h]
  /\ UNCHANGED <<owner, amount, since>>

ToIdle(w) ==
  /\ tickPc' = [tickPc EXCEPT ![w] = "idle"]
  /\ tickFrom' = [tickFrom EXCEPT ![w] = 0]
  /\ tickTo' = [tickTo EXCEPT ![w] = 0]
  /\ tickLogs' = [tickLogs EXCEPT ![w] = {}]
  /\ tickPending' = [tickPending EXCEPT ![w] = {}]

\* Mutant: the scan starts one block late.
MutTickReadCursor(w) ==
  /\ tickPc[w] = "idle"
  /\ tickPc' = [tickPc EXCEPT ![w] = "head"]
  /\ tickFrom' = [tickFrom EXCEPT ![w] = IF cursor < MaxBlock THEN cursor + 2 ELSE cursor + 1]
  /\ UNCHANGED <<rowVars, credits, chainVars, cursorVars, tickTo, tickLogs, tickPending, reqVars>>

TickReadCursor(w) ==
  /\ tickPc[w] = "idle"
  /\ tickPc' = [tickPc EXCEPT ![w] = "head"]
  /\ tickFrom' = [tickFrom EXCEPT ![w] = cursor + 1]
  /\ UNCHANGED <<rowVars, credits, chainVars, cursorVars, tickTo, tickLogs, tickPending, reqVars>>

SafeTo(from) == IF finalized <= from + Window THEN finalized ELSE from + Window

\* The finalized head and the logs up to it never change once read, so the
\* two RPC calls are one step.
TickFetchLogs(w) ==
  LET from == tickFrom[w]
      to == SafeTo(from)
  IN
  /\ tickPc[w] = "head"
  /\ IF from > to
       THEN ToIdle(w)
       ELSE /\ tickPc' = [tickPc EXCEPT ![w] = "pending"]
            /\ tickTo' = [tickTo EXCEPT ![w] = to]
            /\ tickLogs' = [tickLogs EXCEPT ![w] =
                 {e \in Entry : minedAt[e[1]] # 0 /\ minedAt[e[1]] \in from .. to}]
            /\ UNCHANGED <<tickFrom, tickPending>>
  /\ UNCHANGED <<rowVars, credits, chainVars, cursorVars, reqVars>>

\* With no pending address the tick returns before it moves the cursor.
TickReadPending(w) ==
  LET addresses == {owner[d] : d \in {e \in DepositIds : status[e] = "pending"}}
  IN
  /\ tickPc[w] = "pending"
  /\ IF addresses = {}
       THEN ToIdle(w)
       ELSE /\ tickPc' = [tickPc EXCEPT ![w] = "confirm"]
            /\ tickPending' = [tickPending EXCEPT ![w] = addresses]
            /\ UNCHANGED <<tickFrom, tickTo, tickLogs>>
  /\ UNCHANGED <<rowVars, credits, chainVars, cursorVars, reqVars>>

\* Logs are walked in block order.
NextLog(w, e) ==
  /\ tickPc[w] = "confirm"
  /\ e \in tickLogs[w]
  /\ \A f \in tickLogs[w] : minedAt[e[1]] <= minedAt[f[1]]

\* Mutant: the SELECT does not ask for a pending row.
MutMatching(u, value) ==
  {d \in DepositIds : status[d] # "absent" /\ owner[d] = u /\ amount[d] = value}

Matching(u, value) ==
  {d \in DepositIds : /\ status[d] = "pending"
                      /\ owner[d] = u /\ WatcherSees(u)
                      /\ amount[d] = value}

\* One log: filtered by the pending addresses read before the loop, then the
\* confirm-and-credit transaction of confirmTransfer.
TickConfirm(w, e) ==
  LET t == e[1]
      u == e[2].to
      rows == Matching(u, e[2].value)
      credited == /\ u \in tickPending[w] /\ WatcherSees(u)
                  /\ rows # {} /\ Unused(t)
  IN
  /\ NextLog(w, e)
  /\ tickLogs' = [tickLogs EXCEPT ![w] = @ \ {e}]
  /\ IF credited
       THEN \E d \in rows : /\ Confirm(d, t)
                            /\ credits' = [credits EXCEPT ![d] = @ + 1]
       ELSE UNCHANGED <<rowVars, credits>>
  /\ UNCHANGED <<chainVars, cursorVars, tickPc, tickFrom, tickTo, tickPending, reqVars>>

\* The transaction fails and rolls back; the loop goes on with the next log.
TickConfirmThrows(w, e) ==
  /\ MayThrow
  /\ NextLog(w, e)
  /\ e[2].to \in tickPending[w] /\ WatcherSees(e[2].to)
  /\ tickLogs' = [tickLogs EXCEPT ![w] = @ \ {e}]
  /\ threw' = threw \cup {e}
  /\ UNCHANGED <<rowVars, credits, chainVars, cursor, tickPc, tickFrom, tickTo, tickPending, reqVars>>

\* Mutant: the cursor jumps to the head instead of the end of the window.
MutTickWriteCursor(w) ==
  /\ tickPc[w] = "confirm" /\ tickLogs[w] = {}
  /\ cursor' = finalized
  /\ ToIdle(w)
  /\ UNCHANGED <<threw, rowVars, credits, chainVars, reqVars>>

TickWriteCursor(w) ==
  /\ tickPc[w] = "confirm" /\ tickLogs[w] = {}
  /\ cursor' = tickTo[w]
  /\ ToIdle(w)
  /\ UNCHANGED <<threw, rowVars, credits, chainVars, reqVars>>

\* An RPC or database call outside confirmTransfer fails, or the function is
\* killed: the tick ends and the cursor keeps its value.
TickAbort(w) ==
  /\ tickPc[w] # "idle"
  /\ ToIdle(w)
  /\ UNCHANGED <<rowVars, credits, chainVars, cursorVars, reqVars>>

-----------------------------------------------------------------------------
(* POST /api/credits/deposit/[id]/confirm, sent by the owner. *)

ReqEnd(r) ==
  /\ reqPc' = [reqPc EXCEPT ![r] = "idle"]
  /\ reqDeposit' = [reqDeposit EXCEPT ![r] = None]
  /\ reqHash' = [reqHash EXCEPT ![r] = None]

ReqStep(r, from, to) ==
  /\ reqPc[r] = from
  /\ reqPc' = [reqPc EXCEPT ![r] = to]
  /\ UNCHANGED <<reqDeposit, reqHash>>

\* A request for a row that is not the caller's or not pending ends with 404.
\* The hash is kept as it was typed.
ReqReadPending(r, d, h) ==
  /\ reqPc[r] = "idle"
  /\ status[d] = "pending"
  /\ reqPc' = [reqPc EXCEPT ![r] = "claimed"]
  /\ reqDeposit' = [reqDeposit EXCEPT ![r] = d]
  /\ reqHash' = [reqHash EXCEPT ![r] = h]
  /\ UNCHANGED <<rowVars, credits, chainVars, cursorVars, tickVars>>

ReqCheckClaimed(r) ==
  /\ reqPc[r] = "claimed"
  /\ IF Unused(reqHash[r]) THEN ReqStep(r, "claimed", "verify") ELSE ReqEnd(r)
  /\ UNCHANGED <<rowVars, credits, chainVars, cursorVars, tickVars>>

\* The receipt is read at the latest block, and may cover more than declared.
Covers(t, d) ==
  \E l \in Logs[t] : l.to = owner[d] /\ l.value >= amount[d]

\* Mutant: any transaction in the chain verifies.
MutReqVerify(r) ==
  /\ reqPc[r] = "verify"
  /\ IF minedAt[TxOf[reqHash[r]]] # 0 THEN ReqStep(r, "verify", "update") ELSE ReqEnd(r)
  /\ UNCHANGED <<rowVars, credits, chainVars, cursorVars, tickVars>>

ReqVerify(r) ==
  LET t == TxOf[reqHash[r]] IN
  /\ reqPc[r] = "verify"
  /\ IF minedAt[t] # 0 /\ Covers(t, reqDeposit[r])
       THEN ReqStep(r, "verify", "update")
       ELSE ReqEnd(r)
  /\ UNCHANGED <<rowVars, credits, chainVars, cursorVars, tickVars>>

\* Mutants: the update trusts the row read at the start of the request; the
\* table has no unique index.
MutReqUpdateUnguarded(r) ==
  /\ reqPc[r] = "update"
  /\ IF \A d \in DepositIds \ {reqDeposit[r]} : txHash[d] # reqHash[r]
       THEN Confirm(reqDeposit[r], reqHash[r]) /\ ReqStep(r, "update", "credit")
       ELSE ReqEnd(r) /\ UNCHANGED rowVars
  /\ UNCHANGED <<credits, chainVars, cursorVars, tickVars>>

MutReqUpdateNoIndex(r) ==
  /\ reqPc[r] = "update"
  /\ IF status[reqDeposit[r]] = "pending"
       THEN Confirm(reqDeposit[r], reqHash[r]) /\ ReqStep(r, "update", "credit")
       ELSE ReqEnd(r) /\ UNCHANGED rowVars
  /\ UNCHANGED <<credits, chainVars, cursorVars, tickVars>>

\* The guarded update; the unique index on tx_hash rejects a used text.
ReqUpdate(r) ==
  LET d == reqDeposit[r]
      h == reqHash[r]
  IN
  /\ reqPc[r] = "update"
  /\ IF status[d] = "pending" /\ Unused(h)
       THEN Confirm(d, h) /\ ReqStep(r, "update", "credit")
       ELSE ReqEnd(r) /\ UNCHANGED rowVars
  /\ UNCHANGED <<credits, chainVars, cursorVars, tickVars>>

\* creditAccount: a statement of its own, after the update has committed.
ReqCredit(r) ==
  /\ reqPc[r] = "credit"
  /\ credits' = [credits EXCEPT ![reqDeposit[r]] = @ + 1]
  /\ ReqEnd(r)
  /\ UNCHANGED <<rowVars, chainVars, cursorVars, tickVars>>

\* The function dies, or a database or RPC call throws, between two steps.
ReqAbort(r) ==
  /\ reqPc[r] # "idle"
  /\ ReqEnd(r)
  /\ UNCHANGED <<rowVars, credits, chainVars, cursorVars, tickVars>>

-----------------------------------------------------------------------------
ChainNext == Mine \/ Finalize \/ Reorg

TickNext(w) ==
  \/ TickReadCursor(w) \/ TickFetchLogs(w) \/ TickReadPending(w)
  \/ \E e \in tickLogs[w] : TickConfirm(w, e) \/ TickConfirmThrows(w, e)
  \/ TickWriteCursor(w)

ReqNext(r) ==
  \/ \E d \in DepositIds, h \in Hashes : ReqReadPending(r, d, h)
  \/ ReqCheckClaimed(r) \/ ReqVerify(r) \/ ReqUpdate(r) \/ ReqCredit(r)

Next ==
  \/ ChainNext
  \/ \E d \in DepositIds, u \in Users, a \in Amounts : CreateDeposit(d, u, a)
  \/ \E w \in Ticks : TickNext(w) \/ TickAbort(w)
  \/ \E r \in Requests : ReqNext(r) \/ ReqAbort(r)

Spec == Init /\ [][Next]_vars

-----------------------------------------------------------------------------
(* What the deposit flow promises. *)

\* Whatever the watcher and the confirm requests do to the same deposit, it is
\* credited at most once, and only after it is confirmed: the status guard of
\* the UPDATE is all that separates a double submit from a double credit.
CreditedOnce ==
  \A d \in DepositIds : credits[d] > 0 => credits[d] = 1 /\ status[d] = "confirmed"

\* Whichever paths look at the same transaction, with intents of the same
\* amount at the same address: only the first of those that name it by the
\* same text confirms a deposit. The claimed check of a request is made three
\* awaits before its update. So the watcher uses a transaction once.
OneHashOneDeposit ==
  \A c, d \in DepositIds : c # d /\ txHash[c] # None => txHash[c] # txHash[d]

\* What the comments of the confirm route and of the unique index promise: a
\* transaction confirms one deposit. A respelled hash breaks it.
OneTransferOneDeposit ==
  \A c, d \in DepositIds :
    c # d /\ txHash[c] # None /\ txHash[d] # None => TxOf[txHash[c]] # TxOf[txHash[d]]

\* A confirmed deposit names a transaction that carries a transfer to its own
\* address of at least the declared amount.
ConfirmedIsCovered ==
  \A d \in DepositIds : status[d] = "confirmed" =>
    txHash[d] \in Hashes /\ Covers(TxOf[txHash[d]], d)

InCredit(d) == \E r \in Requests : reqPc[r] = "credit" /\ reqDeposit[r] = d

\* The strengthening that makes the three invariants above inductive: a row
\* that is not confirmed is untouched, a request past its check of the row
\* names an existing one, a verified request has a covering transfer, and a
\* confirmed, uncredited row has at most one request about to credit it.
DepositsInv ==
  /\ TypeOK
  /\ CreditedOnce
  /\ OneHashOneDeposit
  /\ ConfirmedIsCovered
  /\ \A d \in DepositIds : status[d] # "confirmed" =>
       txHash[d] = None /\ credits[d] = 0
  /\ \A r \in Requests :
       /\ reqPc[r] # "idle" => status[reqDeposit[r]] # "absent"
       /\ reqPc[r] = "update" => Covers(TxOf[reqHash[r]], reqDeposit[r])
       /\ reqPc[r] = "credit" =>
            status[reqDeposit[r]] = "confirmed" /\ credits[reqDeposit[r]] = 0
  /\ \A q, r \in Requests :
       q # r /\ reqPc[q] = "credit" /\ reqPc[r] = "credit" =>
         reqDeposit[q] # reqDeposit[r]

\* A final, unused transaction mined after the intent was created pays d.
Paid(d, t, l) ==
  /\ status[d] = "pending"
  /\ minedAt[t] > since[d] /\ minedAt[t] <= finalized
  /\ l \in Logs[t] /\ l.to = owner[d]
  /\ Unused(t)

Wanted(d, t, l) == Paid(d, t, l) /\ l.value = amount[d]

\* The cursor never passes the exact payment of a deposit that is still
\* pending. Broken by a confirm transaction that throws.
NothingPaidBehindCursor ==
  \A d \in DepositIds, t \in Txs : \A l \in Logs[t] :
    Wanted(d, t, l) => minedAt[t] > cursor

\* Wanted, seen by the watcher, and never met by a transaction that threw.
Owed(d, t, l) == Wanted(d, t, l) /\ WatcherSees(l.to) /\ <<t, l>> \notin threw

NothingOwedUpTo(n) ==
  \A d \in DepositIds, t \in Txs : \A l \in Logs[t] : Owed(d, t, l) => minedAt[t] > n

\* The exact payment of a pending deposit is behind the cursor, where the
\* watcher does not look again, for two reasons only: its own confirm
\* transaction threw, or the address has an upper-case letter. Overlapping and
\* aborted ticks, a cursor that moves backwards, reorganisations and intents
\* opened while a tick runs are no reason.
NothingOwedBehindCursor == NothingOwedUpTo(cursor)

\* What a tick knows: nothing owed is below its window, and what is owed in it
\* is among the logs still to do, at an address the tick looks for.
WindowInv(w) ==
  /\ tickPc[w] # "idle" => tickFrom[w] - 1 <= finalized /\ NothingOwedUpTo(tickFrom[w] - 1)
  /\ tickPc[w] \in {"pending", "confirm"} =>
       /\ tickTo[w] <= finalized
       /\ \A d \in DepositIds, t \in Txs : \A l \in Logs[t] :
            Owed(d, t, l) /\ minedAt[t] <= tickTo[w] =>
              /\ <<t, l>> \in tickLogs[w]
              /\ tickPc[w] = "confirm" => owner[d] \in tickPending[w]

\* The strengthening that makes NothingOwedBehindCursor inductive.
CursorInv ==
  /\ \A t \in Txs : minedAt[t] <= latest
  /\ cursor <= finalized /\ NothingOwedBehindCursor
  /\ \A w \in Ticks : WindowInv(w)

\* A confirmed deposit keeps its owner, amount and transaction, and a credit
\* is never taken back.
ConfirmedIsFinal ==
  [][\A d \in DepositIds :
       /\ status[d] = "confirmed" =>
            UNCHANGED <<status[d], owner[d], amount[d], txHash[d]>>
       /\ credits'[d] >= credits[d]]_vars

\* The cron fires again and again, and an outage that aborts a tick does not
\* hit the same step of every later tick; a request that is not aborted goes on.
FairTick(w) ==
  /\ WF_vars(TickReadCursor(w))
  /\ SF_vars(TickFetchLogs(w)) /\ SF_vars(TickReadPending(w))
  /\ \A e \in Entry : SF_vars(TickConfirm(w, e))
  /\ SF_vars(TickWriteCursor(w))

FairSpec ==
  /\ Spec
  /\ \A w \in Ticks : FairTick(w)
  /\ \A r \in Requests : WF_vars(reqPc[r] # "idle" /\ ReqNext(r))

\* The watcher confirms an exact payment without the owner's help, unless the
\* transaction confirms another deposit or threw when it was this one's turn.
PaidIsConfirmed ==
  \A d \in DepositIds, t \in Txs : \A l \in Logs[t] :
    Wanted(d, t, l) ~> (status[d] = "confirmed" \/ ~Unused(t) \/ <<t, l>> \in threw)

-----------------------------------------------------------------------------
(* The flow implements a payment whose reference, the text of a hash, is   *)
(* taken once.                                                             *)

Phase(d) == IF credits[d] > 0 THEN "credited" ELSE status[d]

Abstract == INSTANCE PaidOnce WITH
  Payables <- DepositIds, Payments <- Hashes,
  phase <- [d \in DepositIds |-> Phase(d)], paidBy <- txHash

\* Every step of the watcher and of the confirm requests is a step of PaidOnce
\* or leaves it alone: there is no other way from an open deposit to a credit.
ImplementsPaidOnce == Abstract!Spec
=============================================================================
