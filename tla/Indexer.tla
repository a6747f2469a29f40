------------------------------ MODULE Indexer ------------------------------
(***************************************************************************)
(* The anchor indexer of one EVM chain: the cron scan that walks final     *)
(* blocks behind a cursor (lib/indexer/scan.ts), and the on-demand path    *)
(* that stores the events of one transaction as soon as a node has its     *)
(* receipt (lib/indexer/ingest.ts).                                        *)
(*                                                                         *)
(* The chain is part of the model: blocks are mined, the last ones may be  *)
(* reorganised away, and the final ones may not.  A transaction carries    *)
(* one registry event; its log index counts the logs of its whole block,   *)
(* so it may differ when the transaction is mined again.                   *)
(***************************************************************************)
EXTENDS Integers, FiniteSets

CONSTANTS
  Txs,              \* transactions to the registry
  Ours,             \* those whose uri parses as an anchor payload
  Unstorable,       \* those of them whose payload a jsonb column refuses
  MaxRows,          \* rows whose values fit the parameters of one statement
  Indexes,          \* Indexes[t]: the log indexes t may get in a block
  Scans,            \* scans that may overlap
  Crons,            \* those the cron runs; an operator runs the others by hand
  Ingests,          \* on-demand requests, one transaction each
  Asked,            \* the transactions clients ask for
  Window,           \* SCAN_WINDOW_BLOCKS
  MaxTries,         \* receipt fetches of an on-demand request: 3
  None,             \* no transaction
  MaxBlock          \* bound: blocks mined

ASSUME IndexerAssumption ==
  /\ Ours \subseteq Txs /\ Unstorable \subseteq Ours /\ MaxRows \in Nat /\ None \notin Txs
  /\ \A t \in Txs : Indexes[t] # {}
  /\ Crons \subseteq Scans /\ Asked \subseteq Txs
  /\ Window \in Nat /\ MaxTries \in Nat \ {0} /\ MaxBlock \in Nat

VARIABLES
  \* the chain
  height, final,
  blockOf,          \* blockOf[t]: the block of t, or -1
  indexOf,          \* its log index there
  \* tables indexed_anchor_event and indexer_cursor
  rows, cursor,     \* cursor = -1: no row
  \* a scan
  scan, from, to, batch,
  \* an on-demand request
  ingest, subject, tries, receipt

Index == UNION {Indexes[t] : t \in Txs}

chainVars == <<height, final, blockOf, indexOf>>
tableVars == <<rows, cursor>>
scanVars == <<scan, from, to, batch>>
ingestVars == <<ingest, subject, tries, receipt>>
vars == <<chainVars, tableVars, scanVars, ingestVars>>

\* by says which path has stored the row; the table does not.
Row == [tx : Ours, index : Index, block : Nat, by : {"scan", "ingest"}]

TypeOK ==
  /\ height \in Nat /\ final \in Int /\ final <= height
  /\ blockOf \in [Txs -> Nat \cup {-1}] /\ indexOf \in [Txs -> Index]
  /\ rows \subseteq Row
  /\ cursor \in Nat \cup {-1}
  /\ scan \in [Scans -> {"idle", "head", "logs", "insert", "cursor"}]
  /\ from \in [Scans -> Nat] /\ to \in [Scans -> Int]
  /\ batch \in [Scans -> SUBSET Row]
  /\ ingest \in [Ingests -> {"idle", "receipt", "insert"}]
  /\ subject \in [Ingests -> Txs \cup {None}]
  /\ tries \in [Ingests -> Nat]
  /\ receipt \in [Ingests -> SUBSET Row]

\* Block 0 is mined; nothing is final yet.
Init ==
  /\ height = 0 /\ final = -1
  /\ blockOf = [t \in Txs |-> -1]
  /\ indexOf = [t \in Txs |-> CHOOSE x \in Indexes[t] : TRUE]
  /\ rows = {} /\ cursor = -1
  /\ scan = [s \in Scans |-> "idle"]
  /\ from = [s \in Scans |-> 0] /\ to = [s \in Scans |-> 0]
  /\ batch = [s \in Scans |-> {}]
  /\ ingest = [i \in Ingests |-> "idle"]
  /\ subject = [i \in Ingests |-> None]
  /\ tries = [i \in Ingests |-> 0]
  /\ receipt = [i \in Ingests |-> {}]

-----------------------------------------------------------------------------
(* The chain. *)

\* A block takes any transactions, none with the index of another.
Mine ==
  /\ height < MaxBlock
  /\ height' = height + 1
  /\ \E S \in SUBSET {t \in Txs : blockOf[t] = -1} : \E at \in [S -> Index] :
       /\ \A t \in S : at[t] \in Indexes[t]
       /\ \A t, u \in S : at[t] = at[u] => t = u
       /\ blockOf' = [t \in Txs |-> IF t \in S THEN height + 1 ELSE blockOf[t]]
       /\ indexOf' = [t \in Txs |-> IF t \in S THEN at[t] ELSE indexOf[t]]
  /\ UNCHANGED <<final, tableVars, scanVars, ingestVars>>

Finalize ==
  /\ final < height
  /\ final' = final + 1
  /\ UNCHANGED <<height, blockOf, indexOf, tableVars, scanVars, ingestVars>>

\* The blocks above b are dropped; their transactions may be mined again.
Reorg ==
  /\ \E b \in Nat \cap 0 .. height - 1 :
       /\ final <= b
       /\ height' = b
       /\ blockOf' = [t \in Txs |-> IF blockOf[t] > b THEN -1 ELSE blockOf[t]]
  /\ UNCHANGED <<final, indexOf, tableVars, scanVars, ingestVars>>

-----------------------------------------------------------------------------
(* The table. *)

\* decodeAnchorRows drops an event that is not an anchor of ours.
Decode(S, by) ==
  {[tx |-> t, index |-> indexOf[t], block |-> blockOf[t], by |-> by] : t \in S \cap Ours}

SameKey(r, q) == r.tx = q.tx /\ r.index = q.index

\* What PostgreSQL takes in one INSERT of several rows: parseAnchorPayload lets
\* through a payload with the escape of a null character, which jsonb refuses,
\* and a statement has a 16-bit number of parameters.  One row that is refused
\* fails the statement, however often it is tried.
Storable(new) == Cardinality(new) <= MaxRows /\ \A r \in new : r.tx \notin Unstorable

\* INSERT ... ON CONFLICT (chain_id, tx_hash, log_index) DO NOTHING.
Insert(new) == rows' = rows \cup {r \in new : \A q \in rows : ~SameKey(r, q)}

-----------------------------------------------------------------------------
(* The cron scan. *)

EndScan(s) ==
  /\ scan' = [scan EXCEPT ![s] = "idle"]
  /\ from' = [from EXCEPT ![s] = 0] /\ to' = [to EXCEPT ![s] = 0]
  /\ batch' = [batch EXCEPT ![s] = {}]

MinOf(a, b) == IF a <= b THEN a ELSE b

ReadCursor(s) ==
  /\ scan[s] = "idle"
  /\ from' = [from EXCEPT ![s] = cursor + 1]
  /\ scan' = [scan EXCEPT ![s] = "head"]
  /\ UNCHANGED <<to, batch, chainVars, tableVars, ingestVars>>

\* Mutant: the scan goes up to the latest block.
MutReadHead(s) ==
  /\ scan[s] = "head"
  /\ LET safeTo == MinOf(height, from[s] + Window) IN
       IF from[s] > safeTo
         THEN EndScan(s)
         ELSE /\ to' = [to EXCEPT ![s] = safeTo]
              /\ scan' = [scan EXCEPT ![s] = "logs"]
              /\ UNCHANGED <<from, batch>>
  /\ UNCHANGED <<chainVars, tableVars, ingestVars>>

\* The block tagged finalized bounds the range; before the first one the node
\* has no such block and the scan throws.
ReadHead(s) ==
  /\ scan[s] = "head" /\ final >= 0
  /\ LET safeTo == MinOf(final, from[s] + Window) IN
       IF from[s] > safeTo
         THEN EndScan(s)
         ELSE /\ to' = [to EXCEPT ![s] = safeTo]
              /\ scan' = [scan EXCEPT ![s] = "logs"]
              /\ UNCHANGED <<from, batch>>
  /\ UNCHANGED <<chainVars, tableVars, ingestVars>>

\* Both getLogs calls, and the block of every log for its timestamp.
ReadLogs(s) ==
  /\ scan[s] = "logs"
  /\ batch' = [batch EXCEPT ![s] = Decode({t \in Txs : blockOf[t] \in from[s] .. to[s]}, "scan")]
  /\ scan' = [scan EXCEPT ![s] = "insert"]
  /\ UNCHANGED <<from, to, chainVars, tableVars, ingestVars>>

\* All rows of the window in one statement, none if there is none.  A window
\* that is refused throws (AbandonScan), and the next tick reads it again.
InsertBatch(s) ==
  /\ scan[s] = "insert" /\ Storable(batch[s])
  /\ Insert(batch[s])
  /\ batch' = [batch EXCEPT ![s] = {}]
  /\ scan' = [scan EXCEPT ![s] = "cursor"]
  /\ UNCHANGED <<from, to, cursor, chainVars, ingestVars>>

\* Mutant: the cursor is written as the finalized head, window or not.
MutWriteCursor(s) ==
  /\ scan[s] = "cursor"
  /\ cursor' = final
  /\ EndScan(s)
  /\ UNCHANGED <<rows, chainVars, ingestVars>>

\* Mutant: a range without events leaves the cursor where it was.
MutWriteCursorBusy(s) ==
  /\ scan[s] = "cursor"
  /\ cursor' = IF \E r \in rows : r.block \in from[s] .. to[s] THEN to[s] ELSE cursor
  /\ EndScan(s)
  /\ UNCHANGED <<rows, chainVars, ingestVars>>

\* An upsert that does not compare: a slower scan puts the cursor back.
WriteCursor(s) ==
  /\ scan[s] = "cursor"
  /\ cursor' = to[s]
  /\ EndScan(s)
  /\ UNCHANGED <<rows, chainVars, ingestVars>>

\* An RPC call or a statement throws, or the function is killed: runIndexerScan
\* settles every chain on its own, the next tick starts again.
AbandonScan(s) ==
  /\ scan[s] # "idle"
  /\ EndScan(s)
  /\ UNCHANGED <<chainVars, tableVars, ingestVars>>

-----------------------------------------------------------------------------
(* The on-demand path. *)

StartIngest(i, t) ==
  /\ ingest[i] = "idle"
  /\ ingest' = [ingest EXCEPT ![i] = "receipt"]
  /\ subject' = [subject EXCEPT ![i] = t]
  /\ tries' = [tries EXCEPT ![i] = 0]
  /\ UNCHANGED <<receipt, chainVars, tableVars, scanVars>>

EndIngest(i) ==
  /\ ingest' = [ingest EXCEPT ![i] = "idle"]
  /\ subject' = [subject EXCEPT ![i] = None]
  /\ tries' = [tries EXCEPT ![i] = 0]
  /\ receipt' = [receipt EXCEPT ![i] = {}]

\* The receipt's logs, read and decoded; nothing is stored for a transaction
\* that is not ours.
GetReceipt(i) ==
  LET t == subject[i] IN
  /\ ingest[i] = "receipt" /\ blockOf[t] >= 0
  /\ IF t \in Ours
       THEN /\ receipt' = [receipt EXCEPT ![i] = Decode({t}, "ingest")]
            /\ ingest' = [ingest EXCEPT ![i] = "insert"]
            /\ UNCHANGED <<subject, tries>>
       ELSE EndIngest(i)
  /\ UNCHANGED <<chainVars, tableVars, scanVars>>

\* The node that answers has no such transaction, or not yet: tried again a
\* few times, then left to the scan.
MissReceipt(i) ==
  /\ ingest[i] = "receipt"
  /\ IF tries[i] + 1 >= MaxTries
       THEN EndIngest(i)
       ELSE tries' = [tries EXCEPT ![i] = @ + 1] /\ UNCHANGED <<ingest, subject, receipt>>
  /\ UNCHANGED <<chainVars, tableVars, scanVars>>

InsertReceipt(i) ==
  /\ ingest[i] = "insert" /\ Storable(receipt[i])
  /\ Insert(receipt[i])
  /\ EndIngest(i)
  /\ UNCHANGED <<cursor, chainVars, scanVars>>

\* Another error of the transport or the database, or a lost request.
AbandonIngest(i) ==
  /\ ingest[i] # "idle"
  /\ EndIngest(i)
  /\ UNCHANGED <<chainVars, tableVars, scanVars>>

-----------------------------------------------------------------------------
Chain == Mine \/ Finalize \/ Reorg

Scan(s) ==
  ReadCursor(s) \/ ReadHead(s) \/ ReadLogs(s) \/ InsertBatch(s) \/ WriteCursor(s) \/ AbandonScan(s)

Ingest(i) ==
  \/ \E t \in Asked : StartIngest(i, t)
  \/ GetReceipt(i) \/ MissReceipt(i) \/ InsertReceipt(i) \/ AbandonIngest(i)

Next == Chain \/ (\E s \in Scans : Scan(s)) \/ (\E i \in Ingests : Ingest(i))

Spec == Init /\ [][Next]_vars

\* The cron fires every day, and errors of the network or of the database do
\* not hit the same step of every later scan.  A batch the database refuses for
\* what it holds never becomes insertable, and nothing is assumed of it.
FairSpec ==
  /\ Spec
  /\ \A s \in Crons :
       /\ WF_vars(ReadCursor(s)) /\ SF_vars(ReadHead(s)) /\ SF_vars(ReadLogs(s))
       /\ SF_vars(InsertBatch(s)) /\ SF_vars(WriteCursor(s))

-----------------------------------------------------------------------------
(* What the index promises. *)

Final(t) == blockOf[t] >= 0 /\ blockOf[t] <= final

HasRow(t) == \E r \in rows : r.tx = t /\ r.index = indexOf[t]

\* No anchor of a final block at or below n is missing from the table.
IndexedUpTo(n) == \A t \in Ours : Final(t) /\ blockOf[t] <= n => HasRow(t)

\* The cursor leaves no hole behind it: overlapping scans, a cursor that is
\* put back, abandoned batches and reorganisations included.
NoHoleBehindCursor == cursor <= final /\ IndexedUpTo(cursor)

\* A row disagrees with the final chain only if the on-demand path has stored
\* it: the scan never shows a block or a log index that is not final.
ScannedRowsAreFinal ==
  \A r \in rows : r.by = "scan" =>
    Final(r.tx) /\ r.block = blockOf[r.tx] /\ r.index = indexOf[r.tx]

\* What the scans under way know: where the scan starts nothing is missing,
\* its range is final, and its batch holds what the range misses.
ScanInv(s) ==
  /\ scan[s] # "idle" => from[s] - 1 <= final /\ IndexedUpTo(from[s] - 1)
  /\ scan[s] \in {"logs", "insert", "cursor"} => from[s] <= to[s] /\ to[s] <= final
  /\ scan[s] = "insert" =>
       batch[s] = Decode({t \in Txs : blockOf[t] \in from[s] .. to[s]}, "scan")
  /\ scan[s] # "insert" => batch[s] = {}
  /\ scan[s] = "cursor" => IndexedUpTo(to[s])

ChainInv == \A t \in Txs : blockOf[t] <= height

IngestInv(i) ==
  /\ ingest[i] = "idle" <=> subject[i] = None
  /\ \A r \in receipt[i] : r.by = "ingest"

\* The strengthening that makes the two invariants above inductive.
IndexInv ==
  /\ TypeOK /\ ChainInv
  /\ NoHoleBehindCursor /\ ScannedRowsAreFinal
  /\ \A s \in Scans : ScanInv(s)
  /\ \A i \in Ingests : IngestInv(i)

\* A window that may hold t, or come before it, is refused by the database: it
\* holds an unstorable payload or too many rows.
Refused(t) ==
  \E b \in 0 .. blockOf[t] :
    ~Storable(Decode({u \in Txs : Final(u) /\ blockOf[u] \in b .. b + Window}, "scan"))

\* Every final anchor is indexed in the end, without anybody asking for it,
\* unless a window at or before its block is refused: then the cursor stays
\* there for good, and nothing after it is indexed.
FinalIsIndexed == \A t \in Ours \ Unstorable : Final(t) ~> (HasRow(t) \/ Refused(t))
=============================================================================
