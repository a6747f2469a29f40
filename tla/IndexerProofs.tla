--------------------------- MODULE IndexerProofs ---------------------------
(***************************************************************************)
(* Proofs about Indexer: the cursor leaves no hole behind it, and the scan *)
(* shows final anchors only, for any chain, window and number of scans.    *)
(* The argument: what is final does not change, the table only grows, and  *)
(* a scan starts where nothing is missing and inserts all of its range     *)
(* before it moves the cursor.                                             *)
(***************************************************************************)
EXTENDS Indexer, TLAPS

-----------------------------------------------------------------------------
(* The chain. *)

\* What a step of the chain leaves alone: final transactions keep their block
\* and index, and no other transaction comes to lie below the final block.
FinalKept ==
  \A t \in Txs :
    /\ blockOf[t] >= 0 /\ blockOf[t] <= final =>
         blockOf'[t] = blockOf[t] /\ indexOf'[t] = indexOf[t]
    /\ blockOf'[t] >= 0 /\ blockOf'[t] <= final => blockOf'[t] = blockOf[t]

LEMMA MineKeeps ==
  ASSUME TypeOK, ChainInv, Mine
  PROVE  FinalKept /\ ChainInv' /\ final' = final /\ height' \in Nat /\ final <= height'
         /\ blockOf' \in [Txs -> Nat \cup {-1}] /\ indexOf' \in [Txs -> Index]
<1>1. PICK S \in SUBSET {t \in Txs : blockOf[t] = -1} : \E at \in [S -> Index] :
        /\ blockOf' = [t \in Txs |-> IF t \in S THEN height + 1 ELSE blockOf[t]]
        /\ indexOf' = [t \in Txs |-> IF t \in S THEN at[t] ELSE indexOf[t]]
  BY DEF Mine
<1>2. PICK at \in [S -> Index] :
        /\ blockOf' = [t \in Txs |-> IF t \in S THEN height + 1 ELSE blockOf[t]]
        /\ indexOf' = [t \in Txs |-> IF t \in S THEN at[t] ELSE indexOf[t]]
  BY <1>1
<1>3. height' = height + 1 /\ final' = final
  BY DEF Mine
<1> QED
  BY <1>1, <1>2, <1>3 DEF TypeOK, ChainInv, FinalKept

LEMMA ReorgKeeps ==
  ASSUME TypeOK, ChainInv, Reorg
  PROVE  FinalKept /\ ChainInv' /\ final' = final /\ height' \in Nat /\ final <= height'
         /\ blockOf' \in [Txs -> Nat \cup {-1}] /\ indexOf' \in [Txs -> Index]
<1>1. PICK b \in Nat \cap 0 .. height - 1 :
        /\ final <= b /\ height' = b
        /\ blockOf' = [t \in Txs |-> IF blockOf[t] > b THEN -1 ELSE blockOf[t]]
  BY DEF Reorg
<1>2. indexOf' = indexOf /\ final' = final
  BY DEF Reorg
<1>3. b \in Nat /\ b < height
  BY DEF TypeOK
<1>4. \A t \in Txs : blockOf[t] \in Nat \cup {-1} /\ blockOf[t] <= height
                   /\ blockOf'[t] = IF blockOf[t] > b THEN -1 ELSE blockOf[t]
  BY <1>1 DEF TypeOK, ChainInv
<1>5. blockOf' \in [Txs -> Nat \cup {-1}]
  BY <1>1, <1>3 DEF TypeOK
<1>6. FinalKept
  BY <1>1, <1>2, <1>3, <1>4 DEF FinalKept, TypeOK
<1>7. ChainInv'
  BY <1>1, <1>3, <1>4 DEF ChainInv
<1> QED
  BY <1>1, <1>2, <1>3, <1>5, <1>6, <1>7 DEF TypeOK

LEMMA ChainStep ==
  ASSUME TypeOK, ChainInv, Chain
  PROVE  /\ FinalKept /\ ChainInv' /\ final <= final' /\ height' \in Nat
         /\ final' \in Int /\ final' <= height'
         /\ blockOf' \in [Txs -> Nat \cup {-1}] /\ indexOf' \in [Txs -> Index]
         /\ UNCHANGED <<tableVars, scanVars, ingestVars>>
<1>1. CASE Mine
  <2>1. UNCHANGED <<tableVars, scanVars, ingestVars>>
    BY <1>1 DEF Mine
  <2>2. final \in Int
    BY DEF TypeOK
  <2> QED
    BY <1>1, <2>1, <2>2, MineKeeps
<1>2. CASE Reorg
  <2>1. UNCHANGED <<tableVars, scanVars, ingestVars>>
    BY <1>2 DEF Reorg
  <2>2. final \in Int
    BY DEF TypeOK
  <2> QED
    BY <1>2, <2>1, <2>2, ReorgKeeps
<1>3. CASE Finalize
  BY <1>3 DEF Finalize, TypeOK, ChainInv, FinalKept
<1> QED
  BY <1>1, <1>2, <1>3 DEF Chain

\* Nothing the index knows of the final chain is lost when the chain moves.
LEMMA ChainKeepsIndex ==
  ASSUME TypeOK, FinalKept, rows' = rows,
         final' \in Int, final <= final', blockOf' \in [Txs -> Nat \cup {-1}],
         Ours \subseteq Txs,
         NEW n \in Int, n <= final, IndexedUpTo(n)
  PROVE  IndexedUpTo(n)'
<1> SUFFICES ASSUME NEW t \in Ours, Final(t)', blockOf'[t] <= n PROVE HasRow(t)'
  BY DEF IndexedUpTo
<1>1. blockOf'[t] = blockOf[t] /\ Final(t) /\ indexOf'[t] = indexOf[t]
  BY DEF Final, FinalKept, TypeOK
<1> QED
  BY <1>1 DEF IndexedUpTo, HasRow

LEMMA ChainKeepsDecode ==
  ASSUME TypeOK, FinalKept, final' \in Int, blockOf' \in [Txs -> Nat \cup {-1}],
         Ours \subseteq Txs, NEW a \in Nat, NEW b \in Int, b <= final, NEW by
  PROVE  Decode({t \in Txs : blockOf[t] \in a .. b}, by)'
           = Decode({t \in Txs : blockOf[t] \in a .. b}, by)
<1>1. {t \in Txs : blockOf'[t] \in a .. b} = {t \in Txs : blockOf[t] \in a .. b}
  BY DEF FinalKept, TypeOK
<1>2. \A t \in {t \in Txs : blockOf[t] \in a .. b} :
        blockOf'[t] = blockOf[t] /\ indexOf'[t] = indexOf[t]
  BY DEF FinalKept, TypeOK
<1> QED
  BY <1>1, <1>2 DEF Decode

-----------------------------------------------------------------------------
(* The table. *)

LEMMA InsertGrows ==
  ASSUME NEW new \in SUBSET Row, rows \subseteq Row, Insert(new)
  PROVE  rows \subseteq rows' /\ rows' \subseteq Row
         /\ (\A r \in rows' : (r \in rows \/ r \in new))
         /\ (\A r \in new : \E q \in rows' : SameKey(r, q))
  BY DEF Insert, SameKey

\* A table that grows under a chain that stands still misses no more.
LEMMA GrowKeepsIndex ==
  ASSUME rows \subseteq rows', UNCHANGED chainVars, NEW n, IndexedUpTo(n)
  PROVE  IndexedUpTo(n)'
  BY DEF IndexedUpTo, HasRow, Final, chainVars

LEMMA DecodeType ==
  ASSUME TypeOK, NEW S \in SUBSET Txs, \A t \in S : blockOf[t] >= 0,
         NEW by \in {"scan", "ingest"}
  PROVE  Decode(S, by) \subseteq Row
  BY IndexerAssumption DEF Decode, Row, TypeOK

-----------------------------------------------------------------------------
(* The invariant under a step of the chain. *)

LEMMA InitHolds == Init => IndexInv
<1> SUFFICES ASSUME Init PROVE IndexInv
  OBVIOUS
<1>1. TypeOK
  <2>1. indexOf \in [Txs -> Index]
    BY IndexerAssumption DEF Init, Index
  <2> QED
    BY <2>1, IndexerAssumption DEF Init, TypeOK
<1>2. IndexedUpTo(cursor)
  BY IndexerAssumption DEF Init, IndexedUpTo, Final
<1> QED
  BY <1>1, <1>2 DEF Init, IndexInv, ChainInv, NoHoleBehindCursor, ScannedRowsAreFinal, ScanInv, IngestInv

LEMMA ChainHolds ==
  ASSUME IndexInv, Chain
  PROVE  IndexInv'
<1>1. /\ FinalKept /\ ChainInv' /\ final <= final' /\ height' \in Nat
      /\ final' \in Int /\ final' <= height'
      /\ blockOf' \in [Txs -> Nat \cup {-1}] /\ indexOf' \in [Txs -> Index]
  BY ChainStep DEF IndexInv
<1>2. UNCHANGED <<tableVars, scanVars, ingestVars>>
  BY ChainStep DEF IndexInv
<1>3. TypeOK /\ TypeOK'
  BY <1>1, <1>2 DEF IndexInv, TypeOK, tableVars, scanVars, ingestVars
<1>4. ASSUME NEW n \in Int, n <= final, IndexedUpTo(n) PROVE IndexedUpTo(n)'
  BY <1>1, <1>2, <1>3, <1>4, ChainKeepsIndex, IndexerAssumption DEF tableVars
<1>5. NoHoleBehindCursor'
  <2>1. cursor \in Int /\ cursor <= final /\ IndexedUpTo(cursor) /\ cursor' = cursor
    BY <1>2, <1>3 DEF IndexInv, NoHoleBehindCursor, TypeOK, tableVars
  <2>2. IndexedUpTo(cursor)'
    BY <2>1, <1>4 DEF IndexedUpTo
  <2> QED
    BY <2>1, <2>2, <1>1, <1>3 DEF NoHoleBehindCursor, TypeOK
<1>6. ScannedRowsAreFinal'
  <2> SUFFICES ASSUME NEW r \in rows, r.by = "scan"
               PROVE  Final(r.tx)' /\ r.block = blockOf'[r.tx] /\ r.index = indexOf'[r.tx]
    BY <1>2 DEF ScannedRowsAreFinal, tableVars
  <2>1. r.tx \in Txs /\ Final(r.tx) /\ r.block = blockOf[r.tx] /\ r.index = indexOf[r.tx]
    BY <1>3, IndexerAssumption DEF IndexInv, ScannedRowsAreFinal, TypeOK, Row
  <2>2. blockOf'[r.tx] = blockOf[r.tx] /\ indexOf'[r.tx] = indexOf[r.tx]
    BY <2>1, <1>1 DEF FinalKept, Final
  <2> QED
    BY <2>1, <2>2, <1>1, <1>3 DEF Final, TypeOK
<1>7. ASSUME NEW s \in Scans PROVE ScanInv(s)'
  <2>1. ScanInv(s) /\ UNCHANGED <<scan, from, to, batch>>
    BY <1>2 DEF IndexInv, scanVars
  <2>2. from[s] \in Nat /\ to[s] \in Int /\ from[s] - 1 \in Int /\ final \in Int /\ final' \in Int
    BY <1>3 DEF TypeOK
  <2>3. scan[s] # "idle" => from[s] - 1 <= final' /\ IndexedUpTo(from[s] - 1)'
    BY <2>1, <2>2, <1>1, <1>4 DEF ScanInv
  <2>4. scan[s] \in {"logs", "insert", "cursor"} => from[s] <= to[s] /\ to[s] <= final'
    BY <2>1, <2>2, <1>1 DEF ScanInv
  <2>5. scan[s] = "insert" =>
          batch[s] = Decode({t \in Txs : blockOf[t] \in from[s] .. to[s]}, "scan")'
    <3> SUFFICES ASSUME scan[s] = "insert"
                 PROVE  batch[s] = Decode({t \in Txs : blockOf[t] \in from[s] .. to[s]}, "scan")'
      OBVIOUS
    <3>1. to[s] <= final
      BY <2>1 DEF ScanInv
    <3>2. PICK a \in Nat, b \in Int : a = from[s] /\ b = to[s]
      BY <2>2
    <3>3. Decode({t \in Txs : blockOf[t] \in a .. b}, "scan")'
            = Decode({t \in Txs : blockOf[t] \in a .. b}, "scan")
      BY <3>1, <3>2, <1>1, <1>3, ChainKeepsDecode, IndexerAssumption
    <3> QED
      BY <3>2, <3>3, <2>1 DEF ScanInv
  <2>6. scan[s] = "cursor" => IndexedUpTo(to[s])'
    BY <2>1, <2>2, <1>4 DEF ScanInv
  <2>7. from'[s] = from[s] /\ to'[s] = to[s] /\ scan'[s] = scan[s] /\ batch'[s] = batch[s]
    BY <2>1
  <2> QED
    BY <2>1, <2>3, <2>4, <2>5, <2>6, <2>7 DEF ScanInv, IndexedUpTo
<1>8. ASSUME NEW i \in Ingests PROVE IngestInv(i)'
  BY <1>2 DEF IndexInv, IngestInv, ingestVars
<1> QED
  BY <1>1, <1>3, <1>5, <1>6, <1>7, <1>8 DEF IndexInv

-----------------------------------------------------------------------------
(* ...and under a step of a scan or of an on-demand request. *)

\* The scans that do not move keep what they know when the table grows.
LEMMA OtherScans ==
  ASSUME TypeOK, NEW s \in Scans, ScanInv(s), rows \subseteq rows', UNCHANGED chainVars,
         scan'[s] = scan[s], from'[s] = from[s], to'[s] = to[s], batch'[s] = batch[s]
  PROVE  ScanInv(s)'
<1>1. \A n : IndexedUpTo(n) => IndexedUpTo(n)'
  BY GrowKeepsIndex
<1>2. Decode({t \in Txs : blockOf[t] \in from[s] .. to[s]}, "scan")'
        = Decode({t \in Txs : blockOf[t] \in from[s] .. to[s]}, "scan")
  BY DEF Decode, chainVars
<1>3. IndexedUpTo(from[s] - 1) => IndexedUpTo(from[s] - 1)'
  BY <1>1, from'[s] = from[s] DEF IndexedUpTo
<1>4. IndexedUpTo(to[s]) => IndexedUpTo(to[s])'
  BY <1>1, to'[s] = to[s] DEF IndexedUpTo
<1> QED
  BY <1>2, <1>3, <1>4 DEF ScanInv, chainVars

\* A step that writes no cursor, and rows of final anchors or of the on-demand
\* path only.
LEMMA TableHolds ==
  ASSUME IndexInv, UNCHANGED <<chainVars, cursor>>, rows \subseteq rows',
         \A r \in rows' \ rows : r.by = "scan" =>
           Final(r.tx) /\ r.block = blockOf[r.tx] /\ r.index = indexOf[r.tx]
  PROVE  ChainInv' /\ NoHoleBehindCursor' /\ ScannedRowsAreFinal'
<1>1. IndexedUpTo(cursor)'
  BY GrowKeepsIndex DEF IndexInv, NoHoleBehindCursor, IndexedUpTo
<1>2. ChainInv'
  BY DEF IndexInv, ChainInv, chainVars
<1>3. NoHoleBehindCursor'
  BY <1>1 DEF IndexInv, NoHoleBehindCursor, chainVars
<1>4. ScannedRowsAreFinal'
  BY DEF IndexInv, ScannedRowsAreFinal, Final, chainVars
<1> QED
  BY <1>2, <1>3, <1>4

LEMMA ScanStep ==
  ASSUME IndexInv, NEW s \in Scans, Scan(s)
  PROVE  /\ TypeOK' /\ ScanInv(s)'
         /\ ChainInv' /\ NoHoleBehindCursor' /\ ScannedRowsAreFinal'
         /\ rows \subseteq rows' /\ UNCHANGED <<chainVars, ingestVars>>
         /\ \A u \in Scans \ {s} : /\ scan'[u] = scan[u] /\ from'[u] = from[u]
                                  /\ to'[u] = to[u] /\ batch'[u] = batch[u]
<1>0. TypeOK /\ ScanInv(s) /\ from[s] \in Nat /\ to[s] \in Int /\ cursor \in Nat \cup {-1}
      /\ final \in Int
  BY DEF IndexInv, TypeOK
<1>a. ASSUME EndScan(s), TypeOK PROVE ScanInv(s)' /\ scan' \in [Scans -> {"idle", "head", "logs", "insert", "cursor"}]
             /\ from' \in [Scans -> Nat] /\ to' \in [Scans -> Int] /\ batch' \in [Scans -> SUBSET Row]
  BY <1>a DEF EndScan, ScanInv, TypeOK
<1>b. ASSUME UNCHANGED <<chainVars, tableVars>> PROVE ChainInv' /\ NoHoleBehindCursor' /\ ScannedRowsAreFinal'
  BY <1>b, TableHolds DEF tableVars
<1>1. CASE ReadCursor(s)
  <2>1. from'[s] = cursor + 1 /\ scan'[s] = "head" /\ batch'[s] = batch[s]
    BY <1>1, <1>0 DEF ReadCursor, TypeOK
  <2>2. IndexedUpTo(cursor)' /\ cursor <= final
    BY <1>1, GrowKeepsIndex DEF IndexInv, NoHoleBehindCursor, IndexedUpTo, ReadCursor, tableVars
  <2>3. from'[s] - 1 = cursor
    BY <2>1, <1>0
  <2>4. ScanInv(s)'
    BY <2>1, <2>2, <2>3, <1>0, <1>1 DEF ScanInv, IndexedUpTo, ReadCursor, chainVars, tableVars
  <2>5. TypeOK'
    BY <1>1, <1>0 DEF ReadCursor, TypeOK, chainVars, tableVars, ingestVars
  <2> QED
    BY <1>1, <1>0, <1>b, <2>4, <2>5 DEF ReadCursor, TypeOK, tableVars
<1>2. CASE ReadHead(s)
  <2>1. MinOf(final, from[s] + Window) \in Int /\ MinOf(final, from[s] + Window) <= final
    BY <1>0, IndexerAssumption DEF MinOf
  <2>2. CASE EndScan(s)
    BY <2>2, <1>2, <1>0, <1>a, <1>b DEF ReadHead, EndScan, TypeOK, chainVars, tableVars, ingestVars
  <2>3. CASE ~EndScan(s)
    <3>1. /\ from[s] <= MinOf(final, from[s] + Window)
          /\ to' = [to EXCEPT ![s] = MinOf(final, from[s] + Window)]
          /\ scan' = [scan EXCEPT ![s] = "logs"] /\ UNCHANGED <<from, batch, chainVars, tableVars, ingestVars>>
          /\ scan[s] = "head"
      BY <1>2, <2>3, <2>1, <1>0 DEF ReadHead
    <3>2. TypeOK'
      BY <3>1, <2>1, <1>0 DEF TypeOK, chainVars, tableVars, ingestVars
    <3>3. IndexedUpTo(from[s] - 1)'
      BY <3>1, <1>0, GrowKeepsIndex DEF ScanInv, IndexedUpTo, tableVars
    <3>4. ScanInv(s)'
      BY <3>1, <3>3, <2>1, <1>0 DEF ScanInv, IndexedUpTo, TypeOK, chainVars
    <3> QED
      BY <3>1, <3>2, <3>4, <1>0, <1>b DEF TypeOK, tableVars
  <2> QED
    BY <2>2, <2>3
<1>3. CASE ReadLogs(s)
  <2>1. Decode({t \in Txs : blockOf[t] \in from[s] .. to[s]}, "scan") \subseteq Row
    <3>1. \A t \in {t \in Txs : blockOf[t] \in from[s] .. to[s]} : blockOf[t] >= 0
      BY <1>0 DEF TypeOK
    <3> QED
      BY <3>1, <1>0, DecodeType
  <2>2. TypeOK'
    BY <1>3, <2>1, <1>0 DEF ReadLogs, TypeOK, chainVars, tableVars, ingestVars
  <2>3. IndexedUpTo(from[s] - 1)'
    BY <1>3, <1>0, GrowKeepsIndex DEF ReadLogs, ScanInv, IndexedUpTo, tableVars
  <2>4. batch'[s] = Decode({t \in Txs : blockOf[t] \in from[s] .. to[s]}, "scan")'
    BY <1>3, <1>0 DEF ReadLogs, TypeOK, Decode, chainVars
  <2>5. ScanInv(s)'
    BY <1>3, <2>3, <2>4, <1>0 DEF ReadLogs, ScanInv, IndexedUpTo, TypeOK, chainVars
  <2> QED
    BY <1>3, <2>2, <2>5, <1>0, <1>b DEF ReadLogs, TypeOK, tableVars
<1>4. CASE InsertBatch(s)
  <2>1. /\ batch[s] = Decode({t \in Txs : blockOf[t] \in from[s] .. to[s]}, "scan")
        /\ from[s] <= to[s] /\ to[s] <= final /\ IndexedUpTo(from[s] - 1)
    BY <1>4, <1>0 DEF InsertBatch, ScanInv
  <2>2. /\ rows \subseteq rows' /\ rows' \subseteq Row
        /\ \A r \in rows' : r \in rows \/ r \in batch[s]
        /\ \A r \in batch[s] : \E q \in rows' : SameKey(r, q)
    <3>1. batch[s] \in SUBSET Row /\ rows \subseteq Row
      BY <1>0 DEF TypeOK
    <3>2. rows' = rows \cup {r \in batch[s] : \A q \in rows : ~SameKey(r, q)}
      BY <1>4 DEF InsertBatch, Insert
    <3>3. \A r \in batch[s] : \E q \in rows' : SameKey(r, q)
      BY <3>2 DEF SameKey
    <3> QED
      BY <3>1, <3>2, <3>3
  <2>3. TypeOK'
    BY <1>4, <2>2, <1>0 DEF InsertBatch, TypeOK, chainVars, ingestVars
  <2>4. \A r \in batch[s] : Final(r.tx) /\ r.block = blockOf[r.tx] /\ r.index = indexOf[r.tx]
    BY <2>1, <1>0, IndexerAssumption DEF Decode, Final, TypeOK
  <2>5. ChainInv' /\ NoHoleBehindCursor' /\ ScannedRowsAreFinal'
    BY <1>4, <2>2, <2>4, TableHolds DEF InsertBatch
  <2>6. IndexedUpTo(to[s])'
    <3> SUFFICES ASSUME NEW t \in Ours, Final(t), blockOf[t] <= to[s] PROVE HasRow(t)'
      BY <1>4, <1>0 DEF InsertBatch, EndScan, IndexedUpTo, Final, HasRow, chainVars
    <3>1. CASE blockOf[t] <= from[s] - 1
      BY <3>1, <2>1, <2>2, <1>4 DEF IndexedUpTo, HasRow, InsertBatch, chainVars
    <3>2. CASE ~(blockOf[t] <= from[s] - 1)
      <4>1. blockOf[t] \in from[s] .. to[s] /\ t \in Txs
        BY <3>2, <1>0, IndexerAssumption DEF TypeOK, Final
      <4>2. [tx |-> t, index |-> indexOf[t], block |-> blockOf[t], by |-> "scan"] \in batch[s]
        BY <4>1, <2>1 DEF Decode
      <4> QED
        BY <4>2, <2>2, <1>4 DEF SameKey, HasRow, InsertBatch, chainVars
    <3> QED
      BY <3>1, <3>2
  <2>7. IndexedUpTo(from[s] - 1)'
    BY <2>1, <2>2, <1>4, GrowKeepsIndex DEF InsertBatch, IndexedUpTo
  <2>8. ScanInv(s)'
    BY <1>4, <2>1, <2>6, <2>7, <1>0 DEF InsertBatch, ScanInv, IndexedUpTo, TypeOK, chainVars
  <2> QED
    BY <1>4, <2>2, <2>3, <2>5, <2>8, <1>0 DEF InsertBatch, TypeOK
<1>5. CASE WriteCursor(s)
  <2>1. from[s] <= to[s] /\ to[s] <= final /\ IndexedUpTo(to[s]) /\ cursor' = to[s] /\ UNCHANGED <<rows, chainVars>>
    BY <1>5, <1>0 DEF WriteCursor, ScanInv
  <2>2. TypeOK'
    BY <1>5, <2>1, <1>0, <1>a DEF WriteCursor, TypeOK, chainVars, ingestVars
  <2>3. IndexedUpTo(to[s]) <=> IndexedUpTo(cursor)'
    BY <2>1 DEF IndexedUpTo, HasRow, Final, chainVars
  <2>4. ChainInv' /\ NoHoleBehindCursor' /\ ScannedRowsAreFinal'
    BY <2>1, <2>3 DEF IndexInv, ChainInv, NoHoleBehindCursor, ScannedRowsAreFinal, Final, chainVars
  <2> QED
    BY <1>5, <2>2, <2>4, <1>0, <1>a DEF WriteCursor, EndScan, TypeOK
<1>6. CASE AbandonScan(s)
  <2>1. TypeOK'
    BY <1>6, <1>0, <1>a DEF AbandonScan, TypeOK, chainVars, tableVars, ingestVars
  <2> QED
    BY <1>6, <2>1, <1>0, <1>a, <1>b DEF AbandonScan, EndScan, TypeOK, tableVars
<1> QED
  BY <1>1, <1>2, <1>3, <1>4, <1>5, <1>6 DEF Scan

LEMMA ScanHolds ==
  ASSUME IndexInv, NEW s \in Scans, Scan(s)
  PROVE  IndexInv'
<1>1. \A u \in Scans : ScanInv(u)'
  <2> TAKE u \in Scans
  <2>1. CASE u = s
    BY <2>1, ScanStep
  <2>2. CASE u # s
    BY <2>2, ScanStep, OtherScans DEF IndexInv
  <2> QED
    BY <2>1, <2>2
<1>2. \A i \in Ingests : IngestInv(i)'
  BY ScanStep DEF IndexInv, IngestInv, ingestVars
<1> QED
  BY <1>1, <1>2, ScanStep DEF IndexInv

LEMMA IngestHolds ==
  ASSUME IndexInv, NEW i \in Ingests, Ingest(i)
  PROVE  IndexInv'
<1>0. TypeOK /\ IngestInv(i)
  BY DEF IndexInv
<1>1. /\ UNCHANGED <<chainVars, scanVars, cursor>>
      /\ \A k \in Ingests \ {i} : ingest'[k] = ingest[k] /\ subject'[k] = subject[k] /\ receipt'[k] = receipt[k]
  BY <1>0 DEF Ingest, StartIngest, GetReceipt, MissReceipt, InsertReceipt, AbandonIngest, EndIngest, tableVars, TypeOK
<1>2. rows \subseteq rows' /\ rows' \subseteq Row /\ \A r \in rows' \ rows : r.by = "ingest"
  <2>1. CASE InsertReceipt(i)
    BY <2>1, <1>0, InsertGrows DEF InsertReceipt, IngestInv, TypeOK
  <2>2. CASE ~InsertReceipt(i)
    BY <2>2, <1>0 DEF Ingest, StartIngest, GetReceipt, MissReceipt, AbandonIngest, tableVars, TypeOK
  <2> QED
    BY <2>1, <2>2
<1>3. ASSUME EndIngest(i)
      PROVE  /\ ingest' \in [Ingests -> {"idle", "receipt", "insert"}]
             /\ subject' \in [Ingests -> Txs \cup {None}] /\ tries' \in [Ingests -> Nat]
             /\ receipt' \in [Ingests -> SUBSET Row] /\ IngestInv(i)'
  BY <1>3, <1>0 DEF EndIngest, TypeOK, IngestInv
<1>4. /\ ingest' \in [Ingests -> {"idle", "receipt", "insert"}]
      /\ subject' \in [Ingests -> Txs \cup {None}] /\ tries' \in [Ingests -> Nat]
      /\ receipt' \in [Ingests -> SUBSET Row] /\ IngestInv(i)'
  <2>1. ASSUME NEW t \in Txs, StartIngest(i, t) PROVE <1>4!:
    BY <2>1, <1>0, IndexerAssumption DEF StartIngest, TypeOK, IngestInv
  <2>2. CASE GetReceipt(i)
    <3>1. CASE subject[i] \in Ours
      <4>1. subject[i] \in Txs /\ blockOf[subject[i]] >= 0
        BY <2>2, <3>1, IndexerAssumption DEF GetReceipt
      <4>2. Decode({subject[i]}, "ingest") \subseteq Row
        BY <4>1, <1>0, DecodeType
      <4>3. \A r \in Decode({subject[i]}, "ingest") : r.by = "ingest"
        BY DEF Decode
      <4>4. /\ receipt' = [receipt EXCEPT ![i] = Decode({subject[i]}, "ingest")]
            /\ ingest' = [ingest EXCEPT ![i] = "insert"]
            /\ UNCHANGED <<subject, tries>> /\ ingest[i] = "receipt"
        BY <2>2, <3>1 DEF GetReceipt
      <4> QED
        BY <4>2, <4>3, <4>4, <1>0 DEF TypeOK, IngestInv
    <3>2. CASE subject[i] \notin Ours
      BY <2>2, <3>2, <1>3 DEF GetReceipt
    <3> QED
      BY <3>1, <3>2
  <2>3. CASE MissReceipt(i)
    BY <2>3, <1>3, <1>0 DEF MissReceipt, TypeOK, IngestInv
  <2>4. CASE InsertReceipt(i)
    BY <2>4, <1>3 DEF InsertReceipt
  <2>5. CASE AbandonIngest(i)
    BY <2>5, <1>3 DEF AbandonIngest
  <2>6. PICK t \in Txs : \/ StartIngest(i, t) \/ GetReceipt(i) \/ MissReceipt(i)
                        \/ InsertReceipt(i) \/ AbandonIngest(i)
    BY <1>0, IndexerAssumption DEF Ingest, GetReceipt, MissReceipt, InsertReceipt, AbandonIngest, TypeOK, IngestInv
  <2> QED
    BY <2>1, <2>2, <2>3, <2>4, <2>5, <2>6
<1>5. TypeOK'
  BY <1>0, <1>1, <1>2, <1>4 DEF TypeOK, chainVars, scanVars
<1>6. ChainInv' /\ NoHoleBehindCursor' /\ ScannedRowsAreFinal'
  BY <1>1, <1>2, TableHolds
<1>7. \A s \in Scans : ScanInv(s)'
  BY <1>0, <1>1, <1>2, OtherScans DEF IndexInv, scanVars
<1>8. \A k \in Ingests : IngestInv(k)'
  BY <1>1, <1>4 DEF IndexInv, IngestInv
<1> QED
  BY <1>5, <1>6, <1>7, <1>8 DEF IndexInv

-----------------------------------------------------------------------------
\* No anchor of a final block at or below the cursor is missing from the table,
\* and what the scan has stored is final.  The strengthening says that every
\* scan under way starts where nothing is missing (lib/indexer/scan.ts).
THEOREM IndexSafety == Spec => []IndexInv
<1>1. IndexInv /\ [Next]_vars => IndexInv'
  <2> SUFFICES ASSUME IndexInv, [Next]_vars PROVE IndexInv'
    OBVIOUS
  <2>1. CASE Chain
    BY <2>1, ChainHolds
  <2>2. ASSUME NEW s \in Scans, Scan(s) PROVE IndexInv'
    BY <2>2, ScanHolds
  <2>3. ASSUME NEW i \in Ingests, Ingest(i) PROVE IndexInv'
    BY <2>3, IngestHolds
  <2>4. CASE UNCHANGED vars
    BY <2>4 DEF vars, chainVars, tableVars, scanVars, ingestVars, IndexInv, TypeOK, ChainInv,
                NoHoleBehindCursor, ScannedRowsAreFinal, ScanInv, IngestInv, IndexedUpTo, HasRow, Final, Decode
  <2> QED
    BY <2>1, <2>2, <2>3, <2>4 DEF Next
<1> QED
  BY InitHolds, <1>1, PTL DEF Spec

\* The cursor leaves no hole behind it (scan.ts).
THEOREM NoHole == Spec => []NoHoleBehindCursor
<1>1. IndexInv => NoHoleBehindCursor
  BY DEF IndexInv
<1> QED
  BY IndexSafety, <1>1, PTL

\* The scan shows nothing that is not final (scan.ts, CONFIRMED_TAG).
THEOREM ScannedFinal == Spec => []ScannedRowsAreFinal
<1>1. IndexInv => ScannedRowsAreFinal
  BY DEF IndexInv
<1> QED
  BY IndexSafety, <1>1, PTL
=============================================================================
