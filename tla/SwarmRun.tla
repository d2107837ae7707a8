------------------------------ MODULE SwarmRun ------------------------------
(***************************************************************************)
(* run() of the swarm skill (scripts/index.ts, executor.ts, batching.ts,   *)
(* filter.ts): the rows a filter selects are cut into batches, a pool of   *)
(* workers sends each batch to a subagent, and what comes back is written  *)
(* into the rows' result columns.  A second call over the same table, for  *)
(* the rows still without a result, is the retry SKILL.md describes.       *)
(*                                                                         *)
(* A row is its position in the table; its result column is the call that  *)
(* filled it.  An answer is the set of its batch's rows it has a parsable  *)
(* object for; a task that fails has none.                                 *)
(***************************************************************************)
EXTENDS Integers, Sequences, FiniteSets, SequencesExt, Sublists

CONSTANTS
  TableRows,     \* rows of the table
  MaxSubagents,  \* MAX_SUBAGENTS
  MaxBatchSize,  \* MAX_BATCH_SIZE
  RowSize,       \* what a batch size given as a function says of each row
  MaxCalls       \* bound: calls of run()

ASSUME SwarmRunAssumption ==
  /\ TableRows \in Nat /\ MaxCalls \in Nat
  /\ MaxSubagents \in Nat \ {0} /\ MaxBatchSize \in Nat \ {0}
  /\ RowSize \in [1..TableRows -> Int]

VARIABLES
  column,      \* the call that filled each row's result column, 0 for none
  callNo,      \* calls of run() so far
  callPhase,   \* "idle", "dispatching", "returned", "threw"
  limit,       \* the call's effective concurrency
  automatic,   \* the batch size was left to the code
  matched,     \* rows the filter selected, in table order
  unfilled,    \* of those, rows whose instruction lacks a column's value
  units,       \* dispatch units: sequences of rows
  idx,         \* the next unit to take
  holding,     \* the unit each worker awaits, 0 for none
  unitResults, \* per unit: the rows answered, or <<>> while there is none
  answered,    \* rows any subagent answered in this call (history)
  summary      \* what run() returned

swarmRunVars == <<column, callNo, callPhase, limit, automatic, matched, unfilled, units,
                  idx, holding, unitResults, answered, summary>>

TableOrder == [r \in 1..TableRows |-> r]
Workers    == 1..MaxSubagents
Least(x, y) == IF x < y THEN x ELSE y

-----------------------------------------------------------------------------
\* Mutant: rounded down.
CeilDiv_Floor(x, y) == x \div y
CeilDiv(x, y) == (x + y - 1) \div y

createBatches(items, size) ==
  [b \in 1..((Len(items) + size - 1) \div size) |->
     SubSeq(items, (b - 1) * size + 1, Least(b * size, Len(items)))]

clampBatchSize(n) == IF n < 1 THEN 1 ELSE Least(n, MaxBatchSize)

\* Rows grouped by the size the function gives them, groups in first-seen order.
rowSize(r) == clampBatchSize(RowSize[r])
Alike(items, r) == {q \in ToSet(items) : rowSize(q) = rowSize(r)}
Leads(items) == Sublist(items, {r \in ToSet(items) : \A q \in Alike(items, r) : r <= q})

Grouped(items) ==
  LET leads == Leads(items)
  IN FlattenSeq([g \in 1..Len(leads) |->
                   createBatches(Sublist(items, Alike(items, leads[g])), rowSize(leads[g]))])

\* batchSize.kind: "auto" when undefined, "by row" for a function, else a number.
BatchSizes == [kind : {"auto", "by row"}, size : {0}]
                \cup [kind : {"number"}, size : 0..MaxBatchSize + 1]
AutoSize(n, max) == IF n > max THEN Least(CeilDiv(n, max), MaxBatchSize) ELSE 1

resolveBatchGroups(items, max, batchSize) ==
  CASE batchSize.kind = "auto"   -> createBatches(items, AutoSize(Len(items), max))
    [] batchSize.kind = "by row" -> Grouped(items)
    [] OTHER                     -> createBatches(items, clampBatchSize(batchSize.size))

\* A row alone in its batch has the instruction filled in from its columns and
\* fails here, undispatched, when one is missing.
buildDispatchUnits(batches, lacking) ==
  Sublist(batches, {b \in ToSet(batches) : ~(Len(b) = 1 /\ b[1] \in lacking)})

evaluateFilter(filter, r) == filter = "all" \/ column[r] = 0

-----------------------------------------------------------------------------
\* run(): filter, batch, build; up to the first await of dispatch().
StartRun(filter, batchSize, concurrency, lacking) ==
  /\ callPhase # "dispatching" /\ callNo < MaxCalls
  /\ callNo' = callNo + 1
  /\ limit' = concurrency
  /\ automatic' = (batchSize.kind = "auto")
  /\ matched' = Sublist(TableOrder, {r \in 1..TableRows : evaluateFilter(filter, r)})
  /\ lacking \subseteq ToSet(matched')
  /\ LET batches == resolveBatchGroups(matched', concurrency, batchSize)
     IN /\ units' = buildDispatchUnits(batches, lacking)
        /\ unfilled' = {r \in lacking : \E b \in DOMAIN batches : batches[b] = <<r>>}
  /\ idx' = 1
  /\ holding' = [w \in Workers |-> 0]
  /\ unitResults' = [u \in DOMAIN units' |-> <<>>]
  /\ answered' = {}
  /\ summary' = IF matched' = <<>> THEN [completed |-> 0, failed |-> 0, skipped |-> TableRows]
                ELSE summary
  /\ \/ callPhase' = IF matched' = <<>> THEN "returned" ELSE "dispatching"
     \* validatePlaceholders: no selected row has a column the instruction names
     \/ matched' # <<>> /\ callPhase' = "threw"
  /\ UNCHANGED column

\* A worker takes the next unit and awaits the subagent.
Take(w) ==
  /\ callPhase = "dispatching" /\ w <= limit
  /\ holding[w] = 0 /\ idx <= Len(units)
  /\ holding' = [holding EXCEPT ![w] = idx]
  /\ idx' = idx + 1
  /\ UNCHANGED <<column, callNo, callPhase, limit, automatic, matched, unfilled, units,
                 unitResults, answered, summary>>

\* Mutant: results are pushed as they come in.
Slot_CompletionOrder(u) == 1 + Cardinality({v \in DOMAIN unitResults : unitResults[v] # <<>>})

\* results[i]: where the answer for unit u is kept.
Slot(u) == u

\* What a unit's prompt asks about: each of its rows, under its id.
Prompted(unit) == ToSet(unit)

\* The subagent answers for some of the unit's rows, or fails.
Answer(w, got) ==
  /\ callPhase = "dispatching" /\ holding[w] # 0
  /\ got \subseteq Prompted(units[holding[w]])
  /\ unitResults' = [unitResults EXCEPT ![Slot(holding[w])] = <<got>>]
  /\ answered' = answered \cup got
  /\ holding' = [holding EXCEPT ![w] = 0]
  /\ UNCHANGED <<column, callNo, callPhase, limit, automatic, matched, unfilled, units, idx, summary>>

\* Unit u's rows look for themselves in result u.
Unpacked(unit, result) == ToSet(unit) \cap result
Completed == UNION {Unpacked(units[u], unitResults[u][1]) : u \in DOMAIN units}
Dispatched == UNION {ToSet(units[u]) : u \in DOMAIN units}

\* Counted as mergeRowResults counts, the undispatched rows with the failed.
Tally == [completed |-> Cardinality(Completed),
          failed    |-> Cardinality(Dispatched \ Completed) + Cardinality(unfilled),
          skipped   |-> TableRows - Len(matched)]

\* Every worker is through; results are merged, the table saved - which
\* throws if it was evicted meanwhile - and the summary returned.
FinishRun ==
  /\ callPhase = "dispatching"
  /\ idx > Len(units) /\ \A w \in Workers : holding[w] = 0
  /\ column' = [r \in 1..TableRows |-> IF r \in Completed THEN callNo ELSE column[r]]
  /\ summary' = Tally
  /\ callPhase' \in {"returned", "threw"}
  /\ UNCHANGED <<callNo, limit, automatic, matched, unfilled, units, idx, holding,
                 unitResults, answered>>

SwarmRunInit ==
  /\ column = [r \in 1..TableRows |-> 0]
  /\ callNo = 0 /\ callPhase = "idle" /\ limit = 1 /\ automatic = TRUE
  /\ matched = <<>> /\ unfilled = {} /\ units = <<>> /\ idx = 1
  /\ holding = [w \in Workers |-> 0]
  /\ unitResults = <<>> /\ answered = {}
  /\ summary = [completed |-> 0, failed |-> 0, skipped |-> 0]

SwarmRunNext ==
  \/ \E filter \in {"all", "missing"}, size \in BatchSizes,
        max \in Workers, lacking \in SUBSET (1..TableRows) :
       StartRun(filter, size, max, lacking)
  \/ \E w \in Workers : Take(w)
  \/ \E w \in Workers, got \in SUBSET (1..TableRows) : Answer(w, got)
  \/ FinishRun

SwarmRunSpec == SwarmRunInit /\ [][SwarmRunNext]_swarmRunVars

-----------------------------------------------------------------------------
(* Properties *)

SwarmRunTypeOK ==
  /\ column \in [1..TableRows -> 0..callNo] /\ callNo \in 0..MaxCalls
  /\ callPhase \in {"idle", "dispatching", "returned", "threw"}
  /\ limit \in Workers /\ automatic \in BOOLEAN
  /\ ToSet(matched) \subseteq 1..TableRows /\ unfilled \subseteq ToSet(matched)
  /\ idx \in 1..Len(units) + 1
  /\ holding \in [Workers -> 0..Len(units)]
  /\ answered \subseteq 1..TableRows

\* A call accounts for every row: what it reports completed, failed and skipped
\* adds up to the table, and a row is completed - its column written by this
\* call - exactly when a subagent answered for it, whichever batch it was in
\* and in whatever order the batches came back (executor.ts:64).
RunAccountsForEveryRow ==
  callPhase = "returned" /\ matched # <<>> =>
    /\ summary.completed + summary.failed + summary.skipped = TableRows
    /\ {r \in 1..TableRows : column[r] = callNo} = answered

\* The batches partition the selected rows, and a batch size left to the code
\* keeps "total dispatches under maxSubagents" (batching.ts:62) as long as
\* batches of the largest size can.
BatchesCoverWithinLimit ==
  callPhase = "dispatching" =>
    /\ Dispatched = ToSet(matched) \ unfilled
    /\ \A u, v \in DOMAIN units : u # v => ToSet(units[u]) \cap ToSet(units[v]) = {}
    /\ automatic /\ Len(matched) <= limit * MaxBatchSize => Len(units) <= limit
=============================================================================
