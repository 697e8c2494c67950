------------------------------ MODULE Batch ------------------------------
(* batch-processor: runs of the reconciliation job. Reader, step and job   *)
(* are singleton beans, so runs that overlap read through one reader, the  *)
(* JdbcCursorItemReader with its result set and its item count.            *)
(* StatementJob is built the same way, with a reader of its own.           *)
EXTENDS Integers, Sequences, FiniteSets

CONSTANTS Runs,             \* runs that may be triggered
          Settled,          \* the transactions whose status is 'settled'
          Recent,           \* those settled yesterday or today
          Yen,              \* those in JPY
          ScenarioEnabled,  \* RECONCILIATION_SCENARIO_ENABLED
          ChunkSize         \* rows per commit

ASSUME BatchAssumption ==
  /\ IsFiniteSet(Settled)
  /\ ScenarioEnabled \in BOOLEAN
  /\ ChunkSize \in Nat \ {0}

VARIABLES
  run,          \* run[r]: where run r is, or how it ended
  initialized,  \* the reader's flag, set once the cursor is open
  cursor,       \* position of the reader's result set; -1: it has none
  count,        \* the reader's currentItemCount
  chunk,        \* chunk[r]: rows r has read and not committed yet
  written,      \* written[r]: rows of the chunks r has committed
  sharing,      \* history: runs during whose reading another cursor was opened,
                \* or which opened it while another run was reading
  overlapped,   \* history: runs that were not alone from launch to end
  broken        \* history: runs to which the database failed

readerVars == <<initialized, cursor, count>>
batchVars  == <<run, readerVars, chunk, written, sharing, overlapped, broken>>

\* The WHERE clause: not the older rows, and in the scenario none in JPY.
Selected == {t \in Settled : t \in Recent /\ (ScenarioEnabled => t \notin Yen)}

\* The rows of the query by their position in its result, which is ordered.
NumRows == Cardinality(Selected)
Rows    == 1..NumRows

Reading == {"reading", "counted", "advanced", "committing", "last"}
Active  == {"launched", "opening", "failing", "closing"} \cup Reading
Ended   == {"completed", "failed", "refused"}

BatchTypeOK ==
  /\ run \in [Runs -> {"idle"} \cup Active \cup Ended]
  /\ initialized \in BOOLEAN /\ cursor \in -1..NumRows /\ count \in Nat
  /\ chunk \in [Runs -> Seq(Rows)]
  /\ \A r \in Runs : Len(chunk[r]) <= ChunkSize
  /\ written \in [Runs -> SUBSET Rows]
  /\ sharing \subseteq Runs /\ overlapped \subseteq Runs /\ broken \subseteq Runs

BatchInit ==
  /\ run = [r \in Runs |-> "idle"]
  /\ initialized = FALSE /\ cursor = -1 /\ count = 0
  /\ chunk = [r \in Runs |-> <<>>]
  /\ written = [r \in Runs |-> {}]
  /\ sharing = {} /\ overlapped = {} /\ broken = {}

In(stages) == {r \in Runs : run[r] \in stages}
Goto(r, stage) == run' = [run EXCEPT ![r] = stage]

\* A run.timestamp of its own makes each trigger a new job instance.
Launch(r) ==
  /\ run[r] = "idle"
  /\ Goto(r, "launched")
  /\ overlapped' = IF In(Active) = {} THEN overlapped ELSE overlapped \cup In(Active) \cup {r}
  /\ UNCHANGED <<readerVars, chunk, written, sharing, broken>>

\* The job repository cannot record the run: 500.
RefuseLaunch(r) ==
  /\ run[r] = "idle"
  /\ Goto(r, "refused")
  /\ UNCHANGED <<readerVars, chunk, written, sharing, overlapped, broken>>

\* The step opens its reader, which insists on being closed.
OpenReader(r) ==
  /\ run[r] = "launched"
  /\ Goto(r, IF initialized \/ cursor # -1 THEN "failing" ELSE "opening")
  /\ UNCHANGED <<readerVars, chunk, written, sharing, overlapped, broken>>

\* The query has been executed. What another run opened meanwhile is replaced.
OpenCursor(r) ==
  /\ run[r] = "opening"
  /\ Goto(r, "reading")
  /\ initialized' = TRUE /\ cursor' = 0
  /\ sharing' = IF In(Reading) = {} THEN sharing ELSE sharing \cup In(Reading) \cup {r}
  /\ UNCHANGED <<count, chunk, written, overlapped, broken>>

\* AbstractItemCountingItemStreamItemReader.read counts first,
CountItem(r) ==
  /\ run[r] = "reading"
  /\ Goto(r, "counted")
  /\ count' = count + 1
  /\ UNCHANGED <<initialized, cursor, chunk, written, sharing, overlapped, broken>>

\* then doRead advances the cursor, if it still has one ...
Advance(r) ==
  /\ run[r] = "counted"
  /\ \/ cursor = -1 /\ Goto(r, "failing") /\ UNCHANGED cursor
     \/ cursor = NumRows /\ Goto(r, "last") /\ UNCHANGED cursor
     \/ cursor \in 0..(NumRows - 1) /\ Goto(r, "advanced") /\ cursor' = cursor + 1
  /\ UNCHANGED <<initialized, count, chunk, written, sharing, overlapped, broken>>

\* Mutant: a run whose row is not the next one waits for it.
TakeRowWaiting(r) ==
  /\ run[r] = "advanced"
  /\ \/ cursor # count /\ UNCHANGED <<run, chunk>>
     \/ cursor \notin Rows /\ Goto(r, "failing") /\ UNCHANGED chunk
     \/ /\ cursor = count /\ cursor \in Rows
        /\ chunk' = [chunk EXCEPT ![r] = Append(@, cursor)]
        /\ Goto(r, IF Len(chunk[r]) + 1 = ChunkSize THEN "committing" ELSE "reading")
  /\ UNCHANGED <<readerVars, written, sharing, overlapped, broken>>

\* ... and takes the row it stands at, if its number is the item count.
TakeRow(r) ==
  /\ run[r] = "advanced"
  /\ \/ /\ cursor # count \/ cursor \notin Rows
        /\ Goto(r, "failing") /\ UNCHANGED chunk
     \/ /\ cursor = count /\ cursor \in Rows
        /\ chunk' = [chunk EXCEPT ![r] = Append(@, cursor)]
        /\ Goto(r, IF Len(chunk[r]) + 1 = ChunkSize THEN "committing" ELSE "reading")
  /\ UNCHANGED <<readerVars, written, sharing, overlapped, broken>>

\* Mutant: the rest that does not fill a chunk is not written.
CommitFull(r) ==
  /\ run[r] \in {"committing", "last"}
  /\ written' = IF run[r] = "last" THEN written
                ELSE [written EXCEPT ![r] = @ \cup {chunk[r][i] : i \in DOMAIN chunk[r]}]
  /\ chunk' = [chunk EXCEPT ![r] = <<>>]
  /\ Goto(r, IF run[r] = "last" THEN "closing" ELSE "reading")
  /\ UNCHANGED <<readerVars, sharing, overlapped, broken>>

\* The chunk is processed, written and committed; the last one is what is left.
Commit(r) ==
  /\ run[r] \in {"committing", "last"}
  /\ written' = [written EXCEPT ![r] = @ \cup {chunk[r][i] : i \in DOMAIN chunk[r]}]
  /\ chunk' = [chunk EXCEPT ![r] = <<>>]
  /\ Goto(r, IF run[r] = "last" THEN "closing" ELSE "reading")
  /\ UNCHANGED <<readerVars, sharing, overlapped, broken>>

\* The query, a fetch or a commit raises: the chunk is rolled back.
DatabaseFails(r) ==
  /\ run[r] \in {"launched", "opening", "counted", "committing", "last"}
  /\ Goto(r, "failing")
  /\ chunk' = [chunk EXCEPT ![r] = <<>>]
  /\ broken' = broken \cup {r}
  /\ UNCHANGED <<readerVars, written, sharing, overlapped>>

\* Mutant: a step that failed to open its reader does not close it, and one
\* that failed later closes it without resetting the item count.
CloseForgetful(r) ==
  /\ run[r] \in {"failing", "closing"}
  /\ initialized' = FALSE /\ cursor' = -1
  /\ count' = IF run[r] = "failing" THEN count ELSE 0
  /\ chunk' = [chunk EXCEPT ![r] = <<>>]
  /\ Goto(r, IF run[r] = "closing" THEN "completed" ELSE "failed")
  /\ UNCHANGED <<written, sharing, overlapped, broken>>

\* A step always closes its streams, a reader some other run has opened as well;
\* that run finds no result set at its next read.
Close(r) ==
  /\ run[r] \in {"failing", "closing"}
  /\ initialized' = FALSE /\ cursor' = -1 /\ count' = 0
  /\ chunk' = [chunk EXCEPT ![r] = <<>>]
  /\ Goto(r, IF run[r] = "closing" THEN "completed" ELSE "failed")
  /\ UNCHANGED <<written, sharing, overlapped, broken>>

RunStep(r) ==
  \/ OpenReader(r) \/ OpenCursor(r) \/ CountItem(r) \/ Advance(r) \/ TakeRow(r)
  \/ Commit(r) \/ DatabaseFails(r) \/ Close(r)
==========================================================================
