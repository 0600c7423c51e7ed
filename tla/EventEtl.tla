------------------------------ MODULE EventEtl ------------------------------
(***************************************************************************)
(* The process kafka_clickhouse_etl: one consumer of the topic "event"     *)
(* that turns messages into rows, gathers the rows of each ClickHouse      *)
(* table in a buffer and inserts a buffer when it is full.                 *)
(*                                                                         *)
(* An event is named by its place in the topic, <<partition, offset>>.     *)
(* Every time process() accepts it, a fresh uuid4 makes a new row of it:   *)
(* the row is [event |-> e, made |-> k] for the k-th row made of e.        *)
(***************************************************************************)
EXTENDS Integers, Sequences, FiniteSets

CONSTANTS
    Partitions,     \* partitions of the topic
    NTables,        \* number of ClickHouse tables (5 in the code)
    BatchSize,      \* rows that make a buffer full (1000 in the code)
    NoEvent,        \* nothing in hand
    MaxLog,         \* bound: messages per partition
    MaxStarts,      \* bound: times the process is started
    MaxRebalances,  \* bound: times the group coordinator reassigns partitions
    MaxFaults       \* bound: inserts that fail for a reason outside the rows

ASSUME TablesAssumption == NTables \in Nat \ {0}
ASSUME BatchAssumption == BatchSize \in Nat \ {0}
ASSUME BoundsAssumption ==
    /\ MaxLog \in Nat
    /\ MaxStarts \in Nat
    /\ MaxRebalances \in Nat
    /\ MaxFaults \in Nat
ASSUME NoEventAssumption == NoEvent \notin Partitions \X Nat

\* The tables in the order of the dict EventProcessor.buffers.
Tables == 1..NTables

Events == Partitions \X (1..MaxLog)

(***************************************************************************)
(* What process() can tell of a message: not JSON; JSON it refuses (no or  *)
(* unknown event_type, a required field missing, a timestamp strptime does *)
(* not read); or a row for a table.  A row that is not storable passes     *)
(* every check of process() and is refused by the INSERT: an Enum column   *)
(* without that value, a user_id that is no UUID.                          *)
(***************************************************************************)
Messages ==
    [kind : {"malformed", "rejected"}]
        \cup [kind : {"row"}, table : Tables, storable : BOOLEAN]

Rows == [event : Events, made : Nat]

VARIABLES
    log,        \* [Partitions -> Seq(Messages)]: the topic
    logStart,   \* first offset retention has kept, per partition
    committed,  \* offset committed for the group, 0 for none
    pc,         \* where the process is
    position,   \* next offset the consumer fetches, per partition
    cur,        \* the event in hand
    outcome,    \* how EventProcessor.process ended
    flushing,   \* the table the flush loop looks at next
    buffers,    \* rows gathered in memory, per table
    stored,     \* rows in ClickHouse
    ambiguous,  \* rows whose insert was applied but reported as failed
    rowsMade,   \* rows made so far, per event
    fetched,    \* events handed over since the process started
    stuckAt,    \* the table at which the last flush loop raised, 0 if none
    starts, rebalances, faults

broker == <<log, logStart, committed>>
clickhouse == <<stored, ambiguous>>
counters == <<starts, rebalances, faults>>
history == <<rowsMade, fetched>>
vars == <<log, logStart, committed, pc, position, cur, outcome, flushing,
          buffers, stored, ambiguous, rowsMade, fetched, stuckAt, starts,
          rebalances, faults>>

-----------------------------------------------------------------------------
Message(e) == log[e[1]][e[2]]

Published(e) == e[2] \in DOMAIN log[e[1]]
Retained(e) == Published(e) /\ logStart[e[1]] <= e[2]

\* Slip: no auto.offset.reset.
ResumeAtCommitted(p) == committed[p]

\* The next fetch resumes here after a start or a reassignment: the committed
\* offset, or the earliest kept message when there is none or it is gone
\* (auto.offset.reset = earliest).
ResumeAt(p) == IF committed[p] < logStart[p] THEN logStart[p] ELSE committed[p]

NextOffset(p) == IF position[p] < logStart[p] THEN logStart[p] ELSE position[p]

NoRows == [t \in Tables |-> {}]

Buffered == UNION {buffers[t] : t \in Tables}

\* Slip: > for >= in the test of the batch size.
FullLate(t) == Cardinality(buffers[t]) > BatchSize

Full(t) == Cardinality(buffers[t]) >= BatchSize

\* ClickHouse refuses the whole INSERT when one row of it does not fit.
Storable(t) == \A r \in buffers[t] : Message(r.event).storable

\* Tables the flush loop has still to insert, and the one it meets first.
Due == {t \in Tables : flushing <= t /\ Full(t)}
NextDue(t) == t \in Due /\ \A u \in Due : t <= u

\* Slip: the decorator repaired, and nothing else.
MonitorMemoryTransparent(result) == result

(***************************************************************************)
(* The decorator monitor_memory, after the function it wraps has returned, *)
(* compares a float with os.environ.get(...), a string or None: Python     *)
(* raises TypeError whatever the value.  An exception of the function      *)
(* passes through.                                                         *)
(***************************************************************************)
MonitorMemory(result) == "raised"

-----------------------------------------------------------------------------
Init ==
    /\ log = [p \in Partitions |-> <<>>]
    /\ logStart = [p \in Partitions |-> 1]
    /\ committed = [p \in Partitions |-> 0]
    /\ pc = "down"
    /\ position = [p \in Partitions |-> 1]
    /\ cur = NoEvent
    /\ outcome = "returned"
    /\ flushing = 1
    /\ buffers = NoRows
    /\ stored = {}
    /\ ambiguous = {}
    /\ rowsMade = [e \in Events |-> 0]
    /\ fetched = {}
    /\ stuckAt = 0
    /\ starts = 0
    /\ rebalances = 0
    /\ faults = 0

(***************************************************************************)
(* Kafka, as the process sees it (external): producers append, retention   *)
(* removes the oldest message whether or not anybody has read it.          *)
(***************************************************************************)
Publish(p, m) ==
    /\ Len(log[p]) < MaxLog
    /\ log' = [log EXCEPT ![p] = Append(@, m)]
    /\ UNCHANGED <<logStart, committed, pc, position, cur, outcome, flushing,
                   buffers, stored, ambiguous, history, stuckAt, counters>>

Expire(p) ==
    /\ logStart[p] <= Len(log[p])
    /\ logStart' = [logStart EXCEPT ![p] = @ + 1]
    /\ UNCHANGED <<log, committed, pc, position, cur, outcome, flushing,
                   buffers, stored, ambiguous, history, stuckAt, counters>>

(***************************************************************************)
(* main.py: ClickHouse answers SELECT 1, a new EventProcessor with empty   *)
(* buffers, a new consumer that subscribes.                                *)
(***************************************************************************)
Start ==
    /\ pc = "down"
    /\ starts < MaxStarts
    /\ starts' = starts + 1
    /\ pc' = "poll"
    /\ position' = [p \in Partitions |-> ResumeAt(p)]
    /\ fetched' = {}
    /\ stuckAt' = 0
    /\ UNCHANGED <<log, logStart, committed, cur, outcome, flushing, buffers,
                   clickhouse, rowsMade, rebalances, faults>>

\* consumer.poll hands over the next message of some partition.
Poll(p) ==
    /\ pc = "poll"
    /\ NextOffset(p) <= Len(log[p])
    /\ cur' = <<p, NextOffset(p)>>
    /\ position' = [position EXCEPT ![p] = NextOffset(p) + 1]
    /\ fetched' = fetched \cup {cur'}
    /\ pc' = "process"
    /\ UNCHANGED <<log, logStart, committed, outcome, flushing, buffers,
                   clickhouse, rowsMade, stuckAt, counters>>

\* Inside poll the coordinator takes the partitions away and gives them back:
\* fetching resumes from the committed offsets, the buffers stay.
Rebalance ==
    /\ pc = "poll"
    /\ rebalances < MaxRebalances
    /\ rebalances' = rebalances + 1
    /\ position' = [p \in Partitions |-> ResumeAt(p)]
    /\ UNCHANGED <<log, logStart, committed, pc, cur, outcome, flushing,
                   buffers, clickhouse, history, stuckAt, starts, faults>>

\* process(): JSONDecodeError is logged and swallowed; every other refusal
\* is logged and raised again.
Refuse ==
    /\ pc = "process"
    /\ Message(cur).kind \in {"malformed", "rejected"}
    /\ outcome' = IF Message(cur).kind = "malformed" THEN "returned" ELSE "raised"
    /\ pc' = "settle"
    /\ UNCHANGED <<log, logStart, committed, position, cur, flushing, buffers,
                   clickhouse, history, stuckAt, counters>>

\* process(): the handler of the event type validates the event and appends
\* a row with a fresh uuid4 to its table's buffer.
Append1(t) ==
    buffers' = [buffers EXCEPT ![t] =
                   @ \cup {[event |-> cur, made |-> rowsMade[cur] + 1]}]

Accept ==
    /\ pc = "process"
    /\ Message(cur).kind = "row"
    /\ Append1(Message(cur).table)
    /\ rowsMade' = [rowsMade EXCEPT ![cur] = @ + 1]
    /\ flushing' = 1
    /\ pc' = "flush"
    /\ UNCHANGED <<log, logStart, committed, position, cur, outcome,
                   clickhouse, fetched, stuckAt, counters>>

\* Slip: the buffer is not cleared after the insert.
FlushOkKeeping(t) ==
    /\ pc = "flush"
    /\ NextDue(t)
    /\ Storable(t)
    /\ stored' = stored \cup buffers[t]
    /\ flushing' = t + 1
    /\ UNCHANGED <<broker, pc, position, cur, outcome, buffers, ambiguous,
                   history, stuckAt, counters>>

\* _flush(t), the INSERT succeeded: the buffer is cleared, the loop goes on.
FlushOk(t) ==
    /\ pc = "flush"
    /\ NextDue(t)
    /\ Storable(t)
    /\ stored' = stored \cup buffers[t]
    /\ buffers' = [buffers EXCEPT ![t] = {}]
    /\ flushing' = t + 1
    /\ UNCHANGED <<broker, pc, position, cur, outcome, ambiguous, history,
                   stuckAt, counters>>

\* Slip: the buffer is cleared in a finally clause.
FlushFailsClearing(t) ==
    /\ pc = "flush"
    /\ NextDue(t)
    /\ buffers' = [buffers EXCEPT ![t] = {}]
    /\ outcome' = "raised"
    /\ stuckAt' = t
    /\ pc' = "settle"
    /\ UNCHANGED <<broker, position, cur, flushing, clickhouse, history,
                   counters>>

\* Slip: _flush logs the error and does not raise it again.
FlushFailsSilently(t) ==
    /\ pc = "flush"
    /\ NextDue(t)
    /\ flushing' = t + 1
    /\ UNCHANGED <<broker, pc, position, cur, outcome, buffers, clickhouse,
                   history, stuckAt, counters>>

\* _flush(t), the INSERT raised and left nothing in the table: the exception
\* leaves the loop and process(), the buffer stays as it is.
FlushFails(t) ==
    /\ pc = "flush"
    /\ NextDue(t)
    /\ IF Storable(t) THEN faults < MaxFaults /\ faults' = faults + 1
                      ELSE UNCHANGED faults
    /\ outcome' = "raised"
    /\ stuckAt' = t
    /\ pc' = "settle"
    /\ UNCHANGED <<broker, position, cur, flushing, buffers, clickhouse,
                   history, starts, rebalances>>

\* _flush(t), ClickHouse applied the INSERT but its answer was lost (socket
\* timeout, broken connection): the driver raises all the same.
FlushUnknown(t) ==
    /\ pc = "flush"
    /\ NextDue(t)
    /\ Storable(t)
    /\ faults < MaxFaults
    /\ faults' = faults + 1
    /\ stored' = stored \cup buffers[t]
    /\ ambiguous' = ambiguous \cup buffers[t]
    /\ outcome' = "raised"
    /\ stuckAt' = t
    /\ pc' = "settle"
    /\ UNCHANGED <<broker, position, cur, flushing, buffers, history,
                   starts, rebalances>>

\* No table left to insert: process() returns.
FlushDone ==
    /\ pc = "flush"
    /\ Due = {}
    /\ outcome' = "returned"
    /\ stuckAt' = 0
    /\ pc' = "settle"
    /\ UNCHANGED <<broker, position, cur, flushing, buffers, clickhouse,
                   history, counters>>

\* Slip: a message whose callback raised is sought again.
SettleRetrying ==
    /\ pc = "settle"
    /\ position' = IF outcome = "raised"
                   THEN [position EXCEPT ![cur[1]] = cur[2]] ELSE position
    /\ cur' = NoEvent
    /\ pc' = "poll"
    /\ UNCHANGED <<log, logStart, committed, outcome, flushing, buffers,
                   clickhouse, history, stuckAt, counters>>

(***************************************************************************)
(* consumer.consume after the callback: the message is committed when the  *)
(* callback returned, an exception is logged and the loop goes on.         *)
(***************************************************************************)
Settle ==
    /\ pc = "settle"
    /\ committed' = IF MonitorMemory(outcome) = "returned"
                    THEN [committed EXCEPT ![cur[1]] = cur[2] + 1]
                    ELSE committed
    /\ cur' = NoEvent
    /\ pc' = "poll"
    /\ UNCHANGED <<log, logStart, position, outcome, flushing, buffers,
                   clickhouse, history, stuckAt, counters>>

(***************************************************************************)
(* The process ends: SIGTERM or SIGINT (sys.exit), an error message from   *)
(* Kafka (KafkaException), a kill.  Nothing is flushed or committed, the   *)
(* buffers go with the memory.  An INSERT on its way may still be applied. *)
(***************************************************************************)
Die ==
    /\ pc' = "down"
    /\ cur' = NoEvent
    /\ buffers' = NoRows
    /\ UNCHANGED <<log, logStart, committed, position, outcome, flushing,
                   ambiguous, history, stuckAt, counters>>

Stop ==
    /\ pc # "down"
    /\ Die
    /\ UNCHANGED stored

StopInInsert(t) ==
    /\ pc = "flush"
    /\ NextDue(t)
    /\ Storable(t)
    /\ stored' = stored \cup buffers[t]
    /\ Die

-----------------------------------------------------------------------------
Flush(t) == FlushOk(t) \/ FlushFails(t) \/ FlushUnknown(t)

\* The steps consume() takes by itself, once poll has given it a message.
HandleMessage ==
    \/ Refuse
    \/ Accept
    \/ \E t \in Tables : Flush(t)
    \/ FlushDone
    \/ Settle

Next ==
    \/ \E p \in Partitions, m \in Messages : Publish(p, m)
    \/ \E p \in Partitions : Expire(p)
    \/ Start
    \/ \E p \in Partitions : Poll(p)
    \/ Rebalance
    \/ Refuse
    \/ Accept
    \/ \E t \in Tables : FlushOk(t)
    \/ \E t \in Tables : FlushFails(t)
    \/ \E t \in Tables : FlushUnknown(t)
    \/ FlushDone
    \/ Settle
    \/ Stop
    \/ \E t \in Tables : StopInInsert(t)

Spec == Init /\ [][Next]_vars

\* While it is up the loop of consume() never rests: poll returns a message
\* when there is one, and a callback that has begun comes to its end.
ConsumeLoop == (\E p \in Partitions : Poll(p)) \/ HandleMessage

FairSpec == Spec /\ WF_vars(ConsumeLoop)

-----------------------------------------------------------------------------
(***************************************************************************)
(* Properties                                                              *)
(***************************************************************************)
Up == pc # "down"
IsRow(e) == Published(e) /\ Message(e).kind = "row"
IsStored(e) == \E r \in stored : r.event = e
LatestRow(e) == [event |-> e, made |-> rowsMade[e]]

\* Every variable has its type, and the counters keep their bounds.
TypeOK ==
    /\ log \in [Partitions -> Seq(Messages)]
    /\ \A p \in Partitions : Len(log[p]) <= MaxLog
    /\ logStart \in [Partitions -> 1..(MaxLog + 1)]
    /\ committed \in [Partitions -> 0..(MaxLog + 1)]
    /\ pc \in {"down", "poll", "process", "flush", "settle"}
    /\ position \in [Partitions -> 1..(MaxLog + 1)]
    /\ cur \in Events \cup {NoEvent}
    /\ outcome \in {"returned", "raised"}
    /\ flushing \in 1..(NTables + 1)
    /\ buffers \in [Tables -> SUBSET Rows]
    /\ stored \subseteq Rows
    /\ ambiguous \subseteq stored
    /\ rowsMade \in [Events -> Nat]
    /\ fetched \subseteq Events
    /\ stuckAt \in Tables \cup {0}
    /\ starts \in 0..MaxStarts
    /\ rebalances \in 0..MaxRebalances
    /\ faults \in 0..MaxFaults

(***************************************************************************)
(* The consumer may die at any moment and its buffers with it, so every    *)
(* row message retention has kept is in ClickHouse or lies where the next  *)
(* start resumes.  (The commit of consumer.py, line 23, acknowledges a     *)
(* message whose row may be in a buffer only: what keeps this true is that *)
(* the call is never reached.)                                             *)
(***************************************************************************)
Recoverable ==
    \A e \in Events :
        IsRow(e) /\ Retained(e) => IsStored(e) \/ ResumeAt(e[1]) <= e[2]

(***************************************************************************)
(* The process implements at-least-once delivery: with the row messages of *)
(* the topic as events, those at or after the resume offsets as owed and   *)
(* the buffers as what is held, each step is one EventDelivery allows.     *)
(***************************************************************************)
RowEvents == {e \in Events : IsRow(e)}
Owed == {e \in RowEvents : Retained(e) /\ ResumeAt(e[1]) <= e[2]}

Delivery ==
    INSTANCE EventDelivery
        WITH published <- RowEvents,
             owed <- Owed,
             held <- {r.event : r \in Buffered},
             delivered <- {r.event : r \in stored},
             expired <- {e \in RowEvents : ~ Retained(e)}

DeliversAtLeastOnce == Delivery!Spec

(***************************************************************************)
(* While the process lives it forgets nothing: a row message it has        *)
(* fetched since it started and appended is in a buffer or in ClickHouse,  *)
(* whatever inserts failed in between.                                     *)
(***************************************************************************)
NothingForgottenWhileUp ==
    Up => \A e \in Events :
             /\ IsRow(e)
             /\ e \in fetched
             /\ ~ (cur = e /\ pc = "process")
             => LatestRow(e) \in Buffered \cup stored

(***************************************************************************)
(* A row that is in ClickHouse and still in a buffer will be inserted      *)
(* twice; it is there only because ClickHouse applied an insert it         *)
(* reported as failed.                                                     *)
(***************************************************************************)
TwiceOnlyIfAmbiguous == stored \cap Buffered \subseteq ambiguous

(***************************************************************************)
(* Delivering again is the only source of extra rows of an event: one row  *)
(* at most per start and per reassignment of the partitions.               *)
(***************************************************************************)
OneRowPerDelivery == \A e \in Events : rowsMade[e] <= starts + rebalances

(***************************************************************************)
(* Between two messages a buffer is full only because the last flush loop  *)
(* raised at that table or before it: with a healthy ClickHouse no table   *)
(* waits with a whole batch in memory.                                     *)
(***************************************************************************)
FullOnlyBehindFailure ==
    pc = "poll" =>
        \A t \in Tables :
            Cardinality(buffers[t]) >= BatchSize
                => stuckAt # 0 /\ stuckAt <= t

(***************************************************************************)
(* A full buffer with a row ClickHouse refuses blocks its table and every  *)
(* table after it in the order of the dict: until the process ends, none   *)
(* of their buffers loses a row.                                           *)
(***************************************************************************)
Blocked(t) ==
    \E u \in 1..t : Cardinality(buffers[u]) >= BatchSize /\ ~ Storable(u)

BlockedTablesOnlyGrow ==
    [][\A t \in Tables :
          Blocked(t) /\ pc' # "down" => buffers[t] \subseteq buffers'[t]]_vars

(***************************************************************************)
(* No message holds up its partition: what is published is fetched, unless *)
(* the process ends or retention comes first, however often the messages   *)
(* before it are refused or their inserts fail.                            *)
(***************************************************************************)
NoMessageBlocksItsPartition ==
    \A e \in Events :
        (Up /\ Published(e)) ~> (e \in fetched \/ ~ Retained(e) \/ ~ Up)

(***************************************************************************)
(* What test_etl_integration.py, line 158, expects of a running consumer:  *)
(* the events sent are in their tables after a while, five of each type    *)
(* being enough.                                                           *)
(***************************************************************************)
EventsReachTheirTable ==
    \A e \in Events :
        (Up /\ IsRow(e) /\ Message(e).storable)
            ~> (IsStored(e) \/ ~ Retained(e) \/ ~ Up)

(***************************************************************************)
(* What the comment at consumer.py, line 25, says of the commit: it        *)
(* confirms the message once process() has dealt with it.                  *)
(***************************************************************************)
ProcessedIsCommitted ==
    [][pc = "settle" /\ pc' = "poll" /\ outcome = "returned"
       /\ Message(cur).kind = "row"
          => committed'[cur[1]] = cur[2] + 1]_vars
=============================================================================
