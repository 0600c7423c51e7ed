--------------------------- MODULE EventEtlProofs ---------------------------
(***************************************************************************)
(* Proofs about EventEtl, for any number of partitions, tables, messages,  *)
(* starts, reassignments and failing inserts.                              *)
(***************************************************************************)
EXTENDS EventEtl, FiniteSetTheorems, TLAPS

USE TablesAssumption, BatchAssumption, BoundsAssumption, NoEventAssumption

\* Whoever is handling a message holds one that is in the topic; during the
\* flush loop it is a row message.
HandInv ==
    /\ pc \in {"process", "flush", "settle"} => cur \in Events /\ Published(cur)
    /\ pc = "flush" => Message(cur).kind = "row"

\* A row in memory or in ClickHouse was made of a row message, and before
\* the next uuid of that event; a buffer holds rows of its own table.
RowInv ==
    /\ \A t \in Tables : \A r \in buffers[t] :
          IsRow(r.event) /\ Message(r.event).table = t /\ r.made <= rowsMade[r.event]
    /\ \A r \in stored : IsRow(r.event) /\ r.made <= rowsMade[r.event]
    /\ pc = "down" => buffers = NoRows

Typed == TypeOK /\ HandInv /\ RowInv

LEMMA MessageTyped ==
    ASSUME TypeOK, NEW e \in Events, Published(e)
    PROVE  Message(e) \in Messages
  BY DEF TypeOK, Published, Message, Events

LEMMA RowTableTyped ==
    ASSUME NEW m \in Messages, m.kind = "row"
    PROVE  m.table \in Tables /\ m.storable \in BOOLEAN
  BY DEF Messages

LEMMA TypedInit == Init => Typed
<1> SUFFICES ASSUME Init PROVE Typed
  OBVIOUS
<1>1. TypeOK
  BY DEF Init, TypeOK, NoRows, Rows, Events, Tables
<1>2. HandInv
  BY DEF Init, HandInv
<1>3. RowInv
  BY DEF Init, RowInv, NoRows
<1>4. QED
  BY <1>1, <1>2, <1>3 DEF Typed

\* The log only grows at its end: a message keeps its place and its text.
LEMMA LogGrows ==
    ASSUME TypeOK, [Next]_vars, NEW e \in Events, Published(e)
    PROVE  Published(e)' /\ Message(e)' = Message(e)
<1>1. ASSUME NEW p \in Partitions, NEW m \in Messages, Publish(p, m)
      PROVE  Published(e)' /\ Message(e)' = Message(e)
  BY <1>1 DEF Publish, TypeOK, Published, Message, Events
<1>2. CASE UNCHANGED log
  BY <1>2 DEF Published, Message
<1>3. QED
  BY <1>1, <1>2 DEF Next, vars, broker, clickhouse, Expire, Start, Poll, Rebalance, Refuse,
     Accept, FlushOk, FlushFails, FlushUnknown, FlushDone, Settle, Stop,
     StopInInsert, Die

LEMMA RowKept ==
    ASSUME TypeOK, [Next]_vars, NEW e \in Events, IsRow(e)
    PROVE  IsRow(e)' /\ Message(e)' = Message(e)
  BY LogGrows DEF IsRow

LEMMA TypeStep == Typed /\ [Next]_vars => TypeOK'
<1> SUFFICES ASSUME Typed, [Next]_vars PROVE TypeOK'
  OBVIOUS
<1> USE DEF Typed
<1>1. ASSUME NEW p \in Partitions, NEW m \in Messages, Publish(p, m) PROVE TypeOK'
  BY <1>1 DEF TypeOK, Publish, counters, clickhouse, history
<1>2. ASSUME NEW p \in Partitions, Expire(p) PROVE TypeOK'
  BY <1>2 DEF TypeOK, Expire, counters, clickhouse, history
<1>3. CASE Start
  BY <1>3 DEF TypeOK, Start, ResumeAt, counters, clickhouse, history
<1>4. ASSUME NEW p \in Partitions, Poll(p) PROVE TypeOK'
  <2>1. NextOffset(p) \in 1..MaxLog /\ NextOffset(p) + 1 \in 1..(MaxLog + 1)
    BY <1>4 DEF TypeOK, Poll, NextOffset
  <2>2. cur' \in Events
    BY <1>4, <2>1 DEF Poll, Events
  <2>3. QED
    BY <1>4, <2>1, <2>2 DEF TypeOK, Poll, counters, clickhouse, history
<1>5. CASE Rebalance
  BY <1>5 DEF TypeOK, Rebalance, ResumeAt, counters, clickhouse, history
<1>6. CASE Refuse
  BY <1>6 DEF TypeOK, Refuse, counters, clickhouse, history
<1>7. CASE Accept
  <2>1. cur \in Events /\ Message(cur).table \in Tables
    BY <1>7, MessageTyped, RowTableTyped DEF Accept, HandInv
  <2>2. rowsMade[cur] + 1 \in Nat
    BY <2>1 DEF TypeOK
  <2>3. [event |-> cur, made |-> rowsMade[cur] + 1] \in Rows
    BY <2>1, <2>2 DEF Rows
  <2>4. buffers' \in [Tables -> SUBSET Rows]
    BY <1>7, <2>1, <2>3 DEF TypeOK, Accept, Append1
  <2>5. rowsMade' \in [Events -> Nat]
    BY <1>7, <2>1, <2>2 DEF TypeOK, Accept
  <2>6. flushing' \in 1..(NTables + 1)
    BY <1>7 DEF Accept
  <2>7. QED
    BY <1>7, <2>4, <2>5, <2>6 DEF TypeOK, Accept, counters, clickhouse
<1>8. ASSUME NEW t \in Tables, FlushOk(t) PROVE TypeOK'
  <2>1. buffers[t] \subseteq Rows /\ t + 1 \in 1..(NTables + 1)
    BY DEF TypeOK, Tables
  <2>2. QED
    BY <1>8, <2>1 DEF TypeOK, FlushOk, counters, broker, history
<1>9. ASSUME NEW t \in Tables, FlushFails(t) PROVE TypeOK'
  BY <1>9 DEF TypeOK, FlushFails, broker, clickhouse, history
<1>10. ASSUME NEW t \in Tables, FlushUnknown(t) PROVE TypeOK'
  BY <1>10 DEF TypeOK, FlushUnknown, broker, history
<1>11. CASE FlushDone
  BY <1>11 DEF TypeOK, FlushDone, broker, clickhouse, history, counters
<1>12. CASE Settle
  BY <1>12 DEF TypeOK, Settle, MonitorMemory, clickhouse, history, counters
<1>13. ASSUME Die, stored' \subseteq Rows, stored \subseteq stored' PROVE TypeOK'
  <2>1. NoRows \in [Tables -> SUBSET Rows]
    BY DEF NoRows
  <2>2. QED
    BY <1>13, <2>1 DEF TypeOK, Die, history, counters
<1>14. CASE Stop
  BY <1>13, <1>14 DEF Stop, TypeOK
<1>15. ASSUME NEW t \in Tables, StopInInsert(t) PROVE TypeOK'
  BY <1>13, <1>15 DEF StopInInsert, TypeOK
<1>16. CASE UNCHANGED vars
  BY <1>16 DEF TypeOK, vars
<1>17. QED
  BY <1>1, <1>2, <1>3, <1>4, <1>5, <1>6, <1>7, <1>8, <1>9, <1>10, <1>11,
     <1>12, <1>14, <1>15, <1>16 DEF Next

LEMMA HandStep == Typed /\ [Next]_vars => HandInv'
<1> SUFFICES ASSUME Typed, [Next]_vars PROVE HandInv'
  OBVIOUS
<1> USE DEF Typed, HandInv
<1>1. \/ UNCHANGED <<pc, cur>>
      \/ \E p \in Partitions : Poll(p)
      \/ pc = "process" /\ pc' \in {"flush", "settle"} /\ UNCHANGED cur
      \/ pc = "flush" /\ pc' = "settle" /\ UNCHANGED cur
      \/ pc' \in {"down", "poll"}
  BY DEF Next, vars, broker, clickhouse, history, counters, Publish, Expire,
     Start, Rebalance, Refuse, Accept, FlushOk, FlushFails, FlushUnknown,
     FlushDone, Settle, Stop, StopInInsert, Die
<1>2. pc' = "flush" => pc = "flush" \/ Message(cur).kind = "row"
  BY DEF Next, vars, broker, clickhouse, history, counters, Publish, Expire,
     Start, Poll, Rebalance, Refuse, Accept, FlushOk, FlushFails, FlushUnknown,
     FlushDone, Settle, Stop, StopInInsert, Die
<1>3. ASSUME NEW p \in Partitions, Poll(p) PROVE HandInv'
  BY <1>3 DEF Poll, Published, Events, NextOffset, TypeOK
<1>4. ASSUME UNCHANGED cur, pc \in {"process", "flush", "settle"}
      PROVE  HandInv'
  BY <1>2, <1>4, LogGrows DEF TypeOK
<1>5. CASE UNCHANGED <<pc, cur>>
  BY <1>4, <1>5
<1>6. CASE pc' \in {"down", "poll"}
  BY <1>6
<1>7. QED
  BY <1>1, <1>3, <1>4, <1>5, <1>6

LEMMA RowStep == Typed /\ [Next]_vars => RowInv'
<1> SUFFICES ASSUME Typed, [Next]_vars PROVE RowInv'
  OBVIOUS
<1> USE DEF Typed
<1>1. ASSUME NEW e \in Events, IsRow(e)
      PROVE  IsRow(e)' /\ Message(e)' = Message(e)
  BY <1>1, RowKept
<1>2. \A e \in Events : rowsMade[e] <= rowsMade'[e]
  <2>1. CASE Accept
    BY <2>1 DEF Accept, TypeOK
  <2>2. CASE UNCHANGED rowsMade
    BY <2>2 DEF TypeOK
  <2>3. QED
    BY <2>1, <2>2 DEF Next, vars, broker, clickhouse, history, counters,
       Publish, Expire, Start, Poll, Rebalance, Refuse, FlushOk, FlushFails,
       FlushUnknown, FlushDone, Settle, Stop, StopInInsert, Die
\* A row that met RowInv still meets it.
<1>3. ASSUME NEW r \in Rows, IsRow(r.event), r.made <= rowsMade[r.event]
      PROVE  /\ IsRow(r.event)'
             /\ r.made <= rowsMade'[r.event]
             /\ Message(r.event)' = Message(r.event)
  <2>1. r.event \in Events /\ r.made \in Nat
    BY DEF Rows
  <2>2. rowsMade \in [Events -> Nat] /\ rowsMade' \in [Events -> Nat]
    BY TypeStep DEF TypeOK
  <2>3. rowsMade[r.event] \in Nat /\ rowsMade'[r.event] \in Nat
    BY <2>1, <2>2
  <2>4. QED
    BY <1>1, <1>2, <1>3, <2>1, <2>3
<1>4. ASSUME UNCHANGED <<buffers, stored, pc>> PROVE RowInv'
  BY <1>3, <1>4 DEF RowInv, TypeOK
<1>5. CASE Accept
  <2> DEFINE new == [event |-> cur, made |-> rowsMade[cur] + 1]
  <2>1. cur \in Events /\ Published(cur) /\ Message(cur).table \in Tables
        /\ Message(cur).kind = "row"
    BY <1>5, MessageTyped, RowTableTyped DEF Accept, HandInv
  <2>2. IsRow(cur)
    BY <2>1 DEF IsRow
  <2>4. new.made <= rowsMade'[new.event]
    BY <1>5, <2>1 DEF Accept, TypeOK
  <2>5. ASSUME NEW t \in Tables, NEW r \in buffers'[t]
        PROVE  IsRow(r.event)' /\ Message(r.event)'.table = t
               /\ r.made <= rowsMade'[r.event]
    <3>1. CASE r \in buffers[t]
      BY <1>3, <3>1 DEF RowInv, TypeOK
    <3>2. CASE r = new /\ t = Message(cur).table
      <4>1. r.event \in Events /\ r.event = cur
        BY <2>1, <3>2
      <4>2. IsRow(r.event) /\ Message(r.event).table = t
        BY <2>2, <3>2, <4>1 DEF IsRow, Published, Message
      <4>3. QED
        BY <1>1, <2>4, <3>2, <4>1, <4>2
    <3>3. QED
      BY <1>5, <2>1, <3>1, <3>2 DEF Accept, Append1, TypeOK
  <2>6. ASSUME NEW r \in stored'
        PROVE  IsRow(r.event)' /\ r.made <= rowsMade'[r.event]
    BY <1>3, <1>5 DEF RowInv, TypeOK, Accept, clickhouse
  <2>7. pc' # "down"
    BY <1>5 DEF Accept
  <2>8. QED
    BY <2>5, <2>6, <2>7 DEF RowInv
\* Rows only move from a buffer to ClickHouse, or out of memory.
<1>6. ASSUME NEW t \in Tables,
             \A u \in Tables : buffers'[u] \subseteq buffers[u],
             stored' \subseteq stored \cup buffers[t],
             pc' = "down" => buffers' = NoRows
      PROVE  RowInv'
  <2>1. \A u \in Tables : buffers[u] \subseteq Rows
    BY DEF TypeOK
  <2>2. stored \subseteq Rows
    BY DEF TypeOK
  <2>3. ASSUME NEW u \in Tables, NEW r \in buffers'[u]
        PROVE  IsRow(r.event)' /\ Message(r.event)'.table = u
               /\ r.made <= rowsMade'[r.event]
    BY <1>3, <1>6, <2>1 DEF RowInv
  <2>4. ASSUME NEW r \in stored'
        PROVE  IsRow(r.event)' /\ r.made <= rowsMade'[r.event]
    BY <1>3, <1>6, <2>1, <2>2 DEF RowInv
  <2>5. QED
    BY <1>6, <2>3, <2>4 DEF RowInv
<1>7. ASSUME NEW t \in Tables, FlushOk(t) PROVE RowInv'
  <2>1. \A u \in Tables : buffers'[u] \subseteq buffers[u]
    BY <1>7 DEF FlushOk, TypeOK
  <2>2. pc' # "down" /\ stored' \subseteq stored \cup buffers[t]
    BY <1>7 DEF FlushOk
  <2>3. QED
    BY <1>6, <2>1, <2>2
<1>8. ASSUME NEW t \in Tables, FlushUnknown(t) PROVE RowInv'
  <2>1. pc' # "down" /\ stored' \subseteq stored \cup buffers[t]
        /\ UNCHANGED buffers
    BY <1>8 DEF FlushUnknown
  <2>2. QED
    BY <1>6, <2>1
<1>9. ASSUME NEW t \in Tables, Die, stored' \subseteq stored \cup buffers[t]
      PROVE  RowInv'
  BY <1>6, <1>9 DEF Die, NoRows
<1>10. ASSUME UNCHANGED <<buffers, stored>>, pc' # "down" PROVE RowInv'
  BY <1>3, <1>10 DEF RowInv, TypeOK
<1>11. CASE Stop
  BY <1>9, <1>11 DEF Stop, Tables
<1>12. ASSUME NEW t \in Tables, StopInInsert(t) PROVE RowInv'
  BY <1>9, <1>12 DEF StopInInsert
<1>13. \/ UNCHANGED <<buffers, stored, pc>>
       \/ UNCHANGED <<buffers, stored>> /\ pc' # "down"
       \/ Accept
       \/ \E t \in Tables : FlushOk(t) \/ FlushUnknown(t) \/ StopInInsert(t)
       \/ Stop
  BY DEF Next, vars, broker, clickhouse, history, counters, Publish, Expire,
     Start, Poll, Rebalance, Refuse, FlushFails, FlushDone, Settle
<1>14. QED
  BY <1>4, <1>5, <1>7, <1>8, <1>10, <1>11, <1>12, <1>13

LEMMA TypedStep == Typed /\ [Next]_vars => Typed'
  BY TypeStep, HandStep, RowStep DEF Typed

\* Every reachable state is well typed; the message in hand is in the topic
\* and the rows in memory and in ClickHouse are rows of accepted messages.
THEOREM TypeCorrect == Spec => []Typed
  BY TypedInit, TypedStep, PTL DEF Spec

THEOREM TypeOKHolds == Spec => []TypeOK
<1>1. Typed => TypeOK
  BY DEF Typed
<1>2. QED
  BY <1>1, TypeCorrect, PTL

-----------------------------------------------------------------------------
(***************************************************************************)
(* A batch is inserted twice only after an ambiguous failure.              *)
(***************************************************************************)
LEMMA BufferedRow ==
    ASSUME NEW r, r \in Buffered
    PROVE  \E t \in Tables : r \in buffers[t]
  BY DEF Buffered

LEMMA TwiceStep ==
    Typed /\ TwiceOnlyIfAmbiguous /\ [Next]_vars => TwiceOnlyIfAmbiguous'
<1> SUFFICES ASSUME Typed, TwiceOnlyIfAmbiguous, [Next]_vars,
                    NEW r \in stored', NEW t \in Tables, r \in buffers'[t]
             PROVE  r \in ambiguous'
  BY DEF TwiceOnlyIfAmbiguous, Buffered
<1> USE DEF Typed
<1>1. r \in stored /\ r \in buffers[t] => r \in ambiguous
  BY DEF TwiceOnlyIfAmbiguous, Buffered
<1>2. CASE Accept
  <2>1. cur \in Events /\ rowsMade[cur] \in Nat /\ stored' = stored
        /\ ambiguous' = ambiguous
    BY <1>2 DEF Accept, HandInv, TypeOK, clickhouse
  <2>2. r \in Rows /\ r.made <= rowsMade[r.event]
    BY <2>1 DEF RowInv, TypeOK
  <2>3. r # [event |-> cur, made |-> rowsMade[cur] + 1]
    BY <2>1, <2>2
  <2>4. r \in buffers[t]
    BY <1>2, <2>3 DEF Accept, Append1, TypeOK
  <2>5. QED
    BY <1>1, <2>1, <2>4
<1>3. ASSUME NEW u \in Tables, FlushOk(u) PROVE r \in ambiguous'
  <2>1. t # u /\ r \in buffers[t]
    BY <1>3 DEF FlushOk, TypeOK
  <2>2. r \notin buffers[u]
    BY <2>1 DEF RowInv
  <2>3. QED
    BY <1>1, <1>3, <2>1, <2>2 DEF FlushOk
<1>4. ASSUME NEW u \in Tables, FlushUnknown(u) PROVE r \in ambiguous'
  <2>1. r \in buffers[t]
    BY <1>4 DEF FlushUnknown
  <2>2. r \in stored \/ r \in buffers[u]
    BY <1>4 DEF FlushUnknown
  <2>3. QED
    BY <1>1, <1>4, <2>1, <2>2 DEF FlushUnknown
<1>5. CASE buffers' = NoRows
  BY <1>5 DEF NoRows
<1>6. CASE UNCHANGED <<buffers, stored, ambiguous>>
  BY <1>1, <1>6
<1>7. QED
  BY <1>2, <1>3, <1>4, <1>5, <1>6 DEF Next, vars, broker, clickhouse, history,
     counters, Publish, Expire, Start, Poll, Rebalance, Refuse, FlushFails,
     FlushDone, Settle, Stop, StopInInsert, Die

\* _flush clears a buffer exactly when its insert went through: a row in
\* ClickHouse that waits to be inserted again comes of an ambiguous failure.
THEOREM TwiceOnlyIfAmbiguousHolds == Spec => []TwiceOnlyIfAmbiguous
<1>1. Init => TwiceOnlyIfAmbiguous
  BY DEF Init, TwiceOnlyIfAmbiguous
<1>2. QED
  BY <1>1, TwiceStep, TypeCorrect, PTL DEF Spec

-----------------------------------------------------------------------------
(***************************************************************************)
(* One row at most per delivery.                                           *)
(***************************************************************************)
\* An event still ahead of the consumer, or in hand and not yet appended,
\* has one delivery of those so far to its credit.
Deliveries == starts + rebalances
Credit ==
    \A e \in Events :
        /\ rowsMade[e] <= Deliveries
        /\ pc # "down" /\ position[e[1]] <= e[2] => rowsMade[e] < Deliveries
        /\ pc = "process" /\ cur = e
              => rowsMade[e] < Deliveries /\ e[2] < position[e[1]]

LEMMA CreditStep == Typed /\ Credit /\ [Next]_vars => Credit'
<1> SUFFICES ASSUME Typed, Credit, [Next]_vars, NEW e \in Events
             PROVE  /\ rowsMade'[e] <= Deliveries'
                    /\ pc' # "down" /\ position'[e[1]] <= e[2]
                          => rowsMade'[e] < Deliveries'
                    /\ pc' = "process" /\ cur' = e
                          => rowsMade'[e] < Deliveries' /\ e[2] < position'[e[1]]
  BY DEF Credit
<1> USE DEF Typed
<1>00. position' \in [Partitions -> 1..(MaxLog + 1)]
  BY TypeStep DEF TypeOK
<1>0. /\ rowsMade[e] \in Nat /\ starts \in Nat /\ rebalances \in Nat
      /\ e \in Partitions \X (1..MaxLog)
      /\ e[1] \in Partitions /\ e[2] \in Nat /\ position[e[1]] \in Nat
  BY DEF TypeOK, Events
<1>1. /\ rowsMade[e] <= starts + rebalances
      /\ pc # "down" /\ position[e[1]] <= e[2]
            => rowsMade[e] < starts + rebalances
      /\ pc = "process" /\ cur = e
            => rowsMade[e] < starts + rebalances /\ e[2] < position[e[1]]
  BY DEF Credit, Deliveries
<1>2. CASE Start
  BY <1>0, <1>1, <1>2 DEF Start, Deliveries
<1>3. CASE Rebalance
  BY <1>0, <1>1, <1>3 DEF Rebalance, Deliveries, history
<1>4. ASSUME NEW p \in Partitions, Poll(p)
      PROVE  /\ position[e[1]] <= position'[e[1]]
             /\ cur' = e => position[e[1]] <= e[2] /\ e[2] < position'[e[1]]
  <2>1. position[p] <= NextOffset(p) /\ position[p] \in Nat /\ NextOffset(p) \in Nat
    BY DEF NextOffset, TypeOK
  <2>2. QED
    BY <1>0, <1>4, <2>1 DEF Poll, TypeOK
<1>5. ASSUME NEW p \in Partitions, Poll(p)
      PROVE  /\ rowsMade'[e] <= Deliveries'
             /\ pc' # "down" /\ position'[e[1]] <= e[2]
                    => rowsMade'[e] < Deliveries'
             /\ pc' = "process" /\ cur' = e
                    => rowsMade'[e] < Deliveries' /\ e[2] < position'[e[1]]
  <2>1. pc # "down" /\ rowsMade' = rowsMade /\ Deliveries' = starts + rebalances
    BY <1>5 DEF Poll, Deliveries, counters
  <2>2. position'[e[1]] \in Nat
    BY <1>00, <1>0
  <2>3. QED
    BY <1>0, <1>1, <1>4, <1>5, <2>1, <2>2
<1>6. CASE Accept
  <2>1. rowsMade'[e] = IF cur = e THEN rowsMade[e] + 1 ELSE rowsMade[e]
    BY <1>6 DEF Accept, TypeOK
  <2>2. pc = "process" /\ pc' = "flush" /\ position' = position
        /\ Deliveries' = starts + rebalances
    BY <1>6 DEF Accept, Deliveries, counters
  <2>3. cur = e => ~ (position[e[1]] <= e[2])
    BY <1>0, <1>1, <2>2
  <2>4. QED
    BY <1>0, <1>1, <2>1, <2>2, <2>3
<1>7. ASSUME UNCHANGED <<rowsMade, position, cur, starts, rebalances>>,
             pc # "down", pc' # "process"
      PROVE  /\ rowsMade'[e] <= Deliveries'
             /\ pc' # "down" /\ position'[e[1]] <= e[2]
                    => rowsMade'[e] < Deliveries'
             /\ pc' = "process" /\ cur' = e
                    => rowsMade'[e] < Deliveries' /\ e[2] < position'[e[1]]
  BY <1>1, <1>7 DEF Deliveries
<1>8. CASE UNCHANGED <<rowsMade, position, starts, rebalances>> /\ pc' = "down"
  BY <1>1, <1>8 DEF Deliveries
<1>9. CASE UNCHANGED <<rowsMade, position, cur, pc, starts, rebalances>>
  BY <1>1, <1>9 DEF Deliveries
<1>10. CASE UNCHANGED <<rowsMade, position, starts, rebalances>> /\ pc = "settle"
            /\ pc' = "poll"
  BY <1>1, <1>10 DEF Deliveries
<1>11. \/ Start
       \/ Rebalance
       \/ \E p \in Partitions : Poll(p)
       \/ Accept
       \/ UNCHANGED <<rowsMade, position, cur, starts, rebalances>>
             /\ pc # "down" /\ pc' # "process"
       \/ UNCHANGED <<rowsMade, position, starts, rebalances>> /\ pc' = "down"
       \/ UNCHANGED <<rowsMade, position, cur, pc, starts, rebalances>>
       \/ UNCHANGED <<rowsMade, position, starts, rebalances>> /\ pc = "settle"
             /\ pc' = "poll"
  BY DEF Next, vars, broker, clickhouse, history, counters, Publish, Expire,
     Refuse, FlushOk, FlushFails, FlushUnknown, FlushDone, Settle, Stop,
     StopInInsert, Die
<1>12. QED
  BY <1>2, <1>3, <1>5, <1>6, <1>7, <1>8, <1>9, <1>10, <1>11

\* A refused message, a failed insert or a full buffer never makes the
\* process append an event a second time; only delivering it again does.
THEOREM OneRowPerDeliveryHolds == Spec => []OneRowPerDelivery
<1>1. Init => Credit
  BY DEF Init, Credit, Deliveries, Events
<1>2. Credit => OneRowPerDelivery
  BY DEF Credit, OneRowPerDelivery, Deliveries
<1>3. QED
  BY <1>1, <1>2, CreditStep, TypeCorrect, PTL DEF Spec

-----------------------------------------------------------------------------
(***************************************************************************)
(* What is published can be recovered.                                     *)
(***************************************************************************)
\* The decorator lets no callback return, so no offset is ever committed.
NothingCommitted == \A p \in Partitions : committed[p] = 0

LEMMA NothingCommittedStep ==
    NothingCommitted /\ [Next]_vars => NothingCommitted'
  BY DEF NothingCommitted, Next, vars, broker, clickhouse, history, counters,
     Publish, Expire, Start, Poll, Rebalance, Refuse, Accept, FlushOk,
     FlushFails, FlushUnknown, FlushDone, Settle, MonitorMemory, Stop,
     StopInInsert, Die

LEMMA ResumeAtStart ==
    ASSUME TypeOK, NothingCommitted, NEW p \in Partitions
    PROVE  ResumeAt(p) = logStart[p]
  BY DEF TypeOK, NothingCommitted, ResumeAt

\* Whatever is lost with the buffers of a process that dies, the next one
\* starts at or before it, as long as retention has kept it.
THEOREM RecoverableHolds == Spec => []Recoverable
<1>1. Init => NothingCommitted
  BY DEF Init, NothingCommitted
<1>2. Typed /\ NothingCommitted => Recoverable
  BY ResumeAtStart DEF Typed, Recoverable, Retained, Events
<1>3. QED
  BY <1>1, <1>2, NothingCommittedStep, TypeCorrect, PTL DEF Spec

-----------------------------------------------------------------------------
(***************************************************************************)
(* Nothing is forgotten while the process lives.                           *)
(***************************************************************************)
FetchedPublished == \A e \in fetched : Published(e)

Remembered(e) ==
    (cur = e /\ pc = "process") \/ LatestRow(e) \in Buffered \cup stored

MemoryInv ==
    /\ FetchedPublished
    /\ pc # "down" => \A e \in fetched : IsRow(e) => Remembered(e)

LEMMA MemoryStep == Typed /\ MemoryInv /\ [Next]_vars => MemoryInv'
<1> SUFFICES ASSUME Typed, MemoryInv, [Next]_vars PROVE MemoryInv'
  OBVIOUS
<1> USE DEF Typed
<1>1. ASSUME NEW p \in Partitions, Poll(p)
      PROVE  cur' \in Events /\ Published(cur')
  <2>1. NextOffset(p) \in 1..MaxLog /\ NextOffset(p) <= Len(log[p])
    BY <1>1 DEF TypeOK, Poll, NextOffset
  <2>2. NextOffset(p) \in DOMAIN log[p]
    BY <2>1, <1>1 DEF TypeOK
  <2>3. cur' = <<p, NextOffset(p)>>
    BY <1>1 DEF Poll
  <2>4. QED
    BY <2>1, <2>2, <2>3 DEF Published, Events
<1>2. FetchedPublished'
  <2>1. ASSUME NEW e \in fetched PROVE Published(e)'
    BY <2>1, LogGrows DEF MemoryInv, FetchedPublished, TypeOK
  <2>2. ASSUME NEW p \in Partitions, Poll(p) PROVE FetchedPublished'
    BY <1>1, <2>1, <2>2 DEF FetchedPublished, Poll, Published
  <2>3. CASE fetched' \subseteq fetched
    BY <2>1, <2>3 DEF FetchedPublished
  <2>4. QED
    BY <2>2, <2>3 DEF Next, vars, broker, clickhouse, history, counters,
       Publish, Expire, Start, Rebalance, Refuse, Accept, FlushOk, FlushFails,
       FlushUnknown, FlushDone, Settle, Stop, StopInInsert, Die
\* A row message of the next state that was fetched before was one already.
<1>3. ASSUME NEW e \in fetched, IsRow(e)' PROVE e \in Events /\ IsRow(e)
  <2>1. e \in Events /\ Published(e)
    BY DEF MemoryInv, FetchedPublished, TypeOK
  <2>2. QED
    BY <1>3, <2>1, LogGrows DEF IsRow
<1>4. ASSUME NEW e \in fetched, IsRow(e)', pc # "down",
             \/ UNCHANGED <<cur, pc>>
             \/ pc # "process",
             Buffered \cup stored \subseteq Buffered' \cup stored',
             rowsMade' = rowsMade
      PROVE  Remembered(e)'
  <2>1. Remembered(e)
    BY <1>3, <1>4 DEF MemoryInv
  <2>2. QED
    BY <1>4, <2>1 DEF Remembered, LatestRow
<1>5. CASE Accept
  <2>1. cur \in Events /\ rowsMade[cur] \in Nat /\ Message(cur).table \in Tables
    BY <1>5, MessageTyped, RowTableTyped DEF Accept, HandInv, TypeOK
  <2>2. Buffered' = Buffered \cup {[event |-> cur, made |-> rowsMade[cur] + 1]}
    BY <1>5, <2>1 DEF Accept, Append1, Buffered, TypeOK
  <2>3. ASSUME NEW e \in fetched, IsRow(e)' PROVE Remembered(e)'
    <3>1. CASE e = cur
      BY <1>5, <2>1, <2>2, <3>1 DEF Accept, Remembered, LatestRow, TypeOK
    <3>2. CASE e # cur
      <4>1. e \in Events /\ LatestRow(e) \in Buffered \cup stored
        BY <1>3, <1>5, <2>3, <3>2 DEF Accept, MemoryInv, Remembered
      <4>2. rowsMade'[e] = rowsMade[e]
        BY <1>5, <3>2, <4>1 DEF Accept, TypeOK
      <4>3. QED
        BY <1>5, <2>2, <4>1, <4>2 DEF Accept, Remembered, LatestRow, clickhouse
    <3>3. QED
      BY <3>1, <3>2
  <2>4. QED
    BY <1>2, <1>5, <2>3 DEF Accept, MemoryInv
<1>6. ASSUME NEW p \in Partitions, Poll(p) PROVE MemoryInv'
  <2>1. ASSUME NEW e \in fetched', IsRow(e)', e # cur' PROVE Remembered(e)'
    BY <1>4, <1>6, <2>1 DEF Poll, clickhouse, Buffered
  <2>2. Remembered(cur)'
    BY <1>6 DEF Poll, Remembered
  <2>3. \A e \in fetched' : IsRow(e)' => Remembered(e)'
    BY <2>1, <2>2 DEF Remembered
  <2>4. QED
    BY <1>2, <2>3 DEF MemoryInv
<1>7. ASSUME NEW t \in Tables, FlushOk(t) PROVE MemoryInv'
  <2>1. Buffered \cup stored \subseteq Buffered' \cup stored'
    BY <1>7 DEF FlushOk, Buffered, TypeOK
  <2>2. fetched' = fetched /\ rowsMade' = rowsMade /\ pc = "flush"
    BY <1>7 DEF FlushOk, history
  <2>3. QED
    BY <1>2, <1>4, <2>1, <2>2 DEF MemoryInv
<1>8. CASE Refuse
  <2>1. ASSUME NEW e \in fetched, IsRow(e)' PROVE Remembered(e)'
    <3>1. cur # e
      BY <1>3, <1>8, <2>1 DEF Refuse, IsRow
    <3>2. LatestRow(e) \in Buffered \cup stored
      BY <1>3, <1>8, <2>1, <3>1 DEF Refuse, MemoryInv, Remembered
    <3>3. QED
      BY <1>8, <3>2 DEF Refuse, Remembered, LatestRow, Buffered, clickhouse,
         history
  <2>2. QED
    BY <1>2, <1>8, <2>1 DEF Refuse, MemoryInv, history
<1>9. ASSUME fetched' = fetched, rowsMade' = rowsMade, buffers' = buffers,
             stored \subseteq stored', pc # "down",
             \/ UNCHANGED <<cur, pc>>
             \/ pc # "process"
      PROVE  MemoryInv'
  <2>1. Buffered \cup stored \subseteq Buffered' \cup stored'
    BY <1>9 DEF Buffered
  <2>2. QED
    BY <1>2, <1>4, <1>9, <2>1 DEF MemoryInv
<1>10. CASE pc' = "down" \/ Start
  BY <1>2, <1>10 DEF MemoryInv, Start
<1>11. QED
  BY <1>5, <1>6, <1>7, <1>8, <1>9, <1>10 DEF Next, vars, broker, clickhouse,
     history, counters, Publish, Expire, Rebalance, FlushFails, FlushUnknown,
     FlushDone, Settle, Stop, StopInInsert, Die

\* However many inserts fail, a fetched event stays in a buffer until one
\* that carries it is applied.
THEOREM NothingForgotten == Spec => []NothingForgottenWhileUp
<1>1. Init => MemoryInv
  BY DEF Init, MemoryInv, FetchedPublished
<1>2. MemoryInv => NothingForgottenWhileUp
  BY DEF MemoryInv, NothingForgottenWhileUp, Remembered, Up
<1>3. QED
  BY <1>1, <1>2, MemoryStep, TypeCorrect, PTL DEF Spec

-----------------------------------------------------------------------------
(***************************************************************************)
(* The flush loop: full buffers, and what blocks them.                     *)
(***************************************************************************)
\* During the loop only tables still ahead of it are full; outside it only
\* tables at or behind the failure that ended the last loop.
LoopInv ==
    /\ pc = "flush" => \A t \in Tables : Full(t) => flushing <= t
    /\ pc \in {"poll", "process", "settle"} =>
          \A t \in Tables : Full(t) => stuckAt # 0 /\ stuckAt <= t

LEMMA EmptyNotFull ==
    ASSUME NEW t \in Tables, buffers[t] = {} PROVE ~ Full(t)
<1>1. Cardinality({}) = 0
  BY FS_EmptySet
<1>2. QED
  BY <1>1 DEF Full

LEMMA LoopStep == Typed /\ LoopInv /\ [Next]_vars => LoopInv'
<1> SUFFICES ASSUME Typed, LoopInv, [Next]_vars PROVE LoopInv'
  OBVIOUS
<1> USE DEF Typed
<1>1. CASE Start
  <2>1. buffers' = NoRows
    BY <1>1 DEF Start, RowInv
  <2>2. \A t \in Tables : ~ Full(t)'
    <3>1. Cardinality({}) = 0
      BY FS_EmptySet
    <3>2. QED
      BY <2>1, <3>1 DEF NoRows, Full
  <2>3. QED
    BY <2>2 DEF LoopInv
<1>2. CASE Accept
  BY <1>2 DEF Accept, LoopInv, Tables
<1>3. ASSUME NEW t \in Tables, FlushOk(t) PROVE LoopInv'
  <2>1. ASSUME NEW u \in Tables, Full(u)' PROVE flushing' <= u
    <3>1. buffers'[t] = {} /\ (u # t => buffers'[u] = buffers[u])
      BY <1>3 DEF FlushOk, TypeOK
    <3>2. u # t
      <4>1. Cardinality({}) = 0
        BY FS_EmptySet
      <4>2. QED
        BY <2>1, <3>1, <4>1 DEF Full
    <3>3. Full(u) /\ pc = "flush"
      BY <1>3, <2>1, <3>1, <3>2 DEF Full, FlushOk
    <3>4. u \in Due
      BY <3>3 DEF LoopInv, Due
    <3>5. t <= u
      BY <1>3, <3>4 DEF FlushOk, NextDue
    <3>6. QED
      BY <1>3, <3>2, <3>5 DEF FlushOk, Tables
  <2>2. pc' = "flush"
    BY <1>3 DEF FlushOk
  <2>3. QED
    BY <2>1, <2>2 DEF LoopInv
<1>4. ASSUME NEW t \in Tables, FlushFails(t) \/ FlushUnknown(t) PROVE LoopInv'
  <2>1. /\ pc = "flush" /\ pc' = "settle" /\ stuckAt' = t /\ t # 0
        /\ buffers' = buffers /\ NextDue(t)
    BY <1>4 DEF FlushFails, FlushUnknown, Tables
  <2>2. ASSUME NEW u \in Tables, Full(u)' PROVE t <= u
    BY <2>1, <2>2 DEF LoopInv, Full, Due, NextDue
  <2>3. QED
    BY <2>1, <2>2 DEF LoopInv
<1>5. CASE FlushDone
  <2>1. \A t \in Tables : ~ Full(t)
    BY <1>5 DEF FlushDone, Due, LoopInv
  <2>2. QED
    BY <1>5, <2>1 DEF FlushDone, LoopInv, Full
<1>6. ASSUME UNCHANGED <<buffers, stuckAt>>,
             pc \in {"poll", "process", "settle"},
             pc' \in {"poll", "process", "settle"}
      PROVE  LoopInv'
  BY <1>6 DEF LoopInv, Full
<1>7. CASE UNCHANGED <<buffers, stuckAt, flushing, pc>>
  BY <1>7 DEF LoopInv, Full
<1>8. CASE pc' = "down"
  BY <1>8 DEF LoopInv
<1>9. QED
  BY <1>1, <1>2, <1>3, <1>4, <1>5, <1>6, <1>7, <1>8 DEF Next, vars, broker,
     clickhouse, history, counters, Publish, Expire, Poll, Rebalance, Refuse,
     Settle, Stop, StopInInsert, Die

LEMMA LoopCorrect == Spec => [](Typed /\ LoopInv)
<1>1. Init => LoopInv
  BY DEF Init, LoopInv
<1>2. QED
  BY <1>1, LoopStep, TypeCorrect, PTL DEF Spec

\* With no insert failing no table keeps a whole batch in memory between two
\* messages; a full buffer lies behind the insert that failed.
THEOREM FullOnlyBehindFailureHolds == Spec => []FullOnlyBehindFailure
<1>1. LoopInv => FullOnlyBehindFailure
  BY DEF LoopInv, FullOnlyBehindFailure, Full
<1>2. QED
  BY <1>1, LoopCorrect, PTL

LEMMA BlockedStep ==
    ASSUME Typed, LoopInv, [Next]_vars, NEW t \in Tables, Blocked(t),
           pc' # "down"
    PROVE  buffers[t] \subseteq buffers'[t]
<1> USE DEF Typed
<1>1. CASE Accept
  BY <1>1 DEF Accept, Append1, TypeOK
<1>2. ASSUME NEW u \in Tables, FlushOk(u) PROVE t # u
  <2> SUFFICES ASSUME t = u PROVE FALSE
    OBVIOUS
  <2>1. PICK v \in 1..t : Cardinality(buffers[v]) >= BatchSize /\ ~ Storable(v)
    BY DEF Blocked
  <2>2. v \in Tables /\ v <= t /\ t \in Int /\ v \in Int
    BY DEF Tables
  <2>3. v \in Due
    BY <1>2, <2>1, <2>2 DEF Full, Due, LoopInv, FlushOk
  <2>4. v = t
    BY <1>2, <2>2, <2>3 DEF FlushOk, NextDue
  <2>5. QED
    BY <1>2, <2>1, <2>4 DEF FlushOk
<1>3. ASSUME NEW u \in Tables, FlushOk(u) PROVE buffers[t] \subseteq buffers'[t]
  BY <1>2, <1>3 DEF FlushOk, TypeOK
<1>4. CASE UNCHANGED buffers
  BY <1>4
<1>5. QED
  BY <1>1, <1>3, <1>4 DEF Next, vars, broker, clickhouse, history, counters,
     Publish, Expire, Start, Poll, Rebalance, Refuse, FlushFails, FlushUnknown,
     FlushDone, Settle, Stop, StopInInsert, Die

\* One row ClickHouse refuses keeps its table, and the tables after it, from
\* being written for as long as the process lives.
THEOREM BlockedTablesGrow == Spec => BlockedTablesOnlyGrow
<1>1. Typed /\ LoopInv /\ [Next]_vars =>
         [\A t \in Tables :
             Blocked(t) /\ pc' # "down" => buffers[t] \subseteq buffers'[t]]_vars
  BY BlockedStep
<1>2. QED
  BY <1>1, LoopCorrect, PTL DEF Spec, BlockedTablesOnlyGrow

-----------------------------------------------------------------------------
(***************************************************************************)
(* The process implements at-least-once delivery.                          *)
(***************************************************************************)
Held == {r.event : r \in Buffered}
Delivered == {r.event : r \in stored}
Expired == {e \in RowEvents : ~ Retained(e)}

\* Handling a message is of no consequence to the topic, and the other way
\* round.
LEMMA TopicUnchanged ==
    ASSUME UNCHANGED <<log, logStart, committed>>
    PROVE  UNCHANGED <<RowEvents, Owed, Expired>>
  BY DEF RowEvents, Owed, Expired, IsRow, Published, Message, Retained, ResumeAt

LEMMA StoreUnchanged ==
    ASSUME UNCHANGED <<buffers, stored>>
    PROVE  UNCHANGED <<Held, Delivered>>
  BY DEF Held, Delivered, Buffered

LEMMA MapsInit == Init => Delivery!Init
<1> SUFFICES ASSUME Init PROVE Delivery!Init
  OBVIOUS
<1>1. Buffered = {} /\ stored = {}
  BY DEF Init, Buffered, NoRows
<1>2. RowEvents = {}
  BY DEF Init, RowEvents, IsRow, Published, Events
<1>3. QED
  BY <1>1, <1>2 DEF Delivery!Init, Owed

\* Retention removes nothing that is not there.
StartInv == \A p \in Partitions : logStart[p] <= Len(log[p]) + 1

LEMMA StartStep == TypeOK /\ StartInv /\ [Next]_vars => StartInv'
<1> SUFFICES ASSUME TypeOK, StartInv, [Next]_vars, NEW q \in Partitions
             PROVE  logStart'[q] <= Len(log'[q]) + 1
  BY DEF StartInv
<1>1. logStart[q] <= Len(log[q]) + 1 /\ Len(log[q]) \in Nat /\ logStart[q] \in Nat
  BY DEF StartInv, TypeOK
<1>2. ASSUME NEW p \in Partitions, NEW m \in Messages, Publish(p, m)
      PROVE  logStart'[q] <= Len(log'[q]) + 1
  BY <1>1, <1>2 DEF Publish, TypeOK
<1>3. ASSUME NEW p \in Partitions, Expire(p)
      PROVE  logStart'[q] <= Len(log'[q]) + 1
  BY <1>1, <1>3 DEF Expire, TypeOK
<1>4. CASE UNCHANGED <<log, logStart>>
  BY <1>1, <1>4
<1>5. QED
  BY <1>2, <1>3, <1>4 DEF Next, vars, broker, clickhouse, history, counters,
     Start, Poll, Rebalance, Refuse, Accept, FlushOk, FlushFails,
     FlushUnknown, FlushDone, Settle, Stop, StopInInsert, Die

DeliveryInv == Typed /\ NothingCommitted /\ StartInv

LEMMA DeliveryCorrect == Spec => []DeliveryInv
<1>1. Init => NothingCommitted /\ StartInv
  BY DEF Init, NothingCommitted, StartInv
<1>2. Typed => TypeOK
  BY DEF Typed
<1>3. QED
  BY <1>1, <1>2, NothingCommittedStep, StartStep, TypeCorrect, PTL
  DEF Spec, DeliveryInv

\* As nothing is committed, what is owed is what retention has kept.
LEMMA OwedIsRetained ==
    ASSUME DeliveryInv
    PROVE  Owed = {e \in RowEvents : Retained(e)}
  BY ResumeAtStart DEF DeliveryInv, Typed, Owed, RowEvents, Retained, Events

LEMMA OwedIsRetainedNext ==
    ASSUME DeliveryInv'
    PROVE  Owed' = {e \in RowEvents' : Retained(e)'}
<1>1. \A p \in Partitions : ResumeAt(p)' = logStart'[p]
  BY DEF DeliveryInv, Typed, TypeOK, NothingCommitted, ResumeAt
<1>2. QED
  BY <1>1 DEF Owed, RowEvents, Retained, Events

LEMMA PublishMaps ==
    ASSUME DeliveryInv, DeliveryInv',
           NEW p \in Partitions, NEW m \in Messages, Publish(p, m)
    PROVE  [Delivery!Next]_(Delivery!vars)
<1>0. TypeOK /\ StartInv
  BY DEF DeliveryInv, Typed
<1>1. PICK e \in Events : e = <<p, Len(log[p]) + 1>>
  <2>1. Len(log[p]) + 1 \in 1..MaxLog
    BY <1>0 DEF Publish, TypeOK
  <2>2. QED
    BY <2>1 DEF Events
<1>2. e \notin RowEvents /\ e[1] = p /\ e[2] = Len(log[p]) + 1 /\ Len(log[p]) \in Nat
  <2>1. e[1] = p /\ e[2] = Len(log[p]) + 1
    BY <1>1
  <2>2. log[p] \in Seq(Messages)
    BY <1>0 DEF TypeOK
  <2>3. QED
    BY <2>1, <2>2 DEF RowEvents, IsRow, Published
<1>11. /\ DOMAIN log'[p] = 1..(Len(log[p]) + 1)
       /\ DOMAIN log[p] = 1..Len(log[p])
       /\ \A i \in 1..Len(log[p]) : log'[p][i] = log[p][i]
       /\ log'[p][Len(log[p]) + 1] = m
       /\ \A q \in Partitions : q # p => log'[q] = log[q]
       /\ logStart' = logStart
  BY <1>0 DEF Publish, TypeOK
<1>3. ASSUME NEW x \in Events, x # e
      PROVE  (IsRow(x)' <=> IsRow(x)) /\ (Retained(x)' <=> Retained(x))
  <2>1. x[1] \in Partitions /\ x[2] \in 1..MaxLog /\ x = <<x[1], x[2]>>
    BY DEF Events
  <2>2. CASE x[1] = p
    <3>1. x[2] # Len(log[p]) + 1
      BY <1>1, <1>3, <2>1, <2>2
    <3>2. x[2] \in DOMAIN log'[p] <=> x[2] \in DOMAIN log[p]
      BY <1>2, <1>11, <2>1, <3>1
    <3>3. x[2] \in DOMAIN log[p] => log'[p][x[2]] = log[p][x[2]]
      BY <1>11
    <3>4. QED
      BY <1>11, <2>2, <3>2, <3>3 DEF IsRow, Retained, Published, Message
  <2>3. CASE x[1] # p
    BY <1>11, <2>1, <2>3 DEF IsRow, Retained, Published, Message
  <2>4. QED
    BY <2>2, <2>3
<1>4. UNCHANGED <<Held, Delivered>>
  BY StoreUnchanged DEF Publish
<1>5. IsRow(e)' <=> m.kind = "row"
  BY <1>2, <1>11 DEF IsRow, Published, Message
<1>6. Retained(e)'
  BY <1>0, <1>2, <1>11 DEF Retained, Published, StartInv
<1>7. Owed = {x \in RowEvents : Retained(x)}
      /\ Owed' = {x \in RowEvents' : Retained(x)'}
  BY OwedIsRetained, OwedIsRetainedNext
<1>8. CASE m.kind = "row"
  <2>1. RowEvents' = RowEvents \cup {e}
    BY <1>3, <1>5, <1>8 DEF RowEvents
  <2>2. Owed' = Owed \cup {e} /\ Expired' = Expired
    BY <1>2, <1>3, <1>6, <1>7, <2>1 DEF Expired, RowEvents
  <2>3. Delivery!Publish(e)
    BY <1>2, <1>4, <2>1, <2>2 DEF Delivery!Publish, Held, Delivered, Expired
  <2>4. QED
    BY <2>3 DEF Delivery!Next
<1>9. CASE m.kind # "row"
  <2>1. RowEvents' = RowEvents
    BY <1>2, <1>3, <1>5, <1>9 DEF RowEvents
  <2>2. Owed' = Owed /\ Expired' = Expired
    BY <1>2, <1>3, <1>7, <2>1 DEF Expired, RowEvents
  <2>3. QED
    BY <1>4, <2>1, <2>2 DEF Delivery!vars, Held, Delivered, Expired
<1>10. QED
  BY <1>8, <1>9

LEMMA ExpireMaps ==
    ASSUME DeliveryInv, DeliveryInv', NEW p \in Partitions, Expire(p)
    PROVE  [Delivery!Next]_(Delivery!vars)
<1>0. TypeOK
  BY DEF DeliveryInv, Typed
<1>1. logStart[p] \in 1..MaxLog /\ logStart[p] \in DOMAIN log[p]
  BY <1>0 DEF Expire, TypeOK
<1>2. PICK e \in Events : e = <<p, logStart[p]>>
  BY <1>1 DEF Events
<1>3. ASSUME NEW x \in Events, x # e PROVE Retained(x)' <=> Retained(x)
  <2>1. x[1] \in Partitions /\ x[2] \in 1..MaxLog /\ x = <<x[1], x[2]>>
    BY DEF Events
  <2>2. x[1] = p => x[2] # logStart[p]
    BY <1>2, <1>3, <2>1
  <2>3. logStart'[x[1]] = IF x[1] = p THEN logStart[p] + 1 ELSE logStart[x[1]]
    BY <1>0, <2>1 DEF Expire, TypeOK
  <2>4. logStart[x[1]] \in Int /\ logStart[p] \in Int /\ x[2] \in Int
    BY <1>0, <2>1 DEF TypeOK
  <2>5. logStart'[x[1]] <= x[2] <=> logStart[x[1]] <= x[2]
    BY <2>2, <2>3, <2>4
  <2>6. QED
    BY <2>5 DEF Expire, Retained, Published
<1>4. Retained(e) /\ ~ Retained(e)'
  <2>1. e[1] = p /\ e[2] = logStart[p]
    BY <1>2
  <2>2. logStart'[p] = logStart[p] + 1 /\ logStart[p] \in Int
    BY <1>0 DEF Expire, TypeOK
  <2>3. ~ (logStart'[p] <= logStart[p])
    BY <2>2
  <2>4. QED
    BY <1>1, <2>1, <2>2, <2>3 DEF Retained, Published
<1>5. UNCHANGED <<RowEvents, Held, Delivered>>
  BY StoreUnchanged DEF Expire, RowEvents, IsRow, Published, Message
<1>6. Owed = {x \in RowEvents : Retained(x)}
      /\ Owed' = {x \in RowEvents' : Retained(x)'}
  BY OwedIsRetained, OwedIsRetainedNext
<1>7. CASE e \in RowEvents
  <2>1. Owed' = Owed \ {e} /\ Expired' = Expired \cup {e}
    BY <1>3, <1>4, <1>5, <1>6, <1>7 DEF Expired, RowEvents
  <2>2. e \in RowEvents \ Expired
    BY <1>4, <1>7 DEF Expired
  <2>3. Delivery!Expire(e)
    BY <1>5, <2>1, <2>2 DEF Delivery!Expire, Held, Delivered, Expired
  <2>4. QED
    BY <2>3 DEF Delivery!Next
<1>8. CASE e \notin RowEvents
  <2>1. Owed' = Owed /\ Expired' = Expired
    BY <1>3, <1>5, <1>6, <1>8 DEF Expired, RowEvents
  <2>2. QED
    BY <1>5, <2>1 DEF Delivery!vars, Held, Delivered, Expired
<1>9. QED
  BY <1>7, <1>8

LEMMA AcceptMaps ==
    ASSUME DeliveryInv, Accept, NEW e \in Events, e = cur
    PROVE  Delivery!Take(e)
<1>1. cur \in Events /\ Message(cur).table \in Tables /\ cur \in RowEvents
  BY MessageTyped, RowTableTyped
  DEF DeliveryInv, Typed, Accept, HandInv, RowEvents, IsRow
<1>2. Buffered' = Buffered \cup {[event |-> cur, made |-> rowsMade[cur] + 1]}
  BY <1>1 DEF DeliveryInv, Typed, Accept, Append1, Buffered, TypeOK
<1>3. Held' = Held \cup {cur}
  <2> DEFINE new == [event |-> cur, made |-> rowsMade[cur] + 1]
  <2>1. Held' = {r.event : r \in Buffered \cup {new}}
    BY <1>2 DEF Held
  <2>2. new.event = cur
    OBVIOUS
  <2> HIDE DEF new
  <2>3. QED
    BY <2>1, <2>2 DEF Held
<1>4. cur \in Owed \cup Expired
  BY <1>1, OwedIsRetained DEF Expired
<1>5. UNCHANGED <<RowEvents, Owed, Expired>>
  BY TopicUnchanged DEF Accept
<1>6. Delivered' = Delivered
  BY DEF Accept, clickhouse, Delivered
<1>7. QED
  BY <1>3, <1>4, <1>5, <1>6 DEF Delivery!Take, Held, Delivered, Expired

\* The events of one buffer, as a batch.
Batch(t) == {r.event : r \in buffers[t]}

LEMMA DeliverMaps ==
    ASSUME DeliveryInv, NEW t \in Tables, stored' = stored \cup buffers[t],
           UNCHANGED <<log, logStart, committed>>,
           Held' \in {Held \ Batch(t), Held, {}}
    PROVE  Delivery!Next
<1>1. Batch(t) \subseteq Held /\ Batch(t) \in SUBSET Events
  BY DEF Batch, Held, Buffered, DeliveryInv, Typed, TypeOK, Rows
<1>2. Delivered' = Delivered \cup Batch(t)
  BY DEF Delivered, Batch
<1>3. UNCHANGED <<RowEvents, Owed, Expired>>
  BY TopicUnchanged
<1>4. PICK batch \in SUBSET Events : batch = Batch(t)
  BY <1>1
<1>5. Delivery!Deliver(batch)
  BY <1>1, <1>2, <1>3, <1>4 DEF Delivery!Deliver, Held, Delivered, Expired
<1>6. QED
  BY <1>5 DEF Delivery!Next

LEMMA FlushOkHolds ==
    ASSUME DeliveryInv, NEW t \in Tables, FlushOk(t)
    PROVE  Held' = Held \ Batch(t)
<1>1. /\ buffers'[t] = {}
      /\ \A u \in Tables : u # t => buffers'[u] = buffers[u]
  BY DEF FlushOk, DeliveryInv, Typed, TypeOK
\* The other buffers hold rows of other tables, so of other events.
<1>2. ASSUME NEW u \in Tables, u # t, NEW r \in buffers[u], NEW q \in buffers[t]
      PROVE  r.event # q.event
  BY <1>2 DEF DeliveryInv, Typed, RowInv
<1>3. Buffered' = UNION {buffers[u] : u \in Tables \ {t}}
  BY <1>1 DEF Buffered
<1>4. Buffered = buffers[t] \cup UNION {buffers[u] : u \in Tables \ {t}}
  BY DEF Buffered
<1>5. QED
  BY <1>2, <1>3, <1>4 DEF Held, Batch

\* Every step of the process is a step at-least-once delivery allows, or is
\* of no consequence to it.
LEMMA StepMaps ==
    ASSUME DeliveryInv, DeliveryInv', [Next]_vars
    PROVE  [Delivery!Next]_(Delivery!vars)
<1>1. ASSUME NEW t \in Tables, FlushOk(t) PROVE Delivery!Next
  BY <1>1, FlushOkHolds, DeliverMaps DEF FlushOk, broker
<1>2. ASSUME NEW t \in Tables, FlushUnknown(t) PROVE Delivery!Next
  <2>1. Held' = Held
    BY <1>2 DEF FlushUnknown, Held, Buffered
  <2>2. QED
    BY <1>2, <2>1, DeliverMaps DEF FlushUnknown, broker
<1>3. ASSUME Die PROVE Held' = {}
  BY <1>3 DEF Die, Held, Buffered, NoRows
<1>4. CASE Stop
  <2>1. Delivered' = Delivered /\ UNCHANGED <<RowEvents, Owed, Expired>>
    BY <1>4, TopicUnchanged DEF Stop, Die, Delivered
  <2>2. Delivery!Crash
    BY <1>3, <1>4, <2>1 DEF Stop, Delivery!Crash, Held, Delivered, Expired
  <2>3. QED
    BY <2>2 DEF Delivery!Next
<1>5. ASSUME NEW t \in Tables, StopInInsert(t) PROVE Delivery!Next
  BY <1>3, <1>5, DeliverMaps DEF StopInInsert, Die
<1>6. CASE UNCHANGED <<log, logStart, committed, buffers, stored>>
  BY <1>6, TopicUnchanged, StoreUnchanged
  DEF Delivery!vars, Held, Delivered, Expired
<1>7. CASE Accept
  <2>1. PICK e \in Events : e = cur
    BY <1>7 DEF DeliveryInv, Typed, Accept, HandInv
  <2>2. Delivery!Take(e)
    BY <1>7, <2>1, AcceptMaps
  <2>3. QED
    BY <2>2 DEF Delivery!Next
<1>8. CASE Settle
  BY <1>6, <1>8 DEF Settle, MonitorMemory, clickhouse
<1>9. QED
  BY <1>1, <1>2, <1>4, <1>5, <1>6, <1>7, <1>8, PublishMaps, ExpireMaps
  DEF Next, vars, broker, clickhouse, history, counters, Start, Poll,
  Rebalance, Refuse, FlushFails, FlushDone

\* For any number of crashes, reassignments and failing inserts the process
\* delivers at least once whatever retention leaves it the time to read.
THEOREM Implements == Spec => DeliversAtLeastOnce
<1>1. DeliveryInv /\ DeliveryInv' /\ [Next]_vars => [Delivery!Next]_(Delivery!vars)
  BY StepMaps
<1>2. QED
  BY <1>1, MapsInit, DeliveryCorrect, PTL
  DEF Spec, DeliversAtLeastOnce, Delivery!Spec
=============================================================================
