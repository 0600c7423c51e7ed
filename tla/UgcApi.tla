------------------------------- MODULE UgcApi -------------------------------
(***************************************************************************)
(* ugc_service: handle_event with its guards, and the Kafka producer that  *)
(* the green threads of a gunicorn worker share.  One worker is modelled;  *)
(* the four there are have nothing in common but the limiter and the       *)
(* topic.  All requests have the address of the proxy.                     *)
(***************************************************************************)
EXTENDS Integers, FiniteSets, Sequences, SequencesExt

CONSTANTS
    Requests,     \* requests that may be in flight together
    Partitions,   \* of the topic
    Limit,        \* requests the limiter admits in a window
    Retries,      \* retries of the producer
    MaxEvents     \* bound: events accepted

ASSUME NumbersAssumption ==
    Limit \in Nat /\ Retries \in Nat /\ MaxEvents \in Nat

Events == 1..MaxEvents
Bodies == {"not json", "empty", "invalid", "typed", "valid"}
Keys == {"none", "wrong", "right"}

RequestStates == [at : {"idle", "admit", "validate", "send", "flush"},
                  key : Keys,
                  body : Bodies,
                  event : 0..MaxEvents,
                  waiting : SUBSET Events]

VARIABLES
    hits,      \* requests the limiter has counted in this window
    req,       \* [Requests -> RequestStates]
    events,    \* number of events given to the producer
    fields,    \* [Events -> the fields of the record]
    state,     \* [Events -> EventStates]
    tries,     \* [Events -> failed attempts]
    place,     \* [Events -> its partition]
    topic,     \* [Partitions -> Seq(Events)]
    answered   \* events whose request was answered 200 (history)

producerVars == <<events, fields, state, tries, place>>
vars == <<hits, req, producerVars, topic, answered>>

-----------------------------------------------------------------------------
EventStates == {"none", "pending", "acked", "failed", "dropped"}

NoRequest == [at |-> "idle", key |-> "none", body |-> "empty", event |-> 0,
              waiting |-> {}]

At(r, where) == req[r].at = where
Go(r, where) == req' = [req EXCEPT ![r].at = where]
Answer(r) == req' = [req EXCEPT ![r] = NoRequest]

Pending == {e \in Events : state[e] = "pending"}

FieldsOf(body) ==
    CASE body = "valid" -> {"timestamp", "event", "user_id"}
      [] body = "typed" -> {"timestamp", "event", "user_id", "event_type"}
      [] body = "invalid" -> {"timestamp"}
      [] OTHER -> {}

\* Slip: Meta says unknown = INCLUDE.
ValidatesIncluding(body) == FieldsOf("valid") \subseteq FieldsOf(body)

\* EventSchema: its three fields and, as marshmallow has it, no other.
Validates(body) == FieldsOf(body) = FieldsOf("valid")

Init ==
    /\ hits = 0
    /\ req = [r \in Requests |-> NoRequest]
    /\ events = 0
    /\ fields = [e \in Events |-> {}]
    /\ state = [e \in Events |-> "none"]
    /\ tries = [e \in Events |-> 0]
    /\ place \in [Events -> Partitions]
    /\ topic = [p \in Partitions |-> <<>>]
    /\ answered = {}

-----------------------------------------------------------------------------
Arrive(r, key, body) ==
    /\ At(r, "idle")
    /\ req' = [req EXCEPT ![r] = [NoRequest EXCEPT !.at = "admit", !.key = key,
                                                   !.body = body]]
    /\ UNCHANGED <<hits, producerVars, topic, answered>>

UnderLimit == hits < Limit

\* Slip: one more than the limit.
AdmitOneMore(r) ==
    /\ At(r, "admit")
    /\ IF req[r].key = "right" /\ hits <= Limit
       THEN Go(r, "validate") /\ hits' = hits + 1
       ELSE Answer(r) /\ UNCHANGED hits
    /\ UNCHANGED <<producerVars, topic, answered>>

\* internal_auth_required, 401 and 403, and then the limiter, 429.
Admit(r) ==
    /\ At(r, "admit")
    /\ IF req[r].key = "right" /\ UnderLimit
       THEN Go(r, "validate") /\ hits' = hits + 1
       ELSE Answer(r) /\ UNCHANGED hits
    /\ UNCHANGED <<producerVars, topic, answered>>

NewWindow ==
    /\ hits' = 0
    /\ UNCHANGED <<req, producerVars, topic, answered>>

\* 500 for what is no JSON, 400 for nothing, 422.
Validate(r) ==
    /\ At(r, "validate")
    /\ IF Validates(req[r].body) THEN Go(r, "send") ELSE Answer(r)
    /\ UNCHANGED <<hits, producerVars, topic, answered>>

\* producer.send: the record goes to a batch; flush will wait for whatever is
\* in one by now.
Send(r) ==
    /\ At(r, "send")
    /\ events < MaxEvents
    /\ events' = events + 1
    /\ fields' = [fields EXCEPT ![events'] = FieldsOf(req[r].body)]
    /\ state' = [state EXCEPT ![events'] = "pending"]
    /\ req' = [req EXCEPT ![r].at = "flush", ![r].event = events',
                          ![r].waiting = Pending \cup {events'}]
    /\ UNCHANGED <<hits, tries, place, topic, answered>>

\* No metadata in time, KafkaTimeoutError: 500.
SendFails(r) ==
    /\ At(r, "send")
    /\ Answer(r)
    /\ UNCHANGED <<hits, producerVars, topic, answered>>

\* Slip: no flush.
AnswerAtOnce(r) ==
    /\ At(r, "flush")
    /\ answered' = answered \cup {req[r].event}
    /\ Answer(r)
    /\ UNCHANGED <<hits, producerVars, topic>>

\* flush returns when every batch is done, done well or not: 200.
FlushDone(r) ==
    /\ At(r, "flush")
    /\ req[r].waiting \cap Pending = {}
    /\ answered' = answered \cup {req[r].event}
    /\ Answer(r)
    /\ UNCHANGED <<hits, producerVars, topic>>

-----------------------------------------------------------------------------
(***************************************************************************)
(* The producer's sender thread and the broker (external).                 *)
(***************************************************************************)
Appended(e) == topic' = [topic EXCEPT ![place[e]] = Append(@, e)]

\* The attempt failed, as far as the producer can tell.
Retry(e) ==
    IF tries[e] < Retries
    THEN tries' = [tries EXCEPT ![e] = @ + 1] /\ UNCHANGED state
    ELSE state' = [state EXCEPT ![e] = "failed"] /\ UNCHANGED tries

Deliver(e) ==
    /\ state[e] = "pending"
    /\ \/ Appended(e) /\ state' = [state EXCEPT ![e] = "acked"] /\ UNCHANGED tries
       \/ Appended(e) /\ Retry(e)
       \/ UNCHANGED topic /\ Retry(e)
       \/ UNCHANGED <<topic, tries>> /\ state' = [state EXCEPT ![e] = "failed"]
    /\ UNCHANGED <<hits, req, events, fields, place, answered>>

\* The worker ends with what it has not delivered.
CrashWorker ==
    /\ \E r \in Requests : ~ At(r, "idle")
    /\ req' = [r \in Requests |-> NoRequest]
    /\ state' = [e \in Events |->
                   IF state[e] = "pending" THEN "dropped" ELSE state[e]]
    /\ UNCHANGED <<hits, events, fields, tries, place, topic, answered>>

Next ==
    \/ \E r \in Requests :
          \/ \E key \in Keys, body \in Bodies : Arrive(r, key, body)
          \/ Admit(r)
          \/ Validate(r)
          \/ Send(r)
          \/ SendFails(r)
          \/ FlushDone(r)
    \/ \E e \in Events : Deliver(e)
    \/ NewWindow
    \/ CrashWorker

Spec == Init /\ [][Next]_vars

-----------------------------------------------------------------------------
(***************************************************************************)
(* Properties                                                              *)
(***************************************************************************)
\* Every variable has its type, and the limiter keeps its limit.
TypeOK ==
    /\ hits \in 0..Limit
    /\ req \in [Requests -> RequestStates]
    /\ events \in 0..MaxEvents
    /\ fields \in [Events -> SUBSET FieldsOf("typed")]
    /\ state \in [Events -> EventStates]
    /\ tries \in [Events -> 0..Retries]
    /\ place \in [Events -> Partitions]
    /\ topic \in [Partitions -> Seq(Events)]
    /\ answered \subseteq 1..events

Copies(e) == Cardinality({i \in 1..Len(topic[place[e]]) : topic[place[e]][i] = e})

(***************************************************************************)
(* An answer 200 comes after the producer knows what became of the event,  *)
(* even when its flush overlaps with those of other requests: the event is *)
(* in the topic or its delivery has failed, which the answer hides.  It is *)
(* there more than once only for attempts whose acknowledgement was lost.  *)
(***************************************************************************)
AnswerFollowsOutcome ==
    \A e \in answered :
        /\ state[e] \in {"acked", "failed"}
        /\ state[e] = "acked" => Copies(e) \in 1..(tries[e] + 1)

(***************************************************************************)
(* No record of the topic has the field that process() of the ETL chooses  *)
(* the table by: what the API lets through, the ETL refuses.  EventEtl     *)
(* runs on messages of other producers too.                                *)
(***************************************************************************)
NoRecordNamesATable ==
    \A p \in Partitions : \A e \in ToSet(topic[p]) : "event_type" \notin fields[e]
=============================================================================
