---------------------------- MODULE UgcApiProofs ----------------------------
(***************************************************************************)
(* Proofs about UgcApi, for any requests, partitions, limit and number of  *)
(* retries.                                                                *)
(***************************************************************************)
EXTENDS UgcApi, SequenceTheorems, FiniteSetTheorems, TLAPS

\* How often e is in s, and what that may be in a state x after t failures.
Count(s, e) == Cardinality({i \in 1..Len(s) : s[i] = e})

OutcomeOK(x, n, t) ==
    /\ x = "none" => n = 0
    /\ x = "pending" => n <= t
    /\ x = "acked" => n \in 1..(t + 1)

\* Every event has been given to the producer once, by a request that was
\* validated, and comes to the topic afterwards.
EventInv ==
    \A e \in Events :
        /\ e > events <=> state[e] = "none"
        /\ e <= events => fields[e] = FieldsOf("valid")
        /\ OutcomeOK(state[e], Count(topic[place[e]], e), tries[e])

TopicInv ==
    \A p \in Partitions : \A i \in 1..Len(topic[p]) : topic[p][i] <= events

\* The worker of a request that waits has not ended since it sent.
ReqInv ==
    \A r \in Requests :
        /\ At(r, "send") => FieldsOf(req[r].body) = FieldsOf("valid")
        /\ At(r, "flush") =>
              /\ req[r].event \in 1..events
              /\ req[r].event \in req[r].waiting
              /\ state[req[r].event] # "dropped"

AnsweredInv == \A e \in answered : state[e] \in {"acked", "failed"}

IInv == TypeOK /\ EventInv /\ TopicInv /\ ReqInv /\ AnsweredInv

-----------------------------------------------------------------------------
LEMMA CountTyped ==
    ASSUME NEW s \in Seq(Events), NEW e \in Events
    PROVE  Count(s, e) \in Nat /\ IsFiniteSet({i \in 1..Len(s) : s[i] = e})
<1>1. IsFiniteSet(1..Len(s))
  BY FS_Interval, LenProperties
<1>2. IsFiniteSet({i \in 1..Len(s) : s[i] = e})
  BY <1>1, FS_Subset
<1>3. QED
  BY <1>2, FS_CardinalityType DEF Count

\* An appended record is one copy more of its event and none of another.
LEMMA CountAppend ==
    ASSUME NEW s \in Seq(Events), NEW e \in Events, NEW f \in Events
    PROVE  Count(Append(s, e), f) = IF f = e THEN Count(s, f) + 1 ELSE Count(s, f)
<1> DEFINE I == {i \in 1..Len(s) : s[i] = f}
           J == {i \in 1..Len(Append(s, e)) : Append(s, e)[i] = f}
<1>1. /\ Len(s) \in Nat /\ Len(Append(s, e)) = Len(s) + 1
      /\ \A i \in 1..Len(s) : Append(s, e)[i] = s[i]
      /\ Append(s, e)[Len(s) + 1] = e
  OBVIOUS
<1>2. IsFiniteSet(I) /\ Len(s) + 1 \notin I
  BY <1>1, CountTyped
<1>3. CASE f = e
  <2>1. J = I \cup {Len(s) + 1}
    BY <1>1, <1>3
  <2> HIDE DEF I, J
  <2>2. Cardinality(J) = Cardinality(I) + 1
    BY <1>2, <2>1, FS_AddElement
  <2>3. QED
    BY <1>3, <2>2 DEF Count, I, J
<1>4. CASE f # e
  <2>1. J = I
    BY <1>1, <1>4
  <2>2. QED
    BY <1>4, <2>1 DEF Count
<1>5. QED
  BY <1>3, <1>4

LEMMA CountNone == \A e : Count(<<>>, e) = 0
<1> TAKE e
<1>1. {i \in 1..Len(<<>>) : <<>>[i] = e} = {}
  OBVIOUS
<1>2. QED
  BY <1>1, FS_EmptySet DEF Count

LEMMA NoRequestTyped == NoRequest \in RequestStates /\ NoRequest.at = "idle"
  BY NumbersAssumption DEF NoRequest, RequestStates, Bodies, Keys

LEMMA FieldsTyped ==
    ASSUME NEW body \in Bodies
    PROVE  FieldsOf(body) \subseteq FieldsOf("typed")
  BY DEF Bodies, FieldsOf

LEMMA InitIInv == Init => IInv
<1> SUFFICES ASSUME Init PROVE IInv
  OBVIOUS
<1> USE NumbersAssumption DEF Init
<1>1. TypeOK
  <2>1. topic \in [Partitions -> Seq(Events)]
    OBVIOUS
  <2>2. req \in [Requests -> RequestStates]
    BY NoRequestTyped
  <2>3. QED
    BY <2>1, <2>2 DEF TypeOK, EventStates
<1>2. EventInv
  BY CountNone DEF EventInv, OutcomeOK, Events
<1>3. TopicInv /\ ReqInv /\ AnsweredInv
  BY NoRequestTyped DEF TopicInv, ReqInv, At, AnsweredInv
<1>4. QED
  BY <1>1, <1>2, <1>3 DEF IInv

-----------------------------------------------------------------------------
\* A step of a request that gives the producer nothing and is not answered.
LEMMA RequestStep ==
    ASSUME IInv, NEW r \in Requests, NEW q \in RequestStates,
           req' = [req EXCEPT ![r] = q],
           q.at = "send" => FieldsOf(q.body) = FieldsOf("valid"),
           q.at # "flush",
           hits' \in 0..Limit,
           UNCHANGED <<producerVars, topic>>,
           answered' \subseteq 1..events,
           \A e \in answered' : state[e] \in {"acked", "failed"}
    PROVE  IInv'
<1> USE DEF IInv, producerVars
<1>1. \A s \in Requests : req'[s] = IF s = r THEN q ELSE req[s]
  BY DEF TypeOK
<1>2. TypeOK'
  BY DEF TypeOK
<1>3. ReqInv'
  BY <1>1 DEF ReqInv, At
<1>4. EventInv' /\ TopicInv'
  BY DEF EventInv, TopicInv
<1>5. AnsweredInv'
  BY DEF AnsweredInv
<1>6. QED
  BY <1>2, <1>3, <1>4, <1>5

LEMMA AnswerStep ==
    ASSUME IInv, NEW r \in Requests, Answer(r),
           hits' \in 0..Limit,
           UNCHANGED <<producerVars, topic>>,
           answered' \subseteq 1..events,
           \A e \in answered' : state[e] \in {"acked", "failed"}
    PROVE  IInv'
  BY RequestStep, NoRequestTyped DEF Answer

LEMMA GoStep ==
    ASSUME IInv, NEW r \in Requests, NEW where \in {"validate", "send"},
           Go(r, where),
           where = "send" => FieldsOf(req[r].body) = FieldsOf("valid"),
           hits' \in 0..Limit,
           UNCHANGED <<producerVars, topic, answered>>
    PROVE  IInv'
<1> PICK q : q = [req[r] EXCEPT !.at = where]
  OBVIOUS
<1>1. req[r] \in RequestStates
  BY DEF IInv, TypeOK
<1>2. q \in RequestStates /\ q.at = where /\ q.body = req[r].body
  BY <1>1 DEF RequestStates
<1>3. req' = [req EXCEPT ![r] = q]
  BY DEF Go, IInv, TypeOK
<1>4. QED
  BY <1>2, <1>3, RequestStep DEF IInv, TypeOK, AnsweredInv

LEMMA ArriveStep ==
    ASSUME IInv, NEW r \in Requests, NEW key \in Keys, NEW body \in Bodies,
           Arrive(r, key, body)
    PROVE  IInv'
<1> PICK q : q = [NoRequest EXCEPT !.at = "admit", !.key = key, !.body = body]
  OBVIOUS
<1>1. q \in RequestStates /\ q.at = "admit"
  BY NoRequestTyped DEF RequestStates
<1>2. req' = [req EXCEPT ![r] = q]
  BY DEF Arrive
<1>3. QED
  BY <1>1, <1>2, RequestStep
  DEF Arrive, IInv, TypeOK, AnsweredInv

LEMMA AdmitStep == ASSUME IInv, NEW r \in Requests, Admit(r) PROVE IInv'
<1>1. hits \in 0..Limit
  BY DEF IInv, TypeOK
<1>2. hits' \in 0..Limit
  BY <1>1, NumbersAssumption DEF Admit, UnderLimit
<1>3. CASE Answer(r)
  BY <1>2, <1>3, AnswerStep DEF Admit, IInv, TypeOK, AnsweredInv
<1>4. CASE Go(r, "validate")
  BY <1>2, <1>4, GoStep DEF Admit
<1>5. QED
  BY <1>3, <1>4 DEF Admit

LEMMA ValidateStep == ASSUME IInv, NEW r \in Requests, Validate(r) PROVE IInv'
<1>1. hits' \in 0..Limit
  BY DEF Validate, IInv, TypeOK
<1>2. CASE Validates(req[r].body)
  BY <1>1, <1>2, GoStep DEF Validate, Validates
<1>3. CASE ~ Validates(req[r].body)
  BY <1>1, <1>3, AnswerStep DEF Validate, IInv, TypeOK, AnsweredInv
<1>4. QED
  BY <1>2, <1>3

LEMMA SendFailsStep == ASSUME IInv, NEW r \in Requests, SendFails(r) PROVE IInv'
  BY AnswerStep
  DEF SendFails, IInv, TypeOK, AnsweredInv

\* What flush waited for is delivered or given up.
LEMMA FlushDoneStep == ASSUME IInv, NEW r \in Requests, FlushDone(r) PROVE IInv'
<1> PICK e : e = req[r].event
  OBVIOUS
<1>1. /\ e \in 1..events /\ e \in req[r].waiting /\ state[e] # "dropped"
      /\ req[r].waiting \cap Pending = {}
  BY DEF FlushDone, IInv, ReqInv
<1>2. e \in Events /\ events \in 0..MaxEvents
  BY <1>1, NumbersAssumption DEF IInv, TypeOK, Events
<1>3. state[e] # "pending"
  BY <1>1, <1>2 DEF Pending
<1>4. state[e] # "none"
  <2>1. ~ (e > events)
    BY <1>1, <1>2
  <2>2. QED
    BY <1>2, <2>1 DEF IInv, EventInv
<1>5. state[e] \in {"acked", "failed"}
  BY <1>1, <1>2, <1>3, <1>4 DEF IInv, TypeOK, EventStates
<1>6. answered' = answered \cup {e}
  BY DEF FlushDone
<1>7. QED
  BY <1>1, <1>5, <1>6, AnswerStep
  DEF FlushDone, IInv, TypeOK, AnsweredInv

LEMMA SendStep == ASSUME IInv, NEW r \in Requests, Send(r) PROVE IInv'
<1> PICK e : e = events + 1
  OBVIOUS
<1> PICK q : q = [req[r] EXCEPT !.at = "flush", !.event = e,
                                !.waiting = Pending \cup {e}]
  OBVIOUS
<1> USE DEF IInv
<1>1. events \in 0..MaxEvents /\ events < MaxEvents /\ MaxEvents \in Nat
  BY NumbersAssumption DEF Send, TypeOK
<1>2. e \in Events /\ e \in 1..events' /\ events' = e /\ events' \in 0..MaxEvents
  BY <1>1 DEF Send, Events
<1>3. Pending \subseteq Events
  BY DEF Pending
<1>4. req[r] \in RequestStates /\ FieldsOf(req[r].body) = FieldsOf("valid")
  BY DEF Send, TypeOK, ReqInv
<1>5. /\ q \in RequestStates /\ q.at = "flush" /\ q.event = e
      /\ q.waiting = Pending \cup {e}
  BY <1>2, <1>3, <1>4 DEF RequestStates, Events
<1>6. \A s \in Requests : req'[s] = IF s = r THEN q ELSE req[s]
  <2>1. req' = [req EXCEPT ![r] = q]
    BY <1>2 DEF Send, TypeOK
  <2>2. QED
    BY <2>1 DEF TypeOK
<1>7. /\ fields' = [fields EXCEPT ![e] = FieldsOf("valid")]
      /\ state' = [state EXCEPT ![e] = "pending"]
      /\ UNCHANGED <<hits, tries, place, topic, answered>>
  BY <1>2, <1>4 DEF Send
<1>8. \A f \in Events \ {e} : state'[f] = state[f] /\ fields'[f] = fields[f]
  BY <1>7 DEF TypeOK
<1>9. state'[e] = "pending" /\ fields'[e] = FieldsOf("valid") /\ state[e] = "none"
  <2>1. e > events
    BY <1>1
  <2>2. QED
    BY <1>2, <1>7, <2>1 DEF TypeOK, EventInv
<1>10. TypeOK'
  <2>1. req' \in [Requests -> RequestStates]
    BY <1>5, <1>2 DEF Send, TypeOK
  <2>2. FieldsOf("valid") \subseteq FieldsOf("typed")
    BY DEF FieldsOf
  <2>3. fields' \in [Events -> SUBSET FieldsOf("typed")]
    BY <1>2, <1>7, <2>2 DEF TypeOK
  <2>4. state' \in [Events -> EventStates]
    BY <1>2, <1>7 DEF TypeOK, EventStates
  <2>5. answered' \subseteq 1..events'
    BY <1>1, <1>2, <1>7 DEF TypeOK
  <2>6. QED
    BY <1>2, <1>7, <2>1, <2>3, <2>4, <2>5 DEF TypeOK
<1>11. EventInv'
  <2> SUFFICES ASSUME NEW f \in Events
               PROVE  /\ f > e <=> state'[f] = "none"
                      /\ f <= e => fields'[f] = FieldsOf("valid")
                      /\ OutcomeOK(state'[f], Count(topic[place[f]], f), tries[f])
    BY <1>2, <1>7 DEF EventInv
  <2>1. /\ f > events <=> state[f] = "none"
        /\ f <= events => fields[f] = FieldsOf("valid")
        /\ OutcomeOK(state[f], Count(topic[place[f]], f), tries[f])
        /\ f \in Nat /\ tries[f] \in Nat
    BY NumbersAssumption DEF EventInv, TypeOK, Events
  <2>2. CASE f = e
    BY <1>9, <2>1, <2>2 DEF OutcomeOK
  <2>3. CASE f # e
    BY <1>1, <1>8, <2>1, <2>3
  <2>4. QED
    BY <2>2, <2>3
<1>12. TopicInv'
  <2> SUFFICES ASSUME NEW p \in Partitions, NEW i \in 1..Len(topic[p])
               PROVE  topic[p][i] <= events + 1
    BY <1>2, <1>7 DEF TopicInv
  <2>1. topic[p] \in Seq(Events) /\ topic[p][i] <= events
    BY DEF TypeOK, TopicInv
  <2>2. topic[p][i] \in Nat
    <3>1. topic[p][i] \in Events
      BY <2>1, ElementOfSeq
    <3>2. QED
      BY <3>1 DEF Events
  <2>3. QED
    BY <1>1, <2>1, <2>2
<1>13. ReqInv'
  <2> SUFFICES ASSUME NEW s \in Requests, s # r
               PROVE  /\ At(s, "send") => FieldsOf(req[s].body) = FieldsOf("valid")
                      /\ At(s, "flush") =>
                            /\ req[s].event \in 1..events'
                            /\ req[s].event \in req[s].waiting
                            /\ state'[req[s].event] # "dropped"
    BY <1>2, <1>5, <1>6, <1>9 DEF ReqInv, At
  <2>1. /\ At(s, "send") => FieldsOf(req[s].body) = FieldsOf("valid")
        /\ At(s, "flush") => /\ req[s].event \in 1..events
                             /\ req[s].event \in req[s].waiting
                             /\ state[req[s].event] # "dropped"
    BY DEF ReqInv
  <2>2. At(s, "flush") => req[s].event \in Events \ {e}
    BY <1>1, <2>1 DEF Events
  <2>3. QED
    BY <1>1, <1>2, <1>8, <2>1, <2>2
<1>14. AnsweredInv'
  <2>1. answered \subseteq Events \ {e}
    BY <1>1 DEF TypeOK, Events
  <2>2. QED
    BY <1>7, <1>8, <2>1 DEF AnsweredInv
<1>15. QED
  BY <1>7, <1>10, <1>11, <1>12, <1>13, <1>14

-----------------------------------------------------------------------------
LEMMA DeliverStep ==
    ASSUME IInv, NEW e \in Events, Deliver(e)
    PROVE  IInv'
<1> PICK p \in Partitions : p = place[e]
  BY DEF IInv, TypeOK
<1> USE DEF IInv
<1>1. /\ state[e] = "pending" /\ e <= events /\ events \in 0..MaxEvents
      /\ UNCHANGED <<hits, req, events, fields, place, answered>>
      /\ topic[p] \in Seq(Events) /\ tries[e] \in 0..Retries
      /\ MaxEvents \in Nat /\ Retries \in Nat
  <2>1. events \in 0..MaxEvents /\ MaxEvents \in Nat /\ e \in Nat
    BY NumbersAssumption DEF TypeOK, Events
  <2>2. ~ (e > events)
    BY DEF Deliver, EventInv
  <2>3. QED
    BY <2>1, <2>2, NumbersAssumption DEF Deliver, TypeOK
<1>2. \/ topic' = [topic EXCEPT ![p] = Append(@, e)]
      \/ topic' = topic
  BY DEF Deliver, Appended
<1>3. topic' \in [Partitions -> Seq(Events)]
  <2>1. Append(topic[p], e) \in Seq(Events)
    BY <1>1
  <2>2. QED
    BY <1>2, <2>1 DEF TypeOK
<1>4. /\ state' \in [Events -> EventStates]
      /\ state'[e] \in {"pending", "acked", "failed"}
      /\ \A f \in Events \ {e} : state'[f] = state[f]
  BY <1>1 DEF Deliver, Retry, TypeOK, EventStates
<1>5. /\ tries' \in [Events -> 0..Retries]
      /\ \A f \in Events \ {e} : tries'[f] = tries[f]
  <2>1. \/ tries' = tries
        \/ tries[e] < Retries /\ tries' = [tries EXCEPT ![e] = @ + 1]
    BY DEF Deliver, Retry
  <2>2. tries[e] < Retries => tries[e] + 1 \in 0..Retries
    BY <1>1
  <2>3. QED
    BY <2>1, <2>2 DEF TypeOK
<1>6. TypeOK'
  BY <1>1, <1>3, <1>4, <1>5 DEF TypeOK
<1>7. \A f \in Events \ {e} :
         Count(topic'[place[f]], f) = Count(topic[place[f]], f)
  <2> SUFFICES ASSUME NEW f \in Events \ {e}
               PROVE  Count(topic'[place[f]], f) = Count(topic[place[f]], f)
    OBVIOUS
  <2>1. place[f] \in Partitions
    BY DEF TypeOK
  <2>2. CASE topic' = [topic EXCEPT ![p] = Append(@, e)]
    BY <1>1, <2>1, <2>2, CountAppend DEF TypeOK
  <2>3. QED
    BY <1>2, <2>2
<1>8. OutcomeOK(state'[e], Count(topic'[p], e), tries'[e])
  <2> PICK n \in Nat : n = Count(topic[p], e)
    BY <1>1, CountTyped
  <2>1. n <= tries[e]
    BY <1>1 DEF EventInv, OutcomeOK
  <2>2. \/ topic' = [topic EXCEPT ![p] = Append(@, e)] /\ Count(topic'[p], e) = n + 1
        \/ topic' = topic /\ Count(topic'[p], e) = n
    BY <1>1, <1>2, CountAppend DEF TypeOK
  <2>3. Count(topic'[p], e) \in {n, n + 1}
    BY <2>2
  <2>4. CASE state'[e] = "failed"
    BY <2>4 DEF OutcomeOK
  <2>5. CASE Appended(e) /\ state' = [state EXCEPT ![e] = "acked"] /\ UNCHANGED tries
    <3>1. Count(topic'[p], e) = n + 1
      BY <1>1, <2>5, CountAppend DEF Appended, TypeOK
    <3>2. state'[e] = "acked" /\ tries'[e] = tries[e]
      BY <2>5 DEF TypeOK
    <3>3. QED
      BY <1>1, <2>1, <3>1, <3>2 DEF OutcomeOK
  <2>6. CASE tries' = [tries EXCEPT ![e] = @ + 1] /\ UNCHANGED state
    <3>1. tries'[e] = tries[e] + 1 /\ state'[e] = "pending"
      BY <1>1, <2>6 DEF TypeOK
    <3>2. QED
      BY <1>1, <2>1, <2>3, <3>1 DEF OutcomeOK
  <2>7. QED
    BY <2>4, <2>5, <2>6 DEF Deliver, Retry, TypeOK
<1>9. EventInv'
  <2> SUFFICES ASSUME NEW f \in Events
               PROVE  /\ f > events <=> state'[f] = "none"
                      /\ f <= events => fields[f] = FieldsOf("valid")
                      /\ OutcomeOK(state'[f], Count(topic'[place[f]], f), tries'[f])
    BY <1>1 DEF EventInv
  <2>1. CASE f = e
    BY <1>1, <1>4, <1>8, <2>1 DEF EventInv
  <2>2. CASE f # e
    BY <1>4, <1>5, <1>7, <2>2 DEF EventInv
  <2>3. QED
    BY <2>1, <2>2
<1>10. TopicInv'
  <2> SUFFICES ASSUME NEW k \in Partitions, NEW i \in 1..Len(topic'[k])
               PROVE  topic'[k][i] <= events
    BY <1>1 DEF TopicInv
  <2>1. CASE topic'[k] = topic[k]
    BY <2>1 DEF TopicInv
  <2>2. CASE topic'[k] = Append(topic[k], e)
    <3>1. topic[k] \in Seq(Events)
      BY DEF TypeOK
    <3>2. CASE i \in 1..Len(topic[k])
      BY <2>2, <3>1, <3>2 DEF TopicInv
    <3>3. CASE i \notin 1..Len(topic[k])
      BY <1>1, <2>2, <3>1, <3>3
    <3>4. QED
      BY <3>2, <3>3
  <2>3. QED
    BY <1>2, <2>1, <2>2 DEF TypeOK
<1>11. ReqInv'
  <2>1. \A r \in Requests : At(r, "flush") => state'[req[r].event] # "dropped"
    <3> SUFFICES ASSUME NEW r \in Requests, At(r, "flush")
                 PROVE  state'[req[r].event] # "dropped"
      OBVIOUS
    <3>1. req[r].event \in Events /\ state[req[r].event] # "dropped"
      BY <1>1 DEF ReqInv, Events
    <3>2. QED
      BY <1>4, <3>1
  <2>2. QED
    BY <1>1, <2>1 DEF ReqInv, At
<1>12. AnsweredInv'
  <2>1. answered \subseteq Events \ {e}
    <3>1. answered \subseteq Events
      BY <1>1 DEF TypeOK, Events
    <3>2. e \notin answered
      BY <1>1 DEF AnsweredInv
    <3>3. QED
      BY <3>1, <3>2
  <2>2. QED
    BY <1>1, <1>4, <2>1 DEF AnsweredInv
<1>13. QED
  BY <1>1, <1>6, <1>9, <1>10, <1>11, <1>12

LEMMA CrashStep == ASSUME IInv, CrashWorker PROVE IInv'
<1> USE DEF IInv, CrashWorker
<1>1. TypeOK'
  BY NoRequestTyped DEF TypeOK, EventStates
<1>2. EventInv'
  BY DEF EventInv, OutcomeOK
<1>3. TopicInv'
  BY DEF TopicInv
<1>4. ReqInv'
  BY NoRequestTyped DEF ReqInv, At
<1>5. answered \subseteq Events
  BY NumbersAssumption DEF TypeOK, Events
<1>6. AnsweredInv'
  BY <1>5 DEF AnsweredInv
<1>7. QED
  BY <1>1, <1>2, <1>3, <1>4, <1>6

LEMMA NewWindowStep == ASSUME IInv, NewWindow PROVE IInv'
<1> USE NumbersAssumption DEF IInv, NewWindow, producerVars
<1>1. TypeOK'
  BY DEF TypeOK
<1>2. EventInv' /\ TopicInv'
  BY DEF EventInv, TopicInv
<1>3. ReqInv' /\ AnsweredInv'
  BY DEF ReqInv, At, AnsweredInv
<1>4. QED
  BY <1>1, <1>2, <1>3

LEMMA NextIInv == IInv /\ [Next]_vars => IInv'
<1> SUFFICES ASSUME IInv, [Next]_vars PROVE IInv'
  OBVIOUS
<1>1. CASE UNCHANGED vars
  <2> USE <1>1 DEF vars, IInv, producerVars
  <2>1. TypeOK'
    BY DEF TypeOK
  <2>2. EventInv' /\ TopicInv'
    BY DEF EventInv, TopicInv
  <2>3. ReqInv' /\ AnsweredInv'
    BY DEF ReqInv, At, AnsweredInv
  <2>4. QED
    BY <2>1, <2>2, <2>3
<1>2. ASSUME NEW r \in Requests, NEW key \in Keys, NEW body \in Bodies,
             Arrive(r, key, body)
      PROVE  IInv'
  BY <1>2, ArriveStep
<1>3. ASSUME NEW r \in Requests,
             \/ Admit(r) \/ Validate(r) \/ Send(r)
             \/ SendFails(r) \/ FlushDone(r)
      PROVE  IInv'
  BY <1>3, AdmitStep, ValidateStep, SendStep, SendFailsStep, FlushDoneStep
<1>4. ASSUME NEW e \in Events, Deliver(e) PROVE IInv'
  BY <1>4, DeliverStep
<1>5. QED
  BY <1>1, <1>2, <1>3, <1>4, NewWindowStep, CrashStep DEF Next

LEMMA IInvHolds == Spec => []IInv
  BY InitIInv, NextIInv, PTL DEF Spec

-----------------------------------------------------------------------------
(***************************************************************************)
(* Every variable keeps its type, and no window of the limiter admits more *)
(* than its limit.                                                         *)
(***************************************************************************)
THEOREM TypeOKHolds == Spec => []TypeOK
<1>1. IInv => TypeOK
  BY DEF IInv
<1>2. QED
  BY <1>1, IInvHolds, PTL

(***************************************************************************)
(* When handle_event answers 200 the outcome of its event is known, and an *)
(* event that was acknowledged is in the topic once for its success and at *)
(* most once for every attempt that seemed to fail.                        *)
(***************************************************************************)
THEOREM AnswerFollowsOutcomeHolds == Spec => []AnswerFollowsOutcome
<1>1. ASSUME IInv PROVE AnswerFollowsOutcome
  <2> SUFFICES ASSUME NEW e \in answered
               PROVE  /\ state[e] \in {"acked", "failed"}
                      /\ state[e] = "acked" => Copies(e) \in 1..(tries[e] + 1)
    BY DEF AnswerFollowsOutcome
  <2>1. e \in Events
    BY <1>1, NumbersAssumption DEF IInv, TypeOK, Events
  <2>2. Copies(e) = Count(topic[place[e]], e)
    BY DEF Copies, Count
  <2>3. QED
    BY <1>1, <2>1, <2>2 DEF IInv, AnsweredInv, EventInv, OutcomeOK
<1>2. QED
  BY <1>1, IInvHolds, PTL

(***************************************************************************)
(* What event_schema lets through has no event_type.                       *)
(***************************************************************************)
THEOREM NoRecordNamesATableHolds == Spec => []NoRecordNamesATable
<1>1. ASSUME IInv PROVE NoRecordNamesATable
  <2> SUFFICES ASSUME NEW p \in Partitions, NEW i \in 1..Len(topic[p])
               PROVE  "event_type" \notin fields[topic[p][i]]
    <3>1. \A k \in Partitions : DOMAIN topic[k] = 1..Len(topic[k])
      BY <1>1, LenProperties DEF IInv, TypeOK
    <3>2. QED
      BY <3>1 DEF NoRecordNamesATable, ToSet
  <2>1. topic[p] \in Seq(Events) /\ topic[p][i] <= events
    BY <1>1 DEF IInv, TypeOK, TopicInv
  <2>2. topic[p][i] \in Events
    BY <2>1, ElementOfSeq
  <2>3. fields[topic[p][i]] = FieldsOf("valid")
    BY <1>1, <2>1, <2>2 DEF IInv, EventInv
  <2>4. QED
    BY <2>3 DEF FieldsOf
<1>2. QED
  BY <1>1, IInvHolds, PTL
=============================================================================
