---------------------------- MODULE UgcCrudProofs ---------------------------
(***************************************************************************)
(* Proofs about UgcCrud, for any users, contents and number of calls in    *)
(* flight.                                                                 *)
(***************************************************************************)
EXTENDS UgcCrud, SequenceTheorems, TLAPS

USE TypesAssumption

\* Where an insertion is: what is left of its batch, none of it stored yet.
Span(q) == q.id .. q.id + Len(q.batch) - 1

\* j comes before i in one batch, as far as b, a value of before, tells.
Precedes(j, i, b) == j < i /\ \A k \in j + 1 .. i : b[k] = k - 1

\* Of a call, with the values m, b and e of made, before and ever.
CallOK(q, m, b, e) ==
    /\ q.at = "insert" =>
         /\ q.batch # <<>>
         /\ q.id \in Ids
         /\ q.id + Len(q.batch) - 1 <= m
         /\ Span(q) \cap e = {}
         /\ \A j \in Ids : Precedes(j, q.id, b) => j \in e
    /\ q.at = "delete" => q.ids \subseteq e
    /\ q.at \in {"get", "set"} => q.id \in Ids /\ q.key \in Keys

CallsInv == \A r \in Requests : CallOK(req[r], made, before, ever)

\* Two insertions have no id in common.
SpansApart ==
    \A r, s \in Requests :
        At(r, "insert") /\ At(s, "insert") /\ r # s =>
            Span(req[r]) \cap Span(req[s]) = {}

BeforeInv ==
    \A i \in Ids : /\ before[i] \in {0, i - 1}
                   /\ i > made => before[i] = 0

\* An update that found a document before it was deleted does not bring it back.
DeletedStaysDeleted == deleted \cap Existing = {}

IInv == /\ TypeOK /\ CallsInv /\ SpansApart /\ BeforeInv
        /\ BatchStoresABeginning /\ DeletedStaysDeleted

-----------------------------------------------------------------------------
\* A batch is a sequence of documents.
LEMMA BatchIsSeq ==
    ASSUME NEW b \in Batches
    PROVE  b \in Seq(Keys) /\ Len(b) \in Nat /\ Len(b) <= MaxBatch
  BY DEF Batches, SeqOf

\* What is left of a batch is one.
LEMMA RestOfBatch ==
    ASSUME NEW b \in Batches, b # <<>>
    PROVE  /\ Head(b) \in Keys
           /\ Tail(b) \in Batches
           /\ Len(b) \in Nat \ {0}
           /\ Len(Tail(b)) = Len(b) - 1
           /\ Tail(b) = <<>> => Len(b) = 1
<1>1. b \in Seq(Keys) /\ Len(b) \in Nat /\ Len(b) <= MaxBatch
  BY BatchIsSeq
<1>2. Len(b) # 0
  BY <1>1
<1>3. Tail(b) \in Seq(Keys) /\ Len(Tail(b)) = Len(b) - 1 /\ Head(b) \in Keys
  BY <1>1, <1>2
<1>4. Tail(b) \in [1..Len(Tail(b)) -> Keys]
  BY <1>3, LenProperties
<1>5. Len(Tail(b)) \in 0..MaxBatch
  BY <1>1, <1>2, <1>3
<1>6. Tail(b) \in Batches
  BY <1>4, <1>5 DEF Batches, SeqOf
<1>7. Tail(b) = <<>> => Len(Tail(b)) = 0
  BY EmptySeq
<1>8. QED
  BY <1>1, <1>2, <1>3, <1>6, <1>7

LEMMA NoRequestTyped == NoRequest \in RequestStates /\ NoRequest.at = "idle"
<1>1. <<>> \in Batches
  <2>1. <<>> \in [1..0 -> Keys]
    OBVIOUS
  <2>2. QED
    BY <2>1 DEF Batches, SeqOf
<1>2. QED
  BY <1>1 DEF NoRequest, RequestStates

LEMMA InitIInv == Init => IInv
<1> SUFFICES ASSUME Init PROVE IInv
  OBVIOUS
<1> USE DEF Init
<1>1. TypeOK
  BY NoRequestTyped DEF TypeOK, Existing, Ids
<1>2. CallsInv /\ SpansApart
  BY NoRequestTyped DEF CallsInv, CallOK, SpansApart, At
<1>3. BeforeInv /\ BatchStoresABeginning /\ DeletedStaysDeleted
  BY DEF BeforeInv, BatchStoresABeginning, DeletedStaysDeleted
<1>4. QED
  BY <1>1, <1>2, <1>3 DEF IInv

-----------------------------------------------------------------------------
\* A call that ends leaves the others as they are.
LEMMA AnswerKeepsCalls ==
    ASSUME TypeOK, CallsInv, SpansApart, NEW r \in Requests, Answer(r),
           made' = made, before' = before, ever' = ever
    PROVE  req' \in [Requests -> RequestStates] /\ CallsInv' /\ SpansApart'
<1>1. \A s \in Requests : req'[s] = IF s = r THEN NoRequest ELSE req[s]
  BY DEF TypeOK, Answer
<1>2. req' \in [Requests -> RequestStates]
  BY NoRequestTyped DEF TypeOK, Answer
<1>3. CallsInv'
  BY <1>1, NoRequestTyped DEF CallsInv, CallOK, Span, Precedes, Ids
<1>4. SpansApart'
  BY <1>1, NoRequestTyped DEF SpansApart, At, Span
<1>5. QED
  BY <1>2, <1>3, <1>4

\* A call that goes on without inserting does, too.
LEMMA OtherKeepsCalls ==
    ASSUME TypeOK, CallsInv, SpansApart, NEW r \in Requests,
           NEW q \in RequestStates, req' = [req EXCEPT ![r] = q],
           q.at # "insert", q.at = "delete" => q.ids \subseteq ever,
           q.at \in {"get", "set"} => q.id \in Ids /\ q.key \in Keys,
           made' = made, before' = before, ever' = ever
    PROVE  req' \in [Requests -> RequestStates] /\ CallsInv' /\ SpansApart'
<1>1. \A s \in Requests : req'[s] = IF s = r THEN q ELSE req[s]
  BY DEF TypeOK
<1>2. req' \in [Requests -> RequestStates]
  BY DEF TypeOK
<1>3. CallsInv'
  BY <1>1 DEF CallsInv, CallOK, Span, Precedes, Ids
<1>4. SpansApart'
  BY <1>1 DEF SpansApart, At, Span
<1>5. QED
  BY <1>2, <1>3, <1>4

\* The invariant of what a step leaves alone.
LEMMA SameDocs ==
    ASSUME IInv, UNCHANGED <<docs, made, before, ever, inserted, deleted>>,
           req' \in [Requests -> RequestStates], CallsInv', SpansApart'
    PROVE  IInv'
  BY DEF IInv, TypeOK, BeforeInv, BatchStoresABeginning, DeletedStaysDeleted,
         Existing

LEMMA CallInsertStep ==
    ASSUME IInv, NEW r \in Requests, NEW caller \in Tokens \cup {Direct},
           NEW batch \in Batches, CallInsert(r, caller, batch)
    PROVE  IInv'
<1> PICK mine \in Batches :
       /\ made + Len(mine) <= MaxDocs
       /\ made' = made + Len(mine)
       /\ before' = [i \in Ids |-> IF i \in made + 2 .. made' THEN i - 1
                                   ELSE before[i]]
       /\ IF mine = <<>>
          THEN UNCHANGED req
          ELSE req' = [req EXCEPT ![r] = [NoRequest EXCEPT
                         !.at = "insert", !.caller = caller,
                         !.batch = mine, !.id = made + 1]]
  BY DEF CallInsert
<1> PICK q : q = [NoRequest EXCEPT !.at = "insert", !.caller = caller,
                                   !.batch = mine, !.id = made + 1]
  OBVIOUS
<1>0. UNCHANGED <<docs, ever, inserted, deleted>> /\ At(r, "idle")
  BY DEF CallInsert
<1> USE DEF IInv
<1>1. Len(mine) \in Nat /\ mine \in Seq(Keys) /\ made \in Nat /\ made' \in 0..MaxDocs
  BY BatchIsSeq DEF TypeOK
<1>2. BeforeInv'
  BY <1>1 DEF BeforeInv, Ids
<1>3. before' \in [Ids -> 0..MaxDocs]
  BY <1>1 DEF TypeOK, Ids
<1>4. \A i \in 1..made : before'[i] = before[i]
  BY <1>1 DEF TypeOK, Ids
<1>5. \A p \in RequestStates :
         CallOK(p, made, before, ever) => CallOK(p, made', before', ever')
  <2> SUFFICES ASSUME NEW p \in RequestStates, p.at = "insert",
                      CallOK(p, made, before, ever)
               PROVE  CallOK(p, made', before', ever')
    BY <1>0 DEF CallOK
  <2>1. Len(p.batch) \in Nat /\ p.batch # <<>> /\ p.batch \in Seq(Keys)
    BY BatchIsSeq DEF CallOK, RequestStates
  <2>2. p.id \in 1..made
    BY <2>1, <1>1 DEF CallOK, Ids
  <2>3. ASSUME NEW j \in Ids, Precedes(j, p.id, before')
                PROVE  Precedes(j, p.id, before)
    <3>1. j < p.id /\ j \in Nat /\ p.id \in Nat /\ p.id <= made
      BY <2>2, <2>3, <1>1 DEF Precedes, Ids
    <3>2. SUFFICES ASSUME NEW k \in j + 1 .. p.id PROVE before[k] = k - 1
      BY <3>1 DEF Precedes
    <3>3. before'[k] = k - 1
      BY <2>3 DEF Precedes
    <3>4. k \in 1..made
      BY <3>1, <1>1
    <3>5. QED
      BY <3>3, <3>4, <1>4
  <2>4. QED
    BY <2>1, <2>2, <2>3, <1>0, <1>1 DEF CallOK, Span
<1>9. BatchStoresABeginning' /\ DeletedStaysDeleted'
  <2>1. \A i \in ever : i \in 1..made /\ before'[i] = before[i]
    BY <1>4 DEF TypeOK
  <2>2. inserted' = inserted /\ ever' = ever /\ deleted' = deleted /\ Existing' = Existing
    BY <1>0 DEF Existing
  <2>3. QED
    BY <2>1, <2>2 DEF BatchStoresABeginning, DeletedStaysDeleted
<1>6. CASE mine = <<>>
  <2>1. CallsInv'
    BY <1>5, <1>6 DEF CallsInv, TypeOK
  <2>2. SpansApart'
    BY <1>6 DEF SpansApart, At, Span
  <2>3. TypeOK'
    BY <1>0, <1>1, <1>3, <1>6 DEF TypeOK, Existing
  <2>4. QED
    BY <2>1, <2>2, <2>3, <1>2, <1>9
<1>7. CASE mine # <<>>
  <2>1. /\ q \in RequestStates /\ q.at = "insert" /\ q.batch = mine
        /\ q.id = made + 1 /\ Len(mine) > 0
    <3>1. Len(mine) > 0
      BY <1>1, <1>7
    <3>2. made + 1 \in 0..(MaxDocs + 1)
      BY <1>1
    <3>3. QED
      BY <3>1, <3>2, NoRequestTyped DEF NoRequest, RequestStates
  <2>2. \A s \in Requests : req'[s] = IF s = r THEN q ELSE req[s]
    BY <1>7 DEF TypeOK
  <2>3. CallOK(q, made', before', ever')
    <3>1. q.id \in Ids /\ q.id + Len(q.batch) - 1 <= made'
      BY <2>1, <1>1 DEF Ids
    <3>2. Span(q) \cap ever = {}
      BY <2>1, <1>1 DEF Span, TypeOK
    <3>3. ASSUME NEW j \in Ids, Precedes(j, q.id, before') PROVE FALSE
      <4>1. made >= 1 /\ before'[made + 1] = made
        <5>1. j \in Nat /\ j >= 1 /\ j < made + 1
          BY <3>3, <2>1, <1>1 DEF Precedes, Ids
        <5>2. q.id \in j + 1 .. q.id
          BY <5>1, <1>1, <2>1
        <5>3. before'[q.id] = q.id - 1
          BY <3>3, <5>2 DEF Precedes
        <5>4. QED
          BY <5>1, <5>3, <1>1, <2>1
      <4>2. before'[made + 1] = 0
        BY <3>1, <2>1, <1>1 DEF BeforeInv
      <4>3. QED
        BY <4>1, <4>2, <1>1
    <3>4. QED
      <4>1. Span(q) \cap ever' = {}
        BY <3>2, <1>0
      <4>2. q.at # "delete" /\ q.at \notin {"get", "set"} /\ q.batch # <<>>
        BY <2>1, <1>7
      <4>3. \A j \in Ids : ~ Precedes(j, q.id, before')
        BY <3>3
      <4>4. QED
        BY <3>1, <4>1, <4>2, <4>3 DEF CallOK, Span
  <2>4. CallsInv'
    <3> SUFFICES ASSUME NEW s \in Requests PROVE CallOK(req'[s], made', before', ever')
      BY DEF CallsInv
    <3>1. CASE s = r
      BY <3>1, <2>2, <2>3
    <3>2. CASE s # r
      <4>1. req'[s] = req[s] /\ req[s] \in RequestStates /\ CallOK(req[s], made, before, ever)
        BY <3>2, <2>2 DEF TypeOK, CallsInv
      <4>2. QED
        BY <4>1, <1>5
    <3>3. QED
      BY <3>1, <3>2
  <2>5. SpansApart'
    <3>1. ASSUME NEW s \in Requests, At(s, "insert")
          PROVE  Span(req[s]) \cap Span(q) = {}
      <4>1. /\ req[s].id \in Ids /\ Len(req[s].batch) \in Nat
            /\ req[s].id + Len(req[s].batch) - 1 <= made
        BY <3>1, BatchIsSeq DEF CallsInv, CallOK, At, TypeOK, RequestStates
      <4>2. QED
        BY <4>1, <2>1, <1>1 DEF Span, Ids
    <3>2. QED
      BY <3>1, <2>2 DEF SpansApart, At, Span
  <2>6. TypeOK'
    <3>1. req' \in [Requests -> RequestStates]
      BY <2>1, <1>7 DEF TypeOK
    <3>2. QED
      BY <3>1, <1>0, <1>1, <1>3 DEF TypeOK, Existing
  <2>7. QED
    BY <2>4, <2>5, <2>6, <1>2, <1>9
<1>8. QED
  BY <1>6, <1>7

-----------------------------------------------------------------------------
\* A refused document ends its batch.
LEMMA InsertRefusedStep ==
    ASSUME IInv, NEW r \in Requests, At(r, "insert"), Answer(r),
           UNCHANGED <<docs, ever, inserted, made, before, deleted>>
    PROVE  IInv'
  BY AnswerKeepsCalls, SameDocs DEF IInv

\* A document is stored and the batch goes on behind it, or ends.
LEMMA InsertStoredStep ==
    ASSUME IInv, NEW r \in Requests, At(r, "insert"),
           ~ Duplicate(req[r].id, Head(req[r].batch)),
           docs' = [docs EXCEPT ![req[r].id] = Head(req[r].batch)],
           ever' = ever \cup {req[r].id}, InsertNext(r),
           UNCHANGED <<made, before, deleted>>
    PROVE  IInv'
<1> PICK p \in RequestStates : p = req[r]
  BY DEF IInv, TypeOK
<1> PICK i : i = p.id
  OBVIOUS
<1> USE DEF IInv
<1>1. /\ p.at = "insert" /\ p.batch # <<>> /\ p.batch \in Batches
      /\ i \in Ids /\ i + Len(p.batch) - 1 <= made
      /\ Span(p) \cap ever = {}
      /\ \A j \in Ids : Precedes(j, i, before) => j \in ever
  BY DEF CallsInv, CallOK, At, RequestStates
<1>2. /\ Head(p.batch) \in Keys /\ Tail(p.batch) \in Batches
      /\ Len(p.batch) \in Nat \ {0} /\ Len(Tail(p.batch)) = Len(p.batch) - 1
      /\ Tail(p.batch) = <<>> => Len(p.batch) = 1
  BY <1>1, RestOfBatch
<1>3. made \in 0..MaxDocs /\ i \in Nat /\ i >= 1 /\ i <= made
  BY <1>1, <1>2 DEF TypeOK, Ids
<1>4. i \in Span(p) /\ i \notin ever /\ ever' = ever \cup {i}
  BY <1>1, <1>2, <1>3 DEF Span
<1>5. /\ docs' \in [Ids -> Keys \cup {None}]
      /\ Existing' \subseteq Existing \cup {i}
      /\ \A j \in Ids : j # i => docs'[j] = docs[j]
      /\ docs'[i] = Head(p.batch)
  BY <1>1, <1>2 DEF TypeOK, Existing
<1>6. Unique => \A j, k \in Existing' : docs'[j] = docs'[k] => j = k
  BY <1>5, <1>2 DEF TypeOK, Existing, Duplicate
<1>7. Existing' \subseteq ever' /\ ever' \subseteq 1..made
  <2>1. Existing \subseteq ever /\ ever \subseteq 1..made
    BY DEF TypeOK
  <2>2. i \in 1..made
    BY <1>3
  <2>3. QED
    BY <2>1, <2>2, <1>4, <1>5
<1>8. deleted \subseteq ever /\ deleted \cap Existing' = {}
  BY <1>4, <1>5 DEF TypeOK, DeletedStaysDeleted
<1>9. \A j \in Ids : Precedes(j, i, before) => j \in ever
  BY <1>1
<1>10. before[i] # 0 => before[i] \in ever'
  <2> SUFFICES ASSUME before[i] # 0 PROVE before[i] \in ever
    BY <1>4
  <2>1. before[i] = i - 1 /\ i - 1 \in Nat /\ before \in [Ids -> 0..MaxDocs]
    BY <1>1, <1>3 DEF BeforeInv, TypeOK
  <2>2. i - 1 \in Ids
    BY <2>1, <1>1, <1>3 DEF Ids
  <2>3. \A k \in (i - 1) + 1 .. i : k = i
    BY <1>3
  <2>4. Precedes(i - 1, i, before)
    BY <2>1, <2>3, <1>3 DEF Precedes
  <2>5. QED
    BY <2>1, <2>2, <2>4, <1>9
<1>11. CASE Tail(p.batch) = <<>>
  <2>1. Answer(r) /\ inserted' = inserted \cup
               {j \in Ids : j <= i /\ \A k \in j + 1 .. i : before[k] = k - 1}
    BY <1>11 DEF InsertNext
  <2>2. \A s \in Requests : req'[s] = IF s = r THEN NoRequest ELSE req[s]
    BY <2>1 DEF TypeOK, Answer
  <2>3. req' \in [Requests -> RequestStates]
    BY <2>1, NoRequestTyped DEF TypeOK, Answer
  <2>4. inserted' \subseteq ever' /\ inserted' \subseteq Ids
    <3>1. ASSUME NEW j \in Ids, j <= i, \A k \in j + 1 .. i : before[k] = k - 1
          PROVE  j \in ever'
      BY <3>1, <1>1, <1>3, <1>4 DEF Precedes, Ids
    <3>2. QED
      BY <2>1, <3>1, <1>4 DEF BatchStoresABeginning, TypeOK
  <2>5. CallsInv'
    <3> SUFFICES ASSUME NEW s \in Requests
                 PROVE  CallOK(req'[s], made', before', ever')
      BY DEF CallsInv
    <3>1. CASE s = r
      BY <3>1, <2>2, NoRequestTyped DEF CallOK
    <3>2. CASE s # r
      <4>1. req'[s] = req[s] /\ CallOK(req[s], made, before, ever)
        BY <3>2, <2>2 DEF CallsInv
      <4>2. req[s].at = "insert" => i \notin Span(req[s])
        BY <3>2, <1>1, <1>4 DEF SpansApart, At
      <4>3. QED
        BY <4>1, <4>2, <1>4 DEF CallOK
    <3>3. QED
      BY <3>1, <3>2
  <2>6. SpansApart'
    BY <2>2, NoRequestTyped DEF SpansApart, At
  <2>7. TypeOK'
    BY <1>5, <1>6, <1>7, <1>8, <1>4, <2>3, <2>4 DEF TypeOK
  <2>8. BatchStoresABeginning' /\ DeletedStaysDeleted' /\ BeforeInv'
    BY <1>4, <1>8, <1>10, <2>4
    DEF BatchStoresABeginning, DeletedStaysDeleted, BeforeInv
  <2>9. QED
    BY <2>5, <2>6, <2>7, <2>8
<1>12. CASE Tail(p.batch) # <<>>
  <2> PICK q : q = [p EXCEPT !.batch = Tail(p.batch), !.id = i + 1]
    OBVIOUS
  <2>1. req' = [req EXCEPT ![r] = q] /\ inserted' = inserted
    BY <1>12, <1>1 DEF InsertNext, TypeOK
  <2>2. Len(Tail(p.batch)) # 0
    BY <1>12, <1>2, EmptySeq, BatchIsSeq
  <2> PICK n \in Nat \ {0} : n = Len(p.batch)
    BY <1>2
  <2>3. i + 1 \in Ids /\ i + 1 \in 0..MaxDocs + 1
    <3>1. n - 1 # 0 /\ i + n - 1 <= made
      BY <2>2, <1>1, <1>2
    <3>2. n >= 2 /\ i + 1 <= made
      <4>1. n \in Int /\ n > 0 /\ n # 1
        BY <3>1
      <4>2. i \in Int /\ made \in Int
        BY <1>3
      <4>3. i + n - 1 <= made
        BY <3>1
      <4>4. QED
        BY ONLY <4>1, <4>2, <4>3
    <3>3. made <= MaxDocs /\ MaxDocs \in Nat
      BY <1>3
    <3>4. i + 1 <= MaxDocs
      BY <3>2, <3>3, <1>3
    <3>5. QED
      BY <3>3, <3>4, <1>3 DEF Ids
  <2>4. /\ q \in RequestStates /\ q.at = "insert" /\ q.id = i + 1
        /\ q.batch = Tail(p.batch)
    BY <2>3, <1>1, <1>2 DEF RequestStates
  <2>5. Span(q) \subseteq Span(p) /\ i \notin Span(q)
    <3>1. Len(q.batch) = n - 1 /\ q.id = i + 1 /\ p.id = i
      BY <2>4, <1>2
    <3>2. i + 1 .. i + 1 + (n - 1) - 1 \subseteq i .. i + n - 1
      BY <1>3
    <3>3. i \notin i + 1 .. i + 1 + (n - 1) - 1
      BY <1>3
    <3>4. QED
      BY <3>1, <3>2, <3>3 DEF Span
  <2>6. \A s \in Requests : req'[s] = IF s = r THEN q ELSE req[s]
    BY <2>1 DEF TypeOK
  <2>7. CallOK(q, made', before', ever')
    <3>1. q.id + Len(q.batch) - 1 <= made'
      BY <2>4, <1>1, <1>2, <1>3
    <3>2. Span(q) \cap ever' = {}
      BY <2>5, <1>1, <1>4
    <3>3. ASSUME NEW j \in Ids, Precedes(j, i + 1, before) PROVE j \in ever'
      <4>1. j \in Nat /\ j >= 1 /\ j <= i
        BY <3>3, <1>3 DEF Precedes, Ids
      <4>2. CASE j = i
        BY <4>2, <1>4
      <4>3. CASE j # i
        <5>1. \A k \in j + 1 .. i : k \in j + 1 .. i + 1
          BY <4>1, <1>3
        <5>2. Precedes(j, i, before)
          BY <5>1, <4>1, <4>3, <3>3, <1>3 DEF Precedes
        <5>3. QED
          BY <5>2, <1>9, <1>4
      <4>4. QED
        BY <4>2, <4>3
    <3>4. QED
      BY <3>1, <3>2, <3>3, <2>3, <2>4, <1>12 DEF CallOK
  <2>8. CallsInv'
    <3> SUFFICES ASSUME NEW s \in Requests
                 PROVE  CallOK(req'[s], made', before', ever')
      BY DEF CallsInv
    <3>1. CASE s = r
      BY <3>1, <2>6, <2>7
    <3>2. CASE s # r
      <4>1. req'[s] = req[s] /\ CallOK(req[s], made, before, ever)
        BY <3>2, <2>6 DEF CallsInv
      <4>2. req[s].at = "insert" => i \notin Span(req[s])
        BY <3>2, <1>1, <1>4 DEF SpansApart, At
      <4>3. QED
        BY <4>1, <4>2, <1>4 DEF CallOK
    <3>3. QED
      BY <3>1, <3>2
  <2>9. SpansApart'
    <3>1. \A s \in Requests : At(s, "insert") /\ s # r =>
             Span(req[s]) \cap Span(q) = {}
      BY <2>5, <1>1 DEF SpansApart, At
    <3>2. QED
      BY <3>1, <2>6 DEF SpansApart, At
  <2>10. TypeOK'
    BY <1>5, <1>6, <1>7, <1>8, <1>4, <2>1, <2>4 DEF TypeOK
  <2>11. BatchStoresABeginning' /\ DeletedStaysDeleted' /\ BeforeInv'
    BY <1>4, <1>8, <1>10, <2>1
    DEF BatchStoresABeginning, DeletedStaysDeleted, BeforeInv
  <2>12. QED
    BY <2>8, <2>9, <2>10, <2>11
<1>13. QED
  BY <1>11, <1>12

LEMMA InsertStep ==
    ASSUME IInv, NEW r \in Requests, Insert(r)
    PROVE  IInv'
<1>1. CASE Duplicate(req[r].id, Head(req[r].batch))
  BY <1>1, InsertRefusedStep DEF Insert
<1>2. CASE ~ Duplicate(req[r].id, Head(req[r].batch))
  BY <1>2, InsertStoredStep DEF Insert
<1>3. QED
  BY <1>1, <1>2

-----------------------------------------------------------------------------
LEMMA DeleteStep ==
    ASSUME IInv, NEW r \in Requests, Delete(r)
    PROVE  IInv'
<1>1. req[r] \in RequestStates /\ req[r].ids \subseteq ever
  BY DEF Delete, IInv, TypeOK, CallsInv, CallOK, At
<1>2. req' \in [Requests -> RequestStates] /\ CallsInv' /\ SpansApart'
  BY AnswerKeepsCalls DEF Delete, IInv
<1>3. /\ docs' \in [Ids -> Keys \cup {None}]
      /\ Existing' = Existing \ req[r].ids
      /\ \A i \in Existing' : docs'[i] = docs[i]
  BY DEF Delete, IInv, TypeOK, Existing
<1>4. TypeOK'
  <2>1. Unique => \A i, j \in Existing' : docs'[i] = docs'[j] => i = j
    BY <1>3 DEF IInv, TypeOK
  <2>2. deleted' \subseteq ever' /\ Existing' \subseteq ever'
    BY <1>1, <1>3 DEF Delete, IInv, TypeOK
  <2>3. QED
    BY <1>2, <1>3, <2>1, <2>2 DEF Delete, IInv, TypeOK
<1>5. BatchStoresABeginning' /\ BeforeInv'
  BY DEF Delete, IInv, BatchStoresABeginning, BeforeInv
<1>6. DeletedStaysDeleted'
  BY <1>3 DEF Delete, IInv, DeletedStaysDeleted
<1>7. QED
  BY <1>2, <1>4, <1>5, <1>6 DEF IInv

LEMMA UpdateStep ==
    ASSUME IInv, NEW r \in Requests, Update(r)
    PROVE  IInv'
<1>1. req[r].id \in Ids /\ req[r].key \in Keys
  BY DEF Update, IInv, CallsInv, CallOK, At
<1>2. req' \in [Requests -> RequestStates] /\ CallsInv' /\ SpansApart'
  BY AnswerKeepsCalls DEF Update, IInv
<1>3. CASE UNCHANGED docs
  BY <1>2, <1>3, SameDocs DEF Update
<1>4. CASE /\ req[r].id \in Existing /\ ~ Duplicate(req[r].id, req[r].key)
           /\ docs' = [docs EXCEPT ![req[r].id] = req[r].key]
  <2> PICK i \in Ids, key \in Keys : i = req[r].id /\ key = req[r].key
    BY <1>1
  <2>1. /\ docs' \in [Ids -> Keys \cup {None}]
        /\ \A j \in Ids : docs'[j] = IF j = i THEN key ELSE docs[j]
    BY <1>4 DEF IInv, TypeOK
  <2>2. key # None
    BY TypesAssumption DEF Keys
  <2>3. Existing' = Existing
    BY <1>4, <2>1, <2>2 DEF Existing
  <2>4. Unique => \A j, k \in Existing' : docs'[j] = docs'[k] => j = k
    BY <1>4, <2>1, <2>3 DEF IInv, TypeOK, Existing, Duplicate
  <2>5. TypeOK'
    BY <1>2, <2>1, <2>3, <2>4 DEF Update, IInv, TypeOK
  <2>6. BatchStoresABeginning' /\ BeforeInv'
    BY DEF Update, IInv, BatchStoresABeginning, BeforeInv
  <2>7. DeletedStaysDeleted'
    BY <2>3 DEF Update, IInv, DeletedStaysDeleted
  <2>8. QED
    BY <1>2, <2>5, <2>6, <2>7 DEF IInv
<1>5. QED
  BY <1>3, <1>4 DEF Update

LEMMA CallDeleteStep ==
    ASSUME IInv, NEW r \in Requests, NEW caller \in Tokens \cup {Direct},
           NEW ids \in SUBSET (1..made), CallDelete(r, caller, ids)
    PROVE  IInv'
<1> PICK q : q = [NoRequest EXCEPT
                    !.at = IF caller = Direct THEN "check" ELSE "owner",
                    !.caller = caller, !.ids = ids]
  OBVIOUS
<1>1. ids \subseteq Ids
  BY DEF IInv, TypeOK, Ids
<1>2. q \in RequestStates /\ q.at \in {"check", "owner"}
  BY <1>1, NoRequestTyped DEF NoRequest, RequestStates
<1>3. req' = [req EXCEPT ![r] = q]
  BY DEF CallDelete
<1>4. req' \in [Requests -> RequestStates] /\ CallsInv' /\ SpansApart'
  BY <1>2, <1>3, OtherKeepsCalls DEF CallDelete, IInv
<1>5. QED
  BY <1>4, SameDocs DEF CallDelete

LEMMA CallUpdateStep ==
    ASSUME IInv, NEW r \in Requests, NEW caller \in Tokens \cup {Direct},
           NEW id \in 1..made, NEW key \in Keys, CallUpdate(r, caller, id, key)
    PROVE  IInv'
<1>1. CASE UNCHANGED req
  <2>1. UNCHANGED <<docs, made, before, ever, inserted, deleted>>
    BY DEF CallUpdate
  <2>2. req' \in [Requests -> RequestStates] /\ CallsInv' /\ SpansApart'
    BY <1>1, <2>1 DEF IInv, TypeOK, CallsInv, SpansApart, At
  <2>3. QED
    BY <2>1, <2>2, SameDocs
<1>2. CASE Allowed(caller, key[1])
  <2> PICK q : q = [NoRequest EXCEPT !.at = "get", !.caller = caller,
                                     !.id = id, !.key = key]
    OBVIOUS
  <2>1. id \in Ids /\ id \in 0..MaxDocs + 1
    BY DEF IInv, TypeOK, Ids
  <2>2. q \in RequestStates /\ q.at = "get" /\ q.id = id /\ q.key = key
    BY <2>1, NoRequestTyped DEF NoRequest, RequestStates
  <2>3. req' = [req EXCEPT ![r] = q]
    BY <1>2 DEF CallUpdate
  <2>4. req' \in [Requests -> RequestStates] /\ CallsInv' /\ SpansApart'
    BY <2>1, <2>2, <2>3, OtherKeepsCalls DEF CallUpdate, IInv
  <2>5. QED
    BY <2>4, SameDocs DEF CallUpdate
<1>3. QED
  BY <1>1, <1>2 DEF CallUpdate

\* A check goes on, or answers.
LEMMA CheckStep ==
    ASSUME IInv, NEW r \in Requests,
           CheckOwner(r) \/ CheckExisting(r) \/ Get(r) \/ Abort(r)
    PROVE  IInv'
<1>1. UNCHANGED <<docs, made, before, ever, inserted, deleted>>
  BY DEF CheckOwner, CheckExisting, Get, Abort
<1>2. CASE Answer(r)
  BY <1>1, <1>2, AnswerKeepsCalls, SameDocs DEF IInv
<1>3. ASSUME NEW place \in {"check", "delete", "set"}, Go(r, place),
             place = "delete" => req[r].ids \subseteq Existing,
             place = "set" => At(r, "get")
      PROVE  IInv'
  <2> PICK q : q = [req[r] EXCEPT !.at = place]
    OBVIOUS
  <2>1. req[r] \in RequestStates /\ CallOK(req[r], made, before, ever)
    BY DEF IInv, TypeOK, CallsInv
  <2>2. /\ q \in RequestStates /\ q.at = place /\ q.ids = req[r].ids
        /\ q.id = req[r].id /\ q.key = req[r].key
    BY <2>1 DEF RequestStates
  <2>3. place = "delete" => q.ids \subseteq ever
    BY <1>3, <2>2 DEF IInv, TypeOK
  <2>4. place = "set" => q.id \in Ids /\ q.key \in Keys
    BY <1>3, <2>1, <2>2 DEF CallOK, At
  <2>5. req' = [req EXCEPT ![r] = q]
    BY <1>3 DEF Go, IInv, TypeOK
  <2>6. req' \in [Requests -> RequestStates] /\ CallsInv' /\ SpansApart'
    BY <1>1, <2>2, <2>3, <2>4, <2>5, OtherKeepsCalls DEF IInv
  <2>7. QED
    BY <1>1, <2>6, SameDocs
<1>4. CASE CheckOwner(r)
  BY <1>2, <1>3, <1>4 DEF CheckOwner
<1>5. CASE CheckExisting(r)
  BY <1>2, <1>3, <1>5 DEF CheckExisting
<1>6. CASE Get(r)
  BY <1>2, <1>3, <1>6 DEF Get
<1>7. CASE Abort(r)
  BY <1>2, <1>7 DEF Abort
<1>8. QED
  BY <1>4, <1>5, <1>6, <1>7

LEMMA NextIInv == IInv /\ [Next]_vars => IInv'
<1> SUFFICES ASSUME IInv, [Next]_vars PROVE IInv'
  OBVIOUS
<1>1. CASE UNCHANGED vars
  <2>1. req' \in [Requests -> RequestStates] /\ CallsInv' /\ SpansApart'
    BY <1>1 DEF vars, IInv, TypeOK, CallsInv, SpansApart, At
  <2>2. QED
    BY <1>1, <2>1, SameDocs DEF vars
<1>2. CASE Next
  <2> SUFFICES ASSUME NEW r \in Requests,
        \/ \E caller \in Tokens \cup {Direct}, batch \in Batches :
              CallInsert(r, caller, batch)
        \/ \E caller \in Tokens \cup {Direct}, ids \in SUBSET (1..made) :
              CallDelete(r, caller, ids)
        \/ \E caller \in Tokens \cup {Direct}, id \in 1..made, key \in Keys :
              CallUpdate(r, caller, id, key)
        \/ Insert(r)
        \/ CheckOwner(r) \/ CheckExisting(r) \/ Get(r) \/ Abort(r)
        \/ Delete(r)
        \/ Update(r)
      PROVE IInv'
    BY <1>2 DEF Next
  <2> QED
    BY CallInsertStep, CallDeleteStep, CallUpdateStep, InsertStep, CheckStep,
       DeleteStep, UpdateStep
<1>3. QED
  BY <1>1, <1>2

LEMMA IInvHolds == Spec => []IInv
  BY InitIInv, NextIInv, PTL DEF Spec

-----------------------------------------------------------------------------
(***************************************************************************)
(* Every variable keeps its type and the unique index holds, however many  *)
(* calls are in flight.                                                    *)
(***************************************************************************)
THEOREM TypeOKHolds == Spec => []TypeOK
<1>1. IInv => TypeOK
  BY DEF IInv
<1>2. QED
  BY <1>1, IInvHolds, PTL

(***************************************************************************)
(* A batch that insert_many stops in stores a beginning of itself, and one *)
(* that create_many answers is stored whole.                               *)
(***************************************************************************)
THEOREM BatchStoresABeginningHolds == Spec => []BatchStoresABeginning
<1>1. IInv => BatchStoresABeginning
  BY DEF IInv
<1>2. QED
  BY <1>1, IInvHolds, PTL

-----------------------------------------------------------------------------
(***************************************************************************)
(* UgcCrud implements Collection.                                          *)
(***************************************************************************)
LEMMA MapsInit == Init => Documents!Init
  BY DEF Init, Documents!Init

\* A step of a call that only looks, or only answers.
LEMMA LookingMaps ==
    ASSUME UNCHANGED <<docs, ever, inserted, deleted>>
    PROVE  UNCHANGED Documents!vars
  BY DEF Documents!vars

\* What is free for the index is free in the abstract.
LEMMA NotDuplicateIsFree ==
    ASSUME NEW i \in Ids, NEW key \in Keys, ~ Duplicate(i, key)
    PROVE  Documents!Free(i, key)
  BY DEF Duplicate, Existing, Documents!Free, Documents!There

\* A stored document is a Store that reports its batch, if it was the last.
LEMMA InsertMaps ==
    ASSUME IInv, IInv', NEW r \in Requests, Insert(r)
    PROVE  [Documents!Next]_(Documents!vars)
<1> PICK p \in RequestStates : p = req[r]
  BY DEF IInv, TypeOK
<1> PICK i, key : i = p.id /\ key = Head(p.batch)
  OBVIOUS
<1>1. CASE Duplicate(i, key)
  BY <1>1, LookingMaps DEF Insert
<1>2. CASE ~ Duplicate(i, key)
  <2>1. /\ docs' = [docs EXCEPT ![i] = key]
        /\ ever' = ever \cup {i}
        /\ InsertNext(r)
        /\ UNCHANGED deleted
    BY <1>2 DEF Insert
  <2>2. /\ p.batch # <<>> /\ p.batch \in Batches /\ i \in Ids
        /\ Span(p) \cap ever = {}
    BY DEF IInv, CallsInv, CallOK, Insert, At, RequestStates
  <2>3. key \in Keys /\ Len(p.batch) \in Nat \ {0}
    BY <2>2, RestOfBatch
  <2>4. i \notin ever
    BY <2>2, <2>3 DEF Span, Ids
  <2>5. Documents!Free(i, key)
    BY <1>2, <2>2, <2>3, NotDuplicateIsFree
  <2>6. inserted' = inserted \cup inserted'
    BY <2>1 DEF InsertNext
  <2>7. inserted' \subseteq ever' /\ inserted' \in SUBSET Ids
    BY DEF IInv, BatchStoresABeginning, TypeOK
  <2>8. Documents!Store(i, key, inserted')
    BY <2>1, <2>4, <2>5, <2>6, <2>7 DEF Documents!Store
  <2>9. QED
    BY <2>2, <2>3, <2>7, <2>8 DEF Documents!Next
<1>3. QED
  BY <1>1, <1>2

LEMMA DeleteMaps ==
    ASSUME IInv, NEW r \in Requests, Delete(r)
    PROVE  Documents!Next
<1>1. req[r].ids \subseteq ever /\ req[r].ids \subseteq Ids
  BY DEF Delete, IInv, TypeOK, CallsInv, CallOK, At, RequestStates
<1>2. Documents!Remove(req[r].ids)
  BY <1>1 DEF Delete, Documents!Remove
<1>3. QED
  BY <1>1, <1>2 DEF Documents!Next

LEMMA UpdateMaps ==
    ASSUME IInv, NEW r \in Requests, Update(r)
    PROVE  [Documents!Next]_(Documents!vars)
<1>1. req[r].id \in Ids /\ req[r].key \in Keys
  BY DEF Update, IInv, CallsInv, CallOK, At
<1>2. CASE UNCHANGED docs
  BY <1>2, LookingMaps DEF Update
<1>3. CASE /\ req[r].id \in Existing /\ ~ Duplicate(req[r].id, req[r].key)
           /\ docs' = [docs EXCEPT ![req[r].id] = req[r].key]
  <2>1. Documents!Free(req[r].id, req[r].key)
    BY <1>1, <1>3, NotDuplicateIsFree
  <2>2. Documents!Change(req[r].id, req[r].key)
    BY <1>3, <2>1 DEF Update, Existing, Documents!Change, Documents!There
  <2>3. QED
    BY <1>1, <2>2 DEF Documents!Next
<1>4. QED
  BY <1>2, <1>3 DEF Update

LEMMA NextMaps ==
    ASSUME IInv, IInv', [Next]_vars
    PROVE  [Documents!Next]_(Documents!vars)
<1>1. CASE UNCHANGED vars
  BY <1>1, LookingMaps DEF vars
<1>2. CASE Next
  <2> SUFFICES ASSUME NEW r \in Requests,
        \/ \E caller \in Tokens \cup {Direct}, batch \in Batches :
              CallInsert(r, caller, batch)
        \/ \E caller \in Tokens \cup {Direct}, ids \in SUBSET (1..made) :
              CallDelete(r, caller, ids)
        \/ \E caller \in Tokens \cup {Direct}, id \in 1..made, key \in Keys :
              CallUpdate(r, caller, id, key)
        \/ Insert(r)
        \/ CheckOwner(r) \/ CheckExisting(r) \/ Get(r) \/ Abort(r)
        \/ Delete(r)
        \/ Update(r)
      PROVE [Documents!Next]_(Documents!vars)
    BY <1>2 DEF Next
  <2>1. CASE \/ \E caller \in Tokens \cup {Direct}, batch \in Batches :
                   CallInsert(r, caller, batch)
             \/ \E caller \in Tokens \cup {Direct}, ids \in SUBSET (1..made) :
                   CallDelete(r, caller, ids)
             \/ \E caller \in Tokens \cup {Direct}, id \in 1..made, key \in Keys :
                   CallUpdate(r, caller, id, key)
    BY <2>1, LookingMaps DEF CallInsert, CallDelete, CallUpdate
  <2>2. CASE CheckOwner(r) \/ CheckExisting(r) \/ Get(r) \/ Abort(r)
    BY <2>2, LookingMaps DEF CheckOwner, CheckExisting, Get, Abort
  <2>3. QED
    BY <2>1, <2>2, InsertMaps, DeleteMaps, UpdateMaps
<1>3. QED
  BY <1>1, <1>2

(***************************************************************************)
(* The service acts as a collection of which every document is stored once *)
(* and is gone for good once it is deleted, although each call checks      *)
(* first and writes later, and whatever is deleted or duplicated meanwhile.*)
(***************************************************************************)
THEOREM ActsAsCollectionHolds == Spec => ActsAsCollection
<1>1. Init => Documents!Init
  BY MapsInit
<1>2. IInv /\ IInv' /\ [Next]_vars => [Documents!Next]_(Documents!vars)
  BY NextMaps
<1>3. QED
  BY <1>1, <1>2, IInvHolds, PTL DEF Spec, ActsAsCollection, Documents!Spec

-----------------------------------------------------------------------------
(***************************************************************************)
(* What comes with a token changes nothing.                                *)
(***************************************************************************)
\* A call with a token gets as far as deleting no documents.
TokenOK(q) ==
    q.caller # Direct =>
        /\ q.at \in {"idle", "owner", "check", "delete"}
        /\ q.at \in {"check", "delete"} => q.ids = {}

TokenInv == \A r \in Requests : TokenOK(req[r])

\* The user of a document is never that of a token.
LEMMA NeverAllowed ==
    ASSUME NEW caller \in Tokens \cup {Direct}, caller # Direct, NEW key \in Keys
    PROVE  ~ Allowed(caller, key[1])
  BY TypesAssumption DEF Keys, Allowed, Owns

\* Nothing of a batch is the caller's.
LEMMA NothingIsMine ==
    ASSUME NEW caller \in Tokens \cup {Direct}, caller # Direct,
           NEW batch \in Batches, NEW mine \in Batches, Mine(caller, batch, mine)
    PROVE  mine = <<>>
<1> SUFFICES ASSUME mine # <<>> PROVE FALSE
  OBVIOUS
<1>1. 1 \in 1..Len(mine)
  BY RestOfBatch
<1>2. PICK at \in [1..Len(mine) -> 1..Len(batch)] :
          \A i \in 1..Len(batch) :
              Allowed(caller, batch[i][1]) <=> \E j \in 1..Len(mine) : at[j] = i
  BY DEF Mine
<1>3. at[1] \in 1..Len(batch) /\ Allowed(caller, batch[at[1]][1])
  BY <1>1, <1>2
<1>4. batch \in Seq(Keys)
  BY BatchIsSeq
<1>5. batch[at[1]] \in Keys
  BY <1>3, <1>4
<1>6. QED
  BY <1>3, <1>5, NeverAllowed

\* A step of one request.
LEMMA TokenFrame ==
    ASSUME TypeOK, TokenInv, NEW r \in Requests, NEW q,
           req' = [req EXCEPT ![r] = q], TokenOK(q)
    PROVE  TokenInv'
<1> SUFFICES ASSUME NEW s \in Requests PROVE TokenOK(req'[s])
  BY DEF TokenInv, TokenOK
<1>1. req'[s] = IF s = r THEN q ELSE req[s]
  BY DEF TypeOK
<1>2. QED
  BY <1>1 DEF TokenInv

LEMMA TokenCall ==
    ASSUME TypeOK, TokenInv, NEW r \in Requests, NEW caller \in Tokens \cup {Direct},
           \/ \E batch \in Batches : CallInsert(r, caller, batch)
           \/ \E ids \in SUBSET (1..made) : CallDelete(r, caller, ids)
           \/ \E id \in 1..made, key \in Keys : CallUpdate(r, caller, id, key)
    PROVE  TokenInv'
<1>1. CASE UNCHANGED req
  BY <1>1 DEF TokenInv, TokenOK
<1>2. ASSUME NEW batch \in Batches, CallInsert(r, caller, batch), ~ UNCHANGED req
      PROVE  TokenInv'
  <2>1. PICK mine \in Batches :
           /\ Mine(caller, batch, mine)
           /\ mine # <<>>
           /\ req' = [req EXCEPT ![r] = [NoRequest EXCEPT
                         !.at = "insert", !.caller = caller,
                         !.batch = mine, !.id = made + 1]]
    BY <1>2 DEF CallInsert
  <2>2. caller = Direct
    BY <2>1, NothingIsMine
  <2> PICK q : q = [NoRequest EXCEPT !.at = "insert", !.caller = caller,
                                     !.batch = mine, !.id = made + 1]
    OBVIOUS
  <2>3. TokenOK(q)
    BY <2>2, NoRequestTyped DEF TokenOK, NoRequest
  <2>4. QED
    BY <2>1, <2>3, TokenFrame
<1>3. ASSUME NEW ids \in SUBSET (1..made), CallDelete(r, caller, ids)
      PROVE  TokenInv'
  <2> PICK q : q = [NoRequest EXCEPT
                      !.at = IF caller = Direct THEN "check" ELSE "owner",
                      !.caller = caller, !.ids = ids]
    OBVIOUS
  <2>1. TokenOK(q)
    BY DEF TokenOK, NoRequest
  <2>2. req' = [req EXCEPT ![r] = q]
    BY <1>3 DEF CallDelete
  <2>3. QED
    BY <2>1, <2>2, TokenFrame
<1>4. ASSUME NEW id \in 1..made, NEW key \in Keys, CallUpdate(r, caller, id, key),
             ~ UNCHANGED req
      PROVE  TokenInv'
  <2> PICK q : q = [NoRequest EXCEPT !.at = "get", !.caller = caller,
                                     !.id = id, !.key = key]
    OBVIOUS
  <2>1. Allowed(caller, key[1]) /\ req' = [req EXCEPT ![r] = q]
    BY <1>4 DEF CallUpdate
  <2>2. TokenOK(q)
    BY <2>1, NeverAllowed DEF TokenOK, NoRequest
  <2>3. QED
    BY <2>1, <2>2, TokenFrame
<1>5. QED
  BY <1>1, <1>2, <1>3, <1>4

\* An answer leaves the request without a caller, and a check lets a call with
\* a token pass only if there is nothing to delete.
LEMMA TokenGo ==
    ASSUME TypeOK, TokenInv, NEW r \in Requests,
           \/ Insert(r) \/ CheckOwner(r) \/ CheckExisting(r) \/ Delete(r)
           \/ Get(r) \/ Update(r) \/ Abort(r)
    PROVE  TokenInv'
<1>1. CASE Answer(r)
  <2>1. TokenOK(NoRequest)
    BY DEF TokenOK, NoRequest
  <2>2. QED
    BY <1>1, <2>1, TokenFrame DEF Answer
<1>2. TokenOK(req[r]) /\ req[r] \in RequestStates
  BY DEF TokenInv, TypeOK
<1>3. CASE CheckOwner(r) /\ ~ Answer(r)
  <2> PICK q : q = [req[r] EXCEPT !.at = "check"]
    OBVIOUS
  <2>1. /\ req[r].ids \subseteq Existing
        /\ \A i \in req[r].ids : Allowed(req[r].caller, docs[i][1])
        /\ req' = [req EXCEPT ![r] = q]
    BY <1>3 DEF CheckOwner, Go, TypeOK
  <2>2. ASSUME req[r].caller # Direct PROVE req[r].ids = {}
    <3>1. \A i \in req[r].ids : docs[i] \in Keys
      BY <2>1 DEF Existing, TypeOK
    <3>2. req[r].caller \in Tokens \cup {Direct}
      BY <1>2 DEF RequestStates
    <3>3. QED
      BY <2>1, <2>2, <3>1, <3>2, NeverAllowed
  <2>3. TokenOK(q)
    BY <1>2, <2>2 DEF TokenOK, RequestStates
  <2>4. QED
    BY <2>1, <2>3, TokenFrame
<1>4. ASSUME NEW place \in {"delete", "set"}, Go(r, place),
             place = "delete" => At(r, "check"), place = "set" => At(r, "get")
      PROVE  TokenInv'
  <2> PICK q : q = [req[r] EXCEPT !.at = place]
    OBVIOUS
  <2>1. req' = [req EXCEPT ![r] = q]
    BY <1>4 DEF Go, TypeOK
  <2>2. TokenOK(q)
    BY <1>2, <1>4 DEF TokenOK, At, RequestStates
  <2>3. QED
    BY <2>1, <2>2, TokenFrame
<1>5. CASE Insert(r) /\ ~ Answer(r)
  <2>1. PICK batch, id : req' = [req EXCEPT ![r].batch = batch, ![r].id = id]
    BY <1>5 DEF Insert, InsertNext, TypeOK
  <2> PICK q : q = [req[r] EXCEPT !.batch = batch, !.id = id]
    OBVIOUS
  <2>2. TokenOK(q) /\ req' = [req EXCEPT ![r] = q]
    BY <1>2, <2>1 DEF TokenOK, RequestStates, TypeOK
  <2>3. QED
    BY <2>2, TokenFrame
<1>6. QED
  BY <1>1, <1>3, <1>4, <1>5 DEF Insert, CheckOwner, CheckExisting, Delete, Get, Update, Abort

LEMMA TokenStep == TypeOK /\ TokenInv /\ [Next]_vars => TokenInv'
<1> SUFFICES ASSUME TypeOK, TokenInv, [Next]_vars PROVE TokenInv'
  OBVIOUS
<1>1. CASE UNCHANGED vars
  BY <1>1 DEF vars, TokenInv, TokenOK
<1>2. CASE Next
  BY <1>2, TokenCall, TokenGo DEF Next
<1>3. QED
  BY <1>1, <1>2

\* A call is not done by another request's step, and with a token it is done
\* without a change.
LEMMA TokenChanges ==
    ASSUME TypeOK, TokenInv, [Next]_vars, NEW r \in Requests,
           req[r].caller # Direct, req'[r] # req[r]
    PROVE  UNCHANGED <<docs, ever, inserted, deleted>>
<1>1. PICK s \in Requests :
        \/ \E caller \in Tokens \cup {Direct}, batch \in Batches :
              CallInsert(s, caller, batch)
        \/ \E caller \in Tokens \cup {Direct}, ids \in SUBSET (1..made) :
              CallDelete(s, caller, ids)
        \/ \E caller \in Tokens \cup {Direct}, id \in 1..made, key \in Keys :
              CallUpdate(s, caller, id, key)
        \/ Insert(s) \/ CheckOwner(s) \/ CheckExisting(s) \/ Delete(s)
        \/ Get(s) \/ Update(s) \/ Abort(s)
  BY DEF Next, vars
<1>2. TokenOK(req[r])
  BY DEF TokenInv
<1>3. CASE Insert(s) \/ Delete(s) \/ Update(s)
  <2>1. PICK q, batch, id :
           \/ req' = [req EXCEPT ![s] = q]
           \/ req' = [req EXCEPT ![s].batch = batch, ![s].id = id]
    BY <1>3 DEF Insert, InsertNext, Delete, Update, Answer
  <2>2. s = r
    BY <2>1 DEF TypeOK
  <2>3. Delete(r) /\ req[r].ids = {}
    BY <1>2, <1>3, <2>2 DEF TokenOK, Insert, Update, Delete, At
  <2>4. docs' = docs
    BY <2>3 DEF Delete, TypeOK
  <2>5. QED
    BY <2>3, <2>4 DEF Delete
<1>4. CASE ~ (Insert(s) \/ Delete(s) \/ Update(s))
  BY <1>1, <1>4
  DEF CallInsert, CallDelete, CallUpdate, CheckOwner, CheckExisting, Get, Abort
<1>5. QED
  BY <1>3, <1>4

(***************************************************************************)
(* Whatever users, documents and batches there are, a call that comes with *)
(* a token changes nothing, however far it gets.                           *)
(***************************************************************************)
THEOREM TokensChangeNothingHolds == Spec => TokensChangeNothing
<1>1. Init => TokenInv
  BY DEF Init, TokenInv, TokenOK, NoRequest
<1>2. IInv => TypeOK
  BY DEF IInv
<1>3. TypeOK /\ TokenInv /\ [Next]_vars =>
        [\A r \in Requests :
            req[r].caller # Direct /\ req'[r] # req[r]
                => UNCHANGED <<docs, ever, inserted, deleted>>]_vars
  BY TokenChanges
<1>4. QED
  BY <1>1, <1>2, <1>3, TokenStep, IInvHolds, PTL DEF Spec, TokensChangeNothing
=============================================================================
