------------------------- MODULE CatalogueEtlProofs -------------------------
(***************************************************************************)
(* Proofs about CatalogueEtl, for any number of indices and documents and  *)
(* any size of batches.                                                    *)
(***************************************************************************)
EXTENDS CatalogueEtl, TLAPS

\* localize raises before a mark can be set: no mark ever says anything.
MarksInv ==
    /\ since = 0
    /\ \A i \in Indices : file[i] = 0 /\ state[i] = 0

RowsInv == \A d \in Docs : rows[d].version # 0 => rows[d].date > 0

\* What was read from a row that is about to be written: some x of Found.
ReadOK(x, i, t) == IndexOf[x.doc] = i /\ x.version <= t

\* What the loop has read is of the index it is at; it comes to the next one
\* only if there was nothing to read, for whatever is read ends the pass.
LoopInv ==
    /\ \A x \in results \cup batch : ReadOK(x, current, clock)
    /\ Earlier(current) \subseteq passed
    /\ pc = "fetch" /\ results = {} => current \in passed
    /\ pc \in {"truncate", "dump"} => current \in passed

LateInv == \A x \in late : x.version <= clock

IInv == TypeOK /\ MarksInv /\ RowsInv /\ LoopInv /\ LateInv

-----------------------------------------------------------------------------
LEMMA NumbersTyped ==
    /\ NIndices \in Nat /\ NIndices >= 1 /\ 1 \in Indices
    /\ MaxEdits \in Nat /\ MaxFaults \in Nat /\ 0 \in Dates
    /\ \A d \in Docs : IndexOf[d] \in Indices
  BY IndicesAssumption, BoundsAssumption, DocsAssumption DEF Indices, Dates

LEMMA InitIInv == Init => IInv
<1> SUFFICES ASSUME Init PROVE IInv
  OBVIOUS
<1> USE NumbersTyped DEF Init
<1>1. TypeOK
  BY DEF TypeOK
<1>2. MarksInv /\ RowsInv /\ LoopInv /\ LateInv
  BY DEF MarksInv, RowsInv, LoopInv, LateInv, Indices, Earlier
<1>3. QED
  BY <1>1, <1>2 DEF IInv

-----------------------------------------------------------------------------
\* A change of the database.
LEMMA DatabaseStep ==
    ASSUME IInv, NEW d \in Docs, NEW version \in 0..(clock + 1),
           NEW date \in 0..(clock + 1), version # 0 => date # 0,
           clock < MaxEdits, clock' = clock + 1,
           rows' = [rows EXCEPT ![d] = [version |-> version, date |-> date]],
           UNCHANGED <<index, file, loop, late, faults, passed>>
    PROVE  IInv'
<1> USE NumbersTyped DEF IInv, loop
<1>1. clock \in Nat /\ clock' \in Dates /\ 0..clock \subseteq 0..clock'
  BY DEF TypeOK, Dates
<1>2. rows' \in [Docs -> [version : 0..clock', date : 0..clock']]
  <2>1. [version |-> version, date |-> date] \in [version : 0..clock', date : 0..clock']
    OBVIOUS
  <2>2. \A e \in Docs : rows[e] \in [version : 0..clock', date : 0..clock']
    BY <1>1 DEF TypeOK
  <2>3. QED
    BY <2>1, <2>2 DEF TypeOK
<1>3. index' \in [Docs -> 0..clock']
  BY <1>1 DEF TypeOK
<1>4. TypeOK'
  BY <1>1, <1>2, <1>3 DEF TypeOK
<1>5. RowsInv'
  BY <1>1 DEF TypeOK, RowsInv
<1>6. LoopInv'
  <2>1. \A x \in results \cup batch : x.version \in Nat
    BY DEF TypeOK, Found, Dates
  <2>2. QED
    BY <1>1, <2>1 DEF LoopInv, ReadOK
<1>7. LateInv'
  <2>1. \A x \in late : x.version \in Nat
    BY DEF TypeOK, Found, Dates
  <2>2. QED
    BY <1>1, <2>1 DEF LateInv
<1>8. MarksInv'
  BY DEF MarksInv
<1>9. QED
  BY <1>4, <1>5, <1>6, <1>7, <1>8

LEMMA EditStep ==
    ASSUME IInv, NEW d \in Docs, NEW date \in Dates, Edit(d, date)
    PROVE  IInv'
<1>1. clock \in Nat /\ rows[d].date \in 0..clock
  BY NumbersTyped DEF IInv, TypeOK, Dates
<1>2. date \in 0..(clock + 1) /\ date # 0
  BY <1>1 DEF Edit
<1>3. clock + 1 \in 0..(clock + 1)
  BY <1>1
<1>4. QED
  BY <1>2, <1>3, DatabaseStep DEF Edit

LEMMA DeleteStep ==
    ASSUME IInv, NEW d \in Docs, Delete(d)
    PROVE  IInv'
<1>1. 0 \in 0..(clock + 1)
  BY NumbersTyped DEF IInv, TypeOK, Dates
<1>2. QED
  BY <1>1, DatabaseStep DEF Delete

-----------------------------------------------------------------------------
\* A step of the loop that writes nothing to an index.
LEMMA LoopStep ==
    ASSUME IInv, TypeOK', MarksInv', LoopInv', LateInv', UNCHANGED <<database, index>>
    PROVE  IInv'
  BY DEF IInv, RowsInv, database

\* The loop begins again with the first index.
LEMMA RestartStep ==
    ASSUME IInv, Restart, faults' \in 0..MaxFaults,
           UNCHANGED <<database, index, file, late>>
    PROVE  IInv'
<1> USE NumbersTyped DEF IInv, Restart, Enter, database
<1>1. TypeOK'
  BY DEF TypeOK
<1>2. MarksInv' /\ LoopInv' /\ LateInv'
  BY DEF MarksInv, LoopInv, LateInv, Indices, Earlier
<1>3. QED
  BY <1>1, <1>2, LoopStep

LEMMA BeginStep == ASSUME IInv, Begin PROVE IInv'
<1> USE NumbersTyped DEF IInv, Begin, database
<1>1. since' = 0 /\ current \in Indices
  BY DEF MarksInv, TypeOK
<1>2. \A x \in results' : x \in Found /\ ReadOK(x, current, clock)
  BY <1>1 DEF Query, Rows, Row, Found, ReadOK, TypeOK, Dates
<1>3. TypeOK'
  BY <1>1, <1>2 DEF TypeOK
<1>4. MarksInv' /\ LateInv'
  BY <1>1 DEF MarksInv, LateInv
<1>5. LoopInv'
  <2>1. results' = {} => Rows(current) = {}
    <3>1. \A d \in Rows(current) : Row(d) \in results'
      <4>1. file[current] = 0
        BY <1>1 DEF MarksInv
      <4>2. \A d \in Rows(current) : rows[d].date > 0
        BY DEF Rows, RowsInv
      <4>3. QED
        BY <4>1, <4>2 DEF Query
    <3>2. QED
      BY <3>1
  <2>2. QED
    BY <1>2, <2>1 DEF LoopInv
<1>6. QED
  BY <1>3, <1>4, <1>5, LoopStep

LEMMA FetchStep ==
    ASSUME IInv, NEW some \in SUBSET results, Fetch(some)
    PROVE  IInv'
<1> USE DEF IInv, Fetch, database
<1>1. TypeOK'
  BY DEF TypeOK
<1>2. MarksInv' /\ LateInv'
  BY DEF MarksInv, LateInv
<1>3. LoopInv'
  BY DEF LoopInv
<1>4. QED
  BY <1>1, <1>2, <1>3, LoopStep

LEMMA NoMoreRowsStep == ASSUME IInv, NoMoreRows PROVE IInv'
<1> USE DEF IInv, NoMoreRows, database
<1>1. TypeOK'
  BY DEF TypeOK
<1>2. MarksInv' /\ LateInv'
  BY DEF MarksInv, LateInv, TypeOK
<1>3. LoopInv'
  BY DEF LoopInv
<1>4. QED
  BY <1>1, <1>2, <1>3, LoopStep

LEMMA TruncateStep == ASSUME IInv, Truncate PROVE IInv'
<1> USE NumbersTyped DEF IInv, Truncate, database
<1>1. TypeOK'
  BY DEF TypeOK
<1>2. MarksInv' /\ LateInv'
  BY DEF MarksInv, LateInv
<1>3. LoopInv'
  BY DEF LoopInv
<1>4. QED
  BY <1>1, <1>2, <1>3, LoopStep

LEMMA DumpStep == ASSUME IInv, Dump PROVE IInv'
<1> USE NumbersTyped DEF IInv, Dump, Enter, database
<1>1. current \in Indices /\ current \in passed
  BY DEF TypeOK, LoopInv
<1>2. current' \in Indices
        /\ \/ Earlier(current') = {}
           \/ current' # 1 /\ Earlier(current') = Earlier(current) \cup {current}
  BY <1>1 DEF NextIndex, Indices, Earlier
<1>3. TypeOK'
  BY <1>2 DEF TypeOK
<1>4. MarksInv' /\ LateInv'
  BY DEF MarksInv, LateInv
<1>5. LoopInv'
  BY <1>1, <1>2 DEF LoopInv
<1>6. QED
  BY <1>3, <1>4, <1>5, LoopStep

LEMMA SendFailsStep == ASSUME IInv, SendFails PROVE IInv'
<1> USE NumbersTyped DEF IInv, SendFails, database
<1>1. TypeOK'
  BY DEF TypeOK
<1>2. MarksInv' /\ LoopInv'
  BY DEF MarksInv, LoopInv
<1>3. LateInv'
  BY DEF LateInv, LoopInv, ReadOK
<1>4. QED
  BY <1>1, <1>2, <1>3, LoopStep

LEMMA CrashStep == ASSUME IInv, Crash PROVE IInv'
<1> USE NumbersTyped DEF IInv, Crash, database
<1>1. TypeOK'
  BY DEF TypeOK
<1>2. MarksInv' /\ LoopInv'
  BY DEF MarksInv, LoopInv, Indices, Earlier
<1>3. LateInv'
  BY DEF LateInv, LoopInv, ReadOK
<1>4. QED
  BY <1>1, <1>2, <1>3, LoopStep

LEMMA LoseLateStep == ASSUME IInv, NEW x \in late, LoseLate(x) PROVE IInv'
<1> USE DEF IInv, LoseLate, database, loop
<1>1. TypeOK'
  BY DEF TypeOK
<1>2. MarksInv' /\ LoopInv' /\ LateInv'
  BY DEF MarksInv, LoopInv, LateInv
<1>3. QED
  BY <1>1, <1>2, LoopStep

-----------------------------------------------------------------------------
\* What a bulk request, or a late part of one, leaves in the indices.
LEMMA WrittenTyped ==
    ASSUME IInv, NEW some \in SUBSET Found, index' = Written(some),
           \A x \in some : x.version <= clock
    PROVE  index' \in [Docs -> 0..clock]
<1>1. ASSUME NEW d \in Docs
      PROVE  index'[d] \in 0..clock
  <2>1. CASE \E x \in some : x.doc = d
    <3> PICK x : x = CHOOSE y \in some : y.doc = d
      OBVIOUS
    <3>1. x \in some /\ x.doc = d
      BY <2>1
    <3>2. index'[d] = x.version
      BY <2>1 DEF Written
    <3>3. x.version \in Nat /\ clock \in Nat
      BY <3>1, NumbersTyped DEF Found, Dates, IInv, TypeOK
    <3>4. QED
      BY <3>1, <3>2, <3>3
  <2>2. CASE ~ \E x \in some : x.doc = d
    BY <2>2 DEF Written, IInv, TypeOK
  <2>3. QED
    BY <2>1, <2>2
<1>2. index' = [d \in Docs |-> index'[d]]
  BY DEF Written
<1>3. QED
  BY <1>1, <1>2

LEMMA SendOkStep == ASSUME IInv, SendOk PROVE IInv'
<1> USE DEF IInv, SendOk, database
<1>1. batch \in SUBSET Found /\ \A x \in batch : x.version <= clock
  BY DEF TypeOK, LoopInv, ReadOK
<1>2. index' \in [Docs -> 0..clock]
  BY <1>1, WrittenTyped
<1>3. TypeOK'
  BY <1>2 DEF TypeOK
<1>4. MarksInv' /\ RowsInv' /\ LoopInv' /\ LateInv'
  BY DEF MarksInv, RowsInv, LoopInv, LateInv
<1>5. QED
  BY <1>3, <1>4

LEMMA WriteLateStep == ASSUME IInv, NEW x \in late, WriteLate(x) PROVE IInv'
<1> USE DEF IInv, WriteLate, database, loop
<1>1. {x} \in SUBSET Found /\ \A y \in {x} : y.version <= clock
  BY DEF TypeOK, LateInv
<1>2. index' \in [Docs -> 0..clock]
  BY <1>1, WrittenTyped
<1>3. TypeOK'
  BY <1>2 DEF TypeOK
<1>4. MarksInv' /\ RowsInv' /\ LoopInv' /\ LateInv'
  BY DEF MarksInv, RowsInv, LoopInv, LateInv
<1>5. QED
  BY <1>3, <1>4

-----------------------------------------------------------------------------
LEMMA NextIInv == IInv /\ [Next]_vars => IInv'
<1> SUFFICES ASSUME IInv, [Next]_vars PROVE IInv'
  OBVIOUS
<1>1. CASE UNCHANGED vars
  <2> USE <1>1 DEF vars, IInv, database, loop
  <2>1. TypeOK'
    BY DEF TypeOK
  <2>2. MarksInv' /\ RowsInv' /\ LoopInv' /\ LateInv'
    BY DEF MarksInv, RowsInv, LoopInv, LateInv
  <2>3. QED
    BY <2>1, <2>2
<1>2. ASSUME NEW d \in Docs, NEW date \in Dates, Edit(d, date) PROVE IInv'
  BY <1>2, EditStep
<1>3. ASSUME NEW d \in Docs, Delete(d) PROVE IInv'
  BY <1>3, DeleteStep
<1>4. CASE Advance \/ Start
  <2>1. faults' \in 0..MaxFaults
    BY <1>4 DEF Advance, Start, IInv, TypeOK
  <2>2. QED
    BY <1>4, <2>1, RestartStep DEF Advance, Start
<1>5. CASE BeginFails
  <2>1. faults' \in 0..MaxFaults
    BY <1>5, NumbersTyped DEF BeginFails, IInv, TypeOK
  <2>2. QED
    BY <1>5, <2>1, RestartStep DEF BeginFails
<1>6. CASE Begin \/ NoMoreRows \/ Truncate \/ Dump \/ SendOk \/ SendFails \/ Crash
  BY <1>6, BeginStep, NoMoreRowsStep, TruncateStep, DumpStep, SendOkStep,
     SendFailsStep, CrashStep
<1>7. ASSUME NEW some \in SUBSET results, Fetch(some) PROVE IInv'
  BY <1>7, FetchStep
<1>8. ASSUME NEW x \in late, WriteLate(x) \/ LoseLate(x) PROVE IInv'
  BY <1>8, WriteLateStep, LoseLateStep
<1>9. QED
  BY <1>1, <1>2, <1>3, <1>4, <1>5, <1>6, <1>7, <1>8
  DEF Next, UpdateIndex, Faults

LEMMA IInvHolds == Spec => []IInv
  BY InitIInv, NextIInv, PTL DEF Spec

-----------------------------------------------------------------------------
(***************************************************************************)
(* Every variable keeps its type.                                          *)
(***************************************************************************)
THEOREM TypeOKHolds == Spec => []TypeOK
<1>1. IInv => TypeOK
  BY DEF IInv
<1>2. QED
  BY <1>1, IInvHolds, PTL

(***************************************************************************)
(* Every row that the index lacks is asked for by the next pass of         *)
(* update_index, since no pass lives to set a mark after a row.            *)
(***************************************************************************)
THEOREM NothingBehindTheMarkHolds == Spec => []NothingBehindTheMark
<1>1. ASSUME IInv PROVE NothingBehindTheMark
  <2>1. \A d \in Docs : file[IndexOf[d]] = 0
    BY <1>1, NumbersTyped DEF IInv, MarksInv
  <2>2. QED
    BY <1>1, <2>1 DEF IInv, RowsInv, NothingBehindTheMark
<1>2. QED
  BY <1>1, IInvHolds, PTL

(***************************************************************************)
(* A pass sends documents to an index only after it found the tables of    *)
(* all the indices before it without a row.                                *)
(***************************************************************************)
THEOREM IndexWaitsForEarlierOnesHolds == Spec => []IndexWaitsForEarlierOnes
<1>1. IInv => IndexWaitsForEarlierOnes
  BY DEF IInv, LoopInv, IndexWaitsForEarlierOnes
<1>2. QED
  BY <1>1, IInvHolds, PTL
=============================================================================
