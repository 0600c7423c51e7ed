---------------------------- MODULE CatalogueEtl ----------------------------
(***************************************************************************)
(* etl_service: an endless loop that copies the persons, the genres and    *)
(* the movies of Postgres into three Elasticsearch indices, in that order, *)
(* each from the change date its state file has for it.                    *)
(*                                                                         *)
(* What a document says is a version; a row and its document share a name. *)
(* Dates are numbers; 0 is datetime.min, no version and no mark.           *)
(***************************************************************************)
EXTENDS Integers, FiniteSets

CONSTANTS
    NIndices,   \* the indices, in the order main goes through them
    Docs,       \* rows, and the documents made of them
    IndexOf,    \* [Docs -> Indices]
    BatchSize,  \* rows a fetchmany returns
    MaxEdits,   \* bound: changes of the database
    MaxFaults   \* bound: failures

Indices == 1..NIndices
Dates == 0..MaxEdits

ASSUME IndicesAssumption == NIndices \in Nat \ {0}
ASSUME DocsAssumption == IsFiniteSet(Docs) /\ IndexOf \in [Docs -> Indices]
ASSUME BatchAssumption == BatchSize \in Nat \ {0}
ASSUME BoundsAssumption == MaxEdits \in Nat /\ MaxFaults \in Nat

\* A row as a query returns it; date is its last_change_date.
Found == [doc : Docs, version : Dates, date : Dates]

VARIABLES
    clock,    \* changes of the database so far
    rows,     \* [Docs -> [version, date]], version 0: no such row
    index,    \* [Docs -> version of the document], 0: no such document
    file,     \* the marks in the state file
    state,    \* the marks StateManager has loaded
    pc,       \* where update_index is
    current,  \* the index it is at
    since,    \* last_sync_state
    results,  \* what the cursor has left
    batch,    \* rows
    late,     \* documents of failed requests that may yet be written
    faults,
    passed    \* indices this pass found without a row (history)

database == <<clock, rows>>
loop == <<state, pc, current, since, results, batch>>
vars == <<database, index, file, loop, late, faults, passed>>

-----------------------------------------------------------------------------
Rows(i) == {d \in Docs : IndexOf[d] = i /\ rows[d].version # 0}

Row(d) == [doc |-> d, version |-> rows[d].version, date |-> rows[d].date]

\* get_person_index_data and the like: HAVING max(...) > last_sync_state.
Query(i, mark) == {Row(d) : d \in {e \in Rows(i) : rows[e].date > mark}}

Earlier(i) == 1..(i - 1)

\* Slip: the loop goes past the last index.
NextIndexUnbounded(i) == i + 1

\* for item in data, in while True.
NextIndex(i) == IF i = NIndices THEN 1 ELSE i + 1

\* update_index is called for an index, the first one in a new pass.
Enter(i) ==
    /\ pc' = "begin"
    /\ current' = i
    /\ since' = 0
    /\ results' = {}
    /\ batch' = {}
    /\ passed' = IF i = 1 THEN {} ELSE passed

\* Whatever raises in a pass is caught by main, which starts another pass.
Restart == Enter(1) /\ UNCHANGED state

-----------------------------------------------------------------------------
Init ==
    /\ clock = 0
    /\ rows = [d \in Docs |-> [version |-> 0, date |-> 0]]
    /\ index = [d \in Docs |-> 0]
    /\ file = [i \in Indices |-> 0]
    /\ state = [i \in Indices |-> 0]
    /\ pc = "begin" /\ current = 1 /\ since = 0
    /\ results = {} /\ batch = {}
    /\ late = {}
    /\ faults = 0
    /\ passed = {}

(***************************************************************************)
(* The database, as movies_admin changes it.  What a document says changes *)
(* with a date of now; or with an older one, for a transaction stamps a    *)
(* row before it commits; or with the row's date as it was, for taking a   *)
(* link or a related row away leaves no date behind, nor does a person's   *)
(* new link.                                                               *)
(***************************************************************************)
Edit(d, date) ==
    /\ clock < MaxEdits
    /\ clock' = clock + 1
    /\ date \in {clock, clock + 1, rows[d].date} \ {0}
    /\ rows' = [rows EXCEPT ![d] = [version |-> clock', date |-> date]]
    /\ UNCHANGED <<index, file, loop, late, faults, passed>>

Delete(d) ==
    /\ clock < MaxEdits
    /\ rows[d].version # 0
    /\ clock' = clock + 1
    /\ rows' = [rows EXCEPT ![d] = [version |-> 0, date |-> 0]]
    /\ UNCHANGED <<index, file, loop, late, faults, passed>>

(***************************************************************************)
(* update_index                                                            *)
(***************************************************************************)
\* The state file is read, the index created and the query run, all rows of
\* which come from one snapshot.  A file that is missing or broken is read as
\* one without marks.
Begin ==
    /\ pc = "begin"
    /\ state' = file
    /\ since' = file[current]
    /\ results' = Query(current, file[current])
    /\ pc' = "fetch"
    /\ passed' = IF Rows(current) = {} THEN passed \cup {current} ELSE passed
    /\ UNCHANGED <<database, index, file, current, batch, late, faults>>

\* Postgres or Elasticsearch cannot be reached.
BeginFails ==
    /\ pc \in {"begin", "fetch"}
    /\ faults < MaxFaults
    /\ faults' = faults + 1
    /\ Restart
    /\ UNCHANGED <<database, index, file, late>>

\* Persons and genres come in the order of their names and movies in that of
\* the film's own date, which is not the date compared with the mark.
Fetch(some) ==
    /\ pc = "fetch"
    /\ some \subseteq results
    /\ some # {}
    /\ \/ Cardinality(some) = BatchSize
       \/ Cardinality(some) < BatchSize /\ some = results
    /\ batch' = some
    /\ results' = results \ some
    /\ pc' = "send"
    /\ UNCHANGED <<database, index, file, state, current, since, late, faults,
                   passed>>

Written(some) ==
    [d \in Docs |-> IF \E x \in some : x.doc = d
                    THEN (CHOOSE x \in some : x.doc = d).version ELSE index[d]]

SendOk ==
    /\ pc = "send"
    /\ index' = Written(batch)
    /\ pc' = "advance"
    /\ UNCHANGED <<database, file, state, current, since, results, batch, late,
                   faults, passed>>

\* A bulk request fails or is not answered: its documents may have been
\* written, some of them, now or later.  The retry is given the generator the
\* first attempt has used up, sends nothing and returns.
SendFails ==
    /\ pc = "send"
    /\ faults < MaxFaults
    /\ faults' = faults + 1
    /\ late' = late \cup batch
    /\ pc' = "advance"
    /\ UNCHANGED <<database, index, file, state, current, since, results, batch,
                   passed>>

\* Elasticsearch gets to a document of a failed request, or never will.
WriteLate(x) ==
    /\ x \in late
    /\ late' = late \ {x}
    /\ index' = Written({x})
    /\ UNCHANGED <<database, file, loop, faults, passed>>

LoseLate(x) ==
    /\ x \in late
    /\ late' = late \ {x}
    /\ UNCHANGED <<database, index, file, loop, faults, passed>>

\* Slip: the dates are taken as they are.
AdvanceAware ==
    /\ pc = "advance"
    /\ since' = CHOOSE m \in {x.date : x \in batch} \cup {since} :
                   /\ m >= since
                   /\ \A x \in batch : m >= x.date
    /\ batch' = {}
    /\ pc' = "fetch"
    /\ UNCHANGED <<database, index, file, state, current, results, late, faults,
                   passed>>

\* Slip: what an index raises is caught before the next index.
AdvanceSkips ==
    /\ pc = "advance"
    /\ Enter(NextIndex(current))
    /\ UNCHANGED <<database, index, file, state, late, faults>>

\* pytz.UTC.localize refuses a datetime that has a zone, and the columns, of
\* type timestamp with time zone, hold no other: ValueError.
Advance ==
    /\ pc = "advance"
    /\ Restart
    /\ UNCHANGED <<database, index, file, late, faults>>

\* The generator ends; set_state puts the mark into the state.
NoMoreRows ==
    /\ pc = "fetch"
    /\ results = {}
    /\ state' = [state EXCEPT ![current] = since]
    /\ pc' = "truncate"
    /\ UNCHANGED <<database, index, file, current, since, results, batch, late,
                   faults, passed>>

\* open(mode="w"), then json.dump.
Truncate ==
    /\ pc = "truncate"
    /\ file' = [i \in Indices |-> 0]
    /\ pc' = "dump"
    /\ UNCHANGED <<database, index, state, current, since, results, batch, late,
                   faults, passed>>

Dump ==
    /\ pc = "dump"
    /\ file' = state
    /\ Enter(NextIndex(current))
    /\ UNCHANGED <<database, index, state, late, faults>>

\* The container ends, in a request perhaps.  Nothing in docker-compose.yml
\* starts it again; somebody may.
Crash ==
    /\ pc # "down"
    /\ faults < MaxFaults
    /\ faults' = faults + 1
    /\ late' = IF pc = "send" THEN late \cup batch ELSE late
    /\ pc' = "down"
    /\ current' = 1 /\ since' = 0
    /\ results' = {} /\ batch' = {}
    /\ UNCHANGED <<database, index, file, state, passed>>

Start ==
    /\ pc = "down"
    /\ Restart
    /\ UNCHANGED <<database, index, file, late, faults>>

-----------------------------------------------------------------------------
UpdateIndex ==
    \/ Begin
    \/ \E some \in SUBSET results : Fetch(some)
    \/ SendOk
    \/ Advance
    \/ NoMoreRows
    \/ Truncate
    \/ Dump

Faults ==
    \/ BeginFails
    \/ SendFails
    \/ Crash
    \/ Start
    \/ \E x \in late : WriteLate(x) \/ LoseLate(x)

Next ==
    \/ \E d \in Docs, date \in Dates : Edit(d, date)
    \/ \E d \in Docs : Delete(d)
    \/ UpdateIndex
    \/ Faults

Spec == Init /\ [][Next]_vars

\* The loop never waits for anything but the servers it calls.
FairSpec == Spec /\ WF_vars(UpdateIndex)

-----------------------------------------------------------------------------
(***************************************************************************)
(* Properties                                                              *)
(***************************************************************************)
\* Every variable has its type.
TypeOK ==
    /\ clock \in Dates
    /\ rows \in [Docs -> [version : 0..clock, date : 0..clock]]
    /\ index \in [Docs -> 0..clock]
    /\ file \in [Indices -> Dates] /\ state \in [Indices -> Dates]
    /\ pc \in {"begin", "fetch", "send", "advance", "truncate", "dump", "down"}
    /\ current \in Indices
    /\ since \in Dates
    /\ results \subseteq Found /\ batch \subseteq Found /\ late \subseteq Found
    /\ faults \in 0..MaxFaults
    /\ passed \subseteq Indices

(***************************************************************************)
(* A row whose document is missing or old is in what the next pass asks    *)
(* for: no late commit, no change that leaves no date, no lost request and *)
(* no crash while the state file is written puts it behind the mark.       *)
(***************************************************************************)
NothingBehindTheMark ==
    \A d \in Docs :
        rows[d].version \notin {0, index[d]} => rows[d].date > file[IndexOf[d]]

(***************************************************************************)
(* A pass ends with the first batch of the first index that has a row: it  *)
(* sends documents to an index only if it found the tables of all indices  *)
(* before that one without a row.                                          *)
(***************************************************************************)
IndexWaitsForEarlierOnes == pc = "send" => Earlier(current) \subseteq passed

(***************************************************************************)
(* While the rows of an index fit into one batch, the indices before it    *)
(* have none and the loop is up, the documents come to say what the rows   *)
(* say, whatever failed on the way: the next pass makes good for a retry   *)
(* that sends nothing.                                                     *)
(***************************************************************************)
Reached(d) ==
    /\ rows[d].version # 0
    /\ \A i \in Earlier(IndexOf[d]) : Rows(i) = {}
    /\ Cardinality(Rows(IndexOf[d])) <= BatchSize

ReachedIsCurrent ==
    \A d \in Docs :
        <>[](Reached(d) /\ pc # "down") => <>[](index[d] = rows[d].version)
=============================================================================
