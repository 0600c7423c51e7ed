--------------------------- MODULE CatalogueReads ---------------------------
(***************************************************************************)
(* What theatre_service promises whoever asks: the answer is what          *)
(* Elasticsearch said to the question less than Bound ago, and of a film,  *)
(* a genre or a person at a time when it was there and open.  Only a page  *)
(* of a list may be that of another list of the same things, if the two    *)
(* read alike as texts, and what is asked for by a text that is also one   *)
(* of the other form may be found to have no content.                      *)
(* Nothing here knows of a cache or of how a request finds its answer;     *)
(* TheatreCache implements it.                                             *)
(***************************************************************************)
EXTENDS Integers

CONSTANTS Subjects, Changing, Requests, Asked, Text, LastPage, Nothing, Blank,
          Bound   \* how old an answer may be

VARIABLES
    now,
    open,      \* subjects that are there, without restriction
    was,       \* [Subjects -> the times it was open]
    answers    \* [Requests -> a question and its answer, or Nothing]

vars == <<now, open, was, answers>>

Single(q) == q.kind \in {"film", "genre", "person"}

\* Asked for before the last page that may be shared, by the same text.
Confusable(q, x) ==
    /\ Text[q] = Text[x]
    /\ \A y \in {q, x} : Single(y) \/ y.page <= LastPage

\* An answer to x may be given to q.
Alike(q, x) ==
    \/ x = q
    \/ /\ ~ Single(q) /\ Confusable(q, x)
       /\ q.kind = x.kind \/ {q.kind, x.kind} = {"similar", "films"}

\* The text of an id is that of a list, or the text of a list that of an id.
Garbled(q) ==
    \E x \in UNION Asked :
        /\ Confusable(q, x) /\ Single(q) # Single(x)
        /\ \/ {q.kind, x.kind} \subseteq {"film", "similar", "films"}
           \/ {q.kind, x.kind} \subseteq {"person", "persons"}

Init ==
    /\ now = 0
    /\ open \in {Subjects \ some : some \in SUBSET Changing}
    /\ was = [f \in Subjects |-> IF f \in open THEN {0} ELSE {}]
    /\ answers = [r \in Requests |-> Nothing]

Change(f) ==
    /\ open' = IF f \in open THEN open \ {f} ELSE open \cup {f}
    /\ was' = [was EXCEPT ![f] = @ \cup {now}]
    /\ UNCHANGED <<now, answers>>

\* An answer takes no time to arrive.
Tick ==
    /\ \A r \in Requests : answers[r] = Nothing
    /\ now' = now + 1
    /\ was' = [f \in Subjects |->
                  IF f \in open THEN was[f] \cup {now'} ELSE was[f]]
    /\ UNCHANGED <<open, answers>>

Answer(r, a) ==
    /\ answers[r] = Nothing
    /\ a \in [q : UNION Asked, value : {Blank} \cup [q : UNION Asked, read : 0..now]]
    /\ \/ a.value = Blank /\ Garbled(a.q)
       \/ /\ a.value # Blank
          /\ Alike(a.q, a.value.q)
          /\ now - a.value.read < Bound
          /\ Single(a.value.q) => a.value.read \in was[a.value.q.of]
    /\ answers' = [answers EXCEPT ![r] = a]
    /\ UNCHANGED <<now, open, was>>

Arrive(r) ==
    /\ answers' = [answers EXCEPT ![r] = Nothing]
    /\ UNCHANGED <<now, open, was>>

Next ==
    \/ Tick
    \/ \E f \in Changing : Change(f)
    \/ \E r \in Requests : Answer(r, answers'[r]) \/ Arrive(r)

Spec == Init /\ [][Next]_vars

=============================================================================
