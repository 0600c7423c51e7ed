----------------------------- MODULE Collection -----------------------------
(***************************************************************************)
(* What a collection of likes, comments or bookmarks promises of its       *)
(* documents, each by itself: it is stored once, changes while it is       *)
(* there, and is gone for good once it is removed; at no time do two have  *)
(* the same key if keys are unique.  What is reported is so: inserted      *)
(* documents have been stored, deleted ones are gone.  Nothing here knows  *)
(* of calls, of checks made before them or of batches; UgcCrud implements  *)
(* it.                                                                     *)
(***************************************************************************)
CONSTANTS Ids, Keys, None, Unique

VARIABLES
    docs,      \* [Ids -> its key, or None]
    stored,    \* those ever stored
    inserted,  \* those reported as inserted
    deleted    \* those reported as deleted

vars == <<docs, stored, inserted, deleted>>

There == {i \in Ids : docs[i] # None}

Free(i, key) == Unique => \A j \in There \ {i} : docs[j] # key

Init ==
    /\ docs = [i \in Ids |-> None]
    /\ stored = {} /\ inserted = {} /\ deleted = {}

\* A document is stored, which may be the last of those to be reported.
Store(i, key, reported) ==
    /\ i \notin stored
    /\ Free(i, key)
    /\ docs' = [docs EXCEPT ![i] = key]
    /\ stored' = stored \cup {i}
    /\ reported \subseteq stored'
    /\ inserted' = inserted \cup reported
    /\ UNCHANGED deleted

Change(i, key) ==
    /\ i \in There
    /\ Free(i, key)
    /\ docs' = [docs EXCEPT ![i] = key]
    /\ UNCHANGED <<stored, inserted, deleted>>

\* Some of them may have been removed before.
Remove(ids) ==
    /\ ids \subseteq stored
    /\ docs' = [i \in Ids |-> IF i \in ids THEN None ELSE docs[i]]
    /\ deleted' = deleted \cup ids
    /\ UNCHANGED <<stored, inserted>>

Next ==
    \/ \E i \in Ids, key \in Keys, reported \in SUBSET Ids : Store(i, key, reported)
    \/ \E i \in Ids, key \in Keys : Change(i, key)
    \/ \E ids \in SUBSET Ids : Remove(ids)

Spec == Init /\ [][Next]_vars

=============================================================================
