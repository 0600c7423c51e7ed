--------------------------- MODULE EventDelivery ---------------------------
(***************************************************************************)
(* What the pipeline from the topic to ClickHouse promises of an event: at *)
(* least once.  From its publication an event is owed: it will be handed   *)
(* over again after any crash, until it is in a table or retention has     *)
(* removed it from the topic.  Nothing here knows of offsets, buffers or   *)
(* callbacks; EventEtl implements it.                                      *)
(***************************************************************************)
CONSTANT Events

VARIABLES
    published,  \* the events in the topic, past and present
    owed,       \* those the topic would hand over again
    held,       \* those a running process holds in memory
    delivered,  \* those that are in a table
    expired     \* those retention has removed

vars == <<published, owed, held, delivered, expired>>

Init ==
    /\ published = {}
    /\ owed = {}
    /\ held = {}
    /\ delivered = {}
    /\ expired = {}

Publish(e) ==
    /\ e \notin published
    /\ published' = published \cup {e}
    /\ owed' = owed \cup {e}
    /\ UNCHANGED <<held, delivered, expired>>

Expire(e) ==
    /\ e \in published \ expired
    /\ expired' = expired \cup {e}
    /\ owed' = owed \ {e}
    /\ UNCHANGED <<published, held, delivered>>

\* An event fetched before retention removed it may still be taken.
Take(e) ==
    /\ e \in owed \cup expired
    /\ held' = held \cup {e}
    /\ UNCHANGED <<published, owed, delivered, expired>>

\* A batch reaches its table.  What is held of it afterwards is up to what
\* the process learns of the insert, and whether it survives it.
Deliver(batch) ==
    /\ batch \subseteq held
    /\ delivered' = delivered \cup batch
    /\ held' \in {held \ batch, held, {}}
    /\ UNCHANGED <<published, owed, expired>>

\* Memory is lost; no event is owed any less for it.
Crash ==
    /\ held' = {}
    /\ UNCHANGED <<published, owed, delivered, expired>>

\* Only what has been delivered may be acknowledged.
Acknowledge(batch) ==
    /\ batch \subseteq delivered
    /\ owed' = owed \ batch
    /\ UNCHANGED <<published, held, delivered, expired>>

Next ==
    \/ \E e \in Events : Publish(e) \/ Expire(e) \/ Take(e)
    \/ \E batch \in SUBSET Events : Deliver(batch) \/ Acknowledge(batch)
    \/ Crash

Spec == Init /\ [][Next]_vars

=============================================================================
