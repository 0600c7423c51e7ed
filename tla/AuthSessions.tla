---------------------------- MODULE AuthSessions ----------------------------
(***************************************************************************)
(* What auth_service promises of its refresh tokens, each by itself: one   *)
(* is issued for an entrance, or in exchange for one that was valid when   *)
(* its holder got hold of it and no longer is, to the user of that token;  *)
(* nobody but its user is told of it, and not before its entrance is on    *)
(* record.  Nothing here knows of requests that share a token's row, of    *)
(* endpoints, access tokens or lost answers; AuthTokens implements it.     *)
(***************************************************************************)
CONSTANTS Clients, Nobody, Tokens, Holders, None

VARIABLES
    valid,     \* the tokens that are good for an exchange
    owner,     \* [Tokens -> whose they are, Nobody's until issued]
    origin,    \* [Tokens -> what they were exchanged for, None: an entrance]
    recorded,  \* the tokens whose entrance is on record
    held,      \* [Holders -> the token each is about to exchange, or None]
    told       \* [Clients -> the token each knows, or None]

vars == <<valid, owner, origin, recorded, held, told>>

Entrance(t) == owner[t] # Nobody /\ origin[t] = None

OnRecord(t) == owner[t] # Nobody /\ (Entrance(t) => t \in recorded)

Init ==
    /\ valid = {}
    /\ owner = [t \in Tokens |-> Nobody]
    /\ origin = [t \in Tokens |-> None]
    /\ recorded = {}
    /\ held = [h \in Holders |-> None]
    /\ told = [c \in Clients |-> None]

Issue(t, c, old) ==
    /\ owner[t] = Nobody
    /\ owner' = [owner EXCEPT ![t] = c]
    /\ origin' = [origin EXCEPT ![t] = old]
    /\ valid' = valid \cup {t}

Enter(t, c) ==
    /\ Issue(t, c, None)
    /\ UNCHANGED <<recorded, held, told>>

Record(t) ==
    /\ Entrance(t)
    /\ recorded' = recorded \cup {t}
    /\ UNCHANGED <<valid, owner, origin, held, told>>

Hold(h, t) ==
    /\ held[h] = None
    /\ t \in valid /\ OnRecord(t)
    /\ held' = [held EXCEPT ![h] = t]
    /\ UNCHANGED <<valid, owner, origin, recorded, told>>

Revoke(h) ==
    /\ held[h] # None
    /\ valid' = valid \ {held[h]}
    /\ UNCHANGED <<owner, origin, recorded, held, told>>

Exchange(h, t) ==
    /\ held[h] # None /\ held[h] \notin valid
    /\ Issue(t, owner[held[h]], held[h])
    /\ held' = [held EXCEPT ![h] = None]
    /\ UNCHANGED <<recorded, told>>

LetGo(h) ==
    /\ held' = [held EXCEPT ![h] = None]
    /\ UNCHANGED <<valid, owner, origin, recorded, told>>

Tell(c, t) ==
    /\ owner[t] = c /\ OnRecord(t)
    /\ told' = [told EXCEPT ![c] = t]
    /\ UNCHANGED <<valid, owner, origin, recorded, held>>

Forget(c) ==
    /\ told' = [told EXCEPT ![c] = None]
    /\ UNCHANGED <<valid, owner, origin, recorded, held>>

Next ==
    \/ \E t \in Tokens, c \in Clients : Enter(t, c) \/ Tell(c, t)
    \/ \E t \in Tokens : Record(t)
    \/ \E h \in Holders, t \in Tokens : Hold(h, t) \/ Exchange(h, t)
    \/ \E h \in Holders : Revoke(h) \/ LetGo(h)
    \/ \E c \in Clients : Forget(c)

Spec == Init /\ [][Next]_vars

=============================================================================
