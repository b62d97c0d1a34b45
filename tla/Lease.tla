-------------------------------- MODULE Lease --------------------------------
(***************************************************************************)
(* What the lock of a target promises, without rows or statements.  A      *)
(* client is granted the lease, may enter, leaves, and returns the lease.  *)
(* The lease may expire at any time; a client caught inside is overdue,    *)
(* and the others are no longer protected from it.                         *)
(***************************************************************************)
CONSTANTS Clients, Nobody

VARIABLES
    holder,   \* the client that holds the unexpired lease, or Nobody
    inside,   \* the clients at the protected resource
    overdue   \* those whose lease expired before they left

leaseVars == <<holder, inside, overdue>>

LeaseTypeOK ==
    /\ holder \in Clients \cup {Nobody}
    /\ inside \subseteq Clients
    /\ overdue \subseteq inside

Init == holder = Nobody /\ inside = {} /\ overdue = {}

\* The lease is free; a client still inside from an expired lease gets none.
Grant(c) ==
    /\ holder = Nobody
    /\ c \notin inside
    /\ holder' = c
    /\ UNCHANGED <<inside, overdue>>

\* With the lease in hand, or after it expired and before anybody took it.
Enter(c) ==
    /\ c \notin inside
    /\ holder \in {c, Nobody}
    /\ inside' = inside \cup {c}
    /\ overdue' = IF holder = c THEN overdue ELSE overdue \cup {c}
    /\ UNCHANGED holder

Leave(c) ==
    /\ c \in inside
    /\ inside' = inside \ {c}
    /\ overdue' = overdue \ {c}
    /\ UNCHANGED holder

Return ==
    /\ holder \in Clients \ inside
    /\ holder' = Nobody
    /\ UNCHANGED <<inside, overdue>>

Expire ==
    /\ holder \in Clients
    /\ holder' = Nobody
    /\ overdue' = overdue \cup ({holder} \cap inside)
    /\ UNCHANGED inside

Next ==
    \/ \E c \in Clients : Grant(c) \/ Enter(c) \/ Leave(c)
    \/ Return
    \/ Expire

Spec == Init /\ [][Next]_leaseVars

\* Clients within their lease are never inside together.
Exclusion == \A c, d \in inside \ overdue : c = d
=============================================================================
