----------------------------- MODULE MFibRoutes -----------------------------
(***************************************************************************)
(* What an MFIB table promises its sources, with entries, entry locks,    *)
(* route counts and resync marks abstracted away: the table exists while *)
(* some source holds it; a source that holds the table may add or remove *)
(* its own contribution to any prefix and nobody else's; a source that    *)
(* lets go of the table loses all its routes.                             *)
(***************************************************************************)
EXTENDS FiniteSets

CONSTANTS Sources, Prefixes

VARIABLES
    exists,  \* the table exists
    users,   \* the sources holding at least one lock on it
    routes   \* prefix -> the sources contributing a route for it

vars == << exists, users, routes >>

Init ==
    /\ exists = FALSE
    /\ users = {}
    /\ routes = [p \in Prefixes |-> {}]

\* A source takes the table, creating it if there is none.
Open(s) ==
    /\ s \notin users
    /\ exists' = TRUE
    /\ users' = users \cup {s}
    /\ UNCHANGED routes

\* A holder sets its own contribution to every prefix to the set A.
Change(s) ==
    /\ exists /\ s \in users
    /\ \E A \in SUBSET Prefixes :
          routes' = [p \in Prefixes |-> IF p \in A THEN routes[p] \cup {s}
                                                   ELSE routes[p] \ {s}]
    /\ UNCHANGED << exists, users >>

\* A holder lets go: its routes go, and the last holder takes the table with it.
Leave(s) ==
    /\ s \in users
    /\ users' = users \ {s}
    /\ routes' = [p \in Prefixes |-> routes[p] \ {s}]
    /\ exists' = (users' # {})

Next == \E s \in Sources : Open(s) \/ Change(s) \/ Leave(s)

Spec == Init /\ [][Next]_vars
=============================================================================
