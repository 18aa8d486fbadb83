-------------------------- MODULE ConnectionLease --------------------------
(***************************************************************************)
(* What CallHomePool promises about a call-home connection, without saying *)
(* how: it waits, it is leased to one user at most, it is closed for good. *)
(* Responsibility passes to the user with the lease and never comes back   *)
(* to the pool, as the docstring of claim says.                            *)
(***************************************************************************)
CONSTANTS Conns, Users, NoUser

VARIABLES
    state,  \* "new", "waiting", "leased" or "closed"
    user    \* who has the lease

Init ==
    /\ state = [c \in Conns |-> "new"]
    /\ user = [c \in Conns |-> NoUser]

Accepted(c) ==
    /\ state[c] = "new"
    /\ state'[c] = "waiting"
    /\ user'[c] = NoUser

Granted(c) ==
    /\ state[c] = "waiting"
    /\ state'[c] = "leased"
    /\ user'[c] \in Users

\* Evicted or turned away, or given up by its user.
Closed(c) ==
    /\ state[c] \in {"waiting", "leased"}
    /\ state'[c] = "closed"
    /\ user'[c] = NoUser

Untouched(c) ==
    /\ state'[c] = state[c]
    /\ user'[c] = user[c]

\* One critical section may accept a connection and evict another, or grant all
\* connections of a meter.
Next == \A c \in Conns : Accepted(c) \/ Granted(c) \/ Closed(c) \/ Untouched(c)

Spec == Init /\ [][Next]_<<state, user>>
=============================================================================
