--------------------------- MODULE MCCallHomePool ---------------------------
(* Instances of CallHomePool for TLC. *)
EXTENDS CallHomePool, TLC

CONSTANTS s1, s2, w1, j1, j2, j3

\* A reading of one meter; the other one only calls.
ReadingSerialOf == j1 :> s1
ReadingKindOf == j1 :> "read"

\* A disconnection, a look at the relay it moves, and a load profile.
RelaySerialOf == [j \in {j1, j2, j3} |-> s1]
RelayKindOf == j1 :> "control" @@ j2 :> "relay_state" @@ j3 :> "profile"
=============================================================================
