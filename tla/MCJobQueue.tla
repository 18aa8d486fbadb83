----------------------------- MODULE MCJobQueue -----------------------------
(* Instances of JobQueue for TLC. *)
EXTENDS JobQueue, TLC

CONSTANTS j1, j2, j3, r1, m1, m2, w1, w2, h1, c1, c2

\* A run of two readings, one on a call-home meter, and a manual command.
MCTypeOf == j1 :> "read_current" @@ j2 :> "read_current"
MCRunOf == j1 :> r1 @@ j2 :> r1
MCMeterOf == j1 :> m1 @@ j2 :> m2

\* A scheduled load profile, which leaves no row of meter_readings, beside a relay
\* command of the same meter that only the event path may execute.
MCLiveTypeOf == j1 :> "read_load_profile" @@ j3 :> "reconnect"
MCLiveRunOf == j1 :> r1 @@ j3 :> NoRun
MCLiveMeterOf == j1 :> m2 @@ j3 :> m1

WorkerSymmetry == Permutations(Workers)
=============================================================================
