---------------------------- MODULE MCScheduler ----------------------------
(* An instance of Scheduler for TLC. *)
EXTENDS Scheduler, TLC

CONSTANTS daily, second, m1, obis1

\* Two schedules that ask for the same reading of the day; or the rated current, tried in
\* every slot until it is there, beside a load profile on the terms of a reading.
MCJobTypes == {daily :> READ @@ second :> READ, daily :> RATED @@ second :> PROFILE}
MCObisOf == [s \in {daily, second} |-> {obis1}]
MCFires == daily :> {0, 1} @@ second :> {1}
MCByHand == {READ}
\* The second schedule has no list: it is for every active meter.
MCGroup == daily :> {m1} @@ second :> {}
=============================================================================
