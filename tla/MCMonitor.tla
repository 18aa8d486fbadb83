------------------------------ MODULE MCMonitor ------------------------------
(* Small instances of Monitor and, in it, of MeterRegistry.  Each origin lets one kind of *)
(* thing happen. *)
EXTENDS Monitor

CONSTANTS g1, g2, s1, s2, p1, p2, p3, c1, c2, r1

MCBoot == [g \in Gateways |-> [main |-> p1, extra |-> {p2}]]
MCDials == [s \in Serials |-> IF s = s1 THEN {<<g1, p1>>, <<g2, p1>>} ELSE {<<g1, p2>>}]
MCTypeOf == [s \in Schedules |-> IF s = r1 THEN "read_rated_current" ELSE "read_current"]

Off == [row |-> "none", enabled |-> FALSE, list |-> {}]
On(list) == [row |-> "there", enabled |-> TRUE, list |-> list]
Meter(id, serial, status) == [id |-> id, serial |-> serial, status |-> status, active |-> TRUE,
                              gateway |-> g1, found |-> FALSE]
Acts(n, kinds) == [left |-> n, kinds |-> kinds]

\* One gateway, no meters, a list of each kind.
Empty == [rows |-> {}, last |-> 0,
          schedules |-> [s \in Schedules |-> IF s = c2 THEN Off ELSE On({})], approved |-> {g1},
          used |-> {}, ran |-> {}, hands |-> Acts(0, {}), faults |-> 0, until |-> 1]

\* Two newcomers, while the schedules change or something breaks.
Newcomers == [Empty EXCEPT !.hands = Acts(1, {"schedules"}), !.faults = 1]

\* A meter that was found and never activated, with a list of it.
Known == [Empty EXCEPT !.rows = {Meter(1, s1, "INSTALLED")}, !.last = 1,
                       !.schedules = [s \in Schedules |-> IF s = r1 THEN Off ELSE On({1})]]
Tended == [Known EXCEPT !.hands = Acts(1, {"meters", "schedules", "jobs"})]
Renamed == [Known EXCEPT !.hands = Acts(2, {"meters"})]

\* A second gateway comes, or the first one goes.
Registry == [Empty EXCEPT !.hands = Acts(2, {"gateways", "meters"})]

\* Ports are changed, and gateways restarted; no schedules.
Unlisted == [Empty EXCEPT !.schedules = [s \in Schedules |-> Off]]
Ported == [Unlisted EXCEPT !.hands = Acts(1, {"ports"}), !.faults = 1]
PortedTwice == [Unlisted EXCEPT !.hands = Acts(2, {"ports"})]

\* No gateway is approved: a meter that is there, and time.
Watched == [Unlisted EXCEPT !.approved = {}, !.rows = {Meter(1, s1, "ACTIVE")}, !.last = 1,
                            !.used = {1}, !.until = 6, !.hands = Acts(2, {"lives"})]
Disturbed == [Watched EXCEPT !.until = 4, !.hands = Acts(2, {"lives", "meters"}), !.faults = 1]
Streamed == [Watched EXCEPT !.ran = {c1}, !.until = 3,
                             !.hands = Acts(3, {"lives", "runs", "streams"})]

MCOrigins == {Newcomers, Tended, Renamed, Registry, Ported, PortedTwice,
              Watched, Disturbed, Streamed}
=============================================================================
