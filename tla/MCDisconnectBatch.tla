-------------------------- MODULE MCDisconnectBatch --------------------------
(* Instances of DisconnectBatch for TLC. *)
EXTENDS DisconnectBatch, TLC

CONSTANTS a1, a2, a3, b1, b2, b3, r1, m1, m2, m3, q1, q2, k1, w1, w2, h1, c1, c2

\* Billing: the disconnection of two meters with an address and of a serial number
\* nobody knows, sent twice under one key; and one of them reconnected by hand.
BillingJobs == {a1, a2, a3, b1, b2, b3, r1}
BillingTypeOf == [j \in BillingJobs |-> IF j = r1 THEN "reconnect" ELSE "disconnect"]
BillingRunOf == [j \in BillingJobs |-> NoRun]
BillingMeterOf ==
    [j \in {a1, b1, r1} |-> m1] @@ [j \in {a2, b2} |-> m2] @@ [j \in {a3, b3} |-> m3]
BillingRequestOf ==
    [j \in {a1, a2, a3} |-> q1] @@ [j \in {b1, b2, b3} |-> q2] @@ r1 :> NoRequest
BillingKeyOf == q1 :> k1 @@ q2 :> k1

\* The relay of one meter that calls home: a batch of one disconnection, and
\* a reconnection by hand.
RelayTypeOf == a1 :> "disconnect" @@ r1 :> "reconnect"
RelayRunOf == [j \in {a1, r1} |-> NoRun]
RelayMeterOf == [j \in {a1, r1} |-> m1]
RelayRequestOf == a1 :> q1 @@ r1 :> NoRequest
RelayKeyOf == q1 :> k1

\* The workers are interchangeable, and so are the two requests with their items.
Exchange ==
    (q1 :> q2 @@ q2 :> q1) @@ (a1 :> b1 @@ b1 :> a1 @@ a2 :> b2 @@ b2 :> a2 @@ a3 :> b3 @@ b3 :> a3)
Staying == [v \in DOMAIN Exchange |-> v]
BillingSymmetry == {w @@ e : w \in Permutations(Workers), e \in {Staying, Exchange}}
=============================================================================
