---------------------------- MODULE MCDistributed ----------------------------
(* Small instances of the distributed job system.                          *)
EXTENDS Distributed, TLC

CONSTANTS w1, w2, e1, e2, c1, c2

Addr1 == e1 :> w1
Addr2 == e1 :> w1 @@ e2 :> w2

BroadcastOnly == c1 :> "broadcast"
RouteOnly == c1 :> "multi"
BroadcastAndJob == c1 :> "broadcast" @@ c2 :> "single"
RouteAndAddress == c1 :> "multi" @@ c2 :> "address"
TwoJobs == c1 :> "single" @@ c2 :> "single"
TwoBroadcasts == c1 :> "broadcast" @@ c2 :> "broadcast"

\* Connections are interchangeable.
ConnSymmetry == Permutations(Conn)
=============================================================================
