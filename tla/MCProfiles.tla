----------------------------- MODULE MCProfiles -----------------------------
EXTENDS Profiles

Pads(i, r, c, d) == [init |-> i, resp |-> r, cookie |-> c, data |-> d]
Types(i, r, c, d) == [init |-> i, resp |-> r, cookie |-> c, data |-> d]
One(v) == [min |-> v, max |-> v]
To(v, w) == [min |-> v, max |-> w]

(* 3.1: header protection and trailers, every message at the same offset.  *)
V3 == [s |-> Pads(12, 12, 12, 12), hp |-> TRUE, rt |-> TRUE,
       h |-> Types(One(20), One(21), One(22), To(23, 24))]
(* 2.0: an init and a response of one size, which transport can have too.  *)
V2 == [s |-> Pads(15, 71, 30, 15), hp |-> FALSE, rt |-> FALSE,
       h |-> Types(One(10), One(11), One(12), To(13, 14))]
(* Plain WireGuard.                                                        *)
V1 == [s |-> Pads(0, 0, 0, 0), hp |-> FALSE, rt |-> FALSE,
       h |-> Types(One(1), One(2), One(3), One(4))]
(* Refused: the ranges of an init and of transport meet.                   *)
Bad == [V3 EXCEPT !.h["init"] = To(20, 23)]

Site(chain, mode, knows, open, starts, mishaps) ==
    [chain |-> chain, mode |-> mode, knows |-> knows, open |-> open, starts |-> starts,
     rough |-> mishaps]

(* The first stage does not get through, or the responder is too old for   *)
(* it; clients of several ages at one server; a chain that is refused.     *)
MCSites == {
    Site(<<V3, V2>>, "reverse", {1, 2}, {2}, FALSE, 2),
    Site(<<V1, V3>>, "server", {1, 2}, {2}, FALSE, 2),
    Site(<<V3, V2, V1>>, "reverse", {3}, {1, 2, 3}, FALSE, 1),
    Site(<<V2, V1>>, "server", {2}, {1, 2}, FALSE, 1),
    Site(<<V1, V2>>, "reverse", {1, 2}, {1, 2}, FALSE, 1),
    Site(<<V2, V1>>, "reverse", {1, 2}, {1, 2}, TRUE, 1),
    Site(<<V3, V2>>, "server", {1, 2}, {1, 2}, TRUE, 1),
    Site(<<Bad, V1>>, "reverse", {1, 2}, {1, 2}, FALSE, 1)}

ASSUME StagesApart

(* The responder knows the second stage only and starts handshakes.        *)
StuckSites == {Site(<<V3, V2>>, "reverse", {2}, {1, 2}, TRUE, 1)}
=============================================================================
