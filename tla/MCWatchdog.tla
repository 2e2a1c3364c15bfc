----------------------------- MODULE MCWatchdog -----------------------------
(* The watchdog with thresholds of a few ticks.                            *)
EXTENDS Watchdog

Cfg(p, f, h, c) == [profiles |-> p, fb |-> f, hop |-> h, checks |-> c]

(* One port; several ports; a chain over several ports whose stages come   *)
(* faster than the hops, and one whose stages come slower.                 *)
SmallConfigs == {Cfg(1, 1, 0, 3), Cfg(1, 1, 2, 5), Cfg(3, 2, 2, 4), Cfg(2, 3, 2, 4)}
=============================================================================
