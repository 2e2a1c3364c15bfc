------------------------------ MODULE Schedule ------------------------------
(***************************************************************************)
(* When the remote port falls due and when it may move: main's 5 s tick    *)
(* (rot_main_tick), the traffic both copying threads count against it      *)
(* (rot_seen_note) and c2s's look at the two (rot_try).  How a move is     *)
(* made and answered is module Rotation's; here it is under way, and then  *)
(* answered, given up, or made moot by a reconnect.                        *)
(*                                                                         *)
(* Bytes are counted in units of half of ROT_QUIET_BYTES, and the threads' *)
(* counters wrap; so does the subtraction of two ticks, though no run of   *)
(* the program is long enough for the tick itself to.                      *)
(***************************************************************************)
EXTENDS Integers, FiniteSetsExt

CONSTANTS
    Spans,       \* configured: t_lo_s, t_hi_s, mb_lo, mb_hi, soft moves or not;
                 \* and, as a bound, the units then carried in all
    QuietUnits,  \* ROT_QUIET_BYTES
    MbUnits,     \* a megabyte
    Word,        \* where a thread's byte counter wraps
    TickWord,    \* where a difference of ticks wraps
    PerTick,     \* bound: units one direction carries in a tick
    MaxTick,     \* bound: ticks
    Reconnects   \* bound: reconnects

ROT_IDLE_S == 30
ROT_FORCE_S == 900
ROT_RETRY_TICKS == 60
None == -1

ASSUME ScheduleAssumption ==
    /\ Spans \subseteq [t_lo : Nat, t_hi : Nat, mb_lo : Nat, mb_hi : Nat, soft : BOOLEAN,
                  units : Nat]
    /\ \A sp \in Spans : sp.t_lo <= sp.t_hi /\ sp.mb_lo <= sp.mb_hi
    /\ {QuietUnits, MbUnits, Word, TickWord, PerTick, MaxTick} \subseteq Nat \ {0}
    /\ 2 * PerTick < Word /\ MaxTick < TickWord /\ Reconnects \in Nat

(* rot_cfg_make: ticks, rounded up; a short timer shortens all the others. *)
Ticks(sec) == (sec + 4) \div 5
RotCfg(sp) ==
    LET short(sec) == IF sp.t_lo > 0 THEN Min({sp.t_lo, sec}) ELSE sec
    IN  [t_lo |-> Ticks(sp.t_lo), t_hi |-> Ticks(sp.t_hi), mb_lo |-> sp.mb_lo, mb_hi |-> sp.mb_hi,
         idle |-> Ticks(short(ROT_IDLE_S)), force |-> Ticks(short(ROT_FORCE_S)),
         retry |-> IF sp.t_lo > 0 THEN Min({Ticks(sp.t_lo), ROT_RETRY_TICKS}) ELSE ROT_RETRY_TICKS,
         soft |-> sp.soft, units |-> sp.units]

Dirs == {"c2s", "s2c"}

VARIABLES
    rot,            \* rot_cfg_t and rot_soft_on
    tick,           \* the clock
    main,           \* main: between ticks, past the clock, or past the threads' news
    m,              \* rot_main_t: deadline, retry, bytes, vol, the counters last read, due, due_at
    rot_due, rot_force, rot_changed, rot_failed,
    pending,        \* rot_state: a move is under way
    rot_bytes,      \* by direction, wrapping
    seen,           \* by direction: busy, cnt_tick, bytes
    now,            \* c2s: the tick rot_try has read, or None
    hand,           \* s2c: the batch being counted: its units, the tick read, and how far it is
    hist            \* what really happened: see Init

vars == <<rot, tick, main, m, rot_due, rot_force, rot_changed, rot_failed, pending,
          rot_bytes, seen, now, hand, hist>>
threads == <<rot_bytes, seen, hand>>

TypeOK ==
    /\ tick \in 0..MaxTick /\ now \in {None} \cup 0..MaxTick
    /\ main \in {"poll", "clock", "news"}
    /\ {rot_due, rot_force, rot_changed, rot_failed, pending, m.due} \subseteq BOOLEAN
    /\ m.deadline \in 0..MaxTick + rot.t_hi /\ m.retry \in 0..MaxTick + rot.retry
    /\ m.bytes \in Nat /\ m.vol \in Nat /\ m.due_at \in 0..MaxTick
    /\ rot_bytes \in [Dirs -> 0..Word - 1]
    /\ seen \in [Dirs -> [busy : 0..MaxTick, cnt_tick : 0..MaxTick, bytes : 0..PerTick]]
    /\ hand \in [units : 0..PerTick, at : 0..MaxTick, step : {"idle", "taken", "noted", "answered"}]

(* Unsigned subtraction, of byte counters and of ticks.                    *)
MutMinus(a, b) == IF a >= b THEN a - b ELSE 0
Minus(a, b) == (a - b) % Word
TicksSince(at, t) == (t - at) % TickWord

(* rot_draw; the ends of a span stand for it.  rot_sched_reset.            *)
Drawn(lo, hi) == {lo, hi}
Fresh(at) ==
    [deadline : IF rot.t_lo > 0 THEN {at + d : d \in Drawn(rot.t_lo, rot.t_hi)} ELSE {0},
     vol : IF rot.mb_lo > 0 THEN {v * MbUnits : v \in Drawn(rot.mb_lo, rot.mb_hi)} ELSE {0},
     bytes : {0}, retry : {at}]

NoBatch == [units |-> 0, at |-> 0, step |-> "idle"]

(* hist: units carried in all, counted since the schedule was drawn, and   *)
(* in this tick (late: those of them that are s2c's from the last one);    *)
(* the ticks when the schedule was drawn, when a move last failed, when    *)
(* rot_due went up, and when each direction was last busy.                 *)
Init ==
    /\ \E sp \in Spans : rot = RotCfg(sp)
    /\ tick = 0 /\ main = "poll"
    /\ \E f \in Fresh(0) :
          m = [deadline |-> f.deadline, vol |-> f.vol, bytes |-> f.bytes, retry |-> f.retry,
               pv |-> [d \in Dirs |-> 0], due |-> FALSE, due_at |-> 0]
    /\ rot_due = FALSE /\ rot_force = FALSE /\ rot_changed = FALSE /\ rot_failed = FALSE
    /\ pending = FALSE
    /\ rot_bytes = [d \in Dirs |-> 0]
    /\ seen = [d \in Dirs |-> [busy |-> 0, cnt_tick |-> 0, bytes |-> 0]]
    /\ now = None /\ hand = NoBatch
    /\ hist = [units |-> 0, carried |-> 0, drawn |-> 0, failed |-> None, raised |-> None,
               load |-> [d \in Dirs |-> 0], late |-> 0, busy |-> [d \in Dirs |-> 0], reconnects |-> 0]

-----------------------------------------------------------------------------
(* The copying threads.                                                    *)

(* rot_seen_note.                                                          *)
SeenNote(v, t, b) ==
    LET w == IF t # v.cnt_tick THEN [v EXCEPT !.cnt_tick = t, !.bytes = 0] ELSE v
    IN  IF w.busy = t THEN w
        ELSE IF w.bytes + b > QuietUnits THEN [w EXCEPT !.bytes = @ + b, !.busy = t]
             ELSE [w EXCEPT !.bytes = @ + b]

Carries(d, b) ==
    [hist EXCEPT !.units = @ + b, !.load[d] = @ + b,
                 !.busy[d] = IF hist.load[d] + b > QuietUnits THEN tick ELSE @]

C2sSend(b) ==
    /\ now = None
    /\ hist.load["c2s"] + b <= PerTick /\ hist.units + b <= rot.units
    /\ rot_bytes' = [rot_bytes EXCEPT !["c2s"] = (@ + b) % Word]
    /\ seen' = [seen EXCEPT !["c2s"] = SeenNote(@, tick, b)]
    /\ hist' = [Carries("c2s", b) EXCEPT !.carried = @ + b]
    /\ UNCHANGED <<rot, tick, main, m, rot_due, rot_force, rot_changed, rot_failed, pending,
                   now, hand>>

(* s2c: the batch summed up and the clock read; its busy tick shared; a    *)
(* pending move answered by it; and its bytes counted.                     *)
S2cTake(b) ==
    /\ hand.step = "idle"
    /\ hist.load["s2c"] + hist.late + b <= PerTick /\ hist.units + b <= rot.units
    /\ hand' = [units |-> b, at |-> tick, step |-> "taken"]
    /\ hist' = Carries("s2c", b)
    /\ UNCHANGED <<rot, tick, main, m, rot_due, rot_force, rot_changed, rot_failed, pending,
                   rot_bytes, seen, now>>

S2cNote ==
    /\ hand.step = "taken"
    /\ seen' = [seen EXCEPT !["s2c"] = SeenNote(@, hand.at, hand.units)]
    /\ hand' = [hand EXCEPT !.step = "noted"]
    /\ UNCHANGED <<rot, tick, main, m, rot_due, rot_force, rot_changed, rot_failed, pending,
                   rot_bytes, now, hist>>

S2cAnswer ==
    /\ hand.step = "noted"
    /\ pending' = FALSE
    /\ rot_due' = (rot_due /\ ~pending)
    /\ rot_changed' = (rot_changed \/ pending)
    /\ hand' = [hand EXCEPT !.step = "answered"]
    /\ UNCHANGED <<rot, tick, main, m, rot_force, rot_failed, rot_bytes, seen, now, hist>>

S2cCount ==
    /\ hand.step = "answered"
    /\ rot_bytes' = IF rot.mb_lo > 0 THEN [rot_bytes EXCEPT !["s2c"] = (@ + hand.units) % Word]
                    ELSE rot_bytes
    /\ hand' = NoBatch
    /\ hist' = [hist EXCEPT !.carried = @ + hand.units]
    /\ UNCHANGED <<rot, tick, main, m, rot_due, rot_force, rot_changed, rot_failed, pending,
                   seen, now>>

(* rot_try: the clock first, then what s2c has seen.                       *)
C2sTry ==
    /\ rot_due /\ ~pending /\ now = None
    /\ now' = tick
    /\ UNCHANGED <<rot, tick, main, m, rot_due, rot_force, rot_changed, rot_failed,
                   pending, threads, hist>>

MutLastBusy == seen["c2s"].busy
LastBusy == Max({seen[d].busy : d \in Dirs})

Busy == TicksSince(LastBusy, now) <= rot.idle

(* rot_window passes a batch with a user's packet, or with a warm client's *)
(* init: the inputs decide.                                                *)
C2sMove ==
    /\ now # None
    /\ Busy => rot.soft /\ rot_force
    /\ pending' = TRUE /\ now' = None
    /\ UNCHANGED <<rot, tick, main, m, rot_due, rot_force, rot_changed, rot_failed, threads, hist>>

(* The tunnel is busy, the batch is not worth it, or rot_move declines.    *)
C2sStay ==
    /\ now # None /\ now' = None
    /\ UNCHANGED <<rot, tick, main, m, rot_due, rot_force, rot_changed, rot_failed,
                   pending, threads, hist>>

(* do_reconnect, in s2c: a move under way is moot.  The dial may fail, and *)
(* is tried again; the new connection is a port change of its own.         *)
ReconnectBegins ==
    /\ pending /\ hist.reconnects < Reconnects
    /\ pending' = FALSE
    /\ UNCHANGED <<rot, tick, main, m, rot_due, rot_force, rot_changed, rot_failed,
                   threads, now, hist>>

Reconnect ==
    /\ ~pending /\ hist.reconnects < Reconnects
    /\ hist' = [hist EXCEPT !.reconnects = @ + 1]
    /\ rot_due' = FALSE /\ rot_changed' = TRUE
    /\ UNCHANGED <<rot, tick, main, m, rot_force, rot_failed, pending, threads, now>>

-----------------------------------------------------------------------------
(* Main.                                                                   *)

(* rot_main_poll: the new port stayed silent or refused.                   *)
MainBack ==
    /\ pending /\ main = "poll"
    /\ pending' = FALSE /\ rot_due' = FALSE /\ rot_failed' = TRUE
    /\ hist' = [hist EXCEPT !.failed = tick]
    /\ UNCHANGED <<rot, tick, main, m, rot_force, rot_changed, threads, now>>

MainClock ==
    /\ main = "poll" /\ tick < MaxTick
    /\ tick' = tick + 1 /\ main' = "clock"
    /\ hist' = [hist EXCEPT !.load = [d \in Dirs |-> 0], !.late = hand.units]
    /\ UNCHANGED <<rot, m, rot_due, rot_force, rot_changed, rot_failed, pending, threads, now>>

(* The traffic since the last tick, folded in.                             *)
Folded == [m EXCEPT !.bytes = @ + Minus(rot_bytes["c2s"], m.pv["c2s"])
                                + Minus(rot_bytes["s2c"], m.pv["s2c"]),
                    !.pv = rot_bytes]

(* A new schedule when the port has changed, then a pause when a move has  *)
(* failed.                                                                 *)
Renewed(s) ==
    IF ~rot_changed THEN {s}
    ELSE {[s EXCEPT !.deadline = f.deadline, !.vol = f.vol, !.bytes = f.bytes,
                    !.retry = f.retry, !.due = FALSE] : f \in Fresh(tick)}
Paused(s) == IF ~rot_failed THEN s ELSE [s EXCEPT !.due = FALSE, !.retry = tick + rot.retry]

MutNews(s) == Renewed(Paused(s))
News(s) == {Paused(r) : r \in Renewed(s)}

(* rot_is_due.                                                             *)
MutIsDue(s) ==
    /\ tick >= s.retry
    /\ (rot.t_lo > 0 /\ tick > s.deadline) \/ (s.vol > 0 /\ s.bytes >= s.vol)
IsDue(s) ==
    /\ tick >= s.retry
    /\ (rot.t_lo > 0 /\ tick >= s.deadline) \/ (s.vol > 0 /\ s.bytes >= s.vol)

MutForceKept == rot_force /\ ~rot_changed
ForceKept == rot_force /\ ~rot_changed /\ ~rot_failed

Noted == IF rot_changed THEN [hist EXCEPT !.carried = 0, !.drawn = tick] ELSE hist

MainNews ==
    /\ main = "clock" /\ main' = "news"
    /\ m' \in News(Folded)
    /\ rot_changed' = FALSE /\ rot_failed' = FALSE
    /\ rot_force' = ForceKept
    /\ hist' = Noted
    /\ UNCHANGED <<rot, tick, rot_due, pending, threads, now>>

MainForce ==
    /\ main = "news" /\ main' = "poll"
    /\ m.due
    /\ rot_force' = (rot_force \/ (rot.soft /\ TicksSince(m.due_at, tick) >= rot.force))
    /\ UNCHANGED <<rot, tick, m, rot_due, rot_changed, rot_failed, pending, threads, now, hist>>

MainDue ==
    /\ main = "news" /\ main' = "poll"
    /\ ~m.due /\ IsDue(m)
    /\ m' = [m EXCEPT !.due = TRUE, !.due_at = tick]
    /\ rot_due' = TRUE
    /\ hist' = [hist EXCEPT !.raised = tick]
    /\ UNCHANGED <<rot, tick, rot_force, rot_changed, rot_failed, pending, threads, now>>

MainNotDue ==
    /\ main = "news" /\ main' = "poll"
    /\ ~m.due /\ ~IsDue(m)
    /\ UNCHANGED <<rot, tick, m, rot_due, rot_force, rot_changed, rot_failed, pending,
                   threads, now, hist>>

Next ==
    \/ \E b \in 1..PerTick : C2sSend(b) \/ S2cTake(b)
    \/ S2cNote \/ S2cAnswer \/ S2cCount
    \/ C2sTry \/ C2sMove \/ C2sStay \/ ReconnectBegins \/ Reconnect
    \/ MainBack \/ MainClock \/ MainNews \/ MainForce \/ MainDue \/ MainNotDue

Spec == Init /\ [][Next]_vars
-----------------------------------------------------------------------------
(* Main's count is what the two threads really carried since the schedule  *)
(* was drawn, though their counters wrap and are read at any moment.       *)
VolumeExact ==
    /\ TypeOK
    /\ rot.mb_lo > 0 =>
        hist.carried = m.bytes + Minus(rot_bytes["c2s"], m.pv["c2s"])
                               + Minus(rot_bytes["s2c"], m.pv["s2c"])

(* A port serves its span: by its timer it is due no earlier than t_lo and *)
(* no later than t_hi ticks after the schedule was drawn, unless a move    *)
(* has failed meanwhile, and earlier only for its volume.                  *)
DueInItsSpan ==
    main = "poll" /\ rot.t_lo > 0 =>
        /\ (m.due /\ m.due_at < hist.drawn + rot.t_lo => m.vol > 0 /\ m.bytes >= m.vol)
        /\ (~m.due /\ hist.failed < hist.drawn => tick < hist.drawn + rot.t_hi)

(* After a port that stayed silent the flag stays down for a full          *)
(* rot.retry ticks, also when a reconnect fell into the same tick.  Only a *)
(* port change reported later, which owes nothing to that failure, ends    *)
(* the pause early (rot_sched_reset).                                      *)
RetryKept ==
    [][rot_due' /\ ~rot_due /\ hist.failed # None /\ hist.drawn <= hist.failed + 1 =>
          tick - hist.failed > rot.retry]_vars

(* A move under load waits until the port has been due for rot.force       *)
(* ticks: what an earlier wait earned is not spent on this one.            *)
ForcedOnlyAfterWait ==
    [][pending' /\ ~pending /\ Busy => rot.soft /\ tick - hist.raised >= rot.force]_vars

(* A move not under load finds no tick of the last rot.idle busy, in       *)
(* either direction, unless s2c turned busy in a tick that began after c2s *)
(* had read the clock, or has not yet said that it did.                    *)
MovesInQuiet ==
    [][pending' /\ ~pending /\ ~Busy /\ hist.busy["s2c"] <= now /\ hand.step # "taken" =>
          \A d \in Dirs : now - hist.busy[d] > rot.idle]_vars
=============================================================================
