----------------------------- MODULE Tick_proofs -----------------------------
(***************************************************************************)
(* What main's 5 s tick decides.  The schedule of the port rotation, for   *)
(* every span, word size and load; and the clocks of the fallback chain,   *)
(* the port hop and the silence watchdog, which never give the address     *)
(* family up early, for every number of profiles and every threshold.      *)
(***************************************************************************)
EXTENDS Schedule, Watchdog, TLAPS

(* Unsigned subtraction of words below w (byte counters, ticks).           *)
LEMMA ModMinus ==
    ASSUME NEW w \in Nat \ {0}, NEW a \in 0..w-1, NEW p \in 0..w-1
    PROVE  (a - p) % w = IF a >= p THEN a - p ELSE a - p + w
OBVIOUS

(* The sum of two words below w.                                            *)
LEMMA ModPlus ==
    ASSUME NEW w \in Nat \ {0}, NEW a \in 0..w-1, NEW b \in 0..w-1
    PROVE  (a + b) % w = IF a + b < w THEN a + b ELSE a + b - w
OBVIOUS

(* The smaller of two numbers (rot_cfg_make).                              *)
LEMMA MinOfTwo ==
    ASSUME NEW a \in Int, NEW b \in Int
    PROVE  Min({a, b}) = IF a <= b THEN a ELSE b
BY DEF Min

(* The later of two ticks (rot_try).                                       *)
LEMMA MaxOfTwo ==
    ASSUME NEW a \in Int, NEW b \in Int
    PROVE  Max({a, b}) = IF a >= b THEN a ELSE b
BY DEF Max

(* What unread bytes a fold will find grows by what is carried, as long as *)
(* it fits into the word.                                                  *)
LEMMA MinusCarried ==
    ASSUME NEW r \in 0..Word-1, NEW p \in 0..Word-1, NEW b \in Nat, b < Word,
           Minus(r, p) + b < Word
    PROVE  Minus((r + b) % Word, p) = Minus(r, p) + b
<1>1. Word \in Nat \ {0} /\ b \in 0..Word-1
  BY ScheduleAssumption
<1>2. (r + b) % Word = IF r + b < Word THEN r + b ELSE r + b - Word
  BY <1>1, ModPlus
<1>3. (r + b) % Word \in 0..Word-1
  BY <1>1, <1>2
<1>4. Minus(r, p) = IF r >= p THEN r - p ELSE r - p + Word
  BY <1>1, ModMinus DEF Minus
<1>5. Minus((r + b) % Word, p) = IF ((r + b) % Word) >= p THEN ((r + b) % Word) - p
                                    ELSE ((r + b) % Word) - p + Word
  BY <1>1, <1>3, ModMinus DEF Minus
<1> DEFINE s == (r + b) % Word
<1>6. Minus(s, p) = IF s >= p THEN s - p ELSE s - p + Word
  BY <1>5
<1>7. s = IF r + b < Word THEN r + b ELSE r + b - Word
  BY <1>2
<1> HIDE DEF s
<1>8. Minus(s, p) = Minus(r, p) + b
  BY <1>1, <1>4, <1>6, <1>7
<1> QED
  BY <1>8 DEF s
-----------------------------------------------------------------------------
(* The inductive invariant.                                                *)

(* The configuration: ticks in order, and the pause after a failed move no *)
(* longer than the shortest timer.                                         *)
RotOK ==
    /\ rot \in [t_lo : Nat, t_hi : Nat, mb_lo : Nat, mb_hi : Nat, idle : Nat, force : Nat,
                retry : Nat, soft : BOOLEAN, units : Nat]
    /\ rot.t_lo <= rot.t_hi
    /\ rot.t_lo > 0 => rot.retry <= rot.t_lo

HistType ==
    [units : Nat, carried : Nat, drawn : 0..MaxTick, failed : {None} \cup 0..MaxTick,
     raised : {None} \cup 0..MaxTick, load : [Dirs -> 0..PerTick], late : 0..PerTick,
     busy : [Dirs -> 0..MaxTick], reconnects : Nat]

RecordsOK ==
    /\ m \in [deadline : Nat, vol : Nat, bytes : Nat, retry : Nat, pv : [Dirs -> 0..Word - 1],
              due : BOOLEAN, due_at : 0..MaxTick]
    /\ hist \in HistType
    /\ m.due_at <= tick /\ hist.drawn <= tick

(* Main folds every tick, so that no counter runs a whole word ahead of    *)
(* what main has read, what s2c has still in hand included.                *)
Ahead == IF main = "clock" THEN PerTick ELSE 0
FoldsInTime ==
    /\ Minus(rot_bytes["c2s"], m.pv["c2s"]) <= hist.load["c2s"] + Ahead
    /\ Minus(rot_bytes["s2c"], m.pv["s2c"]) + hand.units <= hist.load["s2c"] + hist.late + Ahead
    /\ hand.units <= hist.load["s2c"] + hist.late
    /\ hist.load["s2c"] + hist.late <= PerTick

Volume ==
    rot.mb_lo > 0 =>
        hist.carried = m.bytes + Minus(rot_bytes["c2s"], m.pv["c2s"])
                               + Minus(rot_bytes["s2c"], m.pv["s2c"])

(* What a direction has seen, with what s2c is about to note.              *)
SeenType == [busy : 0..MaxTick, cnt_tick : 0..MaxTick, bytes : 0..PerTick]
Shown(d) == IF d = "s2c" /\ hand.step = "taken" THEN SeenNote(seen[d], hand.at, hand.units)
            ELSE seen[d]

(* rot_seen_note keeps the last busy tick exactly, though it stops adding  *)
(* once a tick is busy and starts over with every tick.                    *)
SeenExact ==
    \A d \in Dirs :
        /\ Shown(d) \in SeenType
        /\ Shown(d).busy = hist.busy[d] /\ Shown(d).busy <= tick /\ Shown(d).cnt_tick <= tick
        /\ Shown(d).cnt_tick = tick => Shown(d).busy = tick \/ Shown(d).bytes = hist.load[d]
        /\ Shown(d).cnt_tick # tick => hist.load[d] = 0

(* c2s sends nothing between reading the clock and its decision.           *)
NowPast == now # None => now <= tick /\ hist.busy["c2s"] <= now

(* Permission to move under load belongs to the wait that goes on.         *)
ForceEarned == rot_force => m.due /\ rot.soft /\ tick - m.due_at >= rot.force
DueRaised   == m.due => m.due_at = hist.raised

(* The timer was drawn from the span when the schedule was.                *)
TimerDrawn == rot.t_lo > 0 => m.deadline \in {hist.drawn + rot.t_lo, hist.drawn + rot.t_hi}

(* A failure is told to the first tick that follows it, and to no other.   *)
FailureTold ==
    /\ rot_failed <=> /\ hist.failed # None
                      /\ \/ main = "poll" /\ hist.failed = tick
                         \/ main = "clock" /\ hist.failed + 1 = tick
    /\ hist.failed <= tick /\ (main # "poll" => hist.failed < tick)

(* The pause counts from there, unless the schedule was drawn again.       *)
PauseSet ==
    /\ hist.failed < hist.drawn => m.retry <= hist.drawn + rot.retry
    /\ hist.failed # None /\ hist.drawn <= hist.failed + 1 /\ ~rot_failed
          => m.retry > hist.failed + rot.retry

(* DueInItsSpan, with the first half in every state of main.               *)
SpanKept ==
    rot.t_lo > 0 =>
        /\ m.due /\ m.due_at < hist.drawn + rot.t_lo => m.vol > 0 /\ m.bytes >= m.vol
        /\ main = "poll" /\ ~m.due /\ hist.failed < hist.drawn => tick < hist.drawn + rot.t_hi

Types == TypeOK /\ RotOK /\ RecordsOK
Told  == ForceEarned /\ DueRaised /\ TimerDrawn /\ FailureTold /\ PauseSet /\ SpanKept
SInv  == Types /\ FoldsInTime /\ Volume /\ SeenExact /\ NowPast /\ Told

(* rot_cfg_make rounds up and keeps the order of a span.                   *)
LEMMA CfgOK ==
    ASSUME NEW sp \in Spans, rot = RotCfg(sp)
    PROVE  RotOK
<1>1. /\ sp \in [t_lo : Nat, t_hi : Nat, mb_lo : Nat, mb_hi : Nat, soft : BOOLEAN, units : Nat]
      /\ sp.t_lo <= sp.t_hi
  BY ScheduleAssumption
<1>2. \A n \in Nat : Ticks(n) \in Nat /\ (n > 0 => Ticks(n) > 0)
  BY DEF Ticks
<1>3. Ticks(sp.t_lo) <= Ticks(sp.t_hi)
  BY <1>1 DEF Ticks
<1>4. Ticks(0) = 0
  BY DEF Ticks
<1>5. \A a, b \in Nat : Min({a, b}) = IF a <= b THEN a ELSE b
  BY MinOfTwo
<1> DEFINE sh(sec) == IF sp.t_lo > 0 THEN Min({sp.t_lo, sec}) ELSE sec
           re == IF sp.t_lo > 0 THEN Min({Ticks(sp.t_lo), ROT_RETRY_TICKS}) ELSE ROT_RETRY_TICKS
<1>6. sh(ROT_IDLE_S) \in Nat /\ sh(ROT_FORCE_S) \in Nat
  BY <1>1, <1>5 DEF ROT_IDLE_S, ROT_FORCE_S
<1>7. re \in Nat /\ (sp.t_lo > 0 => re <= Ticks(sp.t_lo))
  BY <1>1, <1>2, <1>5 DEF ROT_RETRY_TICKS
<1>8. rot = [t_lo |-> Ticks(sp.t_lo), t_hi |-> Ticks(sp.t_hi), mb_lo |-> sp.mb_lo, mb_hi |-> sp.mb_hi,
             idle |-> Ticks(sh(ROT_IDLE_S)), force |-> Ticks(sh(ROT_FORCE_S)), retry |-> re, soft |-> sp.soft,
             units |-> sp.units]
  BY DEF RotCfg
<1> HIDE DEF sh, re
<1>9. rot.t_lo > 0 => sp.t_lo > 0
  BY <1>1, <1>4, <1>8
<1> QED
  BY <1>1, <1>2, <1>3, <1>6, <1>7, <1>8, <1>9 DEF RotOK

(* A schedule drawn now: its timer comes after t_lo or t_hi ticks, nothing *)
(* is carried yet and no pause is on.                                      *)
LEMMA FreshOK ==
    ASSUME RotOK, NEW at \in 0..MaxTick, NEW f \in Fresh(at)
    PROVE  /\ f.deadline \in 0..MaxTick + rot.t_hi /\ f.vol \in Nat /\ f.bytes = 0 /\ f.retry = at
           /\ rot.t_lo > 0 => f.deadline \in {at + rot.t_lo, at + rot.t_hi}
<1>1. /\ f.deadline \in IF rot.t_lo > 0 THEN {at + d : d \in {rot.t_lo, rot.t_hi}} ELSE {0}
      /\ f.vol \in IF rot.mb_lo > 0 THEN {v * MbUnits : v \in {rot.mb_lo, rot.mb_hi}} ELSE {0}
      /\ f.bytes = 0 /\ f.retry = at
  BY DEF Fresh, Drawn
<1>2. MbUnits \in Nat /\ rot.mb_lo * MbUnits \in Nat /\ rot.mb_hi * MbUnits \in Nat /\ MaxTick \in Nat
  BY ScheduleAssumption DEF RotOK
<1>3. f.vol \in Nat
  BY <1>1, <1>2
<1>4. rot.t_lo > 0 => f.deadline \in {at + rot.t_lo, at + rot.t_hi}
  BY <1>1
<1>5. f.deadline \in 0..MaxTick + rot.t_hi
  BY <1>1, <1>2 DEF RotOK
<1> QED
  BY <1>1, <1>3, <1>4, <1>5

(* proxy_run draws the first schedule at tick 0.                           *)
LEMMA SInit == Init => SInv
<1> SUFFICES ASSUME Init PROVE SInv
  OBVIOUS
<1>0. MaxTick \in Nat /\ Word \in Nat \ {0} /\ PerTick \in Nat
  BY ScheduleAssumption
<1>1. RotOK
  BY CfgOK DEF Init
<1>2. PICK f \in Fresh(0) :
        m = [deadline |-> f.deadline, vol |-> f.vol, bytes |-> f.bytes, retry |-> f.retry,
             pv |-> [d \in Dirs |-> 0], due |-> FALSE, due_at |-> 0]
  BY DEF Init
<1>3. /\ f.deadline \in 0..MaxTick + rot.t_hi /\ f.vol \in Nat /\ f.bytes = 0 /\ f.retry = 0
      /\ rot.t_lo > 0 => f.deadline \in {rot.t_lo, rot.t_hi}
  BY <1>0, <1>1, FreshOK DEF RotOK
<1>4. RecordsOK
  <2>1. m \in [deadline : Nat, vol : Nat, bytes : Nat, retry : Nat, pv : [Dirs -> 0..Word - 1],
              due : BOOLEAN, due_at : 0..MaxTick]
    BY <1>0, <1>1, <1>2, <1>3 DEF RotOK
  <2> QED
    BY <1>0, <1>2, <2>1 DEF Init, RecordsOK, HistType, None
<1>5. TypeOK
  <2>1. m.deadline \in 0..MaxTick + rot.t_hi /\ m.retry = 0 /\ m.bytes = 0 /\ m.vol \in Nat
        /\ m.due = FALSE /\ m.due_at = 0
    BY <1>2, <1>3
  <2>2. m.retry \in 0..MaxTick + rot.retry
    BY <1>0, <1>1, <2>1 DEF RotOK
  <2>3. /\ rot_bytes \in [Dirs -> 0..Word - 1]
        /\ seen \in [Dirs -> [busy : 0..MaxTick, cnt_tick : 0..MaxTick, bytes : 0..PerTick]]
    BY <1>0 DEF Init
  <2>4. {rot_due, rot_force, rot_changed, rot_failed, pending, m.due} \subseteq BOOLEAN
    BY <2>1 DEF Init
  <2>5. hand \in [units : 0..PerTick, at : 0..MaxTick, step : {"idle", "taken", "noted", "answered"}]
    BY <1>0 DEF Init, NoBatch
  <2> QED
    BY <1>0, <2>1, <2>2, <2>3, <2>4, <2>5 DEF Init, TypeOK
<1>6. Minus(0, 0) = 0
  BY <1>0 DEF Minus
<1>7. FoldsInTime /\ Volume
  BY <1>0, <1>2, <1>3, <1>6 DEF Init, FoldsInTime, Volume, Ahead, Dirs, NoBatch
<1>8. SeenExact /\ NowPast
  <2>1. \A d \in Dirs : Shown(d) = [busy |-> 0, cnt_tick |-> 0, bytes |-> 0]
    BY DEF Init, Shown, NoBatch
  <2> QED
    BY <1>0, <2>1 DEF Init, SeenExact, SeenType, NowPast, Dirs
<1>9. Told
  BY <1>0, <1>1, <1>2, <1>3
     DEF Init, Told, ForceEarned, DueRaised, TimerDrawn, FailureTold, PauseSet, SpanKept, None, RotOK
<1> QED
  BY <1>1, <1>4, <1>5, <1>7, <1>8, <1>9 DEF SInv, Types

(* rot_seen_note on an exact record leaves an exact record.                *)
LEMMA SeenNoteOK ==
    ASSUME NEW t \in 0..MaxTick, NEW b \in 1..PerTick, NEW n \in 0..PerTick, n + b <= PerTick,
           NEW v \in [busy : 0..MaxTick, cnt_tick : 0..MaxTick, bytes : 0..PerTick],
           v.busy <= t, v.cnt_tick <= t,
           v.cnt_tick = t => v.busy = t \/ v.bytes = n,
           v.cnt_tick # t => n = 0
    PROVE  LET w == SeenNote(v, t, b)
           IN  /\ w \in [busy : 0..MaxTick, cnt_tick : 0..MaxTick, bytes : 0..PerTick]
               /\ w.cnt_tick = t /\ (w.busy = t \/ w.bytes = n + b)
               /\ w.busy = IF n + b > QuietUnits THEN t ELSE v.busy
<1> DEFINE u == IF t # v.cnt_tick THEN [v EXCEPT !.cnt_tick = t, !.bytes = 0] ELSE v
           w == SeenNote(v, t, b)
<1>0. MaxTick \in Nat /\ PerTick \in Nat /\ QuietUnits \in Nat
  BY ScheduleAssumption
<1>1. /\ u \in [busy : 0..MaxTick, cnt_tick : 0..MaxTick, bytes : 0..PerTick]
      /\ u.cnt_tick = t /\ u.busy = v.busy /\ (u.busy = t \/ u.bytes = n)
  BY <1>0
<1>2. w = IF u.busy = t THEN u
          ELSE IF u.bytes + b > QuietUnits THEN [u EXCEPT !.bytes = @ + b, !.busy = t]
               ELSE [u EXCEPT !.bytes = @ + b]
  BY DEF SeenNote
<1> HIDE DEF u, w
<1>3. CASE u.busy = t
  BY <1>0, <1>1, <1>2, <1>3 DEF w
<1>4. CASE u.busy # t
  <2>1. u.bytes = n
    BY <1>1, <1>4
  <2>2. CASE n + b > QuietUnits
    <3>1. w = [u EXCEPT !.bytes = n + b, !.busy = t]
      BY <1>2, <1>4, <2>1, <2>2
    <3>2. n + b \in 0..PerTick
      BY <1>0
    <3>3. w = [busy |-> t, cnt_tick |-> u.cnt_tick, bytes |-> n + b]
      BY <1>1, <3>1
    <3>4. /\ w \in [busy : 0..MaxTick, cnt_tick : 0..MaxTick, bytes : 0..PerTick]
          /\ w.cnt_tick = t /\ w.busy = t
      BY <1>1, <3>2, <3>3
    <3> QED
      BY <2>2, <3>4 DEF w
  <2>3. CASE ~(n + b > QuietUnits)
    <3>1. w = [u EXCEPT !.bytes = n + b]
      BY <1>2, <1>4, <2>1, <2>3
    <3>2. /\ w \in [busy : 0..MaxTick, cnt_tick : 0..MaxTick, bytes : 0..PerTick]
          /\ w.cnt_tick = t /\ w.busy = v.busy /\ w.bytes = n + b
      BY <1>0, <1>1, <3>1
    <3> QED
      BY <2>3, <3>2 DEF w
  <2> QED
    BY <2>2, <2>3
<1> QED
  BY <1>3, <1>4

(* A batch carried in direction d: what the direction is about to show and *)
(* what really happened move together.                                     *)
LEMMA CarriesStep ==
    ASSUME SInv, NEW d \in Dirs, NEW b \in 1..PerTick, hist.load[d] + b <= PerTick, NEW c \in Nat,
           hist' = [Carries(d, b) EXCEPT !.carried = c], d = "c2s" => now = None,
           Shown(d)' = SeenNote(Shown(d), tick, b), \A e \in Dirs \ {d} : Shown(e)' = Shown(e),
           UNCHANGED <<rot, tick, main, m, rot_force, rot_failed, now>>
    PROVE  /\ RecordsOK' /\ SeenExact' /\ NowPast' /\ Told' /\ RotOK'
           /\ hist'.load = [hist.load EXCEPT ![d] = @ + b] /\ hist'.late = hist.late /\ hist'.carried = c
<1>0. MaxTick \in Nat /\ PerTick \in Nat /\ QuietUnits \in Nat /\ b \in Nat
  BY ScheduleAssumption
<1>1. /\ SeenExact /\ NowPast /\ Told /\ TypeOK /\ RotOK /\ RecordsOK
      /\ tick \in 0..MaxTick /\ hist \in HistType /\ hist.load[d] \in 0..PerTick
      /\ hist.busy[d] \in 0..MaxTick
  BY DEF SInv, Types, TypeOK, RecordsOK, HistType
<1> DEFINE w == SeenNote(Shown(d), tick, b)
           bz == IF hist.load[d] + b > QuietUnits THEN tick ELSE hist.busy[d]
<1>2. w \in SeenType /\ w.cnt_tick = tick /\ (w.busy = tick \/ w.bytes = hist.load[d] + b) /\ w.busy = bz
  BY <1>1, SeenNoteOK DEF SeenExact, SeenType
<1>3. bz \in 0..MaxTick /\ bz <= tick
  BY <1>0, <1>1 DEF SeenExact
<1>4. hist' = [hist EXCEPT !.units = hist.units + b, !.carried = c,
                           !.load = [hist.load EXCEPT ![d] = @ + b],
                           !.busy = [hist.busy EXCEPT ![d] = bz]]
  BY <1>1 DEF Carries, HistType
<1>5. Shown(d)' = w
  OBVIOUS
<1> HIDE DEF w, bz
<1>6. /\ hist'.load = [hist.load EXCEPT ![d] = @ + b] /\ hist'.busy = [hist.busy EXCEPT ![d] = bz]
      /\ hist'.carried = c /\ hist'.late = hist.late
      /\ hist'.failed = hist.failed /\ hist'.drawn = hist.drawn /\ hist'.raised = hist.raised
  BY <1>1, <1>4 DEF HistType
<1>7. RecordsOK'
  <2>1. hist.load[d] + b \in 0..PerTick
    BY <1>0, <1>1
  <2>2. /\ [hist.load EXCEPT ![d] = @ + b] \in [Dirs -> 0..PerTick]
        /\ [hist.busy EXCEPT ![d] = bz] \in [Dirs -> 0..MaxTick]
        /\ hist.units + b \in Nat
    BY <1>0, <1>1, <1>3, <2>1 DEF HistType
  <2>3. hist' \in HistType
    BY <1>1, <1>4, <2>2, ZenonT(60) DEF HistType
  <2> QED
    BY <1>1, <1>6, <2>3 DEF RecordsOK
<1>8. SeenExact'
  <2> SUFFICES ASSUME NEW e \in Dirs
               PROVE  /\ Shown(e)' \in SeenType
                      /\ Shown(e)'.busy = hist'.busy[e] /\ Shown(e)'.busy <= tick /\ Shown(e)'.cnt_tick <= tick
                      /\ Shown(e)'.cnt_tick = tick => Shown(e)'.busy = tick \/ Shown(e)'.bytes = hist'.load[e]
                      /\ Shown(e)'.cnt_tick # tick => hist'.load[e] = 0
    BY DEF SeenExact, SeenType
  <2>1. CASE e = d
    <3>1. Shown(e)' = w /\ hist'.busy[e] = bz /\ hist'.load[e] = hist.load[d] + b
      BY <1>1, <1>5, <1>6, <2>1 DEF HistType
    <3> QED
      BY <1>1, <1>2, <1>3, <3>1
  <2>2. CASE e # d
    <3>1. Shown(e)' = Shown(e) /\ hist'.busy[e] = hist.busy[e] /\ hist'.load[e] = hist.load[e]
      BY <1>1, <1>6, <2>2 DEF HistType
    <3> QED
      BY <1>1, <3>1 DEF SeenExact
  <2> QED
    BY <2>1, <2>2
<1>9. NowPast'
  <2>1. d # "c2s" => hist'.busy["c2s"] = hist.busy["c2s"]
    BY <1>1, <1>6 DEF HistType, Dirs
  <2> QED
    BY <1>1, <2>1 DEF NowPast
<1>10. Told' /\ RotOK'
  BY <1>1, <1>6 DEF Told, ForceEarned, DueRaised, TimerDrawn, FailureTold, PauseSet, SpanKept, RotOK
<1> QED
  BY <1>6, <1>7, <1>8, <1>9, <1>10

(* What main and the threads have counted is a number of words' range.     *)
LEMMA CountersOK ==
    ASSUME Types
    PROVE  \A d \in Dirs : /\ rot_bytes[d] \in 0..Word-1 /\ m.pv[d] \in 0..Word-1
                           /\ Minus(rot_bytes[d], m.pv[d]) \in 0..Word-1
                           /\ hist.load[d] \in 0..PerTick
<1>1. Word \in Nat \ {0}
  BY ScheduleAssumption
<1> QED
  BY <1>1 DEF Types, TypeOK, RecordsOK, HistType, Minus

(* c2s counts a batch as it sends it.                                      *)
LEMMA C2sSendStep ==
    ASSUME SInv, NEW b \in 1..PerTick, C2sSend(b)
    PROVE  SInv'
<1>0. /\ MaxTick \in Nat /\ PerTick \in Nat /\ Word \in Nat \ {0} /\ 2 * PerTick < Word
      /\ b \in Nat /\ b < Word /\ b <= PerTick
  BY ScheduleAssumption
<1>1. /\ Types /\ FoldsInTime /\ Volume /\ SeenExact /\ TypeOK /\ RecordsOK /\ hist \in HistType
      /\ "c2s" \in Dirs /\ "s2c" \in Dirs
  BY DEF SInv, Types, RecordsOK, Dirs
<1>2. /\ hist.load["c2s"] + b <= PerTick /\ now = None /\ hand' = hand
      /\ UNCHANGED <<rot, tick, main, m, rot_due, rot_force, rot_changed, rot_failed, pending, now>>
      /\ seen' = [seen EXCEPT !["c2s"] = SeenNote(@, tick, b)]
      /\ rot_bytes' = [rot_bytes EXCEPT !["c2s"] = (@ + b) % Word]
  BY DEF C2sSend
<1>3. hist.carried + b \in Nat /\ hist' = [Carries("c2s", b) EXCEPT !.carried = hist.carried + b]
  BY <1>0, <1>1 DEF C2sSend, Carries, HistType
<1>4. Shown("c2s")' = SeenNote(Shown("c2s"), tick, b) /\ Shown("s2c")' = Shown("s2c")
  BY <1>1, <1>2 DEF Shown, TypeOK, SeenNote
<1>5. /\ RecordsOK' /\ SeenExact' /\ NowPast' /\ Told' /\ RotOK'
      /\ hist'.load = [hist.load EXCEPT !["c2s"] = @ + b] /\ hist'.late = hist.late
      /\ hist'.carried = hist.carried + b
  BY <1>1, <1>2, <1>3, <1>4, CarriesStep DEF Dirs
<1>6. /\ hist'.load["c2s"] = hist.load["c2s"] + b /\ hist'.load["s2c"] = hist.load["s2c"]
      /\ rot_bytes'["c2s"] = (rot_bytes["c2s"] + b) % Word /\ rot_bytes'["s2c"] = rot_bytes["s2c"]
  BY <1>1, <1>2, <1>5 DEF TypeOK, HistType, Dirs
<1>7. TypeOK'
  <2>1. (rot_bytes["c2s"] + b) % Word \in 0..Word-1
    BY <1>0, <1>1, CountersOK
  <2>2. (rot_bytes \in [Dirs -> 0..Word - 1])'
    BY <1>1, <1>2, <2>1 DEF TypeOK
  <2>3. SeenNote(seen["c2s"], tick, b) \in SeenType
    BY <1>1, <1>4, <1>5 DEF SeenExact, Shown, SeenType
  <2>4. (seen \in [Dirs -> [busy : 0..MaxTick, cnt_tick : 0..MaxTick, bytes : 0..PerTick]])'
    BY <1>1, <1>2, <2>3 DEF TypeOK, SeenType
  <2>5. {rot_due', rot_force', rot_changed', rot_failed', pending', m'.due} \subseteq BOOLEAN
    BY <1>1, <1>2 DEF TypeOK
  <2> QED
    BY <1>1, <1>2, <2>2, <2>4, <2>5 DEF TypeOK
<1>8. FoldsInTime' /\ Volume'
  <2>1. Minus(rot_bytes["c2s"], m.pv["c2s"]) <= hist.load["c2s"] + Ahead /\ Ahead \in 0..PerTick /\ Ahead' = Ahead
    BY <1>0, <1>1, <1>2 DEF FoldsInTime, Ahead
  <2>2. Minus(rot_bytes["c2s"], m.pv["c2s"]) + b < Word
    BY <1>0, <1>1, <1>2, <2>1, CountersOK
  <2>3. Minus(rot_bytes'["c2s"], m.pv["c2s"]) = Minus(rot_bytes["c2s"], m.pv["c2s"]) + b
    BY <1>0, <1>1, <1>6, <2>2, CountersOK, MinusCarried
  <2>4. FoldsInTime'
    BY <1>0, <1>1, <1>2, <1>5, <1>6, <2>1, <2>3, CountersOK DEF FoldsInTime
  <2>5. m.bytes \in Nat /\ hist.carried \in Nat
    BY <1>1 DEF RecordsOK, HistType
  <2>6. Volume'
    BY <1>0, <1>1, <1>2, <1>5, <1>6, <2>3, <2>5, CountersOK DEF Volume
  <2> QED
    BY <2>4, <2>6
<1> QED
  BY <1>5, <1>7, <1>8 DEF SInv, Types

(* s2c has summed up a batch and read the clock.                           *)
LEMMA S2cTakeStep ==
    ASSUME SInv, NEW b \in 1..PerTick, S2cTake(b)
    PROVE  SInv'
<1>0. MaxTick \in Nat /\ PerTick \in Nat /\ b \in Nat /\ b <= PerTick
  BY ScheduleAssumption
<1>1. /\ Types /\ FoldsInTime /\ Volume /\ SeenExact /\ TypeOK /\ RecordsOK /\ hist \in HistType
      /\ "c2s" \in Dirs /\ "s2c" \in Dirs /\ hist.late \in 0..PerTick /\ tick \in 0..MaxTick
  BY DEF SInv, Types, TypeOK, RecordsOK, HistType, Dirs
<1>2. /\ hand.step = "idle" /\ hist.load["s2c"] + hist.late + b <= PerTick
      /\ hand' = [units |-> b, at |-> tick, step |-> "taken"] /\ hist' = Carries("s2c", b)
      /\ UNCHANGED <<rot, tick, main, m, rot_due, rot_force, rot_changed, rot_failed, pending,
                     rot_bytes, seen, now>>
  BY DEF S2cTake
<1>3. hist.carried \in Nat /\ hist' = [Carries("s2c", b) EXCEPT !.carried = hist.carried]
  BY <1>1, <1>2 DEF Carries, HistType
<1>4. Shown("s2c")' = SeenNote(Shown("s2c"), tick, b) /\ Shown("c2s")' = Shown("c2s")
  BY <1>1, <1>2 DEF Shown, SeenNote
<1>5. hist.load["s2c"] + b <= PerTick
  BY <1>0, <1>1, <1>2, CountersOK
<1>6. /\ RecordsOK' /\ SeenExact' /\ NowPast' /\ Told' /\ RotOK'
      /\ hist'.load = [hist.load EXCEPT !["s2c"] = @ + b] /\ hist'.late = hist.late
      /\ hist'.carried = hist.carried
  BY <1>1, <1>2, <1>3, <1>4, <1>5, CarriesStep DEF Dirs
<1>7. TypeOK'
  <2>1. hand' \in [units : 0..PerTick, at : 0..MaxTick, step : {"idle", "taken", "noted", "answered"}]
    BY <1>0, <1>1, <1>2
  <2>2. {rot_due', rot_force', rot_changed', rot_failed', pending', m'.due} \subseteq BOOLEAN
    BY <1>1, <1>2 DEF TypeOK
  <2> QED
    BY <1>1, <1>2, <2>1, <2>2 DEF TypeOK
<1>8. FoldsInTime' /\ Volume'
  <2>1. hist'.load["s2c"] = hist.load["s2c"] + b /\ hist'.load["c2s"] = hist.load["c2s"] /\ hand'.units = b
    BY <1>1, <1>2, <1>6 DEF HistType, Dirs
  <2>2. hand.units \in 0..PerTick /\ Ahead \in 0..PerTick /\ Ahead' = Ahead
    BY <1>0, <1>1, <1>2 DEF TypeOK, Ahead
  <2>3. Minus(rot_bytes["s2c"], m.pv["s2c"]) <= hist.load["s2c"] + hist.late + Ahead
    BY <1>0, <1>1, <2>2, CountersOK DEF FoldsInTime
  <2>4. FoldsInTime'
    BY <1>0, <1>1, <1>2, <1>6, <2>1, <2>2, <2>3, CountersOK DEF FoldsInTime
  <2> QED
    BY <1>1, <1>2, <1>6, <2>4 DEF Volume
<1> QED
  BY <1>6, <1>7, <1>8 DEF SInv, Types

(* s2c's busy tick is shared: what it was about to show, it shows.         *)
LEMMA S2cNoteStep == SInv /\ S2cNote => SInv'
<1> SUFFICES ASSUME SInv, S2cNote PROVE SInv'
  OBVIOUS
<1>1. /\ Types /\ FoldsInTime /\ Volume /\ SeenExact /\ NowPast /\ Told /\ TypeOK /\ RotOK /\ RecordsOK
      /\ "s2c" \in Dirs
  BY DEF SInv, Types, Dirs
<1>2. /\ hand.step = "taken" /\ hand' = [hand EXCEPT !.step = "noted"]
      /\ seen' = [seen EXCEPT !["s2c"] = SeenNote(seen["s2c"], hand.at, hand.units)]
      /\ UNCHANGED <<rot, tick, main, m, rot_due, rot_force, rot_changed, rot_failed, pending,
                     rot_bytes, now, hist>>
  BY DEF S2cNote
<1>3. hand'.units = hand.units /\ hand'.step = "noted"
  BY <1>1, <1>2 DEF TypeOK
<1>4. \A d \in Dirs : Shown(d)' = Shown(d)
  BY <1>1, <1>2, <1>3 DEF Shown, TypeOK, Dirs
<1>5. SeenExact'
  BY <1>1, <1>2, <1>4 DEF SeenExact, SeenType
<1>6. TypeOK'
  <2>1. SeenNote(seen["s2c"], hand.at, hand.units) \in SeenType
    BY <1>1, <1>2 DEF SeenExact, Shown
  <2>2. (seen \in [Dirs -> [busy : 0..MaxTick, cnt_tick : 0..MaxTick, bytes : 0..PerTick]])'
    BY <1>1, <1>2, <2>1 DEF TypeOK, SeenType
  <2>3. {rot_due', rot_force', rot_changed', rot_failed', pending', m'.due} \subseteq BOOLEAN
    BY <1>1, <1>2 DEF TypeOK
  <2>4. hand' \in [units : 0..PerTick, at : 0..MaxTick, step : {"idle", "taken", "noted", "answered"}]
    BY <1>1, <1>2 DEF TypeOK
  <2> QED
    BY <1>1, <1>2, <2>2, <2>3, <2>4 DEF TypeOK
<1>7. FoldsInTime' /\ Volume' /\ NowPast' /\ RecordsOK' /\ RotOK'
  BY <1>1, <1>2, <1>3 DEF FoldsInTime, Volume, Ahead, NowPast, RecordsOK, RotOK
<1>8. Told'
  BY <1>1, <1>2 DEF Told, ForceEarned, DueRaised, TimerDrawn, FailureTold, PauseSet, SpanKept
<1> QED
  BY <1>5, <1>6, <1>7, <1>8 DEF SInv, Types

(* s2c's bytes are counted, where a volume is configured.                  *)
LEMMA S2cCountStep == SInv /\ S2cCount => SInv'
<1> SUFFICES ASSUME SInv, S2cCount PROVE SInv'
  OBVIOUS
<1>0. MaxTick \in Nat /\ PerTick \in Nat /\ Word \in Nat \ {0} /\ 2 * PerTick < Word
  BY ScheduleAssumption
<1>1. /\ Types /\ FoldsInTime /\ Volume /\ SeenExact /\ NowPast /\ Told /\ TypeOK /\ RotOK /\ RecordsOK
      /\ "c2s" \in Dirs /\ "s2c" \in Dirs /\ hist \in HistType /\ hist.late \in 0..PerTick
      /\ hand.units \in 0..PerTick
  BY DEF SInv, Types, TypeOK, RecordsOK, HistType, Dirs
<1>2. /\ hand.step = "answered" /\ hand' = NoBatch
      /\ rot_bytes' = IF rot.mb_lo > 0 THEN [rot_bytes EXCEPT !["s2c"] = (@ + hand.units) % Word]
                      ELSE rot_bytes
      /\ hist' = [hist EXCEPT !.carried = @ + hand.units]
      /\ UNCHANGED <<rot, tick, main, m, rot_due, rot_force, rot_changed, rot_failed, pending,
                     seen, now>>
  BY DEF S2cCount
<1>3. /\ hist'.load = hist.load /\ hist'.late = hist.late /\ hist'.busy = hist.busy
      /\ hist'.carried = hist.carried + hand.units /\ hand'.units = 0 /\ hand'.step = "idle"
      /\ hist'.failed = hist.failed /\ hist'.drawn = hist.drawn /\ hist'.raised = hist.raised
  BY <1>1, <1>2 DEF HistType, NoBatch
<1>4. RecordsOK'
  <2>1. hist.carried + hand.units \in Nat
    BY <1>0, <1>1 DEF HistType
  <2>2. hist' \in HistType
    BY <1>1, <1>2, <2>1 DEF HistType
  <2> QED
    BY <1>1, <1>2, <1>3, <2>2 DEF RecordsOK
<1>5. \A d \in Dirs : Shown(d)' = Shown(d)
  BY <1>2, <1>3 DEF Shown
<1>6. SeenExact'
  BY <1>1, <1>2, <1>3, <1>5 DEF SeenExact, SeenType
<1>7. TypeOK'
  <2>1. (rot_bytes["s2c"] + hand.units) % Word \in 0..Word-1
    BY <1>0, <1>1, CountersOK
  <2>2. (rot_bytes \in [Dirs -> 0..Word - 1])'
    BY <1>1, <1>2, <2>1 DEF TypeOK
  <2>3. {rot_due', rot_force', rot_changed', rot_failed', pending', m'.due} \subseteq BOOLEAN
    BY <1>1, <1>2 DEF TypeOK
  <2>4. hand' \in [units : 0..PerTick, at : 0..MaxTick, step : {"idle", "taken", "noted", "answered"}]
    BY <1>0, <1>2 DEF NoBatch
  <2> QED
    BY <1>1, <1>2, <2>2, <2>3, <2>4 DEF TypeOK
<1>8. FoldsInTime' /\ Volume'
  <2>1. /\ Minus(rot_bytes["s2c"], m.pv["s2c"]) + hand.units <= hist.load["s2c"] + hist.late + Ahead
        /\ hist.load["s2c"] + hist.late <= PerTick /\ Ahead \in 0..PerTick /\ Ahead' = Ahead
    BY <1>0, <1>1, <1>2 DEF FoldsInTime, Ahead
  <2>2. Minus(rot_bytes["s2c"], m.pv["s2c"]) + hand.units < Word /\ hand.units < Word
    BY <1>0, <1>1, <2>1, CountersOK
  <2>3. rot_bytes'["c2s"] = rot_bytes["c2s"]
    BY <1>1, <1>2 DEF TypeOK
  <2>4. Minus(rot_bytes'["s2c"], m.pv["s2c"])
            = Minus(rot_bytes["s2c"], m.pv["s2c"]) + (IF rot.mb_lo > 0 THEN hand.units ELSE 0)
    <3>1. CASE rot.mb_lo > 0
      <4>1. rot_bytes'["s2c"] = (rot_bytes["s2c"] + hand.units) % Word
        BY <1>1, <1>2, <3>1 DEF TypeOK
      <4>2. hand.units \in Nat
        BY <1>0, <1>1
      <4> QED
        BY <1>0, <1>1, <2>2, <3>1, <4>1, <4>2, CountersOK, MinusCarried
    <3>2. CASE ~(rot.mb_lo > 0)
      BY <1>1, <1>2, <3>2, CountersOK
    <3> QED
      BY <3>1, <3>2
  <2>5. FoldsInTime'
    BY <1>0, <1>1, <1>2, <1>3, <2>1, <2>3, <2>4, CountersOK DEF FoldsInTime
  <2>6. m.bytes \in Nat /\ hist.carried \in Nat
    BY <1>1 DEF RecordsOK, HistType
  <2>7. Volume'
    BY <1>0, <1>1, <1>2, <1>3, <2>3, <2>4, <2>6, CountersOK DEF Volume
  <2> QED
    BY <2>5, <2>7
<1>9. NowPast' /\ RotOK'
  BY <1>1, <1>2, <1>3 DEF NowPast, RotOK
<1>10. Told'
  BY <1>1, <1>2, <1>3 DEF Told, ForceEarned, DueRaised, TimerDrawn, FailureTold, PauseSet, SpanKept
<1> QED
  BY <1>4, <1>6, <1>7, <1>8, <1>9, <1>10 DEF SInv, Types

(* c2s's look at the clock, its decision, a move answered, and s2c's       *)
(* reconnect touch neither the schedule nor the counters.                  *)
LEMMA LightStep ==
    ASSUME SInv, UNCHANGED <<rot, tick, main, m, rot_force, rot_failed, rot_bytes, seen>>,
           hand' = hand \/ (hand.step = "noted" /\ hand' = [hand EXCEPT !.step = "answered"]),
           hist' = hist \/ hist' = [hist EXCEPT !.reconnects = @ + 1],
           now' \in {now, None, tick}, {rot_due', rot_changed', pending'} \subseteq BOOLEAN
    PROVE  SInv'
<1>1. /\ Types /\ FoldsInTime /\ Volume /\ SeenExact /\ NowPast /\ Told
      /\ TypeOK /\ RotOK /\ RecordsOK /\ rot_bytes' = rot_bytes /\ seen' = seen
      /\ hist \in HistType
  BY DEF SInv, Types, RecordsOK
<1>2. /\ hist'.load = hist.load /\ hist'.late = hist.late /\ hist'.busy = hist.busy /\ hist'.carried = hist.carried
      /\ hist'.failed = hist.failed /\ hist'.drawn = hist.drawn /\ hist'.raised = hist.raised
      /\ hand'.units = hand.units /\ \A d \in Dirs : Shown(d)' = Shown(d)
  BY <1>1 DEF HistType, TypeOK, Shown
<1>3. RecordsOK'
  BY <1>1, <1>2 DEF RecordsOK, HistType
<1>4. TypeOK'
  <2>1. {rot_due', rot_force', rot_changed', rot_failed', pending', m'.due} \subseteq BOOLEAN
    BY <1>1 DEF TypeOK
  <2>2. now' \in {None} \cup 0..MaxTick
    BY <1>1 DEF TypeOK
  <2>3. hand' \in [units : 0..PerTick, at : 0..MaxTick, step : {"idle", "taken", "noted", "answered"}]
    BY <1>1 DEF TypeOK
  <2> QED
    BY <1>1, <2>1, <2>2, <2>3 DEF TypeOK
<1>5. FoldsInTime' /\ Volume'
  BY <1>1, <1>2 DEF FoldsInTime, Volume, Ahead
<1>6. SeenExact'
  BY <1>1, <1>2 DEF SeenExact, SeenType
<1>7. NowPast'
  <2>1. hist.busy["c2s"] <= tick /\ tick \in Nat
    BY <1>1, ScheduleAssumption DEF SeenExact, SeenType, TypeOK, Dirs
  <2> QED
    BY <1>1, <1>2, <2>1 DEF NowPast
<1>8. Told'
  BY <1>1, <1>2 DEF Told, ForceEarned, DueRaised, TimerDrawn, FailureTold, PauseSet, SpanKept
<1>9. RotOK'
  BY <1>1 DEF RotOK
<1> QED
  BY <1>3, <1>4, <1>5, <1>6, <1>7, <1>8, <1>9 DEF SInv, Types

(* A move given up: the failure is on record and told to the next tick.    *)
LEMMA BackStep == SInv /\ MainBack => SInv'
<1> SUFFICES ASSUME SInv, MainBack PROVE SInv'
  OBVIOUS
<1>0. MaxTick \in Nat
  BY ScheduleAssumption
<1>1. /\ Types /\ FoldsInTime /\ Volume /\ SeenExact /\ NowPast /\ Told
      /\ TypeOK /\ RotOK /\ RecordsOK /\ rot_bytes' = rot_bytes /\ seen' = seen /\ hand' = hand
      /\ hist \in HistType /\ \A d \in Dirs : Shown(d)' = Shown(d)
  BY DEF SInv, Types, RecordsOK, threads, MainBack, Shown
<1>2. /\ hist'.load = hist.load /\ hist'.late = hist.late /\ hist'.busy = hist.busy /\ hist'.carried = hist.carried
      /\ hist'.failed = tick /\ hist'.drawn = hist.drawn /\ hist'.raised = hist.raised
  BY <1>1 DEF HistType, MainBack
<1>3. tick \in 0..MaxTick /\ tick # None
  BY <1>0, <1>1 DEF TypeOK, None
<1>4. RecordsOK'
  BY <1>1, <1>2, <1>3 DEF RecordsOK, HistType, MainBack
<1>5. TypeOK'
  <2>1. {rot_due', rot_force', rot_changed', rot_failed', pending', m'.due} \subseteq BOOLEAN
    BY <1>1 DEF TypeOK, MainBack
  <2> QED
    BY <1>1, <2>1 DEF TypeOK, MainBack
<1>6. FoldsInTime' /\ Volume' /\ SeenExact' /\ NowPast'
  BY <1>1, <1>2 DEF FoldsInTime, Volume, Ahead, SeenExact, SeenType, NowPast, MainBack
<1>7. ForceEarned' /\ DueRaised' /\ TimerDrawn'
  BY <1>1, <1>2 DEF Told, ForceEarned, DueRaised, TimerDrawn, MainBack
<1>8. FailureTold' /\ PauseSet' /\ SpanKept'
  BY <1>0, <1>1, <1>2, <1>3
     DEF Told, FailureTold, PauseSet, SpanKept, MainBack, RecordsOK, HistType, RotOK
<1>9. RotOK'
  BY <1>1 DEF RotOK, MainBack
<1> QED
  BY <1>4, <1>5, <1>6, <1>7, <1>8, <1>9 DEF SInv, Types, Told

(* The clock goes on: everything carried so far belongs to an earlier      *)
(* tick, and no direction is ahead by more than one tick's worth.          *)
LEMMA ClockStep == SInv /\ MainClock => SInv'
<1> SUFFICES ASSUME SInv, MainClock PROVE SInv'
  OBVIOUS
<1>0. MaxTick \in Nat /\ PerTick \in Nat
  BY ScheduleAssumption
<1>1. /\ Types /\ FoldsInTime /\ Volume /\ SeenExact /\ NowPast /\ Told
      /\ TypeOK /\ RotOK /\ RecordsOK /\ rot_bytes' = rot_bytes /\ seen' = seen
      /\ main = "poll" /\ main' = "clock" /\ tick' = tick + 1 /\ m' = m /\ rot' = rot /\ hand' = hand
      /\ hist \in HistType /\ hand.units \in 0..PerTick /\ \A d \in Dirs : Shown(d)' = Shown(d)
  BY DEF SInv, Types, TypeOK, RecordsOK, threads, MainClock, Shown
<1>2. /\ hist'.load = [d \in Dirs |-> 0] /\ hist'.late = hand.units
      /\ hist'.busy = hist.busy /\ hist'.carried = hist.carried
      /\ hist'.failed = hist.failed /\ hist'.drawn = hist.drawn /\ hist'.raised = hist.raised
  BY <1>1 DEF HistType, MainClock
<1>3. tick \in 0..MaxTick /\ tick' \in 0..MaxTick
  BY <1>0, <1>1 DEF TypeOK, MainClock
<1>4. RecordsOK'
  <2>1. [d \in Dirs |-> 0] \in [Dirs -> 0..PerTick]
    BY <1>0
  <2> QED
    <3>1. hist' = [hist EXCEPT !.load = [d \in Dirs |-> 0], !.late = hand.units]
      BY DEF MainClock
    <3>2. hist' \in HistType
      BY <1>1, <2>1, <3>1 DEF HistType
    <3>3. m.due_at <= tick' /\ hist'.drawn <= tick' /\ m' = m
      <4>1. tick \in Nat /\ m.due_at \in Nat /\ hist.drawn \in Nat /\ m.due_at <= tick /\ hist.drawn <= tick
        BY <1>0, <1>1, <1>3 DEF RecordsOK, HistType
      <4> QED
        BY <1>1, <1>2, <4>1
    <3> QED
      BY <1>1, <3>2, <3>3 DEF RecordsOK
<1>5. TypeOK'
  BY <1>1, <1>3 DEF TypeOK, MainClock
<1>6. FoldsInTime' /\ Volume'
  <2>1. /\ Minus(rot_bytes["c2s"], m.pv["c2s"]) <= PerTick
        /\ Minus(rot_bytes["s2c"], m.pv["s2c"]) + hand.units <= PerTick
    <3>1. "c2s" \in Dirs /\ "s2c" \in Dirs /\ hist.late \in 0..PerTick
      BY <1>1 DEF Dirs, HistType
    <3>2. /\ Minus(rot_bytes["c2s"], m.pv["c2s"]) <= hist.load["c2s"]
          /\ Minus(rot_bytes["s2c"], m.pv["s2c"]) + hand.units <= hist.load["s2c"] + hist.late
          /\ hist.load["s2c"] + hist.late <= PerTick
      BY <1>0, <1>1, <3>1, CountersOK DEF FoldsInTime, Ahead
    <3> QED
      BY <1>0, <1>1, <3>1, <3>2, CountersOK
  <2>2. hist'.load["c2s"] = 0 /\ hist'.load["s2c"] = 0
    BY <1>2 DEF Dirs
  <2>3. "c2s" \in Dirs /\ "s2c" \in Dirs
    BY DEF Dirs
  <2>4. FoldsInTime'
    <3>1. /\ Minus(rot_bytes["c2s"], m.pv["c2s"]) \in Int /\ Minus(rot_bytes["s2c"], m.pv["s2c"]) \in Int
          /\ hand'.units = hand.units
      BY <1>0, <1>1, <2>3, CountersOK
    <3>2. /\ rot_bytes' = rot_bytes /\ m' = m /\ Ahead' = PerTick /\ hist'.late = hand.units
      BY <1>1, <1>2 DEF Ahead
    <3>3. Minus(rot_bytes["s2c"], m.pv["s2c"]) + hand.units <= 0 + hand.units + PerTick
      BY <1>0, <1>1, <2>1, <3>1
    <3> QED
      BY <1>0, <1>1, <2>1, <2>2, <3>1, <3>2, <3>3 DEF FoldsInTime
  <2> QED
    BY <1>1, <1>2, <2>4 DEF Volume, MainClock
<1>7. SeenExact'
  <2> SUFFICES ASSUME NEW d \in Dirs
               PROVE  /\ Shown(d) \in SeenType
                      /\ Shown(d).busy = hist.busy[d] /\ Shown(d).busy <= tick + 1 /\ Shown(d).cnt_tick <= tick + 1
                      /\ Shown(d).cnt_tick # tick + 1 /\ hist'.load[d] = 0
    BY <1>1, <1>2 DEF SeenExact, SeenType
  <2>1. Shown(d) \in SeenType /\ Shown(d).busy \in Nat /\ Shown(d).cnt_tick \in Nat
    BY <1>0, <1>1 DEF SeenExact, SeenType
  <2> QED
    BY <1>1, <1>2, <1>3, <2>1 DEF SeenExact
<1>8. NowPast'
  BY <1>0, <1>1, <1>2, <1>3 DEF NowPast, MainClock, TypeOK, None
<1>9. Told'
  BY <1>0, <1>1, <1>2, <1>3
     DEF Told, ForceEarned, DueRaised, TimerDrawn, FailureTold, PauseSet, SpanKept, MainClock,
         RecordsOK, HistType, RotOK, None
<1> QED
  BY <1>1, <1>4, <1>5, <1>6, <1>7, <1>8, <1>9 DEF SInv, Types, RotOK

(* What main's record holds once the traffic is folded in and the threads' *)
(* news is taken, field by field.                                          *)
LEMMA NewsFields ==
    ASSUME Types, m' \in News(Folded)
    PROVE  LET unread == Minus(rot_bytes["c2s"], m.pv["c2s"]) + Minus(rot_bytes["s2c"], m.pv["s2c"])
           IN  /\ m' \in [deadline : Nat, vol : Nat, bytes : Nat, retry : Nat, pv : [Dirs -> 0..Word - 1],
                          due : BOOLEAN, due_at : 0..MaxTick]
               /\ m'.deadline \in 0..MaxTick + rot.t_hi
               /\ m'.pv = rot_bytes /\ m'.due_at = m.due_at
               /\ m'.due = (m.due /\ ~rot_changed /\ ~rot_failed)
               /\ unread \in Nat
               /\ m'.retry = IF rot_failed THEN tick + rot.retry ELSE IF rot_changed THEN tick ELSE m.retry
               /\ rot_changed => /\ m'.bytes = 0
                                 /\ rot.t_lo > 0 => m'.deadline \in {tick + rot.t_lo, tick + rot.t_hi}
               /\ ~rot_changed => /\ m'.bytes = m.bytes + unread
                                  /\ m'.vol = m.vol /\ m'.deadline = m.deadline
<1> DEFINE unread == Minus(rot_bytes["c2s"], m.pv["c2s"]) + Minus(rot_bytes["s2c"], m.pv["s2c"])
           MT == [deadline : Nat, vol : Nat, bytes : Nat, retry : Nat, pv : [Dirs -> 0..Word - 1],
                  due : BOOLEAN, due_at : 0..MaxTick]
<1>0. MaxTick \in Nat /\ Word \in Nat \ {0}
  BY ScheduleAssumption
<1>1. /\ m \in MT /\ rot_bytes \in [Dirs -> 0..Word - 1] /\ tick \in 0..MaxTick
      /\ m.deadline \in 0..MaxTick + rot.t_hi /\ RotOK /\ rot_changed \in BOOLEAN /\ rot_failed \in BOOLEAN
  BY DEF Types, TypeOK, RecordsOK
<1>2. unread \in Nat /\ m.bytes + unread \in Nat
  <2>1. Minus(rot_bytes["c2s"], m.pv["c2s"]) \in Nat /\ Minus(rot_bytes["s2c"], m.pv["s2c"]) \in Nat
    BY <1>0, <1>1 DEF Minus, Dirs
  <2> QED
    BY <1>1, <2>1
<1>3. Folded = [m EXCEPT !.bytes = m.bytes + unread, !.pv = rot_bytes]
  <2>1. Folded = [m EXCEPT !.bytes = m.bytes + Minus(rot_bytes["c2s"], m.pv["c2s"])
                                             + Minus(rot_bytes["s2c"], m.pv["s2c"]),
                           !.pv = rot_bytes]
    BY <1>1 DEF Folded
  <2>2. Minus(rot_bytes["c2s"], m.pv["c2s"]) \in Nat /\ Minus(rot_bytes["s2c"], m.pv["s2c"]) \in Nat /\ m.bytes \in Nat
    BY <1>0, <1>1 DEF Minus, Dirs
  <2>3. m.bytes + Minus(rot_bytes["c2s"], m.pv["c2s"]) + Minus(rot_bytes["s2c"], m.pv["s2c"]) = m.bytes + unread
    BY <2>2
  <2> QED
    BY <2>1, <2>3
<1> HIDE DEF unread
<1>4. /\ Folded \in MT /\ Folded.bytes = m.bytes + unread /\ Folded.pv = rot_bytes
      /\ Folded.deadline = m.deadline /\ Folded.vol = m.vol /\ Folded.retry = m.retry
      /\ Folded.due = m.due /\ Folded.due_at = m.due_at
  BY <1>1, <1>2, <1>3
<1>5. PICK r \in Renewed(Folded) : m' = Paused(r)
  BY DEF News
<1>6. /\ r \in MT /\ r.pv = rot_bytes /\ r.due_at = m.due_at /\ r.due = (m.due /\ ~rot_changed)
      /\ r.deadline \in 0..MaxTick + rot.t_hi
      /\ r.retry = IF rot_changed THEN tick ELSE m.retry
      /\ rot_changed => r.bytes = 0 /\ (rot.t_lo > 0 => r.deadline \in {tick + rot.t_lo, tick + rot.t_hi})
      /\ ~rot_changed => r.bytes = m.bytes + unread /\ r.vol = m.vol /\ r.deadline = m.deadline
  <2>1. CASE ~rot_changed
    <3>1. r = Folded
      BY <1>5, <2>1 DEF Renewed
    <3> QED
      BY <1>1, <1>4, <2>1, <3>1
  <2>2. CASE rot_changed
    <3>1. PICK f \in Fresh(tick) :
            r = [Folded EXCEPT !.deadline = f.deadline, !.vol = f.vol, !.bytes = f.bytes,
                               !.retry = f.retry, !.due = FALSE]
      BY <1>5, <2>2 DEF Renewed
    <3>2. /\ f.deadline \in 0..MaxTick + rot.t_hi /\ f.vol \in Nat /\ f.bytes = 0 /\ f.retry = tick
          /\ rot.t_lo > 0 => f.deadline \in {tick + rot.t_lo, tick + rot.t_hi}
      BY <1>1, FreshOK
    <3>3. f.deadline \in Nat /\ tick \in Nat
      BY <1>0, <1>1, <3>2 DEF RotOK
    <3>4. r = [deadline |-> f.deadline, vol |-> f.vol, bytes |-> 0, retry |-> tick, pv |-> rot_bytes,
               due |-> FALSE, due_at |-> m.due_at]
      BY <1>4, <3>1, <3>2
    <3>5. m.due_at \in 0..MaxTick
      BY <1>1
    <3>6. r \in MT
      BY <1>1, <3>2, <3>3, <3>4, <3>5
    <3>7. /\ r.deadline = f.deadline /\ r.vol = f.vol /\ r.bytes = 0 /\ r.retry = tick /\ r.due = FALSE
          /\ r.pv = rot_bytes /\ r.due_at = m.due_at
      BY <3>4
    <3> QED
      BY <2>2, <3>2, <3>6, <3>7
  <2> QED
    BY <2>1, <2>2
<1>7. CASE ~rot_failed
  <2>1. m' = r
    BY <1>5, <1>7 DEF Paused
  <2> QED
    BY <1>1, <1>2, <1>6, <1>7, <2>1 DEF unread
<1>8. CASE rot_failed
  <2>1. m' = [r EXCEPT !.due = FALSE, !.retry = tick + rot.retry]
    BY <1>5, <1>8 DEF Paused
  <2>2. tick + rot.retry \in Nat
    BY <1>0, <1>1 DEF RotOK
  <2>3. /\ m' \in MT /\ m'.due = FALSE /\ m'.retry = tick + rot.retry /\ m'.deadline = r.deadline
        /\ m'.vol = r.vol /\ m'.bytes = r.bytes /\ m'.pv = r.pv /\ m'.due_at = r.due_at
    BY <1>6, <2>1, <2>2
  <2> QED
    BY <1>1, <1>2, <1>6, <1>8, <2>3 DEF unread
<1> QED
  BY <1>1, <1>7, <1>8

(* Main takes the news: the fold loses nothing, and what the flags told    *)
(* ends up in the schedule.                                                *)
LEMMA NewsStep == SInv /\ MainNews => SInv'
<1> SUFFICES ASSUME SInv, MainNews PROVE SInv'
  OBVIOUS
<1>0. MaxTick \in Nat /\ PerTick \in Nat /\ Word \in Nat \ {0}
  BY ScheduleAssumption
<1>1. /\ Types /\ FoldsInTime /\ Volume /\ SeenExact /\ NowPast /\ Told
      /\ TypeOK /\ RotOK /\ RecordsOK /\ rot_bytes' = rot_bytes /\ seen' = seen
      /\ main = "clock" /\ main' = "news" /\ tick' = tick /\ rot' = rot /\ now' = now
      /\ rot_failed' = FALSE /\ rot_changed' = FALSE /\ hand' = hand
      /\ hist \in HistType /\ \A d \in Dirs : Shown(d)' = Shown(d)
  BY DEF SInv, Types, RecordsOK, threads, MainNews, Shown
<1> DEFINE unread == Minus(rot_bytes["c2s"], m.pv["c2s"]) + Minus(rot_bytes["s2c"], m.pv["s2c"])
<1>2. /\ m' \in [deadline : Nat, vol : Nat, bytes : Nat, retry : Nat, pv : [Dirs -> 0..Word - 1],
                 due : BOOLEAN, due_at : 0..MaxTick]
      /\ m'.deadline \in 0..MaxTick + rot.t_hi
      /\ m'.pv = rot_bytes /\ m'.due_at = m.due_at
      /\ m'.due = (m.due /\ ~rot_changed /\ ~rot_failed)
      /\ unread \in Nat
      /\ m'.retry = IF rot_failed THEN tick + rot.retry ELSE IF rot_changed THEN tick ELSE m.retry
      /\ rot_changed => /\ m'.bytes = 0
                        /\ rot.t_lo > 0 => m'.deadline \in {tick + rot.t_lo, tick + rot.t_hi}
      /\ ~rot_changed => /\ m'.bytes = m.bytes + unread
                         /\ m'.vol = m.vol /\ m'.deadline = m.deadline
  BY <1>1, NewsFields DEF MainNews
<1>3. /\ hist'.load = hist.load /\ hist'.late = hist.late /\ hist'.busy = hist.busy
      /\ hist'.failed = hist.failed /\ hist'.raised = hist.raised
      /\ hist'.drawn = (IF rot_changed THEN tick ELSE hist.drawn)
      /\ hist'.carried = (IF rot_changed THEN 0 ELSE hist.carried)
  BY <1>1 DEF HistType, MainNews, Noted
<1>4. tick \in 0..MaxTick /\ m.retry \in 0..MaxTick + rot.retry /\ m.bytes \in Nat /\ m.vol \in Nat
      /\ rot_changed \in BOOLEAN /\ rot_failed \in BOOLEAN /\ rot_force \in BOOLEAN /\ m.due \in BOOLEAN
  BY <1>1 DEF TypeOK
<1>5. RecordsOK'
  <2>1. hist' \in HistType
    BY <1>1, <1>4 DEF HistType, MainNews, Noted
  <2> QED
    BY <1>1, <1>2, <1>3, <1>4, <2>1 DEF RecordsOK
<1>6. TypeOK'
  <2>1. m'.retry \in 0..MaxTick + rot.retry
    BY <1>0, <1>1, <1>2, <1>4 DEF RotOK
  <2>2. {rot_due', rot_force', rot_changed', rot_failed', pending', m'.due} \subseteq BOOLEAN
    BY <1>1, <1>2, <1>4 DEF TypeOK, MainNews, ForceKept
  <2> QED
    BY <1>1, <1>2, <2>1, <2>2 DEF TypeOK, MainNews
<1>7. FoldsInTime' /\ Volume'
  <2>1. \A d \in Dirs : Minus(rot_bytes[d], rot_bytes[d]) = 0 /\ hist.load[d] \in 0..PerTick
    BY <1>0, <1>1 DEF TypeOK, Minus, RecordsOK, HistType
  <2>2. FoldsInTime'
    <3>1. /\ "c2s" \in Dirs /\ "s2c" \in Dirs
          /\ hand.units \in 0..PerTick /\ hist.late \in 0..PerTick
      BY <1>1 DEF Dirs, TypeOK, HistType
    <3> QED
      BY <1>0, <1>1, <1>2, <1>3, <2>1, <3>1 DEF FoldsInTime, Ahead
  <2>3. rot.mb_lo > 0 => hist'.carried = m'.bytes
    <3>1. rot.mb_lo > 0 => hist.carried = m.bytes + unread
      <4>1. Minus(rot_bytes["c2s"], m.pv["c2s"]) \in Nat /\ Minus(rot_bytes["s2c"], m.pv["s2c"]) \in Nat
        BY <1>0, <1>1 DEF Minus, Dirs, TypeOK, RecordsOK
      <4> QED
        BY <1>1, <1>4, <4>1 DEF Volume
    <3> HIDE DEF unread
    <3> QED
      BY <1>2, <1>3, <3>1
  <2>4. m'.bytes \in Nat /\ "c2s" \in Dirs /\ "s2c" \in Dirs
    BY <1>2 DEF Dirs
  <2>5. Volume'
    BY <1>1, <1>2, <2>1, <2>3, <2>4 DEF Volume
  <2> QED
    BY <2>2, <2>5
<1> HIDE DEF unread
<1>8. SeenExact' /\ NowPast'
  BY <1>1, <1>3 DEF SeenExact, SeenType, NowPast
<1>9. ForceEarned' /\ DueRaised'
  BY <1>1, <1>2, <1>3, <1>4 DEF Told, ForceEarned, DueRaised, MainNews, ForceKept
<1>10. TimerDrawn'
  BY <1>1, <1>2, <1>3, <1>4 DEF Told, TimerDrawn
<1>11. FailureTold'
  BY <1>1, <1>3, <1>4 DEF Told, FailureTold
<1>12. PauseSet'
  <2>1. hist.failed \in {None} \cup 0..MaxTick /\ hist.drawn \in 0..MaxTick /\ rot.retry \in Nat
    BY <1>1 DEF RecordsOK, HistType, RotOK
  <2>2. hist.failed < tick /\ (rot_failed <=> hist.failed # None /\ hist.failed + 1 = tick)
    BY <1>1 DEF Told, FailureTold
  <2>3. CASE rot_failed
    BY <1>0, <1>1, <1>2, <1>3, <1>4, <2>1, <2>2, <2>3 DEF PauseSet, RecordsOK, HistType, None
  <2>4. CASE ~rot_failed /\ rot_changed
    BY <1>0, <1>1, <1>2, <1>3, <1>4, <2>1, <2>2, <2>4 DEF PauseSet, None
  <2>5. CASE ~rot_failed /\ ~rot_changed
    BY <1>1, <1>2, <1>3, <2>5 DEF Told, PauseSet
  <2> QED
    BY <1>4, <2>3, <2>4, <2>5
<1>13. SpanKept'
  BY <1>0, <1>1, <1>2, <1>3, <1>4 DEF Told, SpanKept, RecordsOK, HistType
<1> QED
  BY <1>1, <1>5, <1>6, <1>7, <1>8, <1>9, <1>10, <1>11, <1>12, <1>13 DEF SInv, Types, Told, RotOK

(* A difference of two ticks does not wrap in a run this long.             *)
LEMMA TicksSinceOK ==
    ASSUME NEW at \in 0..MaxTick, NEW t \in 0..MaxTick, at <= t
    PROVE  TicksSince(at, t) = t - at
<1>1. TickWord \in Nat \ {0} /\ MaxTick \in Nat /\ MaxTick < TickWord
  BY ScheduleAssumption
<1>2. at \in 0..TickWord-1 /\ t \in 0..TickWord-1
  BY <1>1
<1> QED
  BY <1>1, <1>2, ModMinus DEF TicksSince

(* The tick ends: the flag goes up, permission to move under load is       *)
(* given, or nothing happens.                                              *)
LEMMA EndOfTickStep == SInv /\ (MainForce \/ MainDue \/ MainNotDue) => SInv'
<1> SUFFICES ASSUME SInv, MainForce \/ MainDue \/ MainNotDue PROVE SInv'
  OBVIOUS
<1>0. MaxTick \in Nat /\ PerTick \in Nat
  BY ScheduleAssumption
<1>1. /\ Types /\ FoldsInTime /\ Volume /\ SeenExact /\ NowPast /\ Told
      /\ TypeOK /\ RotOK /\ RecordsOK /\ rot_bytes' = rot_bytes /\ seen' = seen
      /\ main = "news" /\ main' = "poll" /\ tick' = tick /\ rot' = rot /\ now' = now
      /\ rot_failed' = rot_failed /\ hand' = hand
      /\ hist \in HistType /\ \A d \in Dirs : Shown(d)' = Shown(d)
  BY DEF SInv, Types, RecordsOK, threads, MainForce, MainDue, MainNotDue, Shown
<1>2. /\ hist'.load = hist.load /\ hist'.late = hist.late /\ hist'.busy = hist.busy /\ hist'.carried = hist.carried
      /\ hist'.failed = hist.failed /\ hist'.drawn = hist.drawn
      /\ m'.deadline = m.deadline /\ m'.vol = m.vol /\ m'.bytes = m.bytes /\ m'.retry = m.retry /\ m'.pv = m.pv
  BY <1>1 DEF RecordsOK, HistType, MainForce, MainDue, MainNotDue
<1>3. tick \in 0..MaxTick /\ ~rot_failed /\ rot_force \in BOOLEAN /\ m.due \in BOOLEAN /\ hist.failed < tick
      /\ rot_failed \in BOOLEAN
  BY <1>1 DEF TypeOK, Told, FailureTold
<1>4. FoldsInTime' /\ Volume' /\ SeenExact' /\ NowPast' /\ RotOK' /\ TimerDrawn'
  BY <1>1, <1>2 DEF FoldsInTime, Volume, Ahead, SeenExact, SeenType, NowPast, RotOK, Told, TimerDrawn
<1>5. FailureTold' /\ PauseSet'
  BY <1>0, <1>1, <1>2, <1>3 DEF Told, FailureTold, PauseSet, RecordsOK, HistType, None
<1>6. CASE MainForce
  <2>1. m' = m /\ hist' = hist
    BY <1>6 DEF MainForce
  <2>2. TicksSince(m.due_at, tick) = tick - m.due_at
    BY <1>1, <1>3, TicksSinceOK DEF RecordsOK
  <2>3. ForceEarned' /\ DueRaised' /\ SpanKept'
    BY <1>1, <1>6, <2>1, <2>2 DEF MainForce, Told, ForceEarned, DueRaised, SpanKept
  <2>4. RecordsOK'
    BY <1>1, <2>1 DEF RecordsOK
  <2>5. TypeOK'
    <3>1. {rot_due', rot_force', rot_changed', rot_failed', pending', m'.due} \subseteq BOOLEAN
      BY <1>1, <1>3, <1>6 DEF TypeOK, MainForce, RotOK
    <3> QED
      BY <1>1, <1>6, <2>1, <3>1 DEF TypeOK, MainForce
  <2> QED
    BY <1>4, <1>5, <2>3, <2>4, <2>5 DEF SInv, Types, Told
<1>7. CASE MainDue
  <2>1. m'.due = TRUE /\ m'.due_at = tick /\ hist'.raised = tick /\ rot_force' = rot_force /\ ~m.due
    BY <1>1, <1>7 DEF MainDue, RecordsOK, HistType
  <2>2. ForceEarned' /\ DueRaised'
    BY <1>1, <2>1 DEF Told, ForceEarned, DueRaised
  <2>3. SpanKept'
    <3> SUFFICES ASSUME rot.t_lo > 0, tick < hist.drawn + rot.t_lo PROVE m.vol > 0 /\ m.bytes >= m.vol
      BY <1>1, <1>2, <2>1 DEF SpanKept
    <3>1. m.deadline \in {hist.drawn + rot.t_lo, hist.drawn + rot.t_hi} /\ rot.t_lo <= rot.t_hi
          /\ hist.drawn \in Nat /\ rot.t_lo \in Nat /\ rot.t_hi \in Nat
      BY <1>0, <1>1 DEF Told, TimerDrawn, RotOK, RecordsOK, HistType
    <3>2. ~(tick >= m.deadline)
      BY <1>3, <1>0, <3>1
    <3> QED
      BY <1>7, <3>2 DEF MainDue, IsDue
  <2>4. RecordsOK'
    <3>1. m' = [m EXCEPT !.due = TRUE, !.due_at = tick] /\ hist' = [hist EXCEPT !.raised = tick]
      BY <1>7 DEF MainDue
    <3>2. m' \in [deadline : Nat, vol : Nat, bytes : Nat, retry : Nat, pv : [Dirs -> 0..Word - 1],
                 due : BOOLEAN, due_at : 0..MaxTick]
      BY <1>1, <1>3, <3>1 DEF RecordsOK
    <3>3. hist' \in HistType
      BY <1>1, <1>3, <3>1 DEF HistType
    <3>4. m'.due_at <= tick' /\ hist'.drawn <= tick'
      BY <1>0, <1>1, <1>2, <1>3, <2>1 DEF RecordsOK, HistType
    <3> QED
      BY <3>2, <3>3, <3>4 DEF RecordsOK
  <2>5. TypeOK'
    <3>1. {rot_due', rot_force', rot_changed', rot_failed', pending', m'.due} \subseteq BOOLEAN
      BY <1>1, <1>7, <2>1 DEF TypeOK, MainDue
    <3> QED
      BY <1>1, <1>2, <1>3, <1>7, <2>1, <3>1 DEF TypeOK, MainDue
  <2> QED
    BY <1>4, <1>5, <2>2, <2>3, <2>4, <2>5 DEF SInv, Types, Told
<1>8. CASE MainNotDue
  <2>1. m' = m /\ hist' = hist /\ rot_force' = rot_force /\ ~m.due /\ ~IsDue(m)
    BY <1>8 DEF MainNotDue
  <2>2. ForceEarned' /\ DueRaised'
    BY <1>1, <2>1 DEF Told, ForceEarned, DueRaised
  <2>3. SpanKept'
    <3> SUFFICES ASSUME rot.t_lo > 0, hist.failed < hist.drawn PROVE tick < hist.drawn + rot.t_hi
      BY <1>1, <2>1 DEF SpanKept
    <3>1. m.deadline \in {hist.drawn + rot.t_lo, hist.drawn + rot.t_hi} /\ rot.t_lo <= rot.t_hi
          /\ hist.drawn \in Nat /\ rot.t_lo \in Nat /\ rot.t_hi \in Nat /\ rot.retry \in Nat
          /\ rot.retry <= rot.t_lo /\ m.retry <= hist.drawn + rot.retry /\ m.retry \in Nat
      BY <1>0, <1>1 DEF Told, TimerDrawn, RotOK, RecordsOK, HistType, PauseSet
    <3>2. tick < m.retry \/ tick < m.deadline
      BY <1>0, <1>3, <2>1, <3>1 DEF IsDue
    <3> QED
      BY <1>0, <1>3, <3>1, <3>2
  <2>4. RecordsOK'
    BY <1>1, <2>1 DEF RecordsOK
  <2>5. TypeOK'
    BY <1>1, <1>8, <2>1 DEF TypeOK, MainNotDue
  <2> QED
    BY <1>4, <1>5, <2>2, <2>3, <2>4, <2>5 DEF SInv, Types, Told
<1> QED
  BY <1>6, <1>7, <1>8

(* Every step of the specification keeps the invariant.                    *)
LEMMA SStep == SInv /\ [Next]_vars => SInv'
<1> SUFFICES ASSUME SInv, [Next]_vars PROVE SInv'
  OBVIOUS
<1>0. {rot_due, rot_force, rot_changed, rot_failed, pending} \subseteq BOOLEAN
  BY DEF SInv, Types, TypeOK
<1>1. ASSUME NEW b \in 1..PerTick, C2sSend(b) \/ S2cTake(b) PROVE SInv'
  BY <1>1, C2sSendStep, S2cTakeStep
<1>2. CASE S2cAnswer
  <2>1. /\ UNCHANGED <<rot, tick, main, m, rot_force, rot_failed, rot_bytes, seen>> /\ hist' = hist
        /\ hand.step = "noted" /\ hand' = [hand EXCEPT !.step = "answered"] /\ now' = now
        /\ {rot_due', rot_changed', pending'} \subseteq BOOLEAN
    BY <1>0, <1>2 DEF S2cAnswer
  <2> QED
    BY <2>1, LightStep
<1>3. CASE C2sTry \/ C2sMove \/ C2sStay \/ ReconnectBegins \/ Reconnect \/ UNCHANGED vars
  <2>1. {rot_due', rot_changed', pending'} \subseteq BOOLEAN
    BY <1>0, <1>3 DEF C2sTry, C2sMove, C2sStay, ReconnectBegins, Reconnect, vars
  <2>2. /\ UNCHANGED <<rot, tick, main, m, rot_force, rot_failed, rot_bytes, seen>> /\ hand' = hand
        /\ hist' = hist \/ hist' = [hist EXCEPT !.reconnects = @ + 1]
        /\ now' \in {now, None, tick}
    BY <1>3 DEF C2sTry, C2sMove, C2sStay, ReconnectBegins, Reconnect, vars, threads
  <2> QED
    BY <2>1, <2>2, LightStep
<1> QED
  BY <1>1, <1>2, <1>3, S2cNoteStep, S2cCountStep, BackStep, ClockStep, NewsStep, EndOfTickStep DEF Next

(* The invariant holds of every reachable state.                           *)
LEMMA SInvAlways == Spec => []SInv
<1> QED
  BY SInit, SStep, PTL DEF Spec

-----------------------------------------------------------------------------
(* rot_main_tick's sum of two wrapping counters, read while the threads    *)
(* write them, is what they carried: for any word that holds two ticks of  *)
(* traffic.                                                                *)
THEOREM VolumeExactAlways == Spec => []VolumeExact
<1>1. SInv => VolumeExact
  BY DEF SInv, Types, Volume, VolumeExact
<1> QED
  BY SInvAlways, <1>1, PTL

(* rot_is_due raises the flag within the span the port was given, whatever *)
(* the reconnects and failed moves before.                                 *)
THEOREM DueInItsSpanAlways == Spec => []DueInItsSpan
<1>1. SInv => DueInItsSpan
  BY DEF SInv, Told, SpanKept, DueInItsSpan
<1> QED
  BY SInvAlways, <1>1, PTL

(* The pause after a failed move is kept in full, also when a reconnect is *)
(* reported in the same tick (rot_main_tick takes the failure second).     *)
THEOREM RetryKeptAlways == Spec => RetryKept
<1>1. SInv /\ [Next]_vars =>
        [rot_due' /\ ~rot_due /\ hist.failed # None /\ hist.drawn <= hist.failed + 1 =>
            tick - hist.failed > rot.retry]_vars
  <2> SUFFICES ASSUME SInv, Next, rot_due', ~rot_due, hist.failed # None, hist.drawn <= hist.failed + 1
               PROVE  tick - hist.failed > rot.retry
    OBVIOUS
  <2>1. MainDue
    BY DEF Next, C2sSend, S2cTake, S2cNote, S2cAnswer, S2cCount, C2sTry, C2sMove, C2sStay, ReconnectBegins, Reconnect,
           MainBack, MainClock, MainNews, MainForce, MainNotDue
  <2>2. tick >= m.retry /\ main = "news"
    BY <2>1 DEF MainDue, IsDue
  <2>3. m.retry > hist.failed + rot.retry
    BY <2>2 DEF SInv, Told, PauseSet, FailureTold
  <2>4. tick \in Nat /\ m.retry \in Nat /\ hist.failed \in Int /\ rot.retry \in Nat
    <3>1. MaxTick \in Nat
      BY ScheduleAssumption
    <3> QED
      BY <3>1 DEF SInv, Types, TypeOK, RecordsOK, HistType, RotOK, None
  <2> QED
    BY <2>2, <2>3, <2>4
<1> QED
  BY SInvAlways, <1>1, PTL DEF Spec, RetryKept

(* A move under load is made only after a full wait of its own: rot_force  *)
(* never outlives the due port that earned it.                             *)
THEOREM ForcedOnlyAfterWaitAlways == Spec => ForcedOnlyAfterWait
<1>1. SInv /\ [Next]_vars =>
        [pending' /\ ~pending /\ Busy => rot.soft /\ tick - hist.raised >= rot.force]_vars
  <2> SUFFICES ASSUME SInv, Next, pending', ~pending, Busy
               PROVE  rot.soft /\ tick - hist.raised >= rot.force
    OBVIOUS
  <2>1. C2sMove
    BY DEF Next, C2sSend, S2cTake, S2cNote, S2cAnswer, S2cCount, C2sTry, C2sStay, ReconnectBegins, Reconnect,
           MainBack, MainClock, MainNews, MainForce, MainDue, MainNotDue
  <2>2. rot.soft /\ rot_force
    BY <2>1 DEF C2sMove
  <2> QED
    BY <2>2 DEF SInv, Told, ForceEarned, DueRaised
<1> QED
  BY SInvAlways, <1>1, PTL DEF Spec, ForcedOnlyAfterWait

(* rot_try's window is really quiet: no direction was busy in the last     *)
(* rot.idle ticks before the tick c2s read, as far as s2c has said.        *)
THEOREM MovesInQuietAlways == Spec => MovesInQuiet
<1>1. SInv /\ [Next]_vars =>
        [pending' /\ ~pending /\ ~Busy /\ hist.busy["s2c"] <= now /\ hand.step # "taken" =>
            \A d \in Dirs : now - hist.busy[d] > rot.idle]_vars
  <2> SUFFICES ASSUME SInv, Next, pending', ~pending, ~Busy, hist.busy["s2c"] <= now,
                      hand.step # "taken"
               PROVE  \A d \in Dirs : now - hist.busy[d] > rot.idle
    OBVIOUS
  <2>1. C2sMove
    BY DEF Next, C2sSend, S2cTake, S2cNote, S2cAnswer, S2cCount, C2sTry, C2sStay, ReconnectBegins, Reconnect,
           MainBack, MainClock, MainNews, MainForce, MainDue, MainNotDue
  <2>2. MaxTick \in Nat
    BY ScheduleAssumption
  <2>3. /\ now \in 0..MaxTick /\ rot.idle \in Nat
        /\ hist.busy["c2s"] \in 0..MaxTick /\ hist.busy["s2c"] \in 0..MaxTick /\ hist.busy["c2s"] <= now
        /\ seen["c2s"].busy = hist.busy["c2s"] /\ seen["s2c"].busy = hist.busy["s2c"]
    BY <2>1 DEF C2sMove, SInv, Types, TypeOK, RecordsOK, HistType, RotOK, NowPast, SeenExact, Shown, Dirs
  <2>4. LastBusy = IF hist.busy["c2s"] >= hist.busy["s2c"] THEN hist.busy["c2s"] ELSE hist.busy["s2c"]
    <3>1. {seen[d].busy : d \in Dirs} = {hist.busy["c2s"], hist.busy["s2c"]}
      BY <2>3 DEF Dirs
    <3>2. hist.busy["c2s"] \in Int /\ hist.busy["s2c"] \in Int
      BY <2>2, <2>3
    <3> QED
      BY <3>1, <3>2, MaxOfTwo DEF LastBusy
  <2>5. LastBusy \in 0..MaxTick /\ LastBusy <= now
    BY <2>2, <2>3, <2>4
  <2>6. TicksSince(LastBusy, now) = now - LastBusy
    BY <2>3, <2>5, TicksSinceOK
  <2>7. now - LastBusy > rot.idle
    BY <2>2, <2>3, <2>5, <2>6 DEF Busy
  <2>8. now - hist.busy["c2s"] > rot.idle /\ now - hist.busy["s2c"] > rot.idle
    BY <2>2, <2>3, <2>4, <2>7
  <2> QED
    BY <2>8 DEF Dirs
<1> QED
  BY SInvAlways, <1>1, PTL DEF Spec, MovesInQuiet

-----------------------------------------------------------------------------
(* The watchdog.                                                           *)

(* The hops counted and the ticks since the last one never claim more      *)
(* silence than there was.                                                 *)
NoMoreThanHeard == silence = cfg.checks \/ hop_rounds * cfg.hop + silent_ticks <= silence

(* Rounds are only counted when there is more than one port and a hop      *)
(* comes before AWG_TIMEOUT; otherwise the dead-remote verdict would leave *)
(* a count behind that no silence stands for.                              *)
RoundsOfHops == hop_rounds # 0 => cfg.hop # 0 /\ cfg.hop <= cfg.checks

WInv == WatchdogTypeOK /\ NoMoreThanHeard /\ RoundsOfHops

(* A configuration's fields are numbers, all but the hop at least 1.       *)
LEMMA ConfigFields ==
    ASSUME cfg \in Configs
    PROVE  /\ cfg.profiles \in Nat /\ cfg.profiles >= 1 /\ cfg.fb \in Nat /\ cfg.fb >= 1
           /\ cfg.hop \in Nat /\ cfg.checks \in Nat /\ cfg.checks >= 1
BY WatchdogAssumption

(* One round more is one hop more, and rounds of a port hop are no longer  *)
(* than the ticks they stand for.                                          *)
LEMMA Rounds ==
    ASSUME NEW r \in Nat, NEW h \in Nat
    PROVE  /\ r * h \in Nat /\ (r + 1) * h = r * h + h
           /\ h > 0 => r <= r * h
<1>1. r * h \in Nat /\ (r + 1) * h = r * h + h
  OBVIOUS
<1>2. ASSUME h > 0 PROVE r <= r * h
  <2>1. PICK k \in Nat : h = k + 1
    <3>1. h - 1 \in Nat /\ h = (h - 1) + 1
      BY <1>2
    <3> QED
      BY <3>1
  <2>2. r * h = r * k + r /\ r * k \in Nat
    BY <2>1
  <2> QED
    BY <2>2
<1> QED
  BY <1>1, <1>2

(* The process starts with every clock at zero.                            *)
LEMMA WInit == WatchdogInit => WInv
<1> SUFFICES ASSUME WatchdogInit PROVE WInv
  OBVIOUS
<1>1. cfg \in Configs
  BY DEF WatchdogInit
<1> USE ConfigFields, <1>1
<1>2. in \in Inputs
  BY DEF WatchdogInit, Inputs
<1>3. WatchdogTypeOK
  <2>1. 0 \in 0..cfg.fb-1 /\ 0 \in 0..cfg.profiles-1 /\ 0 \in 0..cfg.checks /\ 0 \in 0..1
    OBVIOUS
  <2> QED
    BY <1>2, <2>1 DEF WatchdogInit, WatchdogTypeOK
<1>4. 0 * cfg.hop = 0
  OBVIOUS
<1> QED
  BY <1>3, <1>4 DEF WatchdogInit, WInv, NoMoreThanHeard, RoundsOfHops

(* What one tick does to the silence clock: it counts this tick or starts  *)
(* again at a stage switch.                                                *)
LEMMA SilentGrows ==
    ASSUME WatchdogTypeOK, NEW i \in Inputs
    PROVE  Silent(i) \in 1..cfg.checks /\ Silent(i) <= silent_ticks + 1
BY ConfigFields DEF WatchdogTypeOK, Silent

(* The verdict on the family falls no sooner than AWG_TIMEOUT.             *)
LEMMA VerdictInTime ==
    ASSUME WInv, NEW i \in Inputs, LastRound(i) \/ DeadFires(i)
    PROVE  silence + 1 >= cfg.checks
<1>1. WatchdogTypeOK /\ NoMoreThanHeard /\ cfg \in Configs /\ hop_rounds \in Nat /\ silent_ticks \in Nat /\ silence \in Nat
  BY DEF WInv, WatchdogTypeOK
<1>2. cfg.hop \in Nat /\ cfg.checks \in Nat
  BY <1>1, ConfigFields
<1>3. Silent(i) \in Nat /\ Silent(i) <= silent_ticks + 1
  BY <1>1, <1>2, SilentGrows
<1> DEFINE p == hop_rounds * cfg.hop
<1>4. p \in Nat /\ (hop_rounds + 1) * cfg.hop = p + cfg.hop
  BY <1>1, <1>2, Rounds
<1>5. silence = cfg.checks \/ p + silent_ticks <= silence
  BY <1>1 DEF NoMoreThanHeard
<1>6. p + Silent(i) >= cfg.checks
  <2>1. CASE LastRound(i)
    <3>1. p + cfg.hop >= cfg.checks /\ Silent(i) >= cfg.hop
      BY <1>4, <2>1 DEF LastRound, HopFires
    <3> HIDE DEF p
    <3> QED
      BY <1>2, <1>3, <1>4, <3>1
  <2>2. CASE DeadFires(i)
    <3>1. Silent(i) >= cfg.checks
      BY <2>2 DEF DeadFires
    <3> HIDE DEF p
    <3> QED
      BY <1>2, <1>3, <1>4, <3>1
  <2> QED
    BY <2>1, <2>2
<1> HIDE DEF p
<1> QED
  BY <1>1, <1>2, <1>3, <1>4, <1>5, <1>6

(* A tick keeps every counter in its range.                                *)
LEMMA TickType ==
    ASSUME WInv, NEW i \in Inputs, Fallback(i), Watch(i), DnsCheck(i), Ghosts(i),
           reconnect_needed' = (reconnect_needed \/ Asked(i) \/ DnsFires(i)),
           UNCHANGED <<cfg, up>>
    PROVE  WatchdogTypeOK'
<1>1. WatchdogTypeOK /\ RoundsOfHops /\ cfg \in Configs
  BY DEF WInv, WatchdogTypeOK
<1> USE <1>1, ConfigFields
<1>2. (fb_silent_count \in 0..cfg.fb-1)'
  BY DEF WatchdogTypeOK, Fallback, FbFires, Inputs
<1>3. (active_profile \in 0..cfg.profiles-1)'
  BY DEF WatchdogTypeOK, Fallback
<1>4. (silent_ticks \in 0..cfg.checks)'
  BY SilentGrows DEF Watch
<1>5. (hop_rounds \in 0..cfg.checks)'
  <2>1. CASE HopFires(i) /\ ~LastRound(i) /\ ~i.rx
    <3>1. hop_rounds' = hop_rounds + 1 /\ hop_rounds \in Nat /\ hop_rounds + 1 \in Nat /\ cfg.hop > 0
      BY <2>1 DEF Watch, NextRound, HopFires, WatchdogTypeOK
    <3>2. (hop_rounds + 1) * cfg.hop < cfg.checks
      <4>1. (hop_rounds + 1) * cfg.hop \in Nat
        BY <3>1, Rounds
      <4> QED
        BY <2>1, <4>1 DEF LastRound
    <3>3. hop_rounds + 1 <= (hop_rounds + 1) * cfg.hop
      BY <3>1, Rounds
    <3>4. (hop_rounds + 1) * cfg.hop \in Nat
      BY <3>1, Rounds
    <3> QED
      BY <3>1, <3>2, <3>3, <3>4
  <2>2. CASE ~(HopFires(i) /\ ~LastRound(i) /\ ~i.rx)
    <3>1. hop_rounds' = 0 \/ hop_rounds' = hop_rounds
      BY <2>2 DEF Watch, NextRound
    <3> QED
      BY <3>1 DEF WatchdogTypeOK
  <2> QED
    BY <2>1, <2>2
<1>6. (dns_miss \in 0..1)'
  BY DEF WatchdogTypeOK, DnsCheck, DnsFires
<1>7. (init_unanswered \in BOOLEAN /\ he_reset \in BOOLEAN /\ remote_dead \in BOOLEAN)'
  BY DEF Watch
<1>8. (reconnect_needed \in BOOLEAN /\ up \in BOOLEAN /\ cfg \in Configs /\ in \in Inputs)'
  BY DEF WatchdogTypeOK, Ghosts
<1>9. (silence \in 0..cfg.checks)'
  BY DEF WatchdogTypeOK, Ghosts, Capped
<1> QED
  BY <1>2, <1>3, <1>4, <1>5, <1>6, <1>7, <1>8, <1>9 DEF WatchdogTypeOK

(* A tick adds to the counted silence no more than itself.                 *)
LEMMA TickStep == WInv /\ Tick => WInv'
<1> SUFFICES ASSUME WInv, Tick PROVE WInv'
  OBVIOUS
<1>1. PICK i \in Inputs :
        /\ Fallback(i) /\ Watch(i) /\ DnsCheck(i) /\ Ghosts(i)
        /\ reconnect_needed' = (reconnect_needed \/ Asked(i) \/ DnsFires(i))
        /\ UNCHANGED <<cfg, up>>
  BY DEF Tick
<1>2. WatchdogTypeOK'
  BY <1>1, TickType
<1>3. WatchdogTypeOK /\ NoMoreThanHeard /\ RoundsOfHops /\ cfg \in Configs
      /\ hop_rounds \in Nat /\ silent_ticks \in Nat /\ silence \in Nat /\ silence <= cfg.checks
  BY DEF WInv, WatchdogTypeOK
<1>4. cfg.hop \in Nat /\ cfg.checks \in Nat
  BY <1>3, ConfigFields
<1>4a. Silent(i) \in Nat /\ Silent(i) <= cfg.checks /\ Silent(i) <= silent_ticks + 1
  BY <1>3, <1>4, SilentGrows
<1>5. RoundsOfHops'
  BY <1>1, <1>3, <1>4, <1>4a DEF RoundsOfHops, Watch, NextRound, HopFires
<1>6. NoMoreThanHeard'
  <2> DEFINE p == hop_rounds * cfg.hop
  <2>0. /\ p \in Nat /\ (hop_rounds + 1) * cfg.hop = p + cfg.hop
        /\ 0 * cfg.hop = 0
    BY <1>3, <1>4, Rounds
  <2>1. CASE i.rx \/ LastRound(i) \/ DeadFires(i)
    <3>1. hop_rounds' = 0
      <4>1. CASE i.rx \/ LastRound(i)
        BY <1>1, <4>1 DEF Watch, NextRound
      <4>2. CASE DeadFires(i) /\ ~i.rx /\ ~LastRound(i)
        <5>1. hop_rounds' = hop_rounds /\ (cfg.hop # 0 => Silent(i) < cfg.hop) /\ Silent(i) >= cfg.checks
          BY <1>1, <1>4, <1>4a, <4>2 DEF Watch, NextRound, DeadFires, HopFires
        <5> QED
          BY <1>3, <1>4, <1>4a, <5>1 DEF RoundsOfHops
      <4> QED
        BY <2>1, <4>1, <4>2
    <3>2. silent_ticks' = 0 /\ silence' = 0 /\ cfg' = cfg
      BY <1>1, <2>1 DEF Watch, Ghosts, Restart, Verdict, LastRound
    <3> QED
      BY <2>0, <3>1, <3>2 DEF NoMoreThanHeard
  <2>2. CASE ~(i.rx \/ LastRound(i) \/ DeadFires(i))
    <3>1. silence' = Capped(silence + 1) /\ cfg' = cfg
      BY <1>1, <2>2 DEF Ghosts
    <3>2. silence' = cfg.checks \/ (silence' = silence + 1 /\ silence # cfg.checks)
      BY <1>3, <1>4, <3>1 DEF Capped
    <3>3. silence # cfg.checks => p + silent_ticks <= silence
      BY <1>3 DEF NoMoreThanHeard
    <3>4. hop_rounds' * cfg.hop + silent_ticks' <= p + Silent(i)
      <4>1. CASE HopFires(i)
        <5>1. hop_rounds' = hop_rounds + 1 /\ silent_ticks' = 0 /\ Silent(i) >= cfg.hop
          BY <1>1, <2>2, <4>1 DEF Watch, NextRound, Restart, Verdict, HopFires
        <5>2. hop_rounds' * cfg.hop = p + cfg.hop
          BY <2>0, <5>1
        <5> HIDE DEF p
        <5> QED
          BY <1>4, <1>4a, <2>0, <5>1, <5>2
      <4>2. CASE ~HopFires(i)
        <5>1. hop_rounds' = hop_rounds /\ silent_ticks' = Silent(i)
          BY <1>1, <2>2, <4>2 DEF Watch, NextRound, Restart, Verdict
        <5>2. hop_rounds' * cfg.hop = p
          BY <5>1
        <5> HIDE DEF p
        <5> QED
          BY <1>4a, <2>0, <5>1, <5>2
      <4> QED
        BY <4>1, <4>2
    <3>5. hop_rounds' * cfg.hop \in Nat /\ silent_ticks' \in Nat
      <4>1. hop_rounds' \in Nat /\ silent_ticks' \in Nat
        BY <1>2 DEF WatchdogTypeOK
      <4> QED
        BY <1>4, <4>1, Rounds
    <3> DEFINE q == hop_rounds' * cfg.hop
    <3>6. silence' = cfg.checks \/ q + silent_ticks' <= silence'
      <4>1. q \in Nat /\ q + silent_ticks' <= p + Silent(i)
        BY <3>4, <3>5
      <4> HIDE DEF p, q
      <4> QED
        BY <1>3, <1>4, <1>4a, <2>0, <3>2, <3>3, <3>5, <4>1
    <3> QED
      BY <3>1, <3>6 DEF NoMoreThanHeard
  <2> QED
    BY <2>1, <2>2
<1> QED
  BY <1>2, <1>5, <1>6 DEF WInv

(* A request or a dial touches none of the clocks.                         *)
LEMMA OtherStep == WInv /\ (Ask \/ Dial \/ UNCHANGED watchdog) => WInv'
<1> SUFFICES ASSUME WInv, Ask \/ Dial \/ UNCHANGED watchdog PROVE WInv'
  OBVIOUS
<1>1. UNCHANGED <<cfg, clocks, ghost>>
  BY DEF Ask, Dial, watchdog
<1>2. (he_reset \in BOOLEAN /\ remote_dead \in BOOLEAN /\ reconnect_needed \in BOOLEAN /\ up \in BOOLEAN)'
  BY DEF WInv, WatchdogTypeOK, Ask, Dial, watchdog, shared
<1> QED
  BY <1>1, <1>2 DEF WInv, WatchdogTypeOK, NoMoreThanHeard, RoundsOfHops, clocks, ghost

(* The clocks claim no silence that was not there, in every reachable      *)
(* state of the tick.                                                      *)
THEOREM CountedSilenceIsReal == WatchdogSpec => []WInv
<1>1. WInv /\ [WatchdogNext]_watchdog => WInv'
  BY TickStep, OtherStep DEF WatchdogNext
<1> QED
  BY WInit, <1>1, PTL DEF WatchdogSpec

(* The verdicts of the watchdog and of the hops together (proxy_run's tick)*)
(* raise he_reset only when the remote was silent for AWG_TIMEOUT.         *)
THEOREM FamilyKept == WatchdogSpec => FamilyKeptForShortSilence
<1>1. WInv /\ [WatchdogNext]_watchdog => [WatchdogTypeOK' /\ (~he_reset /\ he_reset' => silence + 1 >= cfg.checks)]_watchdog
  <2> SUFFICES ASSUME WInv, WatchdogNext
               PROVE  WatchdogTypeOK' /\ (~he_reset /\ he_reset' => silence + 1 >= cfg.checks)
    OBVIOUS
  <2>1. WatchdogTypeOK'
    BY TickStep, OtherStep DEF WatchdogNext, WInv
  <2>2. ASSUME ~he_reset, he_reset' PROVE silence + 1 >= cfg.checks
    <3>1. Tick
      BY <2>2 DEF WatchdogNext, Ask, Dial
    <3>2. PICK i \in Inputs : Watch(i)
      BY <3>1 DEF Tick
    <3>3. LastRound(i) \/ DeadFires(i)
      BY <2>2, <3>2 DEF Watch
    <3> QED
      BY <3>2, <3>3, VerdictInTime
  <2> QED
    BY <2>1, <2>2
<1> QED
  BY CountedSilenceIsReal, <1>1, PTL DEF WatchdogSpec, FamilyKeptForShortSilence
==============================================================================
