--------------------------- MODULE RotLag_proofs ---------------------------
(***************************************************************************)
(* The ring of copies implements the queue LagQueue, for every size of the *)
(* ring and of a batch and all three times.                                *)
(***************************************************************************)
EXTENDS RotLag, SequenceTheorems, WellFoundedInduction, TLAPS

(* c2s has copies in hand only while it sends.                             *)
InHand == c2s.pc # "send" => c2s.due = 0

(* The socket c2s found closed is not opened behind its back: only c2s     *)
(* makes a move.                                                           *)
ClosedStays == c2s.pc = "dual" /\ ~c2s.old => ~old_open

RInv == TypeOK /\ InHand /\ ClosedStays

-----------------------------------------------------------------------------
(* The arithmetic of the ring.                                             *)

(* Slots are found by wrapping once.                                       *)
LEMMA SlotWraps ==
    ASSUME NEW a \in 0..N-1, NEW b \in 0..N-1
    PROVE  /\ (a + b) % N \in 0..N-1
           /\ (a + b) % N = IF a + b < N THEN a + b ELSE a + b - N
BY RotLagAssumption

(* Two places in the ring are two slots.                                   *)
LEMMA SlotsDiffer ==
    ASSUME NEW h \in 0..N-1, NEW i \in 0..N-1, NEW j \in 0..N-1, i # j
    PROVE  (h + i) % N # (h + j) % N
<1>1. (h + i) % N = IF h + i < N THEN h + i ELSE h + i - N
  BY SlotWraps
<1>2. (h + j) % N = IF h + j < N THEN h + j ELSE h + j - N
  BY SlotWraps
<1> QED
  BY <1>1, <1>2, RotLagAssumption

(* Moving the head by k moves every place by k.                            *)
LEMMA SlotShifts ==
    ASSUME NEW h \in 0..N-1, NEW k \in Nat, NEW i \in Nat, k + i < N
    PROVE  (((h + k) % N) + i) % N = (h + (k + i)) % N
<1>0. k \in 0..N-1 /\ i \in 0..N-1 /\ k + i \in 0..N-1 /\ N \in Nat
  BY RotLagAssumption
<1> DEFINE g == (h + k) % N
<1>1. g \in 0..N-1 /\ g = IF h + k < N THEN h + k ELSE h + k - N
  BY <1>0, SlotWraps
<1> HIDE DEF g
<1>2. (g + i) % N = IF g + i < N THEN g + i ELSE g + i - N
  BY <1>0, <1>1, SlotWraps
<1>3. (h + (k + i)) % N = IF h + (k + i) < N THEN h + (k + i) ELSE h + (k + i) - N
  BY <1>0, SlotWraps
<1>4. (g + i) % N = (h + (k + i)) % N
  BY <1>0, <1>1, <1>2, <1>3
<1> QED
  BY <1>4 DEF g

(* What waits is a sequence of copies as long as the ring says.            *)
WaitingOK ==
    /\ Waiting \in Seq(Copies) /\ Len(Waiting) = rot_lag_n
    /\ \A i \in 1..rot_lag_n : Waiting[i] = rot_lag[(rot_lag_head + (i - 1)) % N].c

(* WaitingOK holds of every ring that is in range.                         *)
LEMMA WaitingIsSeq == TypeOK => WaitingOK
<1> SUFFICES ASSUME TypeOK PROVE WaitingOK
  OBVIOUS
<1>0. rot_lag_n \in Nat /\ rot_lag_n <= N /\ N \in Nat \ {0}
  BY RotLagAssumption DEF TypeOK
<1>1. \A i \in 1..rot_lag_n : rot_lag[(rot_lag_head + (i - 1)) % N].c \in Copies
  <2> SUFFICES ASSUME NEW i \in 1..rot_lag_n PROVE rot_lag[(rot_lag_head + (i - 1)) % N].c \in Copies
    OBVIOUS
  <2>1. (rot_lag_head + (i - 1)) % N \in 0..N-1
    BY <1>0, SlotWraps DEF TypeOK
  <2> QED
    BY <2>1 DEF TypeOK, Entry
<1>2. Waiting = [i \in 1..rot_lag_n |-> rot_lag[(rot_lag_head + (i - 1)) % N].c]
  BY DEF Waiting, Slot
<1>3. Waiting \in [1..rot_lag_n -> Copies]
  BY <1>1, <1>2
<1> QED
  BY <1>0, <1>2, <1>3 DEF WaitingOK

(* A nonempty set of natural numbers has a least element.                  *)
LEMMA LeastNat ==
    ASSUME NEW T, T \subseteq Nat, T # {}
    PROVE  \E x \in T : \A y \in T : x <= y
<1> DEFINE R == {p \in Nat \X Nat : p[1] < p[2]}
<1>1. IsWellFoundedOn(R, Nat)
  BY NatLessThanWellFounded DEF OpToRel
<1>2. \A x, y \in Nat : <<y, x>> \in R <=> y < x
  OBVIOUS
<1> HIDE DEF R
<1>3. PICK x \in T : \A y \in T : ~(<<y, x>> \in R)
  BY <1>1, WFMin
<1>4. ASSUME NEW y \in T PROVE x <= y
  <2>1. x \in Nat /\ y \in Nat
    OBVIOUS
  <2>2. ~(y < x)
    BY <1>2, <1>3, <2>1
  <2> QED
    BY <2>1, <2>2
<1> QED
  BY <1>4

(* rot_lag_service finds how many copies are due: a number of copies that  *)
(* wait, all of them due, and the next one is not.                         *)
LEMMA DueInRing ==
    ASSUME TypeOK
    PROVE  Due \in 0..rot_lag_n
<1>0. rot_lag_n \in Nat
  BY RotLagAssumption DEF TypeOK
<1> DEFINE T == {d \in 0..rot_lag_n : d < rot_lag_n => rot_lag[Slot(d)].left > 0}
<1>1. T \subseteq Nat /\ rot_lag_n \in T
  BY <1>0
<1>2. PICK d \in T : \A e \in T : d <= e
  BY <1>1, LeastNat
<1>3. \A i \in 0..d-1 : rot_lag[Slot(i)].left = 0
  <2> SUFFICES ASSUME NEW i \in 0..d-1 PROVE rot_lag[Slot(i)].left = 0
    OBVIOUS
  <2>1. i \in Nat /\ i < d /\ i < rot_lag_n /\ i \in 0..rot_lag_n
    BY <1>0, <1>2
  <2>2. i \notin T
    BY <1>0, <1>2, <2>1
  <2>3. ~(rot_lag[Slot(i)].left > 0)
    BY <2>1, <2>2
  <2>4. i \in 0..N-1 /\ rot_lag_head \in 0..N-1 /\ Lag \in Nat
    BY <2>1, RotLagAssumption DEF TypeOK
  <2>5. Slot(i) \in 0..N-1
    BY <2>4, SlotWraps DEF Slot
  <2>6. rot_lag[Slot(i)].left \in 0..Lag
    BY <2>5 DEF TypeOK, Entry
  <2> QED
    BY <2>3, <2>4, <2>6
<1>4. \E e \in 0..rot_lag_n : /\ \A i \in 0..e-1 : rot_lag[Slot(i)].left = 0
                             /\ e < rot_lag_n => rot_lag[Slot(e)].left > 0
  BY <1>2, <1>3
<1>5. DueByNow \in 0..rot_lag_n
  BY <1>4 DEF DueByNow
<1> QED
  BY <1>0, <1>5 DEF Due

-----------------------------------------------------------------------------
(* The inductive invariant.                                                *)

(* Before the first move the ring is empty.                                *)
LEMMA RInit == Init => RInv
<1> SUFFICES ASSUME Init PROVE RInv
  OBVIOUS
<1>0. N \in Nat \ {0} /\ Lag \in Nat /\ Verify \in Nat /\ Grace \in Nat /\ Copies # {}
  BY RotLagAssumption
<1>1. rot_lag \in [0..N-1 -> Entry]
  <2>1. (CHOOSE c \in Copies : TRUE) \in Copies
    BY <1>0
  <2>2. {[c |-> c, left |-> 0] : c \in {CHOOSE c \in Copies : TRUE}} \subseteq Entry
    BY <1>0, <2>1 DEF Entry
  <2> QED
    BY <2>2 DEF Init
<1>2. MaxAge \in Nat
  BY <1>0 DEF MaxAge
<1>3. <<>> \in Seq(Copies) /\ 0 \in 0..N /\ 0 \in 0..N-1 /\ 0 \in 0..MaxAge /\ MaxAge \in 0..MaxAge
  BY <1>0, <1>2
<1>4. c2s \in [pc : {"recv", "dual", "send", "put"}, old : BOOLEAN, due : 0..N, then : {"recv", "put"}]
      /\ c2s.due = 0 /\ c2s.pc = "recv"
  BY <1>3 DEF Init
<1>5. TypeOK
  <2>1. c2s.due <= rot_lag_n
    BY <1>4 DEF Init
  <2>2. s2c \in {"recv", "won", "dual"} /\ main \in {"sleep", "poll", "back"} /\ out \in Seq(Copies)
    BY <1>3 DEF Init
  <2>3. rot_lag_head \in 0..N-1 /\ rot_lag_n \in 0..N /\ rot_ans_ms \in 0..MaxAge /\ age \in 0..MaxAge
    BY <1>3 DEF Init
  <2>4. old_open \in BOOLEAN /\ rot_dual \in BOOLEAN /\ rot_won \in BOOLEAN /\ rot_pending \in BOOLEAN
    BY DEF Init
  <2> QED
    BY <1>1, <1>4, <2>1, <2>2, <2>3, <2>4 DEF TypeOK
<1> QED
  BY <1>4, <1>5 DEF RInv, InHand, ClosedStays

(* Every step of c2s keeps it: the ring is c2s's own.                      *)
LEMMA RC2sStep == RInv /\ C2sNext => RInv'
<1> SUFFICES ASSUME RInv, C2sNext PROVE RInv'
  OBVIOUS
<1>0. N \in Nat \ {0} /\ Batch \in Nat \ {0} /\ Lag \in Nat /\ MaxAge \in Nat
  BY RotLagAssumption DEF MaxAge
<1>1. TypeOK /\ InHand /\ ClosedStays
  BY DEF RInv
<1>2. <<>> \in Seq(Copies)
  OBVIOUS
<1>3. CASE C2sMove
  BY <1>0, <1>1, <1>2, <1>3, SMTT(60) DEF C2sMove, TypeOK, InHand, ClosedStays, RInv, Quiet
<1>4. CASE C2sService
  <2>1. PICK then \in {"recv", "put"} : c2s' = [c2s EXCEPT !.pc = "dual", !.old = old_open, !.then = then]
    BY <1>4 DEF C2sService
  <2>2. UNCHANGED <<ring, move, age, s2c, main>> /\ out' = <<>> /\ c2s.pc = "recv"
    BY <1>4 DEF C2sService, Quiet
  <2>3. old_open \in BOOLEAN /\ c2s.due = 0
    BY <1>1, <2>2 DEF TypeOK, InHand
  <2>4. /\ c2s' \in [pc : {"recv", "dual", "send", "put"}, old : BOOLEAN, due : 0..N, then : {"recv", "put"}]
        /\ c2s'.pc = "dual" /\ c2s'.old = old_open /\ c2s'.due = c2s.due
    BY <1>1, <2>1, <2>3 DEF TypeOK
  <2> QED
    BY <1>1, <1>2, <2>2, <2>3, <2>4 DEF TypeOK, InHand, ClosedStays, RInv, ring, move
<1>5. CASE C2sBatch
  BY <1>0, <1>1, <1>2, <1>5 DEF C2sBatch, Goto, TypeOK, InHand, ClosedStays, RInv, Quiet, ring, move
<1>6. CASE C2sDual
  <2>1. CASE Over
    BY <1>0, <1>1, <1>2, <1>6, <2>1 DEF C2sDual, Goto, TypeOK, InHand, ClosedStays, RInv, Quiet, move
  <2>2. CASE ~Over
    <3>1. Due \in 0..rot_lag_n
      BY <1>1, DueInRing
    <3>2. c2s' = [c2s EXCEPT !.pc = "send", !.due = Due] /\ UNCHANGED <<rot_lag_n, rot_lag, rot_lag_head, move, age, s2c, main>>
          /\ out' = <<>>
      BY <1>6, <2>2 DEF C2sDual, Quiet
    <3>3. Due \in 0..N /\ Due <= rot_lag_n
      BY <1>0, <1>1, <3>1 DEF TypeOK
    <3>4. c2s' \in [pc : {"recv", "dual", "send", "put"}, old : BOOLEAN, due : 0..N, then : {"recv", "put"}]
          /\ c2s'.due = Due /\ c2s'.pc = "send"
      BY <1>1, <3>2, <3>3 DEF TypeOK
    <3> QED
      BY <1>1, <1>2, <3>2, <3>3, <3>4 DEF TypeOK, InHand, ClosedStays, RInv, move
  <2> QED
    BY <2>1, <2>2
<1>7. CASE C2sSend
  <2> DEFINE k == IF c2s.due < Batch THEN c2s.due ELSE Batch
  <2>1. /\ rot_lag_head' = (rot_lag_head + k) % N /\ rot_lag_n' = rot_lag_n - k
        /\ out' = IF old_open THEN SubSeq(Waiting, 1, k) ELSE <<>>
        /\ c2s' = IF c2s.due = k THEN [c2s EXCEPT !.pc = c2s.then, !.due = 0]
                                 ELSE [c2s EXCEPT !.due = c2s.due - k]
        /\ UNCHANGED <<rot_lag, move, age, s2c, main>> /\ c2s.pc = "send"
    BY <1>1, <1>7 DEF C2sSend, Advance, TypeOK
  <2>2. k \in Nat /\ k <= c2s.due /\ c2s.due \in 0..N /\ c2s.due <= rot_lag_n /\ rot_lag_n \in 0..N
    BY <1>0, <1>1 DEF TypeOK
  <2> HIDE DEF k
  <2>3. rot_lag_head' \in 0..N-1 /\ rot_lag_n' \in 0..N
    <3>1. rot_lag_head + k \in Nat /\ rot_lag_n - k \in 0..N
      BY <1>0, <1>1, <2>2 DEF TypeOK
    <3>2. \A a \in Nat : a % N \in 0..N-1
      BY <1>0
    <3> QED
      BY <2>1, <3>1, <3>2
  <2>4. SubSeq(Waiting, 1, k) \in Seq(Copies)
    <3>1. Waiting \in Seq(Copies) /\ Len(Waiting) = rot_lag_n
      BY <1>1, WaitingIsSeq DEF WaitingOK
    <3>2. \A i \in 1..k : Waiting[i] \in Copies
      BY <2>2, <3>1, ElementOfSeq
    <3> QED
      BY <2>2, <3>2, SubSeqProperties
  <2>5. /\ c2s' \in [pc : {"recv", "dual", "send", "put"}, old : BOOLEAN, due : 0..N, then : {"recv", "put"}]
        /\ c2s'.due <= rot_lag_n' /\ (c2s'.pc # "send" => c2s'.due = 0) /\ c2s'.pc # "dual"
    <3>1. CASE c2s.due = k
      <4>1. c2s' = [c2s EXCEPT !.pc = c2s.then, !.due = 0] /\ 0 \in 0..N /\ c2s.then \in {"recv", "put"}
        BY <1>0, <1>1, <2>1, <3>1 DEF TypeOK
      <4>2. /\ c2s' \in [pc : {"recv", "dual", "send", "put"}, old : BOOLEAN, due : 0..N, then : {"recv", "put"}]
            /\ c2s'.due = 0 /\ c2s'.pc = c2s.then
        BY <1>1, <4>1 DEF TypeOK
      <4>3. 0 <= rot_lag_n'
        BY <1>0, <2>3
      <4> QED
        BY <4>1, <4>2, <4>3
    <3>2. CASE c2s.due # k
      <4>1. c2s.due - k \in 0..N /\ c2s.due - k <= rot_lag_n - k
        BY <1>0, <2>2
      <4> QED
        BY <1>0, <1>1, <2>1, <3>2, <4>1 DEF TypeOK
    <3> QED
      BY <3>1, <3>2
  <2> QED
    BY <1>1, <1>2, <2>1, <2>3, <2>4, <2>5 DEF TypeOK, InHand, ClosedStays, RInv, move
<1>8. CASE C2sPut
  <2>1. /\ c2s' = [c2s EXCEPT !.pc = "recv"] /\ c2s.pc = "put" /\ c2s.due = 0
        /\ UNCHANGED <<move, age, s2c, main>>
    BY <1>1, <1>8 DEF C2sPut, Goto, InHand
  <2>2. /\ c2s' \in [pc : {"recv", "dual", "send", "put"}, old : BOOLEAN, due : 0..N, then : {"recv", "put"}]
        /\ c2s'.due = 0 /\ c2s'.pc = "recv"
    BY <1>1, <2>1 DEF TypeOK
  <2>3. /\ rot_lag' \in [0..N-1 -> Entry] /\ rot_lag_head' \in 0..N-1 /\ rot_lag_n' \in 0..N
        /\ out' \in Seq(Copies)
    <3>1. CASE (~rot_dual \/ ~old_open) /\ UNCHANGED ring /\ Quiet
      BY <1>1, <1>2, <3>1 DEF TypeOK, ring, Quiet
    <3>2. ASSUME NEW c \in Copies, Room, UNCHANGED rot_lag_head, Quiet,
                 rot_lag' = [rot_lag EXCEPT ![Slot(rot_lag_n)] = [c |-> c, left |-> Lag]],
                 rot_lag_n' = rot_lag_n + 1
          PROVE  /\ rot_lag' \in [0..N-1 -> Entry] /\ rot_lag_head' \in 0..N-1 /\ rot_lag_n' \in 0..N
                 /\ out' \in Seq(Copies)
      <4>1. [c |-> c, left |-> Lag] \in Entry
        BY <1>0, <3>2 DEF Entry
      <4>2. rot_lag' \in [0..N-1 -> Entry]
        BY <1>1, <3>2, <4>1 DEF TypeOK
      <4>3. rot_lag_n' \in 0..N
        BY <1>0, <1>1, <3>2 DEF TypeOK, Room
      <4> QED
        BY <1>1, <1>2, <3>2, <4>2, <4>3 DEF TypeOK, Quiet
    <3>3. ASSUME NEW c \in Copies, out' = <<c>>, UNCHANGED ring
          PROVE  /\ rot_lag' \in [0..N-1 -> Entry] /\ rot_lag_head' \in 0..N-1 /\ rot_lag_n' \in 0..N
                 /\ out' \in Seq(Copies)
      BY <1>1, <3>3 DEF TypeOK, ring
    <3> QED
      BY <1>8, <3>1, <3>2, <3>3 DEF C2sPut
  <2>4. 0 <= rot_lag_n'
    BY <1>0, <2>3
  <2> QED
    BY <1>1, <2>1, <2>2, <2>3, <2>4 DEF TypeOK, InHand, ClosedStays, RInv, move
<1> QED
  BY <1>3, <1>4, <1>5, <1>6, <1>7, <1>8 DEF C2sNext

(* The other threads and the clock leave the ring's order alone, and only  *)
(* ever close the old port.                                                *)
LEMMA ROtherStep == RInv /\ (S2cNext \/ MainNext \/ Tick \/ UNCHANGED vars) => RInv'
<1> SUFFICES ASSUME RInv, S2cNext \/ MainNext \/ Tick \/ UNCHANGED vars PROVE RInv'
  OBVIOUS
<1>0. N \in Nat \ {0} /\ Lag \in Nat /\ MaxAge \in Nat
  BY RotLagAssumption DEF MaxAge
<1>1. TypeOK /\ InHand /\ ClosedStays
  BY DEF RInv
<1>2. <<>> \in Seq(Copies)
  OBVIOUS
<1>3. CASE S2cNext \/ MainNext
  <2>1. UNCHANGED <<rot_lag, rot_lag_head, rot_lag_n, age, c2s>> /\ out' = <<>>
    BY <1>3 DEF S2cNext, S2cAnswered, S2cWon, S2cDual, S2cReconnect, MainNext, MainPoll, MainBack, MainBackDual,
                MainLate, MainLetGo, ring, move, Quiet
  <2>2. old_open' \in BOOLEAN /\ rot_dual' \in BOOLEAN /\ rot_won' \in BOOLEAN /\ rot_pending' \in BOOLEAN
        /\ (old_open' => old_open)
    <3>1. /\ old_open' \in {old_open, FALSE} /\ rot_dual' \in {rot_dual, FALSE}
          /\ rot_won' \in {rot_won, TRUE} /\ rot_pending' \in {rot_pending, FALSE}
      BY <1>3 DEF S2cNext, S2cAnswered, S2cWon, S2cDual, S2cReconnect, MainNext, MainPoll, MainBack, MainBackDual,
                  MainLate, MainLetGo, move
    <3>2. old_open \in BOOLEAN /\ rot_dual \in BOOLEAN /\ rot_won \in BOOLEAN /\ rot_pending \in BOOLEAN
      BY <1>1 DEF TypeOK
    <3>3. old_open' \in BOOLEAN
      BY <3>1, <3>2
    <3>3a. old_open' => old_open
      <4>1. CASE old_open' = old_open
        BY <4>1
      <4>2. CASE old_open' = FALSE
        BY <4>2
      <4> QED
        BY <3>1, <4>1, <4>2
    <3>4. rot_dual' \in BOOLEAN
      BY <3>1, <3>2
    <3>5. rot_won' \in BOOLEAN /\ rot_pending' \in BOOLEAN
      BY <3>1, <3>2
    <3> QED
      BY <3>3, <3>3a, <3>4, <3>5
  <2>3. rot_ans_ms' \in 0..MaxAge /\ s2c' \in {"recv", "won", "dual"} /\ main' \in {"sleep", "poll", "back"}
    BY <1>1, <1>3 DEF S2cNext, S2cAnswered, S2cWon, S2cDual, S2cReconnect, MainNext, MainPoll, MainBack, MainBackDual,
                MainLate, MainLetGo, move, TypeOK
  <2> QED
    BY <1>1, <1>2, <2>1, <2>2, <2>3 DEF TypeOK, InHand, ClosedStays, RInv
<1>5. CASE Tick
  <2>1. age' \in 0..MaxAge
    BY <1>0, <1>1, <1>5 DEF Tick, TypeOK
  <2>2. rot_lag' \in [0..N-1 -> Entry]
    <3>1. \A i \in 0..N-1 : [rot_lag[i] EXCEPT !.left = IF @ > 0 THEN @ - 1 ELSE 0] \in Entry
      <4> SUFFICES ASSUME NEW i \in 0..N-1
                   PROVE  [rot_lag[i] EXCEPT !.left = IF @ > 0 THEN @ - 1 ELSE 0] \in Entry
        OBVIOUS
      <4> DEFINE e == rot_lag[i]
      <4>1. e \in Entry
        BY <1>1 DEF TypeOK
      <4>2. (IF e.left > 0 THEN e.left - 1 ELSE 0) \in 0..Lag
        BY <1>0, <4>1 DEF Entry
      <4> HIDE DEF e
      <4>3. [e EXCEPT !.left = IF e.left > 0 THEN e.left - 1 ELSE 0] \in Entry
        BY <4>1, <4>2 DEF Entry
      <4> QED
        BY <4>1, <4>3 DEF e, Entry
    <3> QED
      BY <1>5, <3>1 DEF Tick
  <2> QED
    BY <1>1, <1>2, <1>5, <2>1, <2>2 DEF Tick, TypeOK, InHand, ClosedStays, RInv, Quiet, move
<1>6. CASE UNCHANGED vars
  BY <1>1, <1>6 DEF vars, ring, move, TypeOK, InHand, ClosedStays, RInv
<1> QED
  BY <1>3, <1>5, <1>6

(* The invariant holds of every reachable state.                           *)
LEMMA RInvAlways == Spec => []RInv
<1>1. RInv /\ [Next]_vars => RInv'
  BY RC2sStep, ROtherStep DEF Next
<1> QED
  BY RInit, <1>1, PTL DEF Spec

(* The ring's indices and counts stay in range whatever the three threads  *)
(* do (rot_lag_put, rot_lag_send).                                         *)
THEOREM RotLagTypeCorrect == Spec => []TypeOK
<1>1. RInv => TypeOK
  BY DEF RInv
<1> QED
  BY RInvAlways, <1>1, PTL

-----------------------------------------------------------------------------
(* The refinement.                                                         *)

(* The abstract actions that leave the socket and the answer alone.        *)
LEMMA QueueStep ==
    ASSUME UNCHANGED <<old_open, rot_won>>,
           \/ \E c \in Copies : Queue!Put(c) \/ Queue!Straight(c)
           \/ \E k \in 1..Len(Waiting) : Queue!Send(k)
           \/ Queue!Drop \/ Queue!Other
    PROVE  Queue!Next
BY DEF Queue!Next, Queue!Moved

(* A step that leaves the waiting copies alone and sends nothing is a step *)
(* of the queue, whatever it does to the move.                             *)
LEMMA QuietStep ==
    ASSUME Waiting' = Waiting, out' = <<>>
    PROVE  Queue!Next
BY DEF Queue!Next, Queue!Moved, Queue!Other

(* The ring as it was is the queue as it was.                              *)
LEMMA RingKept ==
    ASSUME UNCHANGED <<rot_lag, rot_lag_head, rot_lag_n>>
    PROVE  Waiting' = Waiting
BY DEF Waiting, Slot

(* An empty ring is an empty queue.                                        *)
LEMMA RingEmpty == TypeOK /\ rot_lag_n = 0 => Waiting = <<>>
<1> SUFFICES ASSUME TypeOK, rot_lag_n = 0 PROVE Waiting = <<>>
  OBVIOUS
<1>1. Waiting \in Seq(Copies) /\ Len(Waiting) = 0
  BY WaitingIsSeq DEF WaitingOK
<1> QED
  BY <1>1, EmptySeq

(* rot_lag_send: the oldest k leave, and the rest are as they were, one    *)
(* batch further on in the ring.                                           *)
LEMMA SendStep == RInv /\ C2sSend => Queue!Next
<1> SUFFICES ASSUME RInv, C2sSend PROVE Queue!Next
  OBVIOUS
<1>0. N \in Nat \ {0} /\ Batch \in Nat \ {0}
  BY RotLagAssumption
<1>1. TypeOK /\ TypeOK'
  BY RC2sStep DEF RInv, C2sNext
<1> DEFINE k == IF c2s.due < Batch THEN c2s.due ELSE Batch
<1>2. /\ rot_lag_head' = (rot_lag_head + k) % N /\ rot_lag_n' = rot_lag_n - k /\ rot_lag' = rot_lag
      /\ out' = IF old_open THEN SubSeq(Waiting, 1, k) ELSE <<>>
      /\ UNCHANGED <<old_open, rot_won>>
  BY DEF C2sSend, Advance, move
<1>3. k \in Nat /\ k <= rot_lag_n /\ rot_lag_n \in Nat /\ rot_lag_n <= N /\ rot_lag_head \in 0..N-1
  <2>1. c2s.due \in 0..N /\ c2s.due <= rot_lag_n /\ rot_lag_n \in 0..N /\ rot_lag_head \in 0..N-1
    BY <1>1 DEF TypeOK
  <2> QED
    BY <1>0, <2>1
<1> HIDE DEF k
<1>4. /\ Waiting \in Seq(Copies) /\ Len(Waiting) = rot_lag_n
      /\ \A i \in 1..rot_lag_n : Waiting[i] = rot_lag[(rot_lag_head + (i - 1)) % N].c
  BY <1>1, WaitingIsSeq DEF WaitingOK
<1>5. /\ Waiting' \in Seq(Copies) /\ Len(Waiting') = rot_lag_n'
      /\ \A i \in 1..rot_lag_n' : Waiting'[i] = rot_lag'[(rot_lag_head' + (i - 1)) % N].c
  <2>1. WaitingOK'
    BY <1>1, WaitingIsSeq, PTL
  <2> QED
    BY <2>1 DEF WaitingOK
<1>6. CASE k = 0
  <2>1. rot_lag_head' = rot_lag_head /\ rot_lag_n' = rot_lag_n
    BY <1>0, <1>2, <1>3, <1>6
  <2>2. Waiting' = Waiting
    BY <1>2, <2>1, RingKept
  <2>3. SubSeq(Waiting, 1, 0) = <<>>
    BY SubSeqEmpty
  <2>4. out' = <<>>
    BY <1>2, <1>6, <2>3
  <2> QED
    BY <2>2, <2>4, QuietStep
<1>7. CASE k # 0
  <2>1. k \in 1..Len(Waiting)
    BY <1>3, <1>4, <1>7
  <2>2. Waiting' = SubSeq(Waiting, k + 1, Len(Waiting))
    <3> DEFINE s == SubSeq(Waiting, k + 1, rot_lag_n)
    <3>1. \A i \in k + 1..rot_lag_n : Waiting[i] \in Copies
      BY <1>3, <1>4, ElementOfSeq
    <3>2. /\ s \in Seq(Copies) /\ Len(s) = rot_lag_n - k
          /\ \A i \in 1..rot_lag_n - k : s[i] = Waiting[k + i]
      <4>1. /\ s \in Seq(Copies)
            /\ Len(s) = IF k + 1 <= rot_lag_n THEN rot_lag_n - (k + 1) + 1 ELSE 0
            /\ \A i \in 1..rot_lag_n - (k + 1) + 1 : s[i] = Waiting[(k + 1) + i - 1]
        <5>1. k + 1 \in Int /\ rot_lag_n \in Int
          BY <1>3
        <5> QED
          BY <3>1, <5>1, SubSeqProperties
      <4> HIDE DEF s
      <4>2. Len(s) = rot_lag_n - k
        BY <1>3, <4>1
      <4>3. ASSUME NEW i \in 1..rot_lag_n - k PROVE s[i] = Waiting[k + i]
        <5>1. i \in 1..rot_lag_n - (k + 1) + 1 /\ (k + 1) + i - 1 = k + i
          BY <1>3
        <5> QED
          BY <4>1, <5>1
      <4> QED
        BY <4>1, <4>2, <4>3
    <3> HIDE DEF s
    <3>3. \A i \in 1..rot_lag_n - k : Waiting'[i] = s[i]
      <4> SUFFICES ASSUME NEW i \in 1..rot_lag_n - k PROVE Waiting'[i] = s[i]
        OBVIOUS
      <4>1. i - 1 \in Nat /\ k + (i - 1) < N /\ k + i \in 1..rot_lag_n /\ (k + i) - 1 = k + (i - 1)
        BY <1>0, <1>3
      <4>2. Waiting'[i] = rot_lag[(((rot_lag_head + k) % N) + (i - 1)) % N].c
        BY <1>2, <1>5
      <4>3. (((rot_lag_head + k) % N) + (i - 1)) % N = (rot_lag_head + (k + (i - 1))) % N
        BY <1>3, <4>1, SlotShifts
      <4>4. Waiting[k + i] = rot_lag[(rot_lag_head + (k + (i - 1))) % N].c
        BY <1>4, <4>1
      <4> QED
        BY <3>2, <4>2, <4>3, <4>4
    <3>4. Waiting' = s
      BY <1>2, <1>5, <3>2, <3>3, SeqEqual
    <3> QED
      BY <1>4, <3>4 DEF s
  <2>3. Queue!Send(k)
    BY <1>2, <2>2 DEF Queue!Send
  <2> QED
    BY <1>2, <2>1, <2>3, QueueStep
<1> QED
  BY <1>6, <1>7

(* rot_lag_put: the copy goes behind the last one, into a slot none of the *)
(* others is in.                                                           *)
LEMMA PutStep == RInv /\ C2sPut => Queue!Next
<1> SUFFICES ASSUME RInv, C2sPut PROVE Queue!Next
  OBVIOUS
<1>0. N \in Nat \ {0}
  BY RotLagAssumption
<1>1. TypeOK /\ TypeOK'
  BY RC2sStep DEF RInv, C2sNext
<1>2. UNCHANGED <<old_open, rot_won>>
  BY DEF C2sPut, move
<1>3. CASE UNCHANGED ring /\ Quiet
  BY <1>3, RingKept, QuietStep DEF ring, Quiet
<1>4. ASSUME NEW c \in Copies, Room, UNCHANGED rot_lag_head, Quiet,
             rot_lag' = [rot_lag EXCEPT ![Slot(rot_lag_n)] = [c |-> c, left |-> Lag]],
             rot_lag_n' = rot_lag_n + 1
      PROVE  Queue!Next
  <2>1. rot_lag_n \in 0..N-1 /\ rot_lag_head \in 0..N-1
    BY <1>0, <1>1, <1>4 DEF TypeOK, Room
  <2>2. /\ Waiting \in Seq(Copies) /\ Len(Waiting) = rot_lag_n
        /\ \A i \in 1..rot_lag_n : Waiting[i] = rot_lag[(rot_lag_head + (i - 1)) % N].c
    BY <1>1, WaitingIsSeq DEF WaitingOK
  <2>3. /\ Waiting' \in Seq(Copies) /\ Len(Waiting') = rot_lag_n + 1
        /\ \A i \in 1..rot_lag_n + 1 : Waiting'[i] = rot_lag'[(rot_lag_head + (i - 1)) % N].c
    <3>1. WaitingOK'
      BY <1>1, WaitingIsSeq, PTL
    <3> QED
      BY <1>4, <3>1 DEF WaitingOK
  <2>4. /\ Append(Waiting, c) \in Seq(Copies) /\ Len(Append(Waiting, c)) = rot_lag_n + 1
        /\ \A i \in 1..rot_lag_n : Append(Waiting, c)[i] = Waiting[i]
        /\ Append(Waiting, c)[rot_lag_n + 1] = c
    BY <1>4, <2>2, AppendProperties
  <2>5. Waiting' = Append(Waiting, c)
    <3>1. ASSUME NEW i \in 1..rot_lag_n + 1 PROVE Waiting'[i] = Append(Waiting, c)[i]
      <4>1. i - 1 \in 0..N-1 /\ (rot_lag_head + (i - 1)) % N \in 0..N-1 /\ Slot(rot_lag_n) \in 0..N-1
        <5>1. i - 1 \in 0..N-1
          BY <1>0, <2>1
        <5> QED
          BY <2>1, <5>1, SlotWraps DEF Slot
      <4>2. CASE i = rot_lag_n + 1
        <5>1. i - 1 = rot_lag_n
          BY <1>0, <2>1, <4>2
        <5>2. rot_lag'[Slot(rot_lag_n)] = [c |-> c, left |-> Lag]
          BY <1>1, <1>4, <4>1 DEF TypeOK
        <5>3. Waiting'[i] = c
          BY <2>3, <5>1, <5>2 DEF Slot
        <5> QED
          BY <2>4, <4>2, <5>3
      <4>3. CASE i # rot_lag_n + 1
        <5>1. i \in 1..rot_lag_n /\ i - 1 # rot_lag_n
          BY <1>0, <2>1, <4>3
        <5>2. (rot_lag_head + (i - 1)) % N # Slot(rot_lag_n)
          BY <2>1, <4>1, <5>1, SlotsDiffer DEF Slot
        <5>3. rot_lag'[(rot_lag_head + (i - 1)) % N] = rot_lag[(rot_lag_head + (i - 1)) % N]
          BY <1>1, <1>4, <4>1, <5>2 DEF TypeOK
        <5> QED
          BY <2>2, <2>3, <2>4, <5>1, <5>3
      <4> QED
        BY <4>2, <4>3
    <3> QED
      BY <2>3, <2>4, <3>1, SeqEqual
  <2>6. Queue!Put(c)
    BY <1>0, <1>4, <2>1, <2>2, <2>5 DEF Queue!Put, Quiet
  <2> QED
    BY <1>2, <1>4, <2>6, QueueStep
<1>5. ASSUME NEW c \in Copies, out' = <<c>>, UNCHANGED ring
      PROVE  Queue!Next
  <2>1. Waiting' = Waiting
    BY <1>5, RingKept DEF ring
  <2>2. Queue!Straight(c)
    BY <1>5, <2>1 DEF Queue!Straight
  <2> QED
    BY <1>2, <1>5, <2>2, QueueStep
<1> QED
  BY <1>3, <1>4, <1>5 DEF C2sPut

(* The other steps of c2s: it empties the ring only when the old port is   *)
(* closed or the new one has answered, though it loaded both earlier.      *)
LEMMA C2sRefines == RInv /\ C2sNext => Queue!Next
<1> SUFFICES ASSUME RInv, C2sNext PROVE Queue!Next
  OBVIOUS
<1>1. TypeOK /\ TypeOK' /\ ClosedStays
  BY RC2sStep DEF RInv
<1>2. rot_lag_n' = 0 => Waiting' = <<>>
  <2>1. WaitingOK'
    BY <1>1, WaitingIsSeq, PTL
  <2> QED
    BY <2>1, EmptySeq DEF WaitingOK
<1>3. CASE C2sMove
  <2>1. Waiting' = <<>> /\ out' = <<>> /\ ~old_open
    BY <1>2, <1>3 DEF C2sMove, Quiet
  <2> QED
    BY <2>1 DEF Queue!Next, Queue!Moved, Queue!Drop
<1>4. CASE C2sService \/ C2sBatch
  BY <1>4, RingKept, QuietStep DEF C2sService, C2sBatch, ring, Quiet
<1>5. CASE C2sDual
  <2>1. CASE Over
    <3>1. ~old_open \/ rot_won
      BY <1>1, <1>5, <2>1 DEF C2sDual, Over, ClosedStays
    <3>2. Waiting' = <<>> /\ out' = <<>> /\ UNCHANGED <<old_open, rot_won>>
      BY <1>2, <1>5, <2>1 DEF C2sDual, Quiet, move
    <3>3. Queue!Drop
      BY <3>1, <3>2 DEF Queue!Drop
    <3> QED
      BY <3>2, <3>3, QueueStep
  <2>2. CASE ~Over
    BY <1>5, <2>2, RingKept, QuietStep DEF C2sDual, Quiet
  <2> QED
    BY <2>1, <2>2
<1> QED
  BY <1>3, <1>4, <1>5, SendStep, PutStep DEF C2sNext

(* s2c, main and the clock change what is open and answered, never what    *)
(* waits.                                                                  *)
LEMMA OthersRefine == RInv /\ (S2cNext \/ MainNext \/ Tick) => Queue!Next
<1> SUFFICES ASSUME RInv, S2cNext \/ MainNext \/ Tick PROVE Queue!Next
  OBVIOUS
<1>1. CASE S2cNext \/ MainNext
  <2>1. UNCHANGED <<rot_lag, rot_lag_head, rot_lag_n>> /\ out' = <<>>
    BY <1>1 DEF S2cNext, S2cAnswered, S2cWon, S2cDual, S2cReconnect, MainNext, MainPoll, MainBack, MainBackDual,
                MainLate, MainLetGo, ring, move, Quiet
  <2> QED
    BY <2>1, RingKept, QuietStep
<1>2. CASE Tick
  <2>0. TypeOK /\ N \in Nat \ {0} /\ rot_lag_n \in 0..N /\ rot_lag_head \in 0..N-1
    BY RotLagAssumption DEF RInv, TypeOK
  <2>1. ASSUME NEW i \in 1..rot_lag_n PROVE rot_lag'[Slot(i - 1)].c = rot_lag[Slot(i - 1)].c
    <3>1. Slot(i - 1) \in 0..N-1
      <4>1. i - 1 \in 0..N-1
        BY <2>0
      <4> QED
        BY <2>0, <4>1, SlotWraps DEF Slot
    <3>2. rot_lag[Slot(i - 1)] \in Entry
      BY <2>0, <3>1 DEF TypeOK
    <3> QED
      BY <1>2, <3>1, <3>2 DEF Tick, Entry
  <2>2. rot_lag_n' = rot_lag_n /\ rot_lag_head' = rot_lag_head /\ out' = <<>>
    BY <1>2 DEF Tick, Quiet
  <2>3. Waiting' = Waiting
    BY <2>1, <2>2 DEF Waiting, Slot
  <2> QED
    BY <2>2, <2>3, QuietStep
<1> QED
  BY <1>1, <1>2

(* The ring implements the queue: copies for the old port leave in the     *)
(* order they came, and none is dropped while the old port is open and the *)
(* new one silent, whatever happens between rot_lag_service's loads.       *)
THEOREM RingKeepsPromise == Spec => KeepsPromise
<1>1. Init => Queue!Init
  <2> SUFFICES ASSUME Init PROVE Queue!Init
    OBVIOUS
  <2>1. TypeOK
    BY RInit DEF RInv
  <2>2. Waiting = <<>>
    BY <2>1, RingEmpty DEF Init
  <2> QED
    BY <2>2 DEF Init, Queue!Init
<1>2. RInv /\ [Next]_vars => [Queue!Next]_Queue!vars
  <2>1. UNCHANGED vars => UNCHANGED Queue!vars
    BY RingKept DEF vars, ring, move, Queue!vars
  <2> QED
    BY <2>1, C2sRefines, OthersRefine DEF Next
<1> QED
  BY <1>1, <1>2, RInvAlways, PTL DEF Spec, KeepsPromise, Queue!Spec
=============================================================================
