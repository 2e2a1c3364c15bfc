------------------------------- MODULE RotLag -------------------------------
(***************************************************************************)
(* The copies a port move keeps for the old port (rot_lag): a ring that    *)
(* the c2s thread alone fills and empties, while the s2c thread (answer,   *)
(* reconnect) and main (timeout, grace) end the move under it.             *)
(*                                                                         *)
(* How the three threads decide a move is module Rotation; here a move is  *)
(* what the ring can see of it: rot_old_fd, rot_dual and rot_won.          *)
(***************************************************************************)
EXTENDS Integers, Sequences

CONSTANTS
    Copies,   \* packets, as far as their order can tell them apart
    N,        \* ROT_LAG_N
    Batch,    \* BATCH_SIZE
    Lag,      \* ROT_LAG_MS, in ticks of the model's clock
    Verify,   \* ROT_VERIFY_DUAL_MS
    Grace     \* ROT_GRACE_MS

ASSUME RotLagAssumption ==
    /\ Copies # {} /\ N \in Nat \ {0} /\ Batch \in Nat \ {0} /\ Lag \in Nat
    /\ Verify \in Nat \ {0} /\ Grace \in Nat

VARIABLES
    rot_lag, rot_lag_head, rot_lag_n,   \* the ring
    old_open,                           \* rot_old_fd >= 0
    rot_dual, rot_won, rot_pending, rot_ans_ms,
    age,                                \* time since rot_t0_ms, capped
    c2s,                                \* pc, what it loaded, what is still to send
    s2c, main,                          \* program counters
    out                                 \* (ghost) what the last step handed to the old port

ring  == <<rot_lag, rot_lag_head, rot_lag_n>>
move  == <<old_open, rot_dual, rot_won, rot_pending, rot_ans_ms>>
vars  == <<ring, move, age, c2s, s2c, main, out>>

MaxAge == Verify + Grace
Entry  == [c : Copies, left : 0..Lag]
Slot(i) == (rot_lag_head + i) % N

(* The copies waiting, oldest first.                                       *)
Waiting == [i \in 1..rot_lag_n |-> rot_lag[Slot(i - 1)].c]

TypeOK ==
    /\ rot_lag \in [0..N-1 -> Entry] /\ rot_lag_head \in 0..N-1 /\ rot_lag_n \in 0..N
    /\ old_open \in BOOLEAN /\ rot_dual \in BOOLEAN /\ rot_won \in BOOLEAN
    /\ rot_pending \in BOOLEAN /\ rot_ans_ms \in 0..MaxAge
    /\ age \in 0..MaxAge
    /\ c2s \in [pc : {"recv", "dual", "send", "put"}, old : BOOLEAN, due : 0..N, then : {"recv", "put"}]
    /\ c2s.due <= rot_lag_n
    /\ s2c \in {"recv", "won", "dual"} /\ main \in {"sleep", "poll", "back"}
    /\ out \in Seq(Copies)

(* Before the first move.                                                  *)
Init ==
    /\ rot_lag \in [0..N-1 -> {[c |-> c, left |-> 0] : c \in {CHOOSE c \in Copies : TRUE}}]
    /\ rot_lag_head = 0 /\ rot_lag_n = 0
    /\ old_open = FALSE /\ rot_dual = FALSE /\ rot_won = FALSE /\ rot_pending = FALSE
    /\ rot_ans_ms = 0 /\ age = MaxAge
    /\ c2s = [pc |-> "recv", old |-> FALSE, due |-> 0, then |-> "recv"]
    /\ s2c = "recv" /\ main = "sleep" /\ out = <<>>

Quiet == out' = <<>>
Goto(pc) == c2s' = [c2s EXCEPT !.pc = pc]

-----------------------------------------------------------------------------
(* c2s                                                                     *)

(* rot_move: the record is made anew under the mutex, with or without the  *)
(* old port's socket; allowed only once the last one is closed. The stores *)
(* of a move are atomic here: main and s2c act on rot_pending, stored last.*)
C2sMove ==
    /\ c2s.pc = "recv" /\ ~old_open /\ ~rot_pending /\ main # "back"
    /\ \E kept \in BOOLEAN : old_open' = kept /\ rot_dual' = kept
    /\ rot_won' = FALSE /\ rot_ans_ms' = 0 /\ rot_lag_n' = 0
    /\ rot_pending' = TRUE /\ age' = 0
    /\ UNCHANGED <<rot_lag, rot_lag_head, c2s, s2c, main>> /\ Quiet

(* rot_lag_service, at the top of the loop (after a sleep no longer than   *)
(* the next copy's wait) or ahead of a batch.                              *)
C2sService ==
    /\ c2s.pc = "recv" /\ rot_lag_n > 0
    /\ \E then \in {"recv", "put"} :
          c2s' = [c2s EXCEPT !.pc = "dual", !.old = old_open, !.then = then]
    /\ UNCHANGED <<ring, move, age, s2c, main>> /\ Quiet

(* A batch with nothing waiting.                                           *)
C2sBatch ==
    /\ c2s.pc = "recv" /\ rot_lag_n = 0
    /\ Goto("put")
    /\ UNCHANGED <<ring, move, age, s2c, main>> /\ Quiet

(* Mutant: over means dropped, answered or not.                            *)
MutOver == ~c2s.old \/ ~rot_dual

(* Nothing waiting is worth sending any more.                              *)
Over == ~c2s.old \/ (~rot_dual /\ rot_won)

(* The copies that have waited out their time (and the mutant of Due that  *)
(* leaves it at that once the move is over).                               *)
DueByNow ==
    CHOOSE d \in 0..rot_lag_n : /\ \A i \in 0..d-1 : rot_lag[Slot(i)].left = 0
                               /\ d < rot_lag_n => rot_lag[Slot(d)].left > 0

(* How many are due: all of them once the move is over.                    *)
Due == IF rot_dual THEN DueByNow ELSE rot_lag_n

C2sDual ==
    /\ c2s.pc = "dual"
    /\ IF Over
       THEN rot_lag_n' = 0 /\ Goto(c2s.then)
       ELSE UNCHANGED rot_lag_n /\ c2s' = [c2s EXCEPT !.pc = "send", !.due = Due]
    /\ UNCHANGED <<rot_lag, rot_lag_head, move, age, s2c, main>> /\ Quiet

Advance(k) == rot_lag_head' = (rot_lag_head + k) % N /\ rot_lag_n' = rot_lag_n - k

(* rot_lag_send, one sendmmsg() a step. What the kernel refuses is gone    *)
(* with the rest.                                                          *)
C2sSend ==
    /\ c2s.pc = "send"
    /\ LET k == IF c2s.due < Batch THEN c2s.due ELSE Batch IN
          /\ Advance(k)
          /\ out' = IF old_open THEN SubSeq(Waiting, 1, k) ELSE <<>>
          /\ c2s' = IF c2s.due = k THEN [c2s EXCEPT !.pc = c2s.then, !.due = 0]
                                   ELSE [c2s EXCEPT !.due = @ - k]
    /\ UNCHANGED <<rot_lag, move, age, s2c, main>>

(* Mutant: a full ring is not noticed.                                     *)
MutRoom == TRUE

Room == rot_lag_n < N

(* send_batch_remote and the handshake path: the batch has gone out on the *)
(* new port; a copy is kept for the old one while the move is dual. No     *)
(* room, or a packet over ROT_LAG_PKT: it goes at once.                    *)
C2sPut ==
    /\ c2s.pc = "put"
    /\ Goto("recv")
    /\ \/ (~rot_dual \/ ~old_open) /\ UNCHANGED ring /\ Quiet
       \/ \E c \in Copies :
            /\ rot_dual /\ old_open /\ Room
            /\ rot_lag' = [rot_lag EXCEPT ![Slot(rot_lag_n)] = [c |-> c, left |-> Lag]]
            /\ rot_lag_n' = rot_lag_n + 1
            /\ UNCHANGED rot_lag_head /\ Quiet
       \/ \E c \in Copies :
            /\ rot_dual /\ old_open
            /\ out' = <<c>> /\ UNCHANGED ring
    /\ UNCHANGED <<move, age, s2c, main>>

-----------------------------------------------------------------------------
(* s2c: the new port answers, or the connection is dialled anew.           *)

S2cAnswered ==
    /\ s2c = "recv" /\ rot_pending
    /\ rot_ans_ms' = age /\ rot_pending' = FALSE
    /\ s2c' = "won"
    /\ UNCHANGED <<ring, old_open, rot_dual, rot_won, age, c2s, main>> /\ Quiet

(* rot_won before rot_dual.                                                *)
S2cWon ==
    /\ s2c = "won"
    /\ rot_won' = TRUE /\ s2c' = "dual"
    /\ UNCHANGED <<ring, old_open, rot_dual, rot_pending, rot_ans_ms, age, c2s, main>> /\ Quiet

S2cDual ==
    /\ s2c = "dual"
    /\ rot_dual' = FALSE /\ s2c' = "recv"
    /\ UNCHANGED <<ring, old_open, rot_won, rot_pending, rot_ans_ms, age, c2s, main>> /\ Quiet

S2cReconnect ==
    /\ s2c = "recv" /\ main # "back"
    /\ rot_pending' = FALSE
    /\ UNCHANGED <<ring, old_open, rot_dual, rot_won, rot_ans_ms, age, c2s, s2c, main>> /\ Quiet

-----------------------------------------------------------------------------
(* rot_main_poll                                                           *)

(* Silent for the whole window, or refused before that, at any time: main  *)
(* has read that the move is pending, and tries for the mutex.             *)
MainPoll ==
    /\ main = "sleep" /\ rot_pending
    /\ main' = "poll"
    /\ UNCHANGED <<ring, move, age, c2s, s2c>> /\ Quiet

(* It is pending still, or the next one is: back. The mutex is held until  *)
(* "sleep".                                                                *)
MainBack ==
    /\ main = "poll" /\ rot_pending
    /\ rot_pending' = FALSE
    /\ main' = "back"
    /\ UNCHANGED <<ring, old_open, rot_dual, rot_won, rot_ans_ms, age, c2s, s2c>> /\ Quiet

(* The answer or a reconnect came first, and the old port is closed with   *)
(* no time of grace; or somebody else has the mutex.                       *)
MainLate ==
    /\ main = "poll"
    /\ main' = "sleep"
    /\ \/ ~rot_pending /\ old_open' = FALSE /\ rot_dual' = FALSE
       \/ UNCHANGED <<old_open, rot_dual>>
    /\ UNCHANGED <<ring, rot_won, rot_pending, rot_ans_ms, age, c2s, s2c>> /\ Quiet

MainBackDual ==
    /\ main = "back"
    /\ rot_dual' = FALSE /\ main' = "sleep"
    /\ UNCHANGED <<ring, old_open, rot_won, rot_pending, rot_ans_ms, age, c2s, s2c>> /\ Quiet

MainLetGo ==
    /\ main = "sleep" /\ old_open /\ ~rot_pending /\ age >= rot_ans_ms + Grace
    /\ old_open' = FALSE /\ rot_dual' = FALSE
    /\ UNCHANGED <<ring, rot_won, rot_pending, rot_ans_ms, age, c2s, s2c, main>> /\ Quiet

-----------------------------------------------------------------------------
(* No thread is held up for a whole tick: neither between two of its       *)
(* stores, nor c2s with a copy that is due.                                *)
Tick ==
    /\ s2c = "recv" /\ main = "sleep" /\ c2s.pc = "recv"
    /\ \A i \in 0..rot_lag_n-1 : rot_lag[Slot(i)].left > 0
    /\ age' = IF age < MaxAge THEN age + 1 ELSE age
    /\ rot_lag' = [i \in 0..N-1 |-> [rot_lag[i] EXCEPT !.left = IF @ > 0 THEN @ - 1 ELSE 0]]
    /\ UNCHANGED <<rot_lag_head, rot_lag_n, move, c2s, s2c, main>> /\ Quiet

C2sNext  == C2sMove \/ C2sService \/ C2sBatch \/ C2sDual \/ C2sSend \/ C2sPut
S2cNext  == S2cAnswered \/ S2cWon \/ S2cDual \/ S2cReconnect
MainNext == MainPoll \/ MainBack \/ MainBackDual \/ MainLate \/ MainLetGo

Next == C2sNext \/ S2cNext \/ MainNext \/ Tick

Spec == Init /\ [][Next]_vars

(* c2s never sleeps past the next copy's due time.                         *)
FairSpec == Spec /\ WF_vars(C2sService) /\ WF_vars(C2sDual \/ C2sSend \/ C2sPut)

-----------------------------------------------------------------------------
(* The ring keeps the promise of LagQueue: order, and no copy dropped      *)
(* while the old port is open and the new one has not answered, whatever   *)
(* s2c and main do between the loads of rot_lag_service.                   *)
Queue == INSTANCE LagQueue WITH q <- Waiting, open <- old_open, won <- rot_won, Capacity <- N
KeepsPromise == Queue!Spec

(* No copy stays behind once the move is over, however it ended            *)
(* (rot_lag_service).                                                      *)
Drained == ~rot_dual ~> rot_lag_n = 0 \/ rot_dual
=============================================================================
