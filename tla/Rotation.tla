------------------------------ MODULE Rotation ------------------------------
(***************************************************************************)
(* Port rotation of the proxy (AWG_PORT_ROTATE): the live tunnel is moved  *)
(* to another server port by three threads that share plain atomics.       *)
(*                                                                         *)
(*   c2s   moves the socket (rot_try, rot_move) at the head of a batch;    *)
(*   s2c   confirms the move when something comes in (rot_answered), and   *)
(*         redials the connection (do_reconnect, he_finish);               *)
(*   main  raises the flag (rot_main_tick), takes an unanswered move back  *)
(*         and closes the old port's socket (rot_main_poll).               *)
(*                                                                         *)
(* A thread is preempted between any two steps below. A step is a run of   *)
(* accesses up to the next one whose outcome another thread can change:    *)
(* what is read only under remote_mu is folded into the step that takes    *)
(* the mutex, neighbouring loads that feed one decision are one step.      *)
(***************************************************************************)
EXTENDS Integers, Sequences

CONSTANTS
    Ports,        \* the ports of AWG_REMOTE
    DeadPorts,    \* ports on which the server never answers
    Fds,          \* descriptor numbers the kernel may hand to dial_remote()
    None,         \* the descriptor -1; no value
    VerifyDual,   \* ROT_VERIFY_DUAL_MS, in clock units
    Verify,       \* ROT_VERIFY_MS
    Grace,        \* ROT_GRACE_MS
    Retry,        \* rot.retry, in ticks of the main loop
    BadN,         \* ROT_BAD_N
    Keep,         \* outcomes of rot_keep_old(): TRUE a socket, FALSE -1
    Probe,        \* does dial_remote() open a probe socket: outcomes
    SoftOn,       \* rot_soft_on
    PendMax       \* bound: the clock stops here while a move is pending

ASSUME PortsAssumption == DeadPorts \subseteq Ports /\ None \notin Ports \cup Fds \cup Nat
ASSUME TimesAssumption ==
    /\ Verify \in Nat /\ VerifyDual \in Nat /\ Verify <= VerifyDual
    /\ PendMax \in Nat /\ VerifyDual <= PendMax
    /\ Grace \in Nat \ {0}
    /\ Retry \in Nat \ {0} /\ BadN \in Nat \ {0}
ASSUME SwitchAssumption ==
    /\ Keep \subseteq BOOLEAN /\ Keep # {}
    /\ Probe \subseteq BOOLEAN /\ Probe # {}
    /\ SoftOn \in BOOLEAN

VARIABLES
    remote_mu,        \* holder of the mutex, "free" when nobody
    remote_fd,        \* the connected socket, None = -1
    remote_fd2,       \* a Happy Eyeballs probe socket is open
    remote_port,      \* the port that socket is connected to
    rot_state,        \* "idle" / "pending"
    rot_from, rot_to, \* the ports of the last move
    rot_old_fd,       \* the port the second socket still hears, None = -1
    rot_dual,         \* c2s sends on both ports
    rot_refused,      \* ICMP unreachable while the move was pending
    rot_ans,          \* rot_ans_ms, None = 0 (not yet)
    age,              \* mono_ms() - rot_t0_ms
    rot_due,          \* main: the port has served its time
    rot_changed,      \* the port changed: draw a new schedule
    rot_failed,       \* a port stayed silent: back off
    rot_force,        \* main: move under load
    rot_bad,          \* the last BadN ports found dead
    stopped,
    queue,            \* source ports of the datagrams queued on remote_fd
    icmp,             \* an ICMP refusal is pending on remote_fd
    c2s, s2c, main    \* program counters and locals of the three threads

endpoint == <<remote_mu, remote_fd, remote_fd2, remote_port>>
move     == <<rot_state, rot_from, rot_to, rot_old_fd, rot_dual, 
              rot_refused, rot_ans, age>>
sched    == <<rot_due, rot_changed, rot_failed, rot_force>>
misc     == <<rot_bad, stopped>>
net      == <<queue, icmp>>
vars     == <<endpoint, move, sched, misc, net, c2s, s2c, main>>

ClockMax == PendMax + Grace

C2sPc  == {"recv", "state", "lock", "record", "putold", "pending", "done"}
S2cPc  == {"top", "check", "ans", "cas", "dual", "due", "changed", "dial", "rcdue",
           "rcchanged", "probe", "done"}
MainPc == {"wait", "lock", "letgo", "back", "events", "raise", "join", "done"}

C2sAt(pc)  == [pc |-> pc, fd |-> None, soft |-> FALSE, keep |-> FALSE]
S2cAt(pc)  == [pc |-> pc, src |-> None]

WordsOK ==
    /\ remote_mu \in {"free", "c2s", "s2c", "main"}
    /\ remote_fd \in Fds \cup {None} /\ remote_port \in Ports
    /\ rot_state \in {"idle", "pending"}
    /\ rot_from \in Ports /\ rot_to \in Ports
    /\ rot_old_fd \in Ports \cup {None}
    /\ rot_ans \in (0..PendMax) \cup {None} /\ age \in 0..ClockMax
    /\ rot_bad \in Seq(Ports) /\ Len(rot_bad) <= BadN
    /\ queue \in SUBSET Ports

FlagsOK ==
    /\ remote_fd2 \in BOOLEAN
    /\ rot_dual \in BOOLEAN /\ rot_refused \in BOOLEAN
    /\ rot_due \in BOOLEAN /\ rot_changed \in BOOLEAN
    /\ rot_failed \in BOOLEAN /\ rot_force \in BOOLEAN
    /\ stopped \in BOOLEAN /\ icmp \in BOOLEAN

C2sOK  == c2s \in [pc : C2sPc, fd : Fds \cup {None}, soft : BOOLEAN, keep : BOOLEAN]
S2cOK  == s2c \in [pc : S2cPc, src : Ports \cup {None}]
MainOK == main \in [pc : MainPc, st : {"idle", "pending"}, dual : BOOLEAN, refused : BOOLEAN,
                    due : BOOLEAN, wait : 0..Retry]

(* Every variable has its type; the ring rot_bad holds at most ROT_BAD_N   *)
(* ports although main writes it and c2s reads it.                         *)
TypeOK == WordsOK /\ FlagsOK /\ C2sOK /\ S2cOK /\ MainOK

-----------------------------------------------------------------------------
(* proxy_run has dialled the first connection and starts the threads.      *)
Init ==
    /\ remote_mu = "free"
    /\ remote_fd \in Fds /\ remote_fd2 \in Probe
    /\ remote_port \in Ports
    /\ rot_state = "idle"
    /\ rot_from = remote_port /\ rot_to = remote_port
    /\ rot_old_fd = None
    /\ rot_dual = FALSE /\ rot_refused = FALSE
    /\ rot_ans = None /\ age = 0
    /\ rot_due = FALSE /\ rot_changed = FALSE /\ rot_failed = FALSE /\ rot_force = FALSE
    /\ rot_bad = <<>>
    /\ stopped = FALSE
    /\ queue = {} /\ icmp = FALSE
    /\ c2s = C2sAt("recv")
    /\ s2c = S2cAt("probe")
    /\ main = [pc |-> "wait", st |-> "idle", dual |-> FALSE, refused |-> FALSE,
               due |-> FALSE, wait |-> 1]

-----------------------------------------------------------------------------
(* rot_refused_now: a refusal while a move is pending belongs to the move. *)
(* Any other ends in a request to reconnect, or in nothing while the old   *)
(* port is held: s2c may reconnect at any time here.                       *)
RefusedNow == rot_refused' = (rot_refused \/ rot_state = "pending")

(***************************************************************************)
(* c2s_thread_normal                                                       *)
(***************************************************************************)

(* A batch from the client while the port is due: the descriptor is loaded *)
(* and rot_due. A batch that finds rot_due clear is just sent.             *)
C2sBatch ==
    /\ c2s.pc = "recv" /\ ~stopped
    /\ remote_fd # None /\ rot_due
    /\ c2s' = [C2sAt("state") EXCEPT !.fd = remote_fd]
    /\ UNCHANGED <<endpoint, move, sched, misc, net, s2c, main>>

C2sStop ==
    /\ c2s.pc = "recv" /\ stopped
    /\ c2s' = C2sAt("done")
    /\ UNCHANGED <<endpoint, move, sched, misc, net, s2c, main>>

MutMoveAllowed == rot_state = "idle"

(* No move is pending and the socket of the one before is closed.          *)
MoveAllowed == rot_state = "idle" /\ rot_old_fd = None

(* rot_state and rot_old_fd, one after the other: only c2s starts a move   *)
(* or opens the second socket, so what it finds idle and empty stays so.   *)
(* Then rot_try: a quiet tunnel moves, a busy one only when main asked for *)
(* it. Whether it is quiet, and whether the batch carries something the    *)
(* server answers, are inputs.                                             *)
C2sTry ==
    /\ c2s.pc = "state"
    /\ \/ c2s' = C2sAt("recv")
       \/ /\ MoveAllowed
          /\ \E soft \in BOOLEAN : /\ soft => SoftOn /\ rot_force
                                  /\ c2s' = [c2s EXCEPT !.pc = "lock", !.soft = soft]
    /\ UNCHANGED <<endpoint, move, sched, misc, net, s2c, main>>

(* rot_pick: any port but the current one and the ones found dead.         *)
rot_pick(cur) == {q \in Ports \ {cur} : \A i \in 1..Len(rot_bad) : rot_bad[i] # q}

(* rot_move up to connect(): the mutex is taken, the old port kept if it   *)
(* can be, the socket re-pointed.                                          *)
C2sMove ==
    /\ c2s.pc = "lock"
    /\ remote_mu = "free"
    /\ remote_fd = c2s.fd /\ ~remote_fd2
    /\ \E to \in rot_pick(remote_port), keep \in Keep :
          /\ c2s.soft => keep
          /\ rot_to' = to
          /\ remote_port' = to
          /\ c2s' = [C2sAt("record") EXCEPT !.keep = keep]
    /\ rot_from' = remote_port
    /\ remote_mu' = "c2s"
    /\ UNCHANGED <<remote_fd, remote_fd2, rot_state, rot_old_fd, rot_dual, rot_refused,
                   rot_ans, age, sched, misc, net, s2c, main>>

(* Every early return of rot_move: the mutex is busy, the connection was   *)
(* replaced, four draws found nothing, the old port cannot be kept in a    *)
(* soft move, connect() failed. Nothing has changed.                       *)
C2sNoMove ==
    /\ c2s.pc = "lock"
    /\ c2s' = C2sAt("recv")
    /\ UNCHANGED <<endpoint, move, sched, misc, net, s2c, main>>

MutC2sRecord ==
    /\ c2s.pc = "record"
    /\ rot_refused' = FALSE /\ rot_ans' = None
    /\ c2s' = [c2s EXCEPT !.pc = "putold"]
    /\ UNCHANGED <<endpoint, rot_state, rot_from, rot_to, rot_old_fd, rot_dual, age, sched, misc, net, s2c, main>>

(* rot_t0_ms and the flags of the last move, before anything is published. *)
C2sRecord ==
    /\ c2s.pc = "record"
    /\ age' = 0 /\ rot_refused' = FALSE /\ rot_ans' = None
    /\ c2s' = [c2s EXCEPT !.pc = "putold"]
    /\ UNCHANGED <<endpoint, rot_state, rot_from, rot_to, rot_old_fd, rot_dual, sched, misc, net, s2c, main>>

C2sPutOld ==
    /\ c2s.pc = "putold"
    /\ rot_old_fd' = IF c2s.keep THEN rot_from ELSE None
    /\ rot_dual' = c2s.keep
    /\ c2s' = C2sAt("pending")
    /\ UNCHANGED <<endpoint, rot_state, rot_from, rot_to, rot_refused, rot_ans, age,
                   sched, misc, net, s2c, main>>

C2sPutPending ==
    /\ c2s.pc = "pending"
    /\ rot_state' = "pending"
    /\ remote_mu' = "free"
    /\ c2s' = C2sAt("recv")
    /\ UNCHANGED <<remote_fd, remote_fd2, remote_port, rot_from, rot_to, rot_old_fd, rot_dual, 
                   rot_refused, rot_ans, age, sched, misc, net, s2c, main>>

(* A batch goes out and the send picks up a refusal pending on the socket  *)
(* (send_batch_remote, note_remote_send_err).                              *)
C2sSendErr ==
    /\ c2s.pc = "recv" /\ remote_fd # None
    /\ icmp /\ icmp' = FALSE
    /\ RefusedNow
    /\ UNCHANGED <<endpoint, rot_state, rot_from, rot_to, rot_old_fd, rot_dual, rot_ans, age,
                   sched, misc, queue, c2s, s2c, main>>

C2sNext ==
    \/ C2sBatch \/ C2sStop \/ C2sTry \/ C2sMove \/ C2sNoMove
    \/ C2sRecord \/ C2sPutOld \/ C2sPutPending \/ C2sSendErr

-----------------------------------------------------------------------------
(***************************************************************************)
(* s2c_thread                                                              *)
(***************************************************************************)

(* One read: datagrams of one source port, some perhaps left behind        *)
(* (BATCH_SIZE, the segments of a coalesced read).                         *)
S2cRecv ==
    /\ s2c.pc = "top" /\ ~stopped /\ remote_fd # None
    /\ \E q \in queue :
          /\ queue' \in {queue, queue \ {q}}
          /\ s2c' = [S2cAt("check") EXCEPT !.src = q]
    /\ UNCHANGED <<endpoint, move, sched, misc, icmp, c2s, main>>

(* The read fails on a pending refusal (note_remote_read_err).             *)
S2cRecvErr ==
    /\ s2c.pc = "top" /\ ~stopped /\ remote_fd # None
    /\ icmp /\ icmp' = FALSE
    /\ RefusedNow
    /\ UNCHANGED <<endpoint, rot_state, rot_from, rot_to, rot_old_fd, rot_dual, rot_ans, age,
                   sched, misc, queue, c2s, s2c, main>>

S2cStop ==
    /\ s2c.pc = "top" /\ stopped
    /\ s2c' = S2cAt("done")
    /\ UNCHANGED <<endpoint, move, sched, misc, net, c2s, main>>

(* The batch held something for the client: is a move waiting for it?      *)
S2cCheck ==
    /\ s2c.pc = "check"
    /\ s2c' = IF rot_state = "pending" THEN [s2c EXCEPT !.pc = "ans"] ELSE S2cAt("top")
    /\ UNCHANGED <<endpoint, move, sched, misc, net, c2s, main>>

(* rot_answered: rot_ans_ms first, then the exchange, then the news.       *)
S2cAns ==
    /\ s2c.pc = "ans"
    /\ rot_ans' = IF age < PendMax THEN age ELSE PendMax
    /\ s2c' = [s2c EXCEPT !.pc = "cas"]
    /\ UNCHANGED <<endpoint, rot_state, rot_from, rot_to, rot_old_fd, rot_dual, rot_refused, age,
                   sched, misc, net, c2s, main>>

S2cCas ==
    /\ s2c.pc = "cas"
    /\ s2c' = S2cAt(IF rot_state = "pending" THEN "dual" ELSE "top")
    /\ rot_state' = "idle"
    /\ UNCHANGED <<endpoint, rot_from, rot_to, rot_old_fd, rot_dual, rot_refused, rot_ans, age,
                   sched, misc, net, c2s, main>>

S2cDual ==
    /\ s2c.pc = "dual"
    /\ rot_dual' = FALSE
    /\ s2c' = S2cAt("due")
    /\ UNCHANGED <<endpoint, rot_state, rot_from, rot_to, rot_old_fd, rot_refused, rot_ans, age,
                   sched, misc, net, c2s, main>>

S2cDue ==
    /\ s2c.pc = "due"
    /\ rot_due' = FALSE
    /\ s2c' = S2cAt("changed")
    /\ UNCHANGED <<endpoint, move, rot_changed, rot_failed, rot_force, misc, net, c2s, main>>

MutNewSchedule == UNCHANGED rot_changed

NewSchedule == rot_changed' = TRUE

S2cChanged ==
    /\ s2c.pc = "changed"
    /\ NewSchedule
    /\ s2c' = S2cAt("top")
    /\ UNCHANGED <<endpoint, move, rot_due, rot_failed, rot_force, misc, net, c2s, main>>

MutMootMove == UNCHANGED rot_state

(* Whatever move was pending is moot on a new connection.                  *)
MootMove == rot_state' = "idle"

(* do_reconnect, after the back-off sleep: the mutex, the sockets closed,  *)
(* a pending move declared moot. A send error, a watchdog or a new client  *)
(* port can ask for it at any time (reconnect_needed).                     *)
S2cReconnect ==
    /\ s2c.pc = "top" /\ ~stopped
    /\ remote_mu = "free"
    /\ remote_mu' = "s2c"
    /\ remote_fd' = None /\ remote_fd2' = FALSE
    /\ queue' = {} /\ icmp' = FALSE
    /\ MootMove
    /\ s2c' = S2cAt("dial")
    /\ UNCHANGED <<remote_port, rot_from, rot_to, rot_old_fd, rot_dual, rot_refused, rot_ans, age,
                   sched, misc, c2s, main>>

S2cDialFails ==
    /\ s2c.pc = "dial"
    /\ remote_mu' = "free"
    /\ s2c' = S2cAt("top")
    /\ UNCHANGED <<remote_fd, remote_fd2, remote_port, move, sched, misc, net, c2s, main>>

(* dial_remote gives a socket on some port, with a probe socket beside it  *)
(* in a dual-family config.                                                *)
S2cDial ==
    /\ s2c.pc = "dial"
    /\ remote_fd' \in Fds /\ remote_fd2' \in Probe
    /\ remote_port' \in Ports
    /\ s2c' = S2cAt("rcdue")
    /\ UNCHANGED <<remote_mu, move, sched, misc, net, c2s, main>>

S2cRcDue ==
    /\ s2c.pc = "rcdue"
    /\ rot_due' = FALSE
    /\ s2c' = S2cAt("rcchanged")
    /\ UNCHANGED <<endpoint, move, rot_changed, rot_failed, rot_force, misc, net, c2s, main>>

S2cRcChanged ==
    /\ s2c.pc = "rcchanged"
    /\ NewSchedule
    /\ remote_mu' = "free"
    /\ s2c' = S2cAt("probe")
    /\ UNCHANGED <<remote_fd, remote_fd2, remote_port, move, rot_due, rot_failed, rot_force, misc, net, c2s, main>>

(* he_probe: nothing without a second socket; he_finish settles for the    *)
(* current family or for the other one, whose socket takes over.           *)
S2cProbe ==
    /\ s2c.pc = "probe"
    /\ remote_fd2 => remote_mu = "free"
    /\ remote_fd2' = FALSE
    /\ \/ UNCHANGED <<remote_fd, net>>
       \/ remote_fd2 /\ remote_fd' \in Fds /\ queue' = {} /\ icmp' = FALSE
    /\ s2c' = S2cAt("top")
    /\ UNCHANGED <<remote_mu, remote_port, move, sched, misc, c2s, main>>

S2cNext ==
    \/ S2cRecv \/ S2cRecvErr \/ S2cStop \/ S2cCheck \/ S2cAns \/ S2cCas \/ S2cDual \/ S2cDue \/ S2cChanged
    \/ S2cReconnect \/ S2cDialFails \/ S2cDial \/ S2cRcDue \/ S2cRcChanged \/ S2cProbe

-----------------------------------------------------------------------------
(***************************************************************************)
(* The main loop of proxy_run                                              *)
(***************************************************************************)

MutTooEarly ==
    IF rot_state = "pending" THEN ~rot_refused
    ELSE age < (IF rot_ans = None THEN 0 ELSE rot_ans) + Grace

(* rot_main_poll, at every return of epoll_wait(). Too early: a pending    *)
(* move still inside its verify window, an old port still inside its grace.*)
TooEarly ==
    IF rot_state = "pending"
    THEN ~rot_refused /\ age < (IF rot_dual THEN VerifyDual ELSE Verify)
    ELSE age < (IF rot_ans = None THEN 0 ELSE rot_ans) + Grace

MutPollReturns == rot_state # "pending" \/ TooEarly

PollReturns == (rot_old_fd = None /\ rot_state # "pending") \/ TooEarly

MainPoll ==
    /\ main.pc = "wait" /\ ~PollReturns
    /\ main' = [main EXCEPT !.pc = "lock", !.st = rot_state, !.dual = rot_dual,
                            !.refused = (rot_state = "pending" /\ rot_refused)]
    /\ UNCHANGED <<endpoint, move, sched, misc, net, c2s, s2c>>

(* The events of a wake come after its poll.                               *)
Polled == main.pc = "events" \/ (main.pc = "wait" /\ PollReturns)

MainForget(pc) == [main EXCEPT !.pc = pc, !.st = "idle", !.dual = FALSE, !.refused = FALSE]

(* The trylock, and under it the exchange that decides between going back  *)
(* and letting the old port go.                                            *)
MainLock ==
    /\ main.pc = "lock"
    /\ remote_mu = "free"
    /\ remote_mu' = "main"
    /\ IF main.st = "pending" /\ rot_state = "pending"
       THEN rot_state' = "idle" /\ main' = [main EXCEPT !.pc = "back"]
       ELSE UNCHANGED rot_state /\ main' = [main EXCEPT !.pc = "letgo"]
    /\ UNCHANGED <<remote_fd, remote_fd2, remote_port, rot_from, rot_to, rot_old_fd, rot_dual, 
                   rot_refused, rot_ans, age, sched, misc, net, c2s, s2c>>

MainBusy ==
    /\ main.pc = "lock"
    /\ remote_mu # "free"
    /\ main' = MainForget("events")
    /\ UNCHANGED <<endpoint, move, sched, misc, net, c2s, s2c>>

(* The old port's socket is emptied to the client and closed.              *)
MainLetGo ==
    /\ main.pc = "letgo"
    /\ rot_old_fd' = None
    /\ rot_dual' = FALSE
    /\ remote_mu' = "free"
    /\ main' = MainForget("events")
    /\ UNCHANGED <<remote_fd, remote_fd2, remote_port, rot_state, rot_from, rot_to, rot_refused,
                   rot_ans, age, sched, misc, net, c2s, s2c>>

MutBadPut(port) == Append(rot_bad, port)

rot_bad_put(port) == Append(IF Len(rot_bad) < BadN THEN rot_bad ELSE Tail(rot_bad), port)

(* Back to the port left: connect() (it may fail and change nothing), the  *)
(* pending refusal dropped, the port written off unless it ran beside the  *)
(* old one and was merely silent. The old port's socket stays.             *)
MainBack ==
    /\ main.pc = "back"
    /\ rot_dual' = FALSE
    /\ IF remote_fd = None THEN UNCHANGED <<remote_port, icmp>>
       ELSE remote_port' \in {rot_from, remote_port} /\ icmp' = FALSE
    /\ rot_bad' = IF ~main.dual \/ main.refused THEN rot_bad_put(rot_to) ELSE rot_bad
    /\ rot_due' = FALSE /\ rot_failed' = TRUE
    /\ remote_mu' = "free"
    /\ main' = MainForget("events")
    /\ UNCHANGED <<remote_fd, remote_fd2, rot_state, rot_from, rot_to, rot_old_fd, rot_refused,
                   rot_ans, age, rot_changed, rot_force, stopped, queue, c2s, s2c>>

(* The events of the wake are handled; nothing (more) to do, or a signal.  *)
MainSleep ==
    /\ main.pc = "events"
    /\ main' = [main EXCEPT !.pc = "wait"]
    /\ UNCHANGED <<endpoint, move, sched, misc, net, c2s, s2c>>

MutMainSignal ==
    /\ Polled
    /\ stopped' = TRUE
    /\ main' = [main EXCEPT !.pc = "wait"]
    /\ UNCHANGED <<endpoint, move, sched, rot_bad, net, c2s, s2c>>

MainSignal ==
    /\ Polled
    /\ stopped' = TRUE
    /\ main' = [main EXCEPT !.pc = "join"]
    /\ UNCHANGED <<endpoint, move, sched, rot_bad, net, c2s, s2c>>

(* The 5 s timer, rot_main_tick: first the threads' news. A schedule just  *)
(* drawn is not due on that very tick; a silent port holds the flag for    *)
(* Retry ticks (main.wait counts them down).                               *)
MainNews ==
    /\ Polled
    /\ rot_changed' = FALSE /\ rot_failed' = FALSE
    /\ rot_force' = (rot_force /\ ~rot_changed /\ ~rot_failed)
    /\ main' = [main EXCEPT !.pc = "raise",
                            !.due = main.due /\ ~rot_changed /\ ~rot_failed,
                            !.wait = IF rot_failed THEN Retry ELSE IF rot_changed THEN 1 ELSE main.wait]
    /\ UNCHANGED <<endpoint, move, rot_due, misc, net, c2s, s2c>>

(* Then the flag: forced once it has been up for rot.force ticks, raised   *)
(* when the timer or the volume makes the port due (rot_is_due).           *)
MainRaise ==
    /\ main.pc = "raise"
    /\ \/ /\ main.due
          /\ rot_force' \in {rot_force, SoftOn}
          /\ main' = [main EXCEPT !.pc = "wait"]
          /\ UNCHANGED rot_due
       \/ /\ ~main.due /\ main.wait = 0
          /\ main' = [main EXCEPT !.pc = "wait", !.due = TRUE]
          /\ rot_due' = TRUE
          /\ UNCHANGED rot_force
       \/ /\ ~main.due
          /\ main' = [main EXCEPT !.pc = "wait", !.wait = IF main.wait = 0 THEN 0 ELSE main.wait - 1]
          /\ UNCHANGED <<rot_due, rot_force>>
    /\ UNCHANGED <<endpoint, move, rot_changed, rot_failed, misc, net, c2s, s2c>>

MutJoined == s2c.pc = "done"

Joined == c2s.pc = "done" /\ s2c.pc = "done"

(* The threads have been joined: every socket is closed.                   *)
MainJoin ==
    /\ main.pc = "join" /\ Joined
    /\ rot_old_fd' = None
    /\ remote_fd' = None /\ remote_fd2' = FALSE
    /\ main' = [main EXCEPT !.pc = "done"]
    /\ UNCHANGED <<remote_mu, remote_port, rot_state, rot_from, rot_to, rot_dual, rot_refused,
                   rot_ans, age, sched, misc, net, c2s, s2c>>

MainNext ==
    \/ MainPoll \/ MainLock \/ MainBusy \/ MainLetGo \/ MainBack \/ MainSleep \/ MainSignal
    \/ MainNews \/ MainRaise \/ MainJoin

-----------------------------------------------------------------------------
(***************************************************************************)
(* The environment                                                         *)
(***************************************************************************)

(* A live port sends something; the kernel queues it on the socket         *)
(* connected to that port.                                                 *)
NetDeliver ==
    /\ remote_fd # None
    /\ remote_port \notin DeadPorts \cup queue
    /\ queue' = queue \cup {remote_port}
    /\ UNCHANGED <<endpoint, move, sched, misc, icmp, c2s, s2c, main>>

(* A dead port answers with "port unreachable".                            *)
NetRefuse ==
    /\ remote_fd # None
    /\ remote_port \in DeadPorts /\ ~icmp
    /\ icmp' = TRUE
    /\ UNCHANGED <<endpoint, move, sched, misc, queue, c2s, s2c, main>>

(* Time passes; it is only read while a move or its old socket is around.  *)
(* The unit is a second or more: c2s is not preempted for that long in the *)
(* few instructions between rot_t0_ms and rot_state = ROT_PENDING.         *)
Tick ==
    /\ c2s.pc \notin {"record", "putold", "pending"}
    /\ rot_state = "pending" \/ rot_old_fd # None
    /\ age < IF rot_state = "pending" THEN PendMax ELSE ClockMax
    /\ age' = age + 1
    /\ UNCHANGED <<endpoint, rot_state, rot_from, rot_to, rot_old_fd, rot_dual, rot_refused, rot_ans,
                   sched, misc, net, c2s, s2c, main>>

(* All three threads have ended.                                           *)
Terminated == main.pc = "done" /\ UNCHANGED vars

Next == C2sNext \/ S2cNext \/ MainNext \/ NetDeliver \/ NetRefuse \/ Tick \/ Terminated

Spec == Init /\ [][Next]_vars

(***************************************************************************)
(* Fairness. A thread that is inside a handler finishes it (no handler     *)
(* blocks except on remote_mu); epoll_wait() returns at least once a       *)
(* second, so the main loop keeps turning; time passes. Nothing is assumed *)
(* of the client, of the server, of the signal or of the reconnects.       *)
(***************************************************************************)
C2sFinish  == C2sStop \/ C2sTry \/ C2sMove \/ C2sNoMove \/ C2sRecord
              \/ C2sPutOld \/ C2sPutPending
S2cFinish  == S2cStop \/ S2cCheck \/ S2cAns \/ S2cCas \/ S2cDual \/ S2cDue \/ S2cChanged
              \/ S2cDialFails \/ S2cDial \/ S2cRcDue \/ S2cRcChanged \/ S2cProbe
MainFinish == MainPoll \/ MainLock \/ MainBusy \/ MainLetGo \/ MainBack \/ MainSleep
              \/ MainRaise \/ MainJoin

Fairness == WF_vars(C2sFinish) /\ WF_vars(S2cFinish) /\ WF_vars(MainFinish) /\ WF_vars(Tick)

FairSpec == Spec /\ Fairness

-----------------------------------------------------------------------------
(* Safety                                                                  *)

(* While a move is pending, and while main takes it back, the socket is    *)
(* connected to the port the move went to, and the second socket, if there *)
(* is one, hears the port it left: going back re-points the right socket   *)
(* to the right port although a reconnect, a Happy Eyeballs swap or an     *)
(* answer may come between any two steps (rot_move, rot_main_poll,         *)
(* do_reconnect_locked).                                                   *)
MoveConsistent ==
    main.pc # "done" /\ (rot_state = "pending" \/ main.pc = "back") =>
        /\ remote_fd # None
        /\ remote_port = rot_to /\ rot_from # rot_to
        /\ rot_old_fd \in {None, rot_from}

(* The flag is never lost: while the main loop believes the port is due    *)
(* (rot_main_t.due) it will not raise rot_due again, so a thread that      *)
(* clears rot_due must leave word, or rotation would stop for good. The    *)
(* order "rot_due = 0, then rot_changed = 1" in rot_answered and           *)
(* do_reconnect_locked is what this rests on.                              *)
DueNeverLost ==
    main.due /\ ~rot_due =>
        rot_changed \/ rot_failed \/ s2c.pc \in {"changed", "rcchanged"}

(* The old port's socket is opened by c2s only when there is none and is   *)
(* closed by main only: no step loses an open socket, although c2s reads   *)
(* rot_old_fd long before it takes the mutex and never looks again         *)
(* (c2s_thread_normal, rot_move, rot_main_poll).                           *)
OldSocketNotLeaked ==
    [][rot_old_fd # None /\ rot_old_fd' # rot_old_fd => main' # main]_vars

(* The old port is never let go while the move that left it is still       *)
(* waiting for its answer (rot_main_poll acts on a rot_state it loaded     *)
(* before the trylock).                                                    *)
OldHeldWhilePending ==
    [][rot_old_fd # None /\ rot_old_fd' = None /\ ~stopped => rot_state # "pending"]_vars

(* A move is taken back only after its own verify window, or on its own    *)
(* refusal, never on what main loaded about an earlier move. It holds when *)
(* the old port can always be kept: rot_old_fd then keeps c2s from moving  *)
(* again between main's loads and its exchange.                            *)
BackAfterVerify ==
    [][main.pc = "lock" /\ main'.pc = "back" =>
         rot_refused \/ age >= IF rot_dual THEN VerifyDual ELSE Verify]_vars

(* After the threads are joined nothing is left open (proxy_run: "a move   *)
(* under way in the c2s thread may still have opened the old port's        *)
(* socket").                                                               *)
NothingLeftOpen ==
    main.pc = "done" => rot_old_fd = None /\ remote_fd = None /\ ~remote_fd2

-----------------------------------------------------------------------------
(* Liveness, under FairSpec                                                *)

(* A pending move is always decided: answered, taken back, or overtaken by *)
(* a new connection (rot_main_poll at every wake).                         *)
MoveResolves == rot_state = "pending" ~> rot_state = "idle" \/ stopped

(* The old port's socket is let go in the end, unless the connection is    *)
(* redialled for ever and every trylock of main meets the mutex taken.     *)
OldReleased ==
    <>[](s2c.pc # "dial") => (rot_old_fd # None ~> rot_old_fd = None)

(* A signal ends all three threads: nobody is left waiting for the mutex   *)
(* or for a thread already gone (proxy_run, from stopped = 1 to the joins).*)
ShutdownCompletes == stopped ~> main.pc = "done"
=============================================================================
