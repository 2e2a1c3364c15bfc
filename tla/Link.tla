-------------------------------- MODULE Link --------------------------------
(***************************************************************************)
(* The life of the remote socket: who asks for a new connection, how the   *)
(* s2c thread parked in recv() is woken, and how the process ends.         *)
(*                                                                         *)
(*   s2c   owns the socket: reads it, closes it, dials the next one;       *)
(*   c2s   asks after a fatal send error, or for a new source port;        *)
(*   main  asks when the remote is silent or its address has gone, and     *)
(*         stops both threads.                                             *)
(*                                                                         *)
(* An asker sets reconnect_needed and calls shutdown() on a descriptor     *)
(* number it has loaded; the kernel gives a number out again once it is    *)
(* closed. Port rotation is left out (module Rotation).                    *)
(***************************************************************************)
EXTENDS Integers, FiniteSets

CONSTANTS
    Fds,         \* descriptor numbers
    None,        \* the descriptor -1
    ClientPorts, \* ports the client sends from
    AutoSrc,     \* auto_src_port: the socket copies the client's port
    Dns,         \* AWG_DNS_REFRESH is on
    Mmsg         \* s2c reads with recvmmsg() (FALSE: the GRO read)

ASSUME LinkAssumption ==
    /\ None \notin Fds /\ ClientPorts # {}
    /\ AutoSrc \in BOOLEAN /\ Dns \in BOOLEAN /\ Mmsg \in BOOLEAN

VARIABLES
    remote_fd,        \* the published descriptor
    sock,             \* what each descriptor number is: closed, open or shut
    reconnect_needed,
    last_remote_rx,   \* read and cleared by main's tick
    local_port,       \* the source port wanted
    overtaken,        \* (ghost) a request lost: cleared before its shutdown(), or its shutdown() missed
    stopped,
    s2c, c2s, main    \* program counter and the descriptor in hand

vars  == <<remote_fd, sock, reconnect_needed, last_remote_rx, local_port, overtaken, stopped, s2c, c2s, main>>

S2cPc  == {"top", "recv", "sleep", "close", "dial", "clear", "publish", "done"}
C2sPc  == {"recv", "ask", "load", "shut", "done"}
MainPc == {"wait", "load", "dns", "need", "shut", "stop", "stopshut", "join", "done"}

At(pc)       == [pc |-> pc, fd |-> None]
With(pc, fd) == [pc |-> pc, fd |-> fd]

(* Every variable has its type, and a thread about to read, publish or     *)
(* shut a descriptor down has a real one in hand.                          *)
TypeOK ==
    /\ remote_fd \in Fds \cup {None}
    /\ sock \in [Fds -> {"closed", "open", "shut"}]
    /\ reconnect_needed \in BOOLEAN /\ stopped \in BOOLEAN
    /\ last_remote_rx \in BOOLEAN /\ overtaken \in BOOLEAN
    /\ local_port \in ClientPorts
    /\ s2c \in [pc : S2cPc, fd : Fds \cup {None}]
    /\ c2s \in [pc : C2sPc, fd : Fds \cup {None}]
    /\ main \in [pc : MainPc, fd : Fds \cup {None}]
    /\ s2c.fd # None <=> s2c.pc \in {"recv", "clear", "publish"}
    /\ c2s.fd # None <=> c2s.pc = "shut"
    /\ main.fd # None <=> main.pc \in {"dns", "need", "shut", "stopshut"}

(* proxy_run has dialled once, published the socket and started the threads. *)
Init ==
    /\ remote_fd \in Fds
    /\ sock = [f \in Fds |-> IF f = remote_fd THEN "open" ELSE "closed"]
    /\ reconnect_needed = FALSE /\ stopped = FALSE
    /\ last_remote_rx = FALSE /\ overtaken = FALSE
    /\ local_port \in ClientPorts
    /\ s2c = At("top") /\ c2s = At("recv") /\ main = At("wait")

-----------------------------------------------------------------------------
(* s2c_thread                                                              *)

(* The top of the loop: stop, reconnect, or read the published socket.     *)
S2cTop ==
    /\ s2c.pc = "top"
    /\ s2c' = IF stopped THEN At("done")
              ELSE IF remote_fd = None \/ reconnect_needed THEN At("sleep")
              ELSE With("recv", remote_fd)
    /\ UNCHANGED <<remote_fd, sock, reconnect_needed, last_remote_rx, local_port, overtaken, stopped, c2s, main>>

S2cData ==
    /\ s2c.pc = "recv" /\ sock[s2c.fd] = "open"
    /\ last_remote_rx' = TRUE
    /\ s2c' = At("top")
    /\ UNCHANGED <<remote_fd, sock, reconnect_needed, local_port, overtaken, stopped, c2s, main>>

(* A socket shut down reads as empty, at once and every time. recvmmsg()   *)
(* reports it as datagrams of length 0 and the thread takes the path of a  *)
(* batch; the GRO read reports 0 and ends in note_remote_read_err().       *)
S2cWoken ==
    /\ s2c.pc = "recv" /\ sock[s2c.fd] = "shut"
    /\ last_remote_rx' = (last_remote_rx \/ Mmsg)
    /\ s2c' = At("top")
    /\ UNCHANGED <<remote_fd, sock, reconnect_needed, local_port, overtaken, stopped, c2s, main>>

(* note_remote_read_err: the error of a dead socket (ICMP unreachable...). *)
S2cReadErr ==
    /\ s2c.pc = "recv" /\ sock[s2c.fd] = "open"
    /\ reconnect_needed' = (reconnect_needed \/ ~stopped)
    /\ s2c' = At("top")
    /\ UNCHANGED <<remote_fd, sock, last_remote_rx, local_port, overtaken, stopped, c2s, main>>

(* The back-off is over, and stopped is looked at again.                   *)
S2cSlept ==
    /\ s2c.pc = "sleep"
    /\ s2c' = At(IF stopped THEN "done" ELSE "close")
    /\ UNCHANGED <<remote_fd, sock, reconnect_needed, last_remote_rx, local_port, overtaken, stopped, c2s, main>>

(* Mutant: the old socket is left open.                                     *)
MutCloseOld == UNCHANGED sock

CloseOld == sock' = [f \in Fds |-> IF f = remote_fd THEN "closed" ELSE sock[f]]

(* do_reconnect_locked, in the order of its stores.                        *)
S2cClose ==
    /\ s2c.pc = "close"
    /\ CloseOld
    /\ remote_fd' = None
    /\ s2c' = At("dial")
    /\ UNCHANGED <<reconnect_needed, last_remote_rx, local_port, overtaken, stopped, c2s, main>>

S2cDialFails ==
    /\ s2c.pc = "dial"
    /\ s2c' = At("top")
    /\ UNCHANGED <<remote_fd, sock, reconnect_needed, last_remote_rx, local_port, overtaken, stopped, c2s, main>>

(* dial_remote resolves, opens, binds and connects.                        *)
S2cDial ==
    /\ s2c.pc = "dial"
    /\ \E f \in Fds : /\ sock[f] = "closed"
                      /\ sock' = [sock EXCEPT ![f] = "open"]
                      /\ s2c' = With("clear", f)
    /\ UNCHANGED <<remote_fd, reconnect_needed, last_remote_rx, local_port, overtaken, stopped, c2s, main>>

(* An asker has set reconnect_needed and not yet called shutdown().        *)
Asking == c2s.pc \in {"load", "shut"} \/ main.pc = "shut"

(* The dial counts as the answer to whatever was asked up to here.         *)
S2cClear ==
    /\ s2c.pc = "clear"
    /\ last_remote_rx' = FALSE
    /\ reconnect_needed' = FALSE
    /\ overtaken' = (overtaken \/ Asking \/ sock[s2c.fd] = "shut")
    /\ s2c' = [s2c EXCEPT !.pc = "publish"]
    /\ UNCHANGED <<remote_fd, sock, local_port, stopped, c2s, main>>

S2cPublish ==
    /\ s2c.pc = "publish"
    /\ remote_fd' = s2c.fd
    /\ s2c' = At("top")
    /\ UNCHANGED <<sock, reconnect_needed, last_remote_rx, local_port, overtaken, stopped, c2s, main>>

S2cNext == S2cTop \/ S2cData \/ S2cWoken \/ S2cReadErr \/ S2cSlept \/ S2cClose
           \/ S2cDialFails \/ S2cDial \/ S2cClear \/ S2cPublish

-----------------------------------------------------------------------------
(* c2s_thread_normal                                                       *)

(* shutdown() on a number: nothing happens to one that is closed.          *)
Shutdown(fd) == sock' = [f \in Fds |-> IF f = fd /\ sock[f] = "open" THEN "shut" ELSE sock[f]]

(* A batch goes out and the send fails for good (send_err_is_fatal). On a  *)
(* socket closed or shut meanwhile it fails with EBADF or EPIPE, which are *)
(* not in that list.                                                       *)
C2sSendFails ==
    /\ c2s.pc = "recv" /\ ~stopped
    /\ remote_fd # None /\ sock[remote_fd] = "open"
    /\ c2s' = At("ask")
    /\ UNCHANGED <<remote_fd, sock, reconnect_needed, last_remote_rx, local_port, overtaken, stopped, s2c, main>>

(* note_remote_send_err: once per broken socket.                           *)
C2sAsk ==
    /\ c2s.pc = "ask"
    /\ reconnect_needed' = TRUE
    /\ c2s' = At(IF reconnect_needed THEN "recv" ELSE "load")
    /\ UNCHANGED <<remote_fd, sock, last_remote_rx, local_port, overtaken, stopped, s2c, main>>

C2sLoad ==
    /\ c2s.pc = "load"
    /\ c2s' = IF remote_fd = None THEN At("recv") ELSE With("shut", remote_fd)
    /\ UNCHANGED <<remote_fd, sock, reconnect_needed, last_remote_rx, local_port, overtaken, stopped, s2c, main>>

(* Mutant: the reader is not woken.                                         *)
MutC2sShut ==
    /\ c2s.pc = "shut"
    /\ c2s' = At("recv")
    /\ UNCHANGED <<remote_fd, sock, reconnect_needed, last_remote_rx, local_port, overtaken, stopped, s2c, main>>

C2sShut ==
    /\ c2s.pc = "shut"
    /\ Shutdown(c2s.fd)
    /\ c2s' = At("recv")
    /\ UNCHANGED <<remote_fd, reconnect_needed, last_remote_rx, local_port, overtaken, stopped, s2c, main>>

(* AWG_SRC_PORT=auto and the client shows up on another port.              *)
C2sClientPort ==
    /\ c2s.pc = "recv" /\ ~stopped /\ AutoSrc
    /\ local_port' \in ClientPorts \ {local_port}
    /\ reconnect_needed' = TRUE /\ overtaken' = TRUE
    /\ UNCHANGED <<remote_fd, sock, last_remote_rx, stopped, s2c, c2s, main>>

C2sStop ==
    /\ c2s.pc = "recv" /\ stopped
    /\ c2s' = At("done")
    /\ UNCHANGED <<remote_fd, sock, reconnect_needed, last_remote_rx, local_port, overtaken, stopped, s2c, main>>

C2sNext == C2sSendFails \/ C2sAsk \/ C2sLoad \/ C2sShut \/ C2sClientPort \/ C2sStop

-----------------------------------------------------------------------------
(* proxy_run                                                               *)

(* The 5 s tick takes the news. When nothing came in, a fallback stage, a  *)
(* port hop or the silence watchdog may fall due (module Watchdog).        *)
MainTick ==
    /\ main.pc = "wait"
    /\ last_remote_rx' = FALSE
    /\ \/ UNCHANGED main
       \/ ~last_remote_rx /\ main' = At("load")
    /\ UNCHANGED <<remote_fd, sock, reconnect_needed, local_port, overtaken, stopped, s2c, c2s>>

MainLoad ==
    /\ main.pc = "load"
    /\ main' = IF remote_fd = None THEN At("wait") ELSE With("need", remote_fd)
    /\ UNCHANGED <<remote_fd, sock, reconnect_needed, last_remote_rx, local_port, overtaken, stopped, s2c, c2s>>

MainNeed ==
    /\ main.pc = "need"
    /\ reconnect_needed' = TRUE
    /\ main' = [main EXCEPT !.pc = "shut"]
    /\ UNCHANGED <<remote_fd, sock, last_remote_rx, local_port, overtaken, stopped, s2c, c2s>>

MainShut ==
    /\ main.pc = "shut"
    /\ Shutdown(main.fd)
    /\ overtaken' = (overtaken \/ (s2c.pc = "recv" /\ s2c.fd # main.fd))
    /\ main' = At("wait")
    /\ UNCHANGED <<remote_fd, reconnect_needed, last_remote_rx, local_port, stopped, s2c, c2s>>

(* The DNS check: the descriptor is loaded, then the name resolved, which  *)
(* takes as long as it takes.                                              *)
MainDns ==
    /\ main.pc = "wait" /\ Dns
    /\ remote_fd # None /\ ~reconnect_needed
    /\ main' = With("dns", remote_fd)
    /\ UNCHANGED <<remote_fd, sock, reconnect_needed, last_remote_rx, local_port, overtaken, stopped, s2c, c2s>>

MainDnsDone ==
    /\ main.pc = "dns"
    /\ main' \in {At("wait"), [main EXCEPT !.pc = "need"]}
    /\ UNCHANGED <<remote_fd, sock, reconnect_needed, last_remote_rx, local_port, overtaken, stopped, s2c, c2s>>

(* The signal, and the way out.                                            *)
MainSignal ==
    /\ main.pc = "wait"
    /\ stopped' = TRUE
    /\ main' = At("stop")
    /\ UNCHANGED <<remote_fd, sock, reconnect_needed, last_remote_rx, local_port, overtaken, s2c, c2s>>

(* Mutant: the reader is not woken at the end.                              *)
MutMainStop ==
    /\ main.pc = "stop"
    /\ main' = At("join")
    /\ UNCHANGED <<remote_fd, sock, reconnect_needed, last_remote_rx, local_port, overtaken, stopped, s2c, c2s>>

MainStop ==
    /\ main.pc = "stop"
    /\ main' = IF remote_fd = None THEN At("join") ELSE With("stopshut", remote_fd)
    /\ UNCHANGED <<remote_fd, sock, reconnect_needed, last_remote_rx, local_port, overtaken, stopped, s2c, c2s>>

MainStopShut ==
    /\ main.pc = "stopshut"
    /\ Shutdown(main.fd)
    /\ main' = At("join")
    /\ UNCHANGED <<remote_fd, reconnect_needed, last_remote_rx, local_port, overtaken, stopped, s2c, c2s>>

MainJoin ==
    /\ main.pc = "join" /\ s2c.pc = "done" /\ c2s.pc = "done"
    /\ CloseOld
    /\ main' = At("done")
    /\ UNCHANGED <<remote_fd, reconnect_needed, last_remote_rx, local_port, overtaken, stopped, s2c, c2s>>

MainNext == MainTick \/ MainLoad \/ MainNeed \/ MainShut \/ MainDns \/ MainDnsDone
            \/ MainSignal \/ MainStop \/ MainStopShut \/ MainJoin

Terminated == main.pc = "done" /\ UNCHANGED vars

Next == S2cNext \/ C2sNext \/ MainNext \/ Terminated

Spec == Init /\ [][Next]_vars

(***************************************************************************)
(* Fairness: a thread that can run, runs. A read of an open socket may     *)
(* block for ever (the remote owes nothing), sends need not fail, and no   *)
(* tick has to find the remote silent.                                     *)
(***************************************************************************)
S2cRuns  == S2cTop \/ S2cWoken \/ S2cSlept \/ S2cClose \/ S2cDialFails \/ S2cDial \/ S2cClear \/ S2cPublish
C2sRuns  == C2sAsk \/ C2sLoad \/ C2sShut \/ C2sStop
MainRuns == MainLoad \/ MainNeed \/ MainShut \/ MainDnsDone \/ MainStop \/ MainStopShut \/ MainJoin

Fairness == WF_vars(S2cRuns) /\ WF_vars(C2sRuns) /\ WF_vars(MainRuns)

FairSpec == Spec /\ Fairness

-----------------------------------------------------------------------------
(* Every descriptor that is not closed is the published socket or the one  *)
(* s2c has just dialled, the published one is never closed under its       *)
(* readers, and when main ends none is left: reconnects lose no socket.    *)
(* Askers shut numbers down that may have been given out again: a socket   *)
(* that is shut, whoever's it was, comes with a request for the next one   *)
(* or with the end, unless the request was taken for an older one.         *)
SocketsAccounted ==
    /\ TypeOK
    /\ \A f \in Fds : sock[f] # "closed" <=>
           /\ main.pc # "done"
           /\ f = remote_fd \/ (s2c.pc \in {"clear", "publish"} /\ f = s2c.fd)
    /\ (\E f \in Fds : sock[f] = "shut") => reconnect_needed \/ stopped \/ overtaken

(* A request to reconnect is served: s2c is never left asleep in recv()    *)
(* with reconnect_needed set (note_remote_send_err, note_remote_read_err,  *)
(* the watchdog of proxy_run), and a socket that was shut down does not    *)
(* stay the published one, so that s2c reads an empty socket for ever.     *)
(* Exempt are the request that is cleared after a dial before its          *)
(* shutdown() has hit the old socket, main's shutdown() of a number that   *)
(* another one has replaced in recv(), and the change of source port,      *)
(* which shuts nothing down.                                               *)
Asleep == reconnect_needed /\ s2c.pc = "recv" /\ sock[s2c.fd] = "open"
Wedged == remote_fd # None /\ sock[remote_fd] = "shut"
RequestServed == []~overtaken => (Asleep \/ Wedged ~> stopped \/ ~(Asleep \/ Wedged))

(* The signal ends all three threads, wherever it finds them: asleep in    *)
(* recv(), in the back-off, in the middle of a dial.                       *)
ShutdownCompletes == stopped ~> main.pc = "done"
=============================================================================
