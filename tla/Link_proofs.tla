---------------------------- MODULE Link_proofs ----------------------------
(***************************************************************************)
(* No socket is lost and none is closed under its reader, for any number   *)
(* of descriptors, client ports and settings.                              *)
(***************************************************************************)
EXTENDS Link, TLAPS

(* What s2c holds is what is published: it reads no other socket, and has  *)
(* withdrawn the old number before it dials.                               *)
ReadsPublished == s2c.pc = "recv" => s2c.fd = remote_fd
NonePublished  == s2c.pc \in {"dial", "clear", "publish"} => remote_fd = None

(* Main ends last.                                                         *)
EndsLast == main.pc = "done" => s2c.pc = "done" /\ c2s.pc = "done"

(* Whoever is about to shut a socket down has asked for the next one or    *)
(* said that there is none; only a dial takes the request away again.      *)
AsksFirst ==
    /\ c2s.pc \in {"load", "shut"} \/ main.pc = "shut" => reconnect_needed \/ overtaken
    /\ main.pc \in {"stop", "stopshut", "join", "done"} => stopped

LInv == SocketsAccounted /\ ReadsPublished /\ NonePublished /\ EndsLast /\ AsksFirst

(* Init establishes the invariant: proxy_run has dialled and published.    *)
LEMMA LInit == Init => LInv
<1> SUFFICES ASSUME Init PROVE LInv
  OBVIOUS
<1>1. TypeOK
  BY LinkAssumption DEF Init, TypeOK, At, S2cPc, C2sPc, MainPc
<1>2. \A f \in Fds : sock[f] # "closed" <=> f = remote_fd
  BY DEF Init
<1> QED
  BY <1>1, <1>2 DEF Init, LInv, SocketsAccounted, ReadsPublished, NonePublished, EndsLast, AsksFirst, At

(* A step that writes neither the sockets nor what is published, and only  *)
(* main's or c2s's own program counter, keeps it.                          *)
LEMMA LKept ==
    ASSUME LInv, TypeOK', AsksFirst', main.pc # "done", UNCHANGED <<remote_fd, sock, s2c>>,
           main'.pc # "done", reconnect_needed => reconnect_needed', stopped => stopped',
           overtaken => overtaken'
    PROVE  LInv'
BY DEF LInv, SocketsAccounted, ReadsPublished, NonePublished, EndsLast

(* shutdown() leaves a closed number closed and opens none.                *)
LEMMA ShutdownStep ==
    ASSUME TypeOK, NEW fd \in Fds, Shutdown(fd)
    PROVE  /\ sock' \in [Fds -> {"closed", "open", "shut"}]
           /\ \A f \in Fds : sock'[f] # "closed" <=> sock[f] # "closed"
BY DEF TypeOK, Shutdown

(* Every step of s2c keeps it: the loop, and the reconnect store by store. *)
LEMMA S2cStep == LInv /\ S2cNext => LInv'
<1> SUFFICES ASSUME LInv, S2cNext PROVE LInv'
  OBVIOUS
<1> USE LinkAssumption DEF LInv, SocketsAccounted, TypeOK, ReadsPublished, NonePublished, EndsLast,
            AsksFirst, Asking, S2cPc, C2sPc, MainPc, At, With
<1>1. CASE S2cTop
  BY <1>1 DEF S2cTop
<1>2. CASE S2cData
  BY <1>2 DEF S2cData
<1>3. CASE S2cWoken
  BY <1>3 DEF S2cWoken
<1>4. CASE S2cReadErr
  BY <1>4 DEF S2cReadErr
<1>5. CASE S2cSlept
  BY <1>5 DEF S2cSlept
<1>6. CASE S2cClose
  BY <1>6 DEF S2cClose, CloseOld
<1>7. CASE S2cDialFails
  BY <1>7 DEF S2cDialFails
<1>8. CASE S2cDial
  BY <1>8 DEF S2cDial
<1>9. CASE S2cClear
  BY <1>9, ZenonT(60) DEF S2cClear
<1>10. CASE S2cPublish
  BY <1>10 DEF S2cPublish
<1> QED
  BY <1>1, <1>2, <1>3, <1>4, <1>5, <1>6, <1>7, <1>8, <1>9, <1>10 DEF S2cNext

(* So does every step of c2s: what it shuts down stays accounted for.      *)
LEMMA C2sStep == LInv /\ C2sNext => LInv'
<1> SUFFICES ASSUME LInv, C2sNext PROVE LInv'
  OBVIOUS
<1>0. TypeOK /\ main.pc # "done"
  BY DEF LInv, SocketsAccounted, EndsLast, C2sNext, C2sSendFails, C2sAsk, C2sLoad, C2sShut,
         C2sClientPort, C2sStop
<1>1. CASE C2sShut
  <2>1. c2s.fd \in Fds
    BY <1>0, <1>1 DEF TypeOK, C2sShut
  <2>2. TypeOK'
    BY <1>0, <1>1, <2>1, ShutdownStep, LinkAssumption DEF TypeOK, C2sShut, At, C2sPc
  <2> QED
    BY <1>0, <1>1, <2>1, <2>2, ShutdownStep
       DEF LInv, SocketsAccounted, ReadsPublished, NonePublished, EndsLast, AsksFirst, C2sShut, At
<1>2. ASSUME C2sSendFails \/ C2sAsk \/ C2sLoad \/ C2sClientPort \/ C2sStop PROVE LInv'
  <2>1. TypeOK'
    <3> USE <1>0, LinkAssumption DEF TypeOK, At, With, C2sPc
    <3>1. CASE C2sSendFails
      BY <3>1 DEF C2sSendFails
    <3>2. CASE C2sAsk
      BY <3>2 DEF C2sAsk
    <3>3. CASE C2sLoad
      BY <3>3 DEF C2sLoad
    <3>4. CASE C2sClientPort
      BY <3>4 DEF C2sClientPort
    <3>5. CASE C2sStop
      BY <3>5 DEF C2sStop
    <3> QED
      BY <1>2, <3>1, <3>2, <3>3, <3>4, <3>5
  <2>2. AsksFirst'
    BY <1>2 DEF LInv, AsksFirst, At, With, C2sSendFails, C2sAsk, C2sLoad, C2sClientPort, C2sStop
  <2> QED
    BY <1>0, <1>2, <2>1, <2>2, LKept DEF C2sSendFails, C2sAsk, C2sLoad, C2sClientPort, C2sStop
<1> QED
  BY <1>1, <1>2 DEF C2sNext

(* And every step of main: the watchdog's and the DNS check's requests,    *)
(* and the way out, where the join comes before the last close.            *)
LEMMA MainStep == LInv /\ MainNext => LInv'
<1> SUFFICES ASSUME LInv, MainNext PROVE LInv'
  OBVIOUS
<1>0. TypeOK
  BY DEF LInv, SocketsAccounted
<1>1. CASE MainShut \/ MainStopShut
  <2>1. main.fd \in Fds /\ main.pc # "done" /\ main'.pc # "done"
    BY <1>0, <1>1 DEF TypeOK, MainShut, MainStopShut, At
  <2>3. overtaken' \in BOOLEAN /\ (overtaken => overtaken')
    BY <1>0, <1>1 DEF TypeOK, MainShut, MainStopShut
  <2>4. /\ Shutdown(main.fd) /\ UNCHANGED <<remote_fd, reconnect_needed, last_remote_rx, local_port>>
        /\ UNCHANGED <<stopped, s2c, c2s>> /\ main' \in {At("wait"), At("join")}
    BY <1>1 DEF MainShut, MainStopShut
  <2>2. TypeOK'
    BY <1>0, <2>1, <2>3, <2>4, ShutdownStep, LinkAssumption DEF TypeOK, At, MainPc
  <2>5. AsksFirst'
    BY <1>1, <2>3, <2>4 DEF LInv, AsksFirst, MainShut, MainStopShut, At
  <2>6. (\E f \in Fds : sock'[f] = "shut") => reconnect_needed' \/ stopped' \/ overtaken'
    BY <1>1, <2>3, <2>4 DEF LInv, AsksFirst, MainShut, MainStopShut
  <2> QED
    BY <1>0, <2>1, <2>2, <2>4, <2>5, <2>6, ShutdownStep
       DEF LInv, SocketsAccounted, ReadsPublished, NonePublished, EndsLast
<1>2. CASE MainJoin
  <2>1. TypeOK'
    BY <1>0, <1>2, LinkAssumption DEF TypeOK, MainJoin, CloseOld, At, MainPc
  <2>2. s2c.pc = "done" /\ main.pc = "join" /\ main'.pc = "done" /\ UNCHANGED <<remote_fd, s2c, c2s>>
    BY <1>2 DEF MainJoin, At
  <2>3. \A f \in Fds : sock'[f] = "closed"
    BY <1>2, <2>2 DEF LInv, SocketsAccounted, MainJoin, CloseOld
  <2> QED
    BY <1>2, <2>1, <2>2, <2>3
       DEF LInv, SocketsAccounted, ReadsPublished, NonePublished, EndsLast, AsksFirst, MainJoin
<1>3. ASSUME MainTick \/ MainLoad \/ MainNeed \/ MainDns \/ MainDnsDone \/ MainSignal \/ MainStop
      PROVE  LInv'
  <2>1. TypeOK' /\ main.pc # "done" /\ main'.pc # "done"
    <3> USE <1>0, LinkAssumption DEF TypeOK, At, With, MainPc
    <3>1. CASE MainTick
      <4>1. main' = main \/ main' = At("load")
        BY <3>1 DEF MainTick
      <4>2. main' \in [pc : MainPc, fd : Fds \cup {None}] /\ main.pc = "wait"
        BY <3>1, <4>1 DEF MainTick
      <4>3. main'.pc \in {"wait", "load"} /\ main'.fd = None
        BY <3>1, <4>1 DEF MainTick
      <4> HIDE DEF At, With, MainPc
      <4> QED
        BY <3>1, <4>2, <4>3 DEF MainTick
    <3>2. CASE MainLoad
      BY <3>2 DEF MainLoad
    <3>3. CASE MainNeed
      BY <3>3 DEF MainNeed
    <3>4. CASE MainDns
      BY <3>4 DEF MainDns
    <3>5. CASE MainDnsDone
      BY <3>5 DEF MainDnsDone
    <3>6. CASE MainSignal
      BY <3>6 DEF MainSignal
    <3>7. CASE MainStop
      BY <3>7 DEF MainStop
    <3> QED
      BY <1>3, <3>1, <3>2, <3>3, <3>4, <3>5, <3>6, <3>7
  <2>2. AsksFirst'
    <3> USE DEF LInv, AsksFirst, At, With
    <3>1. CASE MainTick
      BY <3>1 DEF MainTick
    <3>2. CASE MainLoad
      BY <3>2 DEF MainLoad
    <3>3. CASE MainNeed
      BY <3>3 DEF MainNeed
    <3>4. CASE MainDns
      BY <3>4 DEF MainDns
    <3>5. CASE MainDnsDone
      <4>1. main'.pc \in {"wait", "need"}
        BY <1>0, <3>5 DEF TypeOK, MainDnsDone
      <4> QED
        BY <3>5, <4>1 DEF MainDnsDone
    <3>6. CASE MainSignal
      BY <3>6 DEF MainSignal
    <3>7. CASE MainStop
      BY <3>7 DEF MainStop
    <3> QED
      BY <1>3, <3>1, <3>2, <3>3, <3>4, <3>5, <3>6, <3>7
  <2> QED
    BY <1>3, <2>1, <2>2, LKept
       DEF MainTick, MainLoad, MainNeed, MainDns, MainDnsDone, MainSignal, MainStop
<1> QED
  BY <1>1, <1>2, <1>3 DEF MainNext

(* The invariant holds of every reachable state.                           *)
LEMMA LInvAlways == Spec => []LInv
<1>1. LInv /\ UNCHANGED vars => LInv'
  BY DEF LInv, SocketsAccounted, TypeOK, ReadsPublished, NonePublished, EndsLast, AsksFirst, vars
<1>2. LInv /\ [Next]_vars => LInv'
  BY <1>1, S2cStep, C2sStep, MainStep DEF Next, Terminated
<1> QED
  BY LInit, <1>2, PTL DEF Spec

(* No descriptor is leaked by a reconnect, lost between a close and a dial,*)
(* closed while it is the one s2c and c2s use, or left open when main ends *)
(* (do_reconnect_locked, proxy_run's way out), whatever the askers'        *)
(* shutdown() calls hit; and a socket they have shut, the new one behind   *)
(* an old number too, comes with the request that replaces it, unless that *)
(* was cleared before the shutdown() or main's missed (overtaken).         *)
THEOREM SocketsAccountedAlways == Spec => []SocketsAccounted
<1>1. LInv => SocketsAccounted
  BY DEF LInv
<1> QED
  BY LInvAlways, <1>1, PTL

(* s2c never reads a number that was closed under it and given out again:  *)
(* while it is in recv() its descriptor is the published one, and open or  *)
(* shut down.                                                              *)
ReadsLive == s2c.pc = "recv" => s2c.fd = remote_fd /\ sock[s2c.fd] # "closed"

(* ReadsLive holds of every reachable state of s2c_thread's read loop.     *)
THEOREM ReadsLiveAlways == Spec => []ReadsLive
<1>1. LInv => ReadsLive
  BY DEF LInv, SocketsAccounted, TypeOK, ReadsPublished, EndsLast, ReadsLive
<1> QED
  BY LInvAlways, <1>1, PTL
=============================================================================
