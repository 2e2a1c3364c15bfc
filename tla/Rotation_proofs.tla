-------------------------- MODULE Rotation_proofs ---------------------------
(***************************************************************************)
(* Proofs about Rotation, for every set of ports and every choice of the   *)
(* timers. The inductive invariant IInv says who holds remote_mu at which  *)
(* step and what the holder, or a thread about to take it, may rely on.    *)
(***************************************************************************)
EXTENDS Rotation, TLAPS

(* remote_mu is held exactly by the thread that is between its lock and    *)
(* its unlock.                                                             *)
MutexHeld ==
    /\ remote_mu = "c2s" <=> c2s.pc \in {"record", "putold", "pending"}
    /\ remote_mu = "s2c" <=> s2c.pc \in {"dial", "rcdue", "rcchanged"}
    /\ remote_mu = "main" <=> main.pc \in {"letgo", "back"}

(* A thread about to move, or moving, is alone at it: it has a socket, no  *)
(* move is pending and, until it puts one there, no old socket is open.    *)
MoveAlone ==
    /\ c2s.pc \in {"state", "lock"} => c2s.fd # None
    /\ c2s.pc \in {"lock", "record", "putold", "pending"} => rot_state = "idle"
    /\ c2s.pc \in {"lock", "record", "putold"} => rot_old_fd = None
    /\ c2s.pc \in {"putold", "pending"} => age = 0

(* While a move is being set up, is pending, or is taken back, its record  *)
(* describes the socket.                                                   *)
MoveRecorded ==
    (rot_state = "pending" /\ main.pc # "done")
    \/ c2s.pc \in {"record", "putold", "pending"} \/ main.pc = "back" =>
        /\ remote_fd # None
        /\ remote_port = rot_to /\ rot_from # rot_to
        /\ rot_old_fd \in {None, rot_from}

(* Main went on to close an old port no move is waiting on.                *)
LetGoSafe ==
    /\ main.pc = "lock" /\ main.st = "idle" =>
          rot_old_fd # None /\ rot_state = "idle" /\ c2s.pc # "pending"
    /\ main.pc \in {"letgo", "back"} \/ remote_mu = "s2c" => rot_state = "idle"

(* Main stops only after the signal, and ends with both threads gone.      *)
ShutDown ==
    /\ main.pc \in {"join", "done"} => stopped
    /\ main.pc = "done" => c2s.pc = "done" /\ s2c.pc = "done"

IInv == /\ TypeOK /\ MutexHeld /\ MoveAlone /\ MoveRecorded /\ LetGoSafe /\ ShutDown
        /\ DueNeverLost /\ NothingLeftOpen
-----------------------------------------------------------------------------
(* The state proxy_run starts the threads in is well typed.                *)
LEMMA TypeInit == Init => TypeOK
<1> SUFFICES ASSUME Init PROVE TypeOK
  OBVIOUS
<1>1. WordsOK
  BY TimesAssumption DEF Init, WordsOK, ClockMax
<1>2. FlagsOK
  BY SwitchAssumption DEF Init, FlagsOK
<1>3. C2sOK /\ S2cOK /\ MainOK
  BY TimesAssumption DEF Init, C2sOK, S2cOK, MainOK, C2sAt, S2cAt, C2sPc, S2cPc, MainPc
<1> QED BY <1>1, <1>2, <1>3 DEF TypeOK

(* Every step of the three threads and of the network keeps the types.     *)
LEMMA TypeStep == TypeOK /\ [Next]_vars => TypeOK'
<1> SUFFICES ASSUME TypeOK, [Next]_vars PROVE TypeOK'
  OBVIOUS
<1>1. CASE C2sBatch
  <2>1. WordsOK'
    BY <1>1, TimesAssumption DEF C2sBatch, TypeOK, WordsOK, C2sOK, endpoint, move, sched, misc, net
  <2>2. FlagsOK'
    BY <1>1, SwitchAssumption DEF C2sBatch, TypeOK, FlagsOK, C2sOK, endpoint, move, sched, misc, net
  <2>3. C2sOK' /\ S2cOK' /\ MainOK'
    BY <1>1, TimesAssumption, SwitchAssumption DEF C2sBatch, TypeOK, WordsOK, FlagsOK, C2sOK, S2cOK, MainOK, C2sAt, C2sPc
  <2> QED BY <2>1, <2>2, <2>3 DEF TypeOK
<1>2. CASE C2sStop
  <2>1. WordsOK'
    BY <1>2, TimesAssumption DEF C2sStop, TypeOK, WordsOK, C2sOK, endpoint, move, sched, misc, net
  <2>2. FlagsOK'
    BY <1>2, SwitchAssumption DEF C2sStop, TypeOK, FlagsOK, C2sOK, endpoint, move, sched, misc, net
  <2>3. C2sOK' /\ S2cOK' /\ MainOK'
    BY <1>2, TimesAssumption, SwitchAssumption DEF C2sStop, TypeOK, WordsOK, FlagsOK, C2sOK, S2cOK, MainOK, C2sAt, C2sPc
  <2> QED BY <2>1, <2>2, <2>3 DEF TypeOK
<1>3. CASE C2sTry
  <2>1. WordsOK'
    BY <1>3, TimesAssumption DEF C2sTry, TypeOK, WordsOK, C2sOK, endpoint, move, sched, misc, net
  <2>2. FlagsOK'
    BY <1>3, SwitchAssumption DEF C2sTry, TypeOK, FlagsOK, C2sOK, endpoint, move, sched, misc, net
  <2>3. C2sOK' /\ S2cOK' /\ MainOK'
    <3>1. ASSUME c2s' = C2sAt("recv") PROVE C2sOK'
      BY <3>1 DEF C2sOK, C2sAt, C2sPc
    <3>2. ASSUME \E soft \in BOOLEAN : c2s' = [c2s EXCEPT !.pc = "lock", !.soft = soft] PROVE C2sOK'
      BY <3>2 DEF TypeOK, C2sOK, C2sPc
    <3>3. C2sOK'
      BY <1>3, <3>1, <3>2, Zenon DEF C2sTry
    <3> QED BY <1>3, <3>3 DEF C2sTry, TypeOK, S2cOK, MainOK
  <2> QED BY <2>1, <2>2, <2>3 DEF TypeOK
<1>4. CASE C2sMove
  <2>1. WordsOK'
    BY <1>4, TimesAssumption DEF C2sMove, TypeOK, WordsOK, C2sOK, endpoint, move, sched, misc, net, rot_pick
  <2>2. FlagsOK'
    BY <1>4, SwitchAssumption DEF C2sMove, TypeOK, FlagsOK, C2sOK, endpoint, move, sched, misc, net, rot_pick
  <2>3. C2sOK' /\ S2cOK' /\ MainOK'
    BY <1>4, TimesAssumption, SwitchAssumption DEF C2sMove, TypeOK, WordsOK, FlagsOK, C2sOK, S2cOK, MainOK, C2sAt, C2sPc
  <2> QED BY <2>1, <2>2, <2>3 DEF TypeOK
<1>5. CASE C2sNoMove
  <2>1. WordsOK'
    BY <1>5, TimesAssumption DEF C2sNoMove, TypeOK, WordsOK, C2sOK, endpoint, move, sched, misc, net
  <2>2. FlagsOK'
    BY <1>5, SwitchAssumption DEF C2sNoMove, TypeOK, FlagsOK, C2sOK, endpoint, move, sched, misc, net
  <2>3. C2sOK' /\ S2cOK' /\ MainOK'
    BY <1>5, TimesAssumption, SwitchAssumption DEF C2sNoMove, TypeOK, WordsOK, FlagsOK, C2sOK, S2cOK, MainOK, C2sAt, C2sPc
  <2> QED BY <2>1, <2>2, <2>3 DEF TypeOK
<1>6. CASE C2sRecord
  <2>1. WordsOK'
    BY <1>6, TimesAssumption DEF C2sRecord, TypeOK, WordsOK, C2sOK, endpoint, move, sched, misc, net, ClockMax
  <2>2. FlagsOK'
    BY <1>6, SwitchAssumption DEF C2sRecord, TypeOK, FlagsOK, C2sOK, endpoint, move, sched, misc, net, ClockMax
  <2>3. C2sOK' /\ S2cOK' /\ MainOK'
    BY <1>6, TimesAssumption, SwitchAssumption DEF C2sRecord, TypeOK, WordsOK, FlagsOK, C2sOK, S2cOK, MainOK, C2sAt, C2sPc
  <2> QED BY <2>1, <2>2, <2>3 DEF TypeOK
<1>7. CASE C2sPutOld
  <2>1. WordsOK'
    BY <1>7, TimesAssumption DEF C2sPutOld, TypeOK, WordsOK, C2sOK, endpoint, move, sched, misc, net
  <2>2. FlagsOK'
    BY <1>7, SwitchAssumption DEF C2sPutOld, TypeOK, FlagsOK, C2sOK, endpoint, move, sched, misc, net
  <2>3. C2sOK' /\ S2cOK' /\ MainOK'
    BY <1>7, TimesAssumption, SwitchAssumption DEF C2sPutOld, TypeOK, WordsOK, FlagsOK, C2sOK, S2cOK, MainOK, C2sAt, C2sPc
  <2> QED BY <2>1, <2>2, <2>3 DEF TypeOK
<1>8. CASE C2sPutPending
  <2>1. WordsOK'
    BY <1>8, TimesAssumption DEF C2sPutPending, TypeOK, WordsOK, C2sOK, endpoint, move, sched, misc, net
  <2>2. FlagsOK'
    BY <1>8, SwitchAssumption DEF C2sPutPending, TypeOK, FlagsOK, C2sOK, endpoint, move, sched, misc, net
  <2>3. C2sOK' /\ S2cOK' /\ MainOK'
    BY <1>8, TimesAssumption, SwitchAssumption DEF C2sPutPending, TypeOK, WordsOK, FlagsOK, C2sOK, S2cOK, MainOK, C2sAt, C2sPc
  <2> QED BY <2>1, <2>2, <2>3 DEF TypeOK
<1>9. CASE C2sSendErr
  <2>1. WordsOK'
    BY <1>9, TimesAssumption DEF C2sSendErr, TypeOK, WordsOK, C2sOK, endpoint, move, sched, misc, net, RefusedNow
  <2>2. FlagsOK'
    BY <1>9, SwitchAssumption DEF C2sSendErr, TypeOK, FlagsOK, C2sOK, endpoint, move, sched, misc, net, RefusedNow
  <2>3. C2sOK' /\ S2cOK' /\ MainOK'
    BY <1>9, TimesAssumption, SwitchAssumption DEF C2sSendErr, TypeOK, WordsOK, FlagsOK, C2sOK, S2cOK, MainOK, C2sAt, C2sPc
  <2> QED BY <2>1, <2>2, <2>3 DEF TypeOK
<1>10. CASE S2cRecv
  <2>1. WordsOK'
    BY <1>10, TimesAssumption DEF S2cRecv, TypeOK, WordsOK, C2sOK, endpoint, move, sched, misc, net
  <2>2. FlagsOK'
    BY <1>10, SwitchAssumption DEF S2cRecv, TypeOK, FlagsOK, C2sOK, endpoint, move, sched, misc, net
  <2>3. C2sOK' /\ S2cOK' /\ MainOK'
    BY <1>10, TimesAssumption, SwitchAssumption DEF S2cRecv, TypeOK, WordsOK, FlagsOK, C2sOK, S2cOK, MainOK, S2cAt, S2cPc
  <2> QED BY <2>1, <2>2, <2>3 DEF TypeOK
<1>11. CASE S2cRecvErr
  <2>1. WordsOK'
    BY <1>11, TimesAssumption DEF S2cRecvErr, TypeOK, WordsOK, C2sOK, endpoint, move, sched, misc, net, RefusedNow
  <2>2. FlagsOK'
    BY <1>11, SwitchAssumption DEF S2cRecvErr, TypeOK, FlagsOK, C2sOK, endpoint, move, sched, misc, net, RefusedNow
  <2>3. C2sOK' /\ S2cOK' /\ MainOK'
    BY <1>11, TimesAssumption, SwitchAssumption DEF S2cRecvErr, TypeOK, WordsOK, FlagsOK, C2sOK, S2cOK, MainOK, S2cAt, S2cPc
  <2> QED BY <2>1, <2>2, <2>3 DEF TypeOK
<1>12. CASE S2cStop
  <2>1. WordsOK'
    BY <1>12, TimesAssumption DEF S2cStop, TypeOK, WordsOK, C2sOK, endpoint, move, sched, misc, net
  <2>2. FlagsOK'
    BY <1>12, SwitchAssumption DEF S2cStop, TypeOK, FlagsOK, C2sOK, endpoint, move, sched, misc, net
  <2>3. C2sOK' /\ S2cOK' /\ MainOK'
    BY <1>12, TimesAssumption, SwitchAssumption DEF S2cStop, TypeOK, WordsOK, FlagsOK, C2sOK, S2cOK, MainOK, S2cAt, S2cPc
  <2> QED BY <2>1, <2>2, <2>3 DEF TypeOK
<1>13. CASE S2cCheck
  <2>1. WordsOK'
    BY <1>13, TimesAssumption DEF S2cCheck, TypeOK, WordsOK, C2sOK, endpoint, move, sched, misc, net
  <2>2. FlagsOK'
    BY <1>13, SwitchAssumption DEF S2cCheck, TypeOK, FlagsOK, C2sOK, endpoint, move, sched, misc, net
  <2>3. C2sOK' /\ S2cOK' /\ MainOK'
    BY <1>13, TimesAssumption, SwitchAssumption DEF S2cCheck, TypeOK, WordsOK, FlagsOK, C2sOK, S2cOK, MainOK, S2cAt, S2cPc
  <2> QED BY <2>1, <2>2, <2>3 DEF TypeOK
<1>14. CASE S2cAns
  <2>1. WordsOK'
    BY <1>14, TimesAssumption DEF S2cAns, TypeOK, WordsOK, C2sOK, endpoint, move, sched, misc, net, ClockMax
  <2>2. FlagsOK'
    BY <1>14, SwitchAssumption DEF S2cAns, TypeOK, FlagsOK, C2sOK, endpoint, move, sched, misc, net, ClockMax
  <2>3. C2sOK' /\ S2cOK' /\ MainOK'
    BY <1>14, TimesAssumption, SwitchAssumption DEF S2cAns, TypeOK, WordsOK, FlagsOK, C2sOK, S2cOK, MainOK, S2cAt, S2cPc
  <2> QED BY <2>1, <2>2, <2>3 DEF TypeOK
<1>15. CASE S2cCas
  <2>1. WordsOK'
    BY <1>15, TimesAssumption DEF S2cCas, TypeOK, WordsOK, C2sOK, endpoint, move, sched, misc, net
  <2>2. FlagsOK'
    BY <1>15, SwitchAssumption DEF S2cCas, TypeOK, FlagsOK, C2sOK, endpoint, move, sched, misc, net
  <2>3. C2sOK' /\ S2cOK' /\ MainOK'
    BY <1>15, TimesAssumption, SwitchAssumption DEF S2cCas, TypeOK, WordsOK, FlagsOK, C2sOK, S2cOK, MainOK, S2cAt, S2cPc
  <2> QED BY <2>1, <2>2, <2>3 DEF TypeOK
<1>16. CASE S2cDual
  <2>1. WordsOK'
    BY <1>16, TimesAssumption DEF S2cDual, TypeOK, WordsOK, C2sOK, endpoint, move, sched, misc, net
  <2>2. FlagsOK'
    BY <1>16, SwitchAssumption DEF S2cDual, TypeOK, FlagsOK, C2sOK, endpoint, move, sched, misc, net
  <2>3. C2sOK' /\ S2cOK' /\ MainOK'
    BY <1>16, TimesAssumption, SwitchAssumption DEF S2cDual, TypeOK, WordsOK, FlagsOK, C2sOK, S2cOK, MainOK, S2cAt, S2cPc
  <2> QED BY <2>1, <2>2, <2>3 DEF TypeOK
<1>17. CASE S2cDue
  <2>1. WordsOK'
    BY <1>17, TimesAssumption DEF S2cDue, TypeOK, WordsOK, C2sOK, endpoint, move, sched, misc, net
  <2>2. FlagsOK'
    BY <1>17, SwitchAssumption DEF S2cDue, TypeOK, FlagsOK, C2sOK, endpoint, move, sched, misc, net
  <2>3. C2sOK' /\ S2cOK' /\ MainOK'
    BY <1>17, TimesAssumption, SwitchAssumption DEF S2cDue, TypeOK, WordsOK, FlagsOK, C2sOK, S2cOK, MainOK, S2cAt, S2cPc
  <2> QED BY <2>1, <2>2, <2>3 DEF TypeOK
<1>18. CASE S2cChanged
  <2>1. WordsOK'
    BY <1>18, TimesAssumption DEF S2cChanged, TypeOK, WordsOK, C2sOK, endpoint, move, sched, misc, net, NewSchedule
  <2>2. FlagsOK'
    BY <1>18, SwitchAssumption DEF S2cChanged, TypeOK, FlagsOK, C2sOK, endpoint, move, sched, misc, net, NewSchedule
  <2>3. C2sOK' /\ S2cOK' /\ MainOK'
    BY <1>18, TimesAssumption, SwitchAssumption DEF S2cChanged, TypeOK, WordsOK, FlagsOK, C2sOK, S2cOK, MainOK, S2cAt, S2cPc
  <2> QED BY <2>1, <2>2, <2>3 DEF TypeOK
<1>19. CASE S2cReconnect
  <2>1. WordsOK'
    BY <1>19, TimesAssumption DEF S2cReconnect, TypeOK, WordsOK, C2sOK, endpoint, move, sched, misc, net, MootMove
  <2>2. FlagsOK'
    BY <1>19, SwitchAssumption DEF S2cReconnect, TypeOK, FlagsOK, C2sOK, endpoint, move, sched, misc, net, MootMove
  <2>3. C2sOK' /\ S2cOK' /\ MainOK'
    BY <1>19, TimesAssumption, SwitchAssumption DEF S2cReconnect, TypeOK, WordsOK, FlagsOK, C2sOK, S2cOK, MainOK, S2cAt, S2cPc
  <2> QED BY <2>1, <2>2, <2>3 DEF TypeOK
<1>20. CASE S2cDialFails
  <2>1. WordsOK'
    BY <1>20, TimesAssumption DEF S2cDialFails, TypeOK, WordsOK, C2sOK, endpoint, move, sched, misc, net
  <2>2. FlagsOK'
    BY <1>20, SwitchAssumption DEF S2cDialFails, TypeOK, FlagsOK, C2sOK, endpoint, move, sched, misc, net
  <2>3. C2sOK' /\ S2cOK' /\ MainOK'
    BY <1>20, TimesAssumption, SwitchAssumption DEF S2cDialFails, TypeOK, WordsOK, FlagsOK, C2sOK, S2cOK, MainOK, S2cAt, S2cPc
  <2> QED BY <2>1, <2>2, <2>3 DEF TypeOK
<1>21. CASE S2cDial
  <2>1. WordsOK'
    BY <1>21, TimesAssumption DEF S2cDial, TypeOK, WordsOK, C2sOK, endpoint, move, sched, misc, net
  <2>2. FlagsOK'
    BY <1>21, SwitchAssumption DEF S2cDial, TypeOK, FlagsOK, C2sOK, endpoint, move, sched, misc, net
  <2>3. C2sOK' /\ S2cOK' /\ MainOK'
    BY <1>21, TimesAssumption, SwitchAssumption DEF S2cDial, TypeOK, WordsOK, FlagsOK, C2sOK, S2cOK, MainOK, S2cAt, S2cPc
  <2> QED BY <2>1, <2>2, <2>3 DEF TypeOK
<1>22. CASE S2cRcDue
  <2>1. WordsOK'
    BY <1>22, TimesAssumption DEF S2cRcDue, TypeOK, WordsOK, C2sOK, endpoint, move, sched, misc, net
  <2>2. FlagsOK'
    BY <1>22, SwitchAssumption DEF S2cRcDue, TypeOK, FlagsOK, C2sOK, endpoint, move, sched, misc, net
  <2>3. C2sOK' /\ S2cOK' /\ MainOK'
    BY <1>22, TimesAssumption, SwitchAssumption DEF S2cRcDue, TypeOK, WordsOK, FlagsOK, C2sOK, S2cOK, MainOK, S2cAt, S2cPc
  <2> QED BY <2>1, <2>2, <2>3 DEF TypeOK
<1>23. CASE S2cRcChanged
  <2>1. WordsOK'
    BY <1>23, TimesAssumption DEF S2cRcChanged, TypeOK, WordsOK, C2sOK, endpoint, move, sched, misc, net, NewSchedule
  <2>2. FlagsOK'
    BY <1>23, SwitchAssumption DEF S2cRcChanged, TypeOK, FlagsOK, C2sOK, endpoint, move, sched, misc, net, NewSchedule
  <2>3. C2sOK' /\ S2cOK' /\ MainOK'
    BY <1>23, TimesAssumption, SwitchAssumption DEF S2cRcChanged, TypeOK, WordsOK, FlagsOK, C2sOK, S2cOK, MainOK, S2cAt, S2cPc
  <2> QED BY <2>1, <2>2, <2>3 DEF TypeOK
<1>24. CASE S2cProbe
  <2>1. WordsOK'
    BY <1>24, TimesAssumption DEF S2cProbe, TypeOK, WordsOK, C2sOK, endpoint, move, sched, misc, net
  <2>2. FlagsOK'
    BY <1>24, SwitchAssumption DEF S2cProbe, TypeOK, FlagsOK, C2sOK, endpoint, move, sched, misc, net
  <2>3. C2sOK' /\ S2cOK' /\ MainOK'
    BY <1>24, TimesAssumption, SwitchAssumption DEF S2cProbe, TypeOK, WordsOK, FlagsOK, C2sOK, S2cOK, MainOK, S2cAt, S2cPc
  <2> QED BY <2>1, <2>2, <2>3 DEF TypeOK
<1>25. CASE MainPoll
  <2>1. WordsOK'
    BY <1>25, TimesAssumption DEF MainPoll, TypeOK, WordsOK, C2sOK, endpoint, move, sched, misc, net
  <2>2. FlagsOK'
    BY <1>25, SwitchAssumption DEF MainPoll, TypeOK, FlagsOK, C2sOK, endpoint, move, sched, misc, net
  <2>3. C2sOK' /\ S2cOK' /\ MainOK'
    BY <1>25, TimesAssumption, SwitchAssumption, ZenonT(60) DEF MainPoll, TypeOK, WordsOK, FlagsOK, C2sOK, S2cOK, MainOK, MainPc
  <2> QED BY <2>1, <2>2, <2>3 DEF TypeOK
<1>26. CASE MainLock
  <2>1. WordsOK'
    BY <1>26, TimesAssumption DEF MainLock, TypeOK, WordsOK, C2sOK, endpoint, move, sched, misc, net
  <2>2. FlagsOK'
    BY <1>26, SwitchAssumption DEF MainLock, TypeOK, FlagsOK, C2sOK, endpoint, move, sched, misc, net
  <2>3. C2sOK' /\ S2cOK' /\ MainOK'
    BY <1>26, TimesAssumption, SwitchAssumption, SMTT(60) DEF MainLock, TypeOK, WordsOK, FlagsOK, C2sOK, S2cOK, MainOK, MainPc
  <2> QED BY <2>1, <2>2, <2>3 DEF TypeOK
<1>27. CASE MainBusy
  <2>1. WordsOK'
    BY <1>27, TimesAssumption DEF MainBusy, TypeOK, WordsOK, C2sOK, endpoint, move, sched, misc, net
  <2>2. FlagsOK'
    BY <1>27, SwitchAssumption DEF MainBusy, TypeOK, FlagsOK, C2sOK, endpoint, move, sched, misc, net
  <2>3. C2sOK' /\ S2cOK' /\ MainOK'
    BY <1>27, TimesAssumption, SwitchAssumption DEF MainBusy, TypeOK, WordsOK, FlagsOK, C2sOK, S2cOK, MainOK, MainForget, MainPc
  <2> QED BY <2>1, <2>2, <2>3 DEF TypeOK
<1>28. CASE MainLetGo
  <2>1. WordsOK'
    BY <1>28, TimesAssumption DEF MainLetGo, TypeOK, WordsOK, C2sOK, endpoint, move, sched, misc, net
  <2>2. FlagsOK'
    BY <1>28, SwitchAssumption DEF MainLetGo, TypeOK, FlagsOK, C2sOK, endpoint, move, sched, misc, net
  <2>3. C2sOK' /\ S2cOK' /\ MainOK'
    BY <1>28, TimesAssumption, SwitchAssumption DEF MainLetGo, TypeOK, WordsOK, FlagsOK, C2sOK, S2cOK, MainOK, MainForget, MainPc
  <2> QED BY <2>1, <2>2, <2>3 DEF TypeOK
<1>29. CASE MainBack
  <2>1. WordsOK'
    BY <1>29, TimesAssumption DEF MainBack, TypeOK, WordsOK, C2sOK, endpoint, move, sched, misc, net, rot_bad_put
  <2>2. FlagsOK'
    BY <1>29, SwitchAssumption DEF MainBack, TypeOK, FlagsOK, C2sOK, endpoint, move, sched, misc, net, rot_bad_put
  <2>3. C2sOK' /\ S2cOK' /\ MainOK'
    BY <1>29, TimesAssumption, SwitchAssumption DEF MainBack, TypeOK, WordsOK, FlagsOK, C2sOK, S2cOK, MainOK, MainForget, MainPc
  <2> QED BY <2>1, <2>2, <2>3 DEF TypeOK
<1>30. CASE MainSleep
  <2>1. WordsOK'
    BY <1>30, TimesAssumption DEF MainSleep, TypeOK, WordsOK, C2sOK, endpoint, move, sched, misc, net
  <2>2. FlagsOK'
    BY <1>30, SwitchAssumption DEF MainSleep, TypeOK, FlagsOK, C2sOK, endpoint, move, sched, misc, net
  <2>3. C2sOK' /\ S2cOK' /\ MainOK'
    BY <1>30, TimesAssumption, SwitchAssumption DEF MainSleep, TypeOK, WordsOK, FlagsOK, C2sOK, S2cOK, MainOK, MainPc
  <2> QED BY <2>1, <2>2, <2>3 DEF TypeOK
<1>31. CASE MainSignal
  <2>1. WordsOK'
    BY <1>31, TimesAssumption DEF MainSignal, TypeOK, WordsOK, C2sOK, endpoint, move, sched, misc, net
  <2>2. FlagsOK'
    BY <1>31, SwitchAssumption DEF MainSignal, TypeOK, FlagsOK, C2sOK, endpoint, move, sched, misc, net
  <2>3. C2sOK' /\ S2cOK' /\ MainOK'
    BY <1>31, TimesAssumption, SwitchAssumption DEF MainSignal, TypeOK, WordsOK, FlagsOK, C2sOK, S2cOK, MainOK, MainPc
  <2> QED BY <2>1, <2>2, <2>3 DEF TypeOK
<1>32. CASE MainNews
  <2>1. WordsOK'
    BY <1>32, TimesAssumption DEF MainNews, TypeOK, WordsOK, C2sOK, endpoint, move, sched, misc, net
  <2>2. FlagsOK'
    BY <1>32, SwitchAssumption DEF MainNews, TypeOK, FlagsOK, C2sOK, endpoint, move, sched, misc, net
  <2>3. C2sOK' /\ S2cOK' /\ MainOK'
    <3> DEFINE due  == main.due /\ ~rot_changed /\ ~rot_failed
               wait == IF rot_failed THEN Retry ELSE IF rot_changed THEN 1 ELSE main.wait
    <3>1. due \in BOOLEAN
      OBVIOUS
    <3>2. wait \in 0..Retry
      BY TimesAssumption DEF TypeOK, MainOK
    <3>3. main' = [main EXCEPT !.pc = "raise", !.due = due, !.wait = wait]
      BY <1>32 DEF MainNews
    <3> HIDE DEF due, wait
    <3>4. MainOK'
      BY <3>1, <3>2, <3>3 DEF TypeOK, MainOK, MainPc
    <3> QED BY <1>32, <3>4 DEF MainNews, TypeOK, C2sOK, S2cOK
  <2> QED BY <2>1, <2>2, <2>3 DEF TypeOK
<1>33. CASE MainRaise
  <2>1. WordsOK'
    BY <1>33, TimesAssumption DEF MainRaise, TypeOK, WordsOK, C2sOK, endpoint, move, sched, misc, net
  <2>2. FlagsOK'
    BY <1>33, SwitchAssumption, ZenonT(60) DEF MainRaise, TypeOK, FlagsOK, C2sOK, endpoint, move, sched, misc, net
  <2>3. C2sOK' /\ S2cOK' /\ MainOK'
    <3>1. PICK w \in 0..Retry, d \in BOOLEAN : main' = [main EXCEPT !.pc = "wait", !.due = d, !.wait = w]
      <4>1. CASE main.due /\ main' = [main EXCEPT !.pc = "wait"]
        <5>1. main' = [main EXCEPT !.pc = "wait", !.due = main.due, !.wait = main.wait]
          BY <4>1 DEF TypeOK, MainOK
        <5> QED BY <5>1 DEF TypeOK, MainOK
      <4>2. CASE main' = [main EXCEPT !.pc = "wait", !.due = TRUE]
        <5>1. main' = [main EXCEPT !.pc = "wait", !.due = TRUE, !.wait = main.wait]
          BY <4>2 DEF TypeOK, MainOK
        <5> QED BY <5>1 DEF TypeOK, MainOK
      <4>3. CASE main' = [main EXCEPT !.pc = "wait", !.wait = IF main.wait = 0 THEN 0 ELSE main.wait - 1]
        <5> DEFINE w == IF main.wait = 0 THEN 0 ELSE main.wait - 1
        <5>1. w \in 0..Retry
          BY TimesAssumption DEF TypeOK, MainOK
        <5>2. main' = [main EXCEPT !.pc = "wait", !.due = main.due, !.wait = w]
          BY <4>3 DEF TypeOK, MainOK
        <5> QED BY <5>1, <5>2 DEF TypeOK, MainOK
      <4> QED BY <1>33, <4>1, <4>2, <4>3 DEF MainRaise
    <3>2. MainOK'
      BY <3>1 DEF TypeOK, MainOK, MainPc
    <3> QED BY <1>33, <3>2 DEF MainRaise, TypeOK, C2sOK, S2cOK
  <2> QED BY <2>1, <2>2, <2>3 DEF TypeOK
<1>34. CASE MainJoin
  <2>1. WordsOK'
    BY <1>34, TimesAssumption DEF MainJoin, TypeOK, WordsOK, C2sOK, endpoint, move, sched, misc, net, Joined
  <2>2. FlagsOK'
    BY <1>34, SwitchAssumption DEF MainJoin, TypeOK, FlagsOK, C2sOK, endpoint, move, sched, misc, net, Joined
  <2>3. C2sOK' /\ S2cOK' /\ MainOK'
    BY <1>34, TimesAssumption, SwitchAssumption DEF MainJoin, TypeOK, WordsOK, FlagsOK, C2sOK, S2cOK, MainOK, MainPc
  <2> QED BY <2>1, <2>2, <2>3 DEF TypeOK
<1>35. CASE NetDeliver
  <2>1. WordsOK'
    BY <1>35, TimesAssumption DEF NetDeliver, TypeOK, WordsOK, C2sOK, endpoint, move, sched, misc, net
  <2>2. FlagsOK'
    BY <1>35, SwitchAssumption DEF NetDeliver, TypeOK, FlagsOK, C2sOK, endpoint, move, sched, misc, net
  <2>3. C2sOK' /\ S2cOK' /\ MainOK'
    BY <1>35, TimesAssumption, SwitchAssumption DEF NetDeliver, TypeOK, WordsOK, FlagsOK, C2sOK, S2cOK, MainOK
  <2> QED BY <2>1, <2>2, <2>3 DEF TypeOK
<1>36. CASE NetRefuse
  <2>1. WordsOK'
    BY <1>36, TimesAssumption DEF NetRefuse, TypeOK, WordsOK, C2sOK, endpoint, move, sched, misc, net
  <2>2. FlagsOK'
    BY <1>36, SwitchAssumption DEF NetRefuse, TypeOK, FlagsOK, C2sOK, endpoint, move, sched, misc, net
  <2>3. C2sOK' /\ S2cOK' /\ MainOK'
    BY <1>36, TimesAssumption, SwitchAssumption DEF NetRefuse, TypeOK, WordsOK, FlagsOK, C2sOK, S2cOK, MainOK
  <2> QED BY <2>1, <2>2, <2>3 DEF TypeOK
<1>37. CASE Tick
  <2>1. WordsOK'
    BY <1>37, TimesAssumption DEF Tick, TypeOK, WordsOK, C2sOK, endpoint, move, sched, misc, net, ClockMax
  <2>2. FlagsOK'
    BY <1>37, SwitchAssumption DEF Tick, TypeOK, FlagsOK, C2sOK, endpoint, move, sched, misc, net, ClockMax
  <2>3. C2sOK' /\ S2cOK' /\ MainOK'
    BY <1>37, TimesAssumption, SwitchAssumption DEF Tick, TypeOK, WordsOK, FlagsOK, C2sOK, S2cOK, MainOK
  <2> QED BY <2>1, <2>2, <2>3 DEF TypeOK
<1>38. CASE Terminated
  <2>1. WordsOK'
    BY <1>38, TimesAssumption DEF Terminated, TypeOK, WordsOK, C2sOK, endpoint, move, sched, misc, net, vars
  <2>2. FlagsOK'
    BY <1>38, SwitchAssumption DEF Terminated, TypeOK, FlagsOK, C2sOK, endpoint, move, sched, misc, net, vars
  <2>3. C2sOK' /\ S2cOK' /\ MainOK'
    BY <1>38, TimesAssumption, SwitchAssumption DEF Terminated, TypeOK, WordsOK, FlagsOK, C2sOK, S2cOK, MainOK, vars
  <2> QED BY <2>1, <2>2, <2>3 DEF TypeOK
<1>39. CASE UNCHANGED vars
  BY <1>39 DEF vars, TypeOK, WordsOK, FlagsOK, C2sOK, S2cOK, MainOK, endpoint, move, sched, misc, net
<1> QED
  BY <1>1, <1>2, <1>3, <1>4, <1>5, <1>6, <1>7, <1>8, <1>9, <1>10, <1>11, <1>12, <1>13, <1>14, <1>15, <1>16, <1>17, <1>18, <1>19, <1>20, <1>21, <1>22, <1>23, <1>24, <1>25, <1>26, <1>27, <1>28, <1>29, <1>30, <1>31, <1>32, <1>33, <1>34, <1>35, <1>36, <1>37, <1>38, <1>39 DEF Next, C2sNext, S2cNext, MainNext

(* Every field keeps its type, for every set of ports and every timer: the *)
(* ring of dead ports never holds more than BadN, the clock and the ticks  *)
(* left before the next try stay inside their bounds.                      *)
THEOREM TypeCorrect == Spec => []TypeOK
<1> QED BY TypeInit, TypeStep, PTL DEF Spec

-----------------------------------------------------------------------------
(* What rot_try decides, told by the fields of c2s.                        *)
LEMMA C2sTrySteps ==
    ASSUME TypeOK, C2sTry
    PROVE  /\ c2s.pc = "state" /\ c2s'.pc \in {"recv", "lock"}
           /\ c2s'.pc = "lock" => MoveAllowed /\ c2s'.fd = c2s.fd
<1>1. CASE c2s' = C2sAt("recv")
  BY <1>1 DEF C2sTry, C2sAt
<1>2. CASE MoveAllowed /\ \E soft \in BOOLEAN : c2s' = [c2s EXCEPT !.pc = "lock", !.soft = soft]
  <2>1. c2s'.pc = "lock" /\ c2s'.fd = c2s.fd
    BY <1>2 DEF TypeOK, C2sOK
  <2> QED BY <1>2, <2>1 DEF C2sTry
<1> QED BY <1>1, <1>2, Zenon DEF C2sTry

(* The state proxy_run starts the threads in satisfies the invariant.      *)
LEMMA InvInit == Init => IInv
<1> SUFFICES ASSUME Init PROVE IInv
  OBVIOUS
<1>1. MutexHeld /\ MoveAlone /\ MoveRecorded /\ LetGoSafe
  BY DEF Init, MutexHeld, MoveAlone, MoveRecorded, LetGoSafe, C2sAt, S2cAt
<1>2. ShutDown /\ DueNeverLost /\ NothingLeftOpen
  BY DEF Init, ShutDown, DueNeverLost, NothingLeftOpen
<1> QED BY <1>1, <1>2, TypeInit DEF IInv

(* Every step of the three threads and of the network keeps the invariant. *)
LEMMA InvStep == IInv /\ [Next]_vars => IInv'
<1> SUFFICES ASSUME IInv, [Next]_vars PROVE IInv'
  OBVIOUS
<1> USE DEF IInv
<1>1. CASE C2sBatch
  <2>1. MutexHeld' /\ MoveAlone' /\ MoveRecorded' /\ LetGoSafe'
    BY <1>1, PortsAssumption, TimesAssumption DEF C2sBatch, TypeOK, WordsOK, C2sOK, S2cOK, MainOK, MutexHeld, MoveAlone, MoveRecorded, LetGoSafe, ShutDown, endpoint, move, sched, misc, net, C2sAt
  <2>2. ShutDown' /\ DueNeverLost' /\ NothingLeftOpen'
    BY <1>1 DEF C2sBatch, TypeOK, FlagsOK, C2sOK, S2cOK, MainOK, ShutDown, DueNeverLost, NothingLeftOpen, endpoint, move, sched, misc, net, C2sAt
  <2> QED BY <2>1, <2>2, TypeStep DEF IInv
<1>2. CASE C2sStop
  <2>1. MutexHeld' /\ MoveAlone' /\ MoveRecorded' /\ LetGoSafe'
    BY <1>2, PortsAssumption, TimesAssumption DEF C2sStop, TypeOK, WordsOK, C2sOK, S2cOK, MainOK, MutexHeld, MoveAlone, MoveRecorded, LetGoSafe, ShutDown, endpoint, move, sched, misc, net, C2sAt
  <2>2. ShutDown' /\ DueNeverLost' /\ NothingLeftOpen'
    BY <1>2 DEF C2sStop, TypeOK, FlagsOK, C2sOK, S2cOK, MainOK, ShutDown, DueNeverLost, NothingLeftOpen, endpoint, move, sched, misc, net, C2sAt
  <2> QED BY <2>1, <2>2, TypeStep DEF IInv
<1>3. CASE C2sTry
  <2>1. MutexHeld' /\ MoveAlone' /\ MoveRecorded' /\ LetGoSafe'
    BY <1>3, C2sTrySteps DEF C2sTry, MoveAllowed, MutexHeld, MoveAlone, MoveRecorded, LetGoSafe, endpoint, move
  <2>2. ShutDown' /\ DueNeverLost' /\ NothingLeftOpen'
    BY <1>3 DEF C2sTry, TypeOK, FlagsOK, C2sOK, S2cOK, MainOK, ShutDown, DueNeverLost, NothingLeftOpen, endpoint, move, sched, misc, net, C2sAt
  <2> QED BY <2>1, <2>2, TypeStep DEF IInv
<1>4. CASE C2sMove
  <2>3. c2s.pc = "lock" /\ c2s'.pc = "record" /\ remote_mu = "free" /\ remote_mu' = "c2s"
    BY <1>4 DEF C2sMove, C2sAt
  <2>4. remote_fd # None /\ remote_port' = rot_to' /\ rot_from' # rot_to'
    BY <1>4, PortsAssumption DEF C2sMove, rot_pick, TypeOK, C2sOK, MoveAlone
  <2>1. MutexHeld' /\ MoveAlone' /\ MoveRecorded' /\ LetGoSafe'
    BY <1>4, <2>3, <2>4 DEF C2sMove, MutexHeld, MoveAlone, MoveRecorded, LetGoSafe
  <2>2. ShutDown' /\ DueNeverLost' /\ NothingLeftOpen'
    BY <1>4 DEF C2sMove, TypeOK, FlagsOK, C2sOK, S2cOK, MainOK, ShutDown, DueNeverLost, NothingLeftOpen, endpoint, move, sched, misc, net, C2sAt
  <2> QED BY <2>1, <2>2, TypeStep DEF IInv
<1>5. CASE C2sNoMove
  <2>1. MutexHeld' /\ MoveAlone' /\ MoveRecorded' /\ LetGoSafe'
    BY <1>5, PortsAssumption, TimesAssumption DEF C2sNoMove, TypeOK, WordsOK, C2sOK, S2cOK, MainOK, MutexHeld, MoveAlone, MoveRecorded, LetGoSafe, ShutDown, endpoint, move, sched, misc, net, C2sAt
  <2>2. ShutDown' /\ DueNeverLost' /\ NothingLeftOpen'
    BY <1>5 DEF C2sNoMove, TypeOK, FlagsOK, C2sOK, S2cOK, MainOK, ShutDown, DueNeverLost, NothingLeftOpen, endpoint, move, sched, misc, net, C2sAt
  <2> QED BY <2>1, <2>2, TypeStep DEF IInv
<1>6. CASE C2sRecord
  <2>1. MutexHeld' /\ MoveAlone' /\ MoveRecorded' /\ LetGoSafe'
    BY <1>6, PortsAssumption, TimesAssumption DEF C2sRecord, TypeOK, WordsOK, C2sOK, S2cOK, MainOK, MutexHeld, MoveAlone, MoveRecorded, LetGoSafe, ShutDown, endpoint, move, sched, misc, net, ClockMax, C2sAt
  <2>2. ShutDown' /\ DueNeverLost' /\ NothingLeftOpen'
    BY <1>6 DEF C2sRecord, TypeOK, FlagsOK, C2sOK, S2cOK, MainOK, ShutDown, DueNeverLost, NothingLeftOpen, endpoint, move, sched, misc, net, C2sAt
  <2> QED BY <2>1, <2>2, TypeStep DEF IInv
<1>7. CASE C2sPutOld
  <2>1. MutexHeld' /\ MoveAlone' /\ MoveRecorded' /\ LetGoSafe'
    BY <1>7, PortsAssumption, TimesAssumption DEF C2sPutOld, TypeOK, WordsOK, C2sOK, S2cOK, MainOK, MutexHeld, MoveAlone, MoveRecorded, LetGoSafe, ShutDown, endpoint, move, sched, misc, net, C2sAt
  <2>2. ShutDown' /\ DueNeverLost' /\ NothingLeftOpen'
    BY <1>7 DEF C2sPutOld, TypeOK, FlagsOK, C2sOK, S2cOK, MainOK, ShutDown, DueNeverLost, NothingLeftOpen, endpoint, move, sched, misc, net, C2sAt
  <2> QED BY <2>1, <2>2, TypeStep DEF IInv
<1>8. CASE C2sPutPending
  <2>1. MutexHeld' /\ MoveAlone' /\ MoveRecorded' /\ LetGoSafe'
    BY <1>8, PortsAssumption, TimesAssumption DEF C2sPutPending, TypeOK, WordsOK, C2sOK, S2cOK, MainOK, MutexHeld, MoveAlone, MoveRecorded, LetGoSafe, ShutDown, endpoint, move, sched, misc, net, C2sAt
  <2>2. ShutDown' /\ DueNeverLost' /\ NothingLeftOpen'
    BY <1>8 DEF C2sPutPending, TypeOK, FlagsOK, C2sOK, S2cOK, MainOK, ShutDown, DueNeverLost, NothingLeftOpen, endpoint, move, sched, misc, net, C2sAt
  <2> QED BY <2>1, <2>2, TypeStep DEF IInv
<1>9. CASE C2sSendErr
  <2>1. MutexHeld' /\ MoveAlone' /\ MoveRecorded' /\ LetGoSafe'
    BY <1>9, PortsAssumption, TimesAssumption DEF C2sSendErr, TypeOK, WordsOK, C2sOK, S2cOK, MainOK, MutexHeld, MoveAlone, MoveRecorded, LetGoSafe, ShutDown, endpoint, move, sched, misc, net, RefusedNow, C2sAt
  <2>2. ShutDown' /\ DueNeverLost' /\ NothingLeftOpen'
    BY <1>9 DEF C2sSendErr, TypeOK, FlagsOK, C2sOK, S2cOK, MainOK, ShutDown, DueNeverLost, NothingLeftOpen, endpoint, move, sched, misc, net, C2sAt
  <2> QED BY <2>1, <2>2, TypeStep DEF IInv
<1>10. CASE S2cRecv
  <2>1. MutexHeld' /\ MoveAlone' /\ MoveRecorded' /\ LetGoSafe'
    BY <1>10, PortsAssumption, TimesAssumption DEF S2cRecv, TypeOK, WordsOK, C2sOK, S2cOK, MainOK, MutexHeld, MoveAlone, MoveRecorded, LetGoSafe, ShutDown, endpoint, move, sched, misc, net, S2cAt
  <2>2. ShutDown' /\ DueNeverLost' /\ NothingLeftOpen'
    BY <1>10 DEF S2cRecv, TypeOK, FlagsOK, C2sOK, S2cOK, MainOK, ShutDown, DueNeverLost, NothingLeftOpen, endpoint, move, sched, misc, net, S2cAt
  <2> QED BY <2>1, <2>2, TypeStep DEF IInv
<1>11. CASE S2cRecvErr
  <2>1. MutexHeld' /\ MoveAlone' /\ MoveRecorded' /\ LetGoSafe'
    BY <1>11, PortsAssumption, TimesAssumption DEF S2cRecvErr, TypeOK, WordsOK, C2sOK, S2cOK, MainOK, MutexHeld, MoveAlone, MoveRecorded, LetGoSafe, ShutDown, endpoint, move, sched, misc, net, RefusedNow, S2cAt
  <2>2. ShutDown' /\ DueNeverLost' /\ NothingLeftOpen'
    BY <1>11 DEF S2cRecvErr, TypeOK, FlagsOK, C2sOK, S2cOK, MainOK, ShutDown, DueNeverLost, NothingLeftOpen, endpoint, move, sched, misc, net, S2cAt
  <2> QED BY <2>1, <2>2, TypeStep DEF IInv
<1>12. CASE S2cStop
  <2>1. MutexHeld' /\ MoveAlone' /\ MoveRecorded' /\ LetGoSafe'
    BY <1>12, PortsAssumption, TimesAssumption DEF S2cStop, TypeOK, WordsOK, C2sOK, S2cOK, MainOK, MutexHeld, MoveAlone, MoveRecorded, LetGoSafe, ShutDown, endpoint, move, sched, misc, net, S2cAt
  <2>2. ShutDown' /\ DueNeverLost' /\ NothingLeftOpen'
    BY <1>12 DEF S2cStop, TypeOK, FlagsOK, C2sOK, S2cOK, MainOK, ShutDown, DueNeverLost, NothingLeftOpen, endpoint, move, sched, misc, net, S2cAt
  <2> QED BY <2>1, <2>2, TypeStep DEF IInv
<1>13. CASE S2cCheck
  <2>1. MutexHeld' /\ MoveAlone' /\ MoveRecorded' /\ LetGoSafe'
    BY <1>13, PortsAssumption, TimesAssumption DEF S2cCheck, TypeOK, WordsOK, C2sOK, S2cOK, MainOK, MutexHeld, MoveAlone, MoveRecorded, LetGoSafe, ShutDown, endpoint, move, sched, misc, net, S2cAt
  <2>2. ShutDown' /\ DueNeverLost' /\ NothingLeftOpen'
    BY <1>13 DEF S2cCheck, TypeOK, FlagsOK, C2sOK, S2cOK, MainOK, ShutDown, DueNeverLost, NothingLeftOpen, endpoint, move, sched, misc, net, S2cAt
  <2> QED BY <2>1, <2>2, TypeStep DEF IInv
<1>14. CASE S2cAns
  <2>1. MutexHeld' /\ MoveAlone' /\ MoveRecorded' /\ LetGoSafe'
    BY <1>14, PortsAssumption, TimesAssumption DEF S2cAns, TypeOK, WordsOK, C2sOK, S2cOK, MainOK, MutexHeld, MoveAlone, MoveRecorded, LetGoSafe, ShutDown, endpoint, move, sched, misc, net, ClockMax, S2cAt
  <2>2. ShutDown' /\ DueNeverLost' /\ NothingLeftOpen'
    BY <1>14 DEF S2cAns, TypeOK, FlagsOK, C2sOK, S2cOK, MainOK, ShutDown, DueNeverLost, NothingLeftOpen, endpoint, move, sched, misc, net, S2cAt
  <2> QED BY <2>1, <2>2, TypeStep DEF IInv
<1>15. CASE S2cCas
  <2>1. MutexHeld' /\ MoveAlone' /\ MoveRecorded' /\ LetGoSafe'
    BY <1>15, PortsAssumption, TimesAssumption DEF S2cCas, TypeOK, WordsOK, C2sOK, S2cOK, MainOK, MutexHeld, MoveAlone, MoveRecorded, LetGoSafe, ShutDown, endpoint, move, sched, misc, net, S2cAt
  <2>2. ShutDown' /\ DueNeverLost' /\ NothingLeftOpen'
    BY <1>15 DEF S2cCas, TypeOK, FlagsOK, C2sOK, S2cOK, MainOK, ShutDown, DueNeverLost, NothingLeftOpen, endpoint, move, sched, misc, net, S2cAt
  <2> QED BY <2>1, <2>2, TypeStep DEF IInv
<1>16. CASE S2cDual
  <2>1. MutexHeld' /\ MoveAlone' /\ MoveRecorded' /\ LetGoSafe'
    BY <1>16, PortsAssumption, TimesAssumption DEF S2cDual, TypeOK, WordsOK, C2sOK, S2cOK, MainOK, MutexHeld, MoveAlone, MoveRecorded, LetGoSafe, ShutDown, endpoint, move, sched, misc, net, S2cAt
  <2>2. ShutDown' /\ DueNeverLost' /\ NothingLeftOpen'
    BY <1>16 DEF S2cDual, TypeOK, FlagsOK, C2sOK, S2cOK, MainOK, ShutDown, DueNeverLost, NothingLeftOpen, endpoint, move, sched, misc, net, S2cAt
  <2> QED BY <2>1, <2>2, TypeStep DEF IInv
<1>17. CASE S2cDue
  <2>1. MutexHeld' /\ MoveAlone' /\ MoveRecorded' /\ LetGoSafe'
    BY <1>17, PortsAssumption, TimesAssumption DEF S2cDue, TypeOK, WordsOK, C2sOK, S2cOK, MainOK, MutexHeld, MoveAlone, MoveRecorded, LetGoSafe, ShutDown, endpoint, move, sched, misc, net, S2cAt
  <2>2. ShutDown' /\ DueNeverLost' /\ NothingLeftOpen'
    BY <1>17 DEF S2cDue, TypeOK, FlagsOK, C2sOK, S2cOK, MainOK, ShutDown, DueNeverLost, NothingLeftOpen, endpoint, move, sched, misc, net, S2cAt
  <2> QED BY <2>1, <2>2, TypeStep DEF IInv
<1>18. CASE S2cChanged
  <2>1. MutexHeld' /\ MoveAlone' /\ MoveRecorded' /\ LetGoSafe'
    BY <1>18, PortsAssumption, TimesAssumption DEF S2cChanged, TypeOK, WordsOK, C2sOK, S2cOK, MainOK, MutexHeld, MoveAlone, MoveRecorded, LetGoSafe, ShutDown, endpoint, move, sched, misc, net, NewSchedule, S2cAt
  <2>2. ShutDown' /\ DueNeverLost' /\ NothingLeftOpen'
    BY <1>18 DEF S2cChanged, TypeOK, FlagsOK, C2sOK, S2cOK, MainOK, ShutDown, DueNeverLost, NothingLeftOpen, endpoint, move, sched, misc, net, NewSchedule, S2cAt
  <2> QED BY <2>1, <2>2, TypeStep DEF IInv
<1>19. CASE S2cReconnect
  <2>1. MutexHeld' /\ MoveAlone' /\ MoveRecorded' /\ LetGoSafe'
    BY <1>19, PortsAssumption, TimesAssumption DEF S2cReconnect, TypeOK, WordsOK, C2sOK, S2cOK, MainOK, MutexHeld, MoveAlone, MoveRecorded, LetGoSafe, ShutDown, endpoint, move, sched, misc, net, MootMove, S2cAt
  <2>2. ShutDown' /\ DueNeverLost' /\ NothingLeftOpen'
    BY <1>19 DEF S2cReconnect, TypeOK, FlagsOK, C2sOK, S2cOK, MainOK, ShutDown, DueNeverLost, NothingLeftOpen, endpoint, move, sched, misc, net, S2cAt
  <2> QED BY <2>1, <2>2, TypeStep DEF IInv
<1>20. CASE S2cDialFails
  <2>1. MutexHeld' /\ MoveAlone' /\ MoveRecorded' /\ LetGoSafe'
    BY <1>20, PortsAssumption, TimesAssumption DEF S2cDialFails, TypeOK, WordsOK, C2sOK, S2cOK, MainOK, MutexHeld, MoveAlone, MoveRecorded, LetGoSafe, ShutDown, endpoint, move, sched, misc, net, S2cAt
  <2>2. ShutDown' /\ DueNeverLost' /\ NothingLeftOpen'
    BY <1>20 DEF S2cDialFails, TypeOK, FlagsOK, C2sOK, S2cOK, MainOK, ShutDown, DueNeverLost, NothingLeftOpen, endpoint, move, sched, misc, net, S2cAt
  <2> QED BY <2>1, <2>2, TypeStep DEF IInv
<1>21. CASE S2cDial
  <2>1. MutexHeld' /\ MoveAlone' /\ MoveRecorded' /\ LetGoSafe'
    BY <1>21, PortsAssumption, TimesAssumption DEF S2cDial, TypeOK, WordsOK, C2sOK, S2cOK, MainOK, MutexHeld, MoveAlone, MoveRecorded, LetGoSafe, ShutDown, endpoint, move, sched, misc, net, S2cAt
  <2>2. ShutDown' /\ DueNeverLost' /\ NothingLeftOpen'
    BY <1>21 DEF S2cDial, TypeOK, FlagsOK, C2sOK, S2cOK, MainOK, ShutDown, DueNeverLost, NothingLeftOpen, endpoint, move, sched, misc, net, S2cAt
  <2> QED BY <2>1, <2>2, TypeStep DEF IInv
<1>22. CASE S2cRcDue
  <2>1. MutexHeld' /\ MoveAlone' /\ MoveRecorded' /\ LetGoSafe'
    BY <1>22, PortsAssumption, TimesAssumption DEF S2cRcDue, TypeOK, WordsOK, C2sOK, S2cOK, MainOK, MutexHeld, MoveAlone, MoveRecorded, LetGoSafe, ShutDown, endpoint, move, sched, misc, net, S2cAt
  <2>2. ShutDown' /\ DueNeverLost' /\ NothingLeftOpen'
    BY <1>22 DEF S2cRcDue, TypeOK, FlagsOK, C2sOK, S2cOK, MainOK, ShutDown, DueNeverLost, NothingLeftOpen, endpoint, move, sched, misc, net, S2cAt
  <2> QED BY <2>1, <2>2, TypeStep DEF IInv
<1>23. CASE S2cRcChanged
  <2>1. MutexHeld' /\ MoveAlone' /\ MoveRecorded' /\ LetGoSafe'
    BY <1>23, PortsAssumption, TimesAssumption DEF S2cRcChanged, TypeOK, WordsOK, C2sOK, S2cOK, MainOK, MutexHeld, MoveAlone, MoveRecorded, LetGoSafe, ShutDown, endpoint, move, sched, misc, net, NewSchedule, S2cAt
  <2>2. ShutDown' /\ DueNeverLost' /\ NothingLeftOpen'
    BY <1>23 DEF S2cRcChanged, TypeOK, FlagsOK, C2sOK, S2cOK, MainOK, ShutDown, DueNeverLost, NothingLeftOpen, endpoint, move, sched, misc, net, NewSchedule, S2cAt
  <2> QED BY <2>1, <2>2, TypeStep DEF IInv
<1>24. CASE S2cProbe
  <2>1. MutexHeld' /\ MoveAlone' /\ MoveRecorded' /\ LetGoSafe'
    BY <1>24, PortsAssumption, TimesAssumption DEF S2cProbe, TypeOK, WordsOK, C2sOK, S2cOK, MainOK, MutexHeld, MoveAlone, MoveRecorded, LetGoSafe, ShutDown, endpoint, move, sched, misc, net, S2cAt
  <2>2. ShutDown' /\ DueNeverLost' /\ NothingLeftOpen'
    BY <1>24 DEF S2cProbe, TypeOK, FlagsOK, C2sOK, S2cOK, MainOK, ShutDown, DueNeverLost, NothingLeftOpen, endpoint, move, sched, misc, net, S2cAt
  <2> QED BY <2>1, <2>2, TypeStep DEF IInv
<1>25. CASE MainPoll
  <2>1. MutexHeld' /\ MoveAlone' /\ MoveRecorded' /\ LetGoSafe'
    BY <1>25, PortsAssumption, TimesAssumption DEF MainPoll, TypeOK, WordsOK, C2sOK, S2cOK, MainOK, MutexHeld, MoveAlone, MoveRecorded, LetGoSafe, ShutDown, endpoint, move, sched, misc, net, PollReturns, TooEarly, WordsOK
  <2>2. ShutDown' /\ DueNeverLost' /\ NothingLeftOpen'
    BY <1>25 DEF MainPoll, TypeOK, FlagsOK, C2sOK, S2cOK, MainOK, ShutDown, DueNeverLost, NothingLeftOpen, endpoint, move, sched, misc, net
  <2> QED BY <2>1, <2>2, TypeStep DEF IInv
<1>26. CASE MainLock
  <2>1. MutexHeld' /\ MoveAlone' /\ MoveRecorded' /\ LetGoSafe'
    BY <1>26, PortsAssumption, TimesAssumption DEF MainLock, TypeOK, WordsOK, C2sOK, S2cOK, MainOK, MutexHeld, MoveAlone, MoveRecorded, LetGoSafe, ShutDown, endpoint, move, sched, misc, net
  <2>2. ShutDown' /\ DueNeverLost' /\ NothingLeftOpen'
    BY <1>26 DEF MainLock, TypeOK, FlagsOK, C2sOK, S2cOK, MainOK, ShutDown, DueNeverLost, NothingLeftOpen, endpoint, move, sched, misc, net
  <2> QED BY <2>1, <2>2, TypeStep DEF IInv
<1>27. CASE MainBusy
  <2>1. MutexHeld' /\ MoveAlone' /\ MoveRecorded' /\ LetGoSafe'
    BY <1>27, PortsAssumption, TimesAssumption DEF MainBusy, TypeOK, WordsOK, C2sOK, S2cOK, MainOK, MutexHeld, MoveAlone, MoveRecorded, LetGoSafe, ShutDown, endpoint, move, sched, misc, net, MainForget
  <2>2. ShutDown' /\ DueNeverLost' /\ NothingLeftOpen'
    BY <1>27 DEF MainBusy, TypeOK, FlagsOK, C2sOK, S2cOK, MainOK, ShutDown, DueNeverLost, NothingLeftOpen, endpoint, move, sched, misc, net, MainForget
  <2> QED BY <2>1, <2>2, TypeStep DEF IInv
<1>28. CASE MainLetGo
  <2>1. MutexHeld' /\ MoveAlone' /\ MoveRecorded' /\ LetGoSafe'
    BY <1>28, PortsAssumption, TimesAssumption DEF MainLetGo, TypeOK, WordsOK, C2sOK, S2cOK, MainOK, MutexHeld, MoveAlone, MoveRecorded, LetGoSafe, ShutDown, endpoint, move, sched, misc, net, MainForget
  <2>2. ShutDown' /\ DueNeverLost' /\ NothingLeftOpen'
    BY <1>28 DEF MainLetGo, TypeOK, FlagsOK, C2sOK, S2cOK, MainOK, ShutDown, DueNeverLost, NothingLeftOpen, endpoint, move, sched, misc, net, MainForget
  <2> QED BY <2>1, <2>2, TypeStep DEF IInv
<1>29. CASE MainBack
  <2>1. MutexHeld' /\ MoveAlone' /\ MoveRecorded' /\ LetGoSafe'
    BY <1>29, PortsAssumption, TimesAssumption DEF MainBack, TypeOK, WordsOK, C2sOK, S2cOK, MainOK, MutexHeld, MoveAlone, MoveRecorded, LetGoSafe, ShutDown, endpoint, move, sched, misc, net, MainForget
  <2>2. ShutDown' /\ DueNeverLost' /\ NothingLeftOpen'
    BY <1>29 DEF MainBack, TypeOK, FlagsOK, C2sOK, S2cOK, MainOK, ShutDown, DueNeverLost, NothingLeftOpen, endpoint, move, sched, misc, net, MainForget
  <2> QED BY <2>1, <2>2, TypeStep DEF IInv
<1>30. CASE MainSleep
  <2>1. MutexHeld' /\ MoveAlone' /\ MoveRecorded' /\ LetGoSafe'
    BY <1>30, PortsAssumption, TimesAssumption DEF MainSleep, TypeOK, WordsOK, C2sOK, S2cOK, MainOK, MutexHeld, MoveAlone, MoveRecorded, LetGoSafe, ShutDown, endpoint, move, sched, misc, net
  <2>2. ShutDown' /\ DueNeverLost' /\ NothingLeftOpen'
    BY <1>30 DEF MainSleep, TypeOK, FlagsOK, C2sOK, S2cOK, MainOK, ShutDown, DueNeverLost, NothingLeftOpen, endpoint, move, sched, misc, net
  <2> QED BY <2>1, <2>2, TypeStep DEF IInv
<1>31. CASE MainSignal
  <2>3. main.pc \in {"events", "wait"} /\ main'.pc = "join"
    BY <1>31 DEF MainSignal, Polled, TypeOK, MainOK
  <2>1. MutexHeld' /\ MoveAlone' /\ MoveRecorded' /\ LetGoSafe'
    BY <1>31, <2>3 DEF MainSignal, MutexHeld, MoveAlone, MoveRecorded, LetGoSafe, endpoint, move
  <2>2. ShutDown' /\ DueNeverLost' /\ NothingLeftOpen'
    BY <1>31 DEF MainSignal, TypeOK, FlagsOK, C2sOK, S2cOK, MainOK, ShutDown, DueNeverLost, NothingLeftOpen, endpoint, move, sched, misc, net
  <2> QED BY <2>1, <2>2, TypeStep DEF IInv
<1>32. CASE MainNews
  <2>3. main.pc \in {"events", "wait"} /\ main'.pc = "raise"
    BY <1>32 DEF MainNews, Polled, TypeOK, MainOK
  <2>1. MutexHeld' /\ MoveAlone' /\ MoveRecorded' /\ LetGoSafe'
    BY <1>32, <2>3 DEF MainNews, MutexHeld, MoveAlone, MoveRecorded, LetGoSafe, endpoint, move
  <2>2. ShutDown' /\ DueNeverLost' /\ NothingLeftOpen'
    BY <1>32 DEF MainNews, TypeOK, FlagsOK, C2sOK, S2cOK, MainOK, ShutDown, DueNeverLost, NothingLeftOpen, endpoint, move, sched, misc, net
  <2> QED BY <2>1, <2>2, TypeStep DEF IInv
<1>33. CASE MainRaise
  <2>1. MutexHeld' /\ MoveAlone' /\ MoveRecorded' /\ LetGoSafe'
    BY <1>33, PortsAssumption, TimesAssumption, ZenonT(60) DEF MainRaise, TypeOK, WordsOK, C2sOK, S2cOK, MainOK, MutexHeld, MoveAlone, MoveRecorded, LetGoSafe, ShutDown, endpoint, move, sched, misc, net
  <2>2. ShutDown' /\ DueNeverLost' /\ NothingLeftOpen'
    BY <1>33 DEF MainRaise, TypeOK, FlagsOK, C2sOK, S2cOK, MainOK, ShutDown, DueNeverLost, NothingLeftOpen, endpoint, move, sched, misc, net
  <2> QED BY <2>1, <2>2, TypeStep DEF IInv
<1>34. CASE MainJoin
  <2>1. MutexHeld' /\ MoveAlone' /\ MoveRecorded' /\ LetGoSafe'
    BY <1>34, PortsAssumption, TimesAssumption DEF MainJoin, TypeOK, WordsOK, C2sOK, S2cOK, MainOK, MutexHeld, MoveAlone, MoveRecorded, LetGoSafe, ShutDown, endpoint, move, sched, misc, net, Joined
  <2>2. ShutDown' /\ DueNeverLost' /\ NothingLeftOpen'
    BY <1>34 DEF MainJoin, TypeOK, FlagsOK, C2sOK, S2cOK, MainOK, ShutDown, DueNeverLost, NothingLeftOpen, endpoint, move, sched, misc, net, Joined
  <2> QED BY <2>1, <2>2, TypeStep DEF IInv
<1>35. CASE NetDeliver
  <2>1. MutexHeld' /\ MoveAlone' /\ MoveRecorded' /\ LetGoSafe'
    BY <1>35, PortsAssumption, TimesAssumption DEF NetDeliver, TypeOK, WordsOK, C2sOK, S2cOK, MainOK, MutexHeld, MoveAlone, MoveRecorded, LetGoSafe, ShutDown, endpoint, move, sched, misc, net
  <2>2. ShutDown' /\ DueNeverLost' /\ NothingLeftOpen'
    BY <1>35 DEF NetDeliver, TypeOK, FlagsOK, C2sOK, S2cOK, MainOK, ShutDown, DueNeverLost, NothingLeftOpen, endpoint, move, sched, misc, net
  <2> QED BY <2>1, <2>2, TypeStep DEF IInv
<1>36. CASE NetRefuse
  <2>1. MutexHeld' /\ MoveAlone' /\ MoveRecorded' /\ LetGoSafe'
    BY <1>36, PortsAssumption, TimesAssumption DEF NetRefuse, TypeOK, WordsOK, C2sOK, S2cOK, MainOK, MutexHeld, MoveAlone, MoveRecorded, LetGoSafe, ShutDown, endpoint, move, sched, misc, net
  <2>2. ShutDown' /\ DueNeverLost' /\ NothingLeftOpen'
    BY <1>36 DEF NetRefuse, TypeOK, FlagsOK, C2sOK, S2cOK, MainOK, ShutDown, DueNeverLost, NothingLeftOpen, endpoint, move, sched, misc, net
  <2> QED BY <2>1, <2>2, TypeStep DEF IInv
<1>37. CASE Tick
  <2>1. MutexHeld' /\ MoveAlone' /\ MoveRecorded' /\ LetGoSafe'
    BY <1>37, PortsAssumption, TimesAssumption DEF Tick, TypeOK, WordsOK, C2sOK, S2cOK, MainOK, MutexHeld, MoveAlone, MoveRecorded, LetGoSafe, ShutDown, endpoint, move, sched, misc, net, ClockMax
  <2>2. ShutDown' /\ DueNeverLost' /\ NothingLeftOpen'
    BY <1>37 DEF Tick, TypeOK, FlagsOK, C2sOK, S2cOK, MainOK, ShutDown, DueNeverLost, NothingLeftOpen, endpoint, move, sched, misc, net
  <2> QED BY <2>1, <2>2, TypeStep DEF IInv
<1>38. CASE Terminated
  <2>1. MutexHeld' /\ MoveAlone' /\ MoveRecorded' /\ LetGoSafe'
    BY <1>38, PortsAssumption, TimesAssumption DEF Terminated, TypeOK, WordsOK, C2sOK, S2cOK, MainOK, MutexHeld, MoveAlone, MoveRecorded, LetGoSafe, ShutDown, endpoint, move, sched, misc, net, vars
  <2>2. ShutDown' /\ DueNeverLost' /\ NothingLeftOpen'
    BY <1>38 DEF Terminated, TypeOK, FlagsOK, C2sOK, S2cOK, MainOK, ShutDown, DueNeverLost, NothingLeftOpen, endpoint, move, sched, misc, net, vars
  <2> QED BY <2>1, <2>2, TypeStep DEF IInv
<1>39. CASE UNCHANGED vars
  BY <1>39, TypeStep DEF vars, IInv, MutexHeld, MoveAlone, MoveRecorded, LetGoSafe, ShutDown, DueNeverLost, NothingLeftOpen, endpoint, move, sched, misc, net
<1> QED
  BY <1>1, <1>2, <1>3, <1>4, <1>5, <1>6, <1>7, <1>8, <1>9, <1>10, <1>11, <1>12, <1>13, <1>14, <1>15, <1>16, <1>17, <1>18, <1>19, <1>20, <1>21, <1>22, <1>23, <1>24, <1>25, <1>26, <1>27, <1>28, <1>29, <1>30, <1>31, <1>32, <1>33, <1>34, <1>35, <1>36, <1>37, <1>38, <1>39 DEF Next, C2sNext, S2cNext, MainNext

(* The inductive invariant holds in every reachable state: the mutex, the  *)
(* move's record and main's loads always mean what their users rely on.    *)
THEOREM Invariant == Spec => []IInv
<1> QED BY InvInit, InvStep, PTL DEF Spec

(* For every set of ports and every timer: while a move is pending or is   *)
(* taken back, the socket is on the port the move went to and the second   *)
(* one, if open, on the port it left.                                      *)
THEOREM MoveConsistentAlways == Spec => []MoveConsistent
<1>1. IInv => MoveConsistent
  BY DEF IInv, MoveRecorded, MoveConsistent
<1> QED BY <1>1, Invariant, PTL

(* Rotation never stops for good: a flag cleared by another thread while   *)
(* main counts on it is always accompanied by word to main.                *)
THEOREM DueNeverLostAlways == Spec => []DueNeverLost
<1>1. IInv => DueNeverLost
  BY DEF IInv
<1> QED BY <1>1, Invariant, PTL

(* After the joins every socket is closed.                                 *)
THEOREM NothingLeftOpenAlways == Spec => []NothingLeftOpen
<1>1. IInv => NothingLeftOpen
  BY DEF IInv
<1> QED BY <1>1, Invariant, PTL

(* Only three steps touch the old port's socket.                           *)
LEMMA OldSocketSteps ==
    [Next]_vars => rot_old_fd' = rot_old_fd \/ C2sPutOld \/ MainLetGo \/ MainJoin
BY DEF Next, C2sNext, S2cNext, MainNext, vars, move, C2sBatch, C2sStop, C2sTry, C2sMove, C2sNoMove,
       C2sRecord, C2sPutPending, C2sSendErr, S2cRecv, S2cRecvErr, S2cStop, S2cCheck, S2cAns, S2cCas,
       S2cDual, S2cDue, S2cChanged, S2cReconnect, S2cDialFails, S2cDial, S2cRcDue, S2cRcChanged,
       S2cProbe, MainPoll, MainLock, MainBusy, MainBack, MainSleep, MainSignal, MainNews, MainRaise,
       NetDeliver, NetRefuse, Tick, Terminated

(* c2s never overwrites an open old socket: what it read before the mutex  *)
(* still holds when it publishes the new one.                              *)
THEOREM OldSocketNeverLeaks == Spec => OldSocketNotLeaked
<1>1. ASSUME IInv, [Next]_vars, rot_old_fd # None, rot_old_fd' # rot_old_fd
      PROVE  main' # main
  <2>1. CASE C2sPutOld
    BY <2>1, <1>1 DEF C2sPutOld, IInv, MoveAlone
  <2>2. CASE MainLetGo
    BY <2>2, <1>1 DEF MainLetGo, MainForget, IInv, TypeOK, MainOK
  <2>3. CASE MainJoin
    BY <2>3, <1>1 DEF MainJoin, IInv, TypeOK, MainOK
  <2> QED BY <1>1, <2>1, <2>2, <2>3, OldSocketSteps
<1> QED BY <1>1, Invariant, PTL DEF Spec, OldSocketNotLeaked

(* Main never lets the old port go under a pending move, although it read  *)
(* rot_state before it took the mutex.                                     *)
THEOREM OldHeld == Spec => OldHeldWhilePending
<1>1. ASSUME IInv, [Next]_vars, rot_old_fd # None, rot_old_fd' = None, ~stopped
      PROVE  rot_state # "pending"
  <2>1. CASE C2sPutOld
    BY <2>1, <1>1 DEF C2sPutOld, IInv, MoveAlone
  <2>2. CASE MainLetGo
    BY <2>2, <1>1 DEF MainLetGo, IInv, LetGoSafe
  <2>3. CASE MainJoin
    BY <2>3, <1>1 DEF MainJoin, IInv, ShutDown
  <2> QED BY <1>1, <2>1, <2>2, <2>3, OldSocketSteps
<1> QED BY <1>1, Invariant, PTL DEF Spec, OldHeldWhilePending

-----------------------------------------------------------------------------
(* When the old port is always kept: what main loaded before the trylock   *)
(* is still about the move that is pending under it.                       *)
KeptInv ==
    /\ c2s.pc \in {"record", "putold"} => c2s.keep
    /\ c2s.pc = "pending" \/ (rot_state = "pending" /\ main.pc # "done") => rot_old_fd # None
    /\ main.pc = "lock" => rot_old_fd # None /\ c2s.pc # "pending"
    /\ main.pc = "lock" /\ main.st = "pending" /\ rot_state = "pending" =>
          rot_refused \/ age >= IF rot_dual THEN VerifyDual ELSE Verify

(* A step that takes main from the trylock to going back is MainLock.      *)
LEMMA MainLockOnly ==
    ASSUME TypeOK, [Next]_vars, main.pc = "lock", main'.pc = "back"
    PROVE  MainLock
<1>1. main' # main
  OBVIOUS
<1>2. MainNext
  BY <1>1 DEF Next, C2sNext, S2cNext, vars, C2sBatch, C2sStop, C2sTry, C2sMove, C2sNoMove,
       C2sRecord, C2sPutOld, C2sPutPending, C2sSendErr, S2cRecv, S2cRecvErr, S2cStop, S2cCheck, S2cAns, S2cCas,
       S2cDual, S2cDue, S2cChanged, S2cReconnect, S2cDialFails, S2cDial, S2cRcDue, S2cRcChanged,
       S2cProbe, NetDeliver, NetRefuse, Tick, Terminated
<1>3. ~MainBusy
  BY DEF MainBusy, MainForget, TypeOK, MainOK
<1> QED
  BY <1>2, <1>3 DEF MainNext, MainPoll, MainLetGo, MainBack, MainSleep, MainSignal, Polled, MainNews,
       MainRaise, MainJoin

(* With the old port always kept (the second socket never fails to open),  *)
(* a move goes back only after its own verify window or its own refusal,   *)
(* whatever answers, reconnects and further moves come between main's      *)
(* loads and its exchange.                                                 *)
THEOREM BackOnlyAfterVerify ==
    ASSUME Keep = {TRUE}
    PROVE  Spec => BackAfterVerify
<1>0. Init => KeptInv
  BY DEF Init, KeptInv, C2sAt
<1>1. ASSUME IInv, KeptInv, [Next]_vars PROVE KeptInv'
  <2>1. CASE C2sBatch
    BY <2>1, <1>1, PortsAssumption, TimesAssumption DEF C2sBatch, KeptInv, IInv, MoveAlone, MutexHeld, TypeOK, WordsOK, C2sOK, MainOK, endpoint, move, C2sAt
  <2>2. CASE C2sStop
    BY <2>2, <1>1, PortsAssumption, TimesAssumption DEF C2sStop, KeptInv, IInv, MoveAlone, MutexHeld, TypeOK, WordsOK, C2sOK, MainOK, endpoint, move, C2sAt
  <2>3. CASE C2sTry
    BY <2>3, <1>1, C2sTrySteps DEF C2sTry, KeptInv, IInv, MoveAllowed, endpoint, move
  <2>4. CASE C2sMove
    BY <2>4, <1>1, PortsAssumption, TimesAssumption DEF C2sMove, KeptInv, IInv, MoveAlone, MutexHeld, TypeOK, WordsOK, C2sOK, MainOK, endpoint, move, rot_pick, C2sAt
  <2>5. CASE C2sNoMove
    BY <2>5, <1>1, PortsAssumption, TimesAssumption DEF C2sNoMove, KeptInv, IInv, MoveAlone, MutexHeld, TypeOK, WordsOK, C2sOK, MainOK, endpoint, move, C2sAt
  <2>6. CASE C2sRecord
    BY <2>6, <1>1, PortsAssumption, TimesAssumption DEF C2sRecord, KeptInv, IInv, MoveAlone, MutexHeld, TypeOK, WordsOK, C2sOK, MainOK, endpoint, move, C2sAt
  <2>7. CASE C2sPutOld
    BY <2>7, <1>1, PortsAssumption, TimesAssumption DEF C2sPutOld, KeptInv, IInv, MoveAlone, MutexHeld, TypeOK, WordsOK, C2sOK, MainOK, endpoint, move, C2sAt
  <2>8. CASE C2sPutPending
    BY <2>8, <1>1, PortsAssumption, TimesAssumption DEF C2sPutPending, KeptInv, IInv, MoveAlone, MutexHeld, TypeOK, WordsOK, C2sOK, MainOK, endpoint, move, C2sAt
  <2>9. CASE C2sSendErr
    BY <2>9, <1>1, PortsAssumption, TimesAssumption DEF C2sSendErr, KeptInv, IInv, MoveAlone, MutexHeld, TypeOK, WordsOK, C2sOK, MainOK, endpoint, move, RefusedNow, C2sAt
  <2>10. CASE S2cRecv
    BY <2>10, <1>1, PortsAssumption, TimesAssumption DEF S2cRecv, KeptInv, IInv, MoveAlone, MutexHeld, TypeOK, WordsOK, C2sOK, MainOK, endpoint, move, S2cAt
  <2>11. CASE S2cRecvErr
    BY <2>11, <1>1, PortsAssumption, TimesAssumption DEF S2cRecvErr, KeptInv, IInv, MoveAlone, MutexHeld, TypeOK, WordsOK, C2sOK, MainOK, endpoint, move, RefusedNow, S2cAt
  <2>12. CASE S2cStop
    BY <2>12, <1>1, PortsAssumption, TimesAssumption DEF S2cStop, KeptInv, IInv, MoveAlone, MutexHeld, TypeOK, WordsOK, C2sOK, MainOK, endpoint, move, S2cAt
  <2>13. CASE S2cCheck
    BY <2>13, <1>1, PortsAssumption, TimesAssumption DEF S2cCheck, KeptInv, IInv, MoveAlone, MutexHeld, TypeOK, WordsOK, C2sOK, MainOK, endpoint, move, S2cAt
  <2>14. CASE S2cAns
    BY <2>14, <1>1, PortsAssumption, TimesAssumption DEF S2cAns, KeptInv, IInv, MoveAlone, MutexHeld, TypeOK, WordsOK, C2sOK, MainOK, endpoint, move, S2cAt
  <2>15. CASE S2cCas
    BY <2>15, <1>1, PortsAssumption, TimesAssumption DEF S2cCas, KeptInv, IInv, MoveAlone, MutexHeld, TypeOK, WordsOK, C2sOK, MainOK, endpoint, move, S2cAt
  <2>16. CASE S2cDual
    BY <2>16, <1>1, PortsAssumption, TimesAssumption DEF S2cDual, KeptInv, IInv, MoveAlone, MutexHeld, TypeOK, WordsOK, C2sOK, MainOK, endpoint, move, S2cAt
  <2>17. CASE S2cDue
    BY <2>17, <1>1, PortsAssumption, TimesAssumption DEF S2cDue, KeptInv, IInv, MoveAlone, MutexHeld, TypeOK, WordsOK, C2sOK, MainOK, endpoint, move, S2cAt
  <2>18. CASE S2cChanged
    BY <2>18, <1>1, PortsAssumption, TimesAssumption DEF S2cChanged, KeptInv, IInv, MoveAlone, MutexHeld, TypeOK, WordsOK, C2sOK, MainOK, endpoint, move, S2cAt
  <2>19. CASE S2cReconnect
    BY <2>19, <1>1, PortsAssumption, TimesAssumption DEF S2cReconnect, KeptInv, IInv, MoveAlone, MutexHeld, TypeOK, WordsOK, C2sOK, MainOK, endpoint, move, MootMove, S2cAt
  <2>20. CASE S2cDialFails
    BY <2>20, <1>1, PortsAssumption, TimesAssumption DEF S2cDialFails, KeptInv, IInv, MoveAlone, MutexHeld, TypeOK, WordsOK, C2sOK, MainOK, endpoint, move, S2cAt
  <2>21. CASE S2cDial
    BY <2>21, <1>1, PortsAssumption, TimesAssumption DEF S2cDial, KeptInv, IInv, MoveAlone, MutexHeld, TypeOK, WordsOK, C2sOK, MainOK, endpoint, move, S2cAt
  <2>22. CASE S2cRcDue
    BY <2>22, <1>1, PortsAssumption, TimesAssumption DEF S2cRcDue, KeptInv, IInv, MoveAlone, MutexHeld, TypeOK, WordsOK, C2sOK, MainOK, endpoint, move, S2cAt
  <2>23. CASE S2cRcChanged
    BY <2>23, <1>1, PortsAssumption, TimesAssumption DEF S2cRcChanged, KeptInv, IInv, MoveAlone, MutexHeld, TypeOK, WordsOK, C2sOK, MainOK, endpoint, move, S2cAt
  <2>24. CASE S2cProbe
    BY <2>24, <1>1, PortsAssumption, TimesAssumption DEF S2cProbe, KeptInv, IInv, MoveAlone, MutexHeld, TypeOK, WordsOK, C2sOK, MainOK, endpoint, move, S2cAt
  <2>25. CASE MainPoll
    BY <2>25, <1>1, PortsAssumption, TimesAssumption DEF MainPoll, KeptInv, IInv, MoveAlone, MutexHeld, TypeOK, WordsOK, C2sOK, MainOK, endpoint, move, PollReturns, TooEarly
  <2>26. CASE MainLock
    BY <2>26, <1>1, PortsAssumption, TimesAssumption DEF MainLock, KeptInv, IInv, MoveAlone, MutexHeld, TypeOK, WordsOK, C2sOK, MainOK, endpoint, move
  <2>27. CASE MainBusy
    BY <2>27, <1>1, PortsAssumption, TimesAssumption DEF MainBusy, KeptInv, IInv, MoveAlone, MutexHeld, TypeOK, WordsOK, C2sOK, MainOK, endpoint, move, MainForget
  <2>28. CASE MainLetGo
    BY <2>28, <1>1, PortsAssumption, TimesAssumption DEF MainLetGo, KeptInv, IInv, MoveAlone, MutexHeld, TypeOK, WordsOK, C2sOK, MainOK, endpoint, move, MainForget, LetGoSafe
  <2>29. CASE MainBack
    BY <2>29, <1>1, PortsAssumption, TimesAssumption DEF MainBack, KeptInv, IInv, MoveAlone, MutexHeld, TypeOK, WordsOK, C2sOK, MainOK, endpoint, move, MainForget
  <2>30. CASE MainSleep
    BY <2>30, <1>1, PortsAssumption, TimesAssumption DEF MainSleep, KeptInv, IInv, MoveAlone, MutexHeld, TypeOK, WordsOK, C2sOK, MainOK, endpoint, move
  <2>31. CASE MainSignal
    BY <2>31, <1>1, PortsAssumption, TimesAssumption DEF MainSignal, KeptInv, IInv, MoveAlone, MutexHeld, TypeOK, WordsOK, C2sOK, MainOK, endpoint, move, Polled
  <2>32. CASE MainNews
    BY <2>32, <1>1, PortsAssumption, TimesAssumption DEF MainNews, KeptInv, IInv, MoveAlone, MutexHeld, TypeOK, WordsOK, C2sOK, MainOK, endpoint, move, Polled
  <2>33. CASE MainRaise
    BY <2>33, <1>1, PortsAssumption, TimesAssumption DEF MainRaise, KeptInv, IInv, MoveAlone, MutexHeld, TypeOK, WordsOK, C2sOK, MainOK, endpoint, move
  <2>34. CASE MainJoin
    BY <2>34, <1>1, PortsAssumption, TimesAssumption DEF MainJoin, KeptInv, IInv, MoveAlone, MutexHeld, TypeOK, WordsOK, C2sOK, MainOK, endpoint, move, Joined
  <2>35. CASE NetDeliver
    BY <2>35, <1>1, PortsAssumption, TimesAssumption DEF NetDeliver, KeptInv, IInv, MoveAlone, MutexHeld, TypeOK, WordsOK, C2sOK, MainOK, endpoint, move
  <2>36. CASE NetRefuse
    BY <2>36, <1>1, PortsAssumption, TimesAssumption DEF NetRefuse, KeptInv, IInv, MoveAlone, MutexHeld, TypeOK, WordsOK, C2sOK, MainOK, endpoint, move
  <2>37. CASE Tick
    BY <2>37, <1>1, PortsAssumption, TimesAssumption DEF Tick, KeptInv, IInv, MoveAlone, MutexHeld, TypeOK, WordsOK, C2sOK, MainOK, endpoint, move
  <2>38. CASE Terminated
    BY <2>38, <1>1, PortsAssumption, TimesAssumption DEF Terminated, KeptInv, IInv, MoveAlone, MutexHeld, TypeOK, WordsOK, C2sOK, MainOK, endpoint, move, vars
  <2>39. CASE UNCHANGED vars
    BY <2>39, <1>1 DEF vars, KeptInv, endpoint, move
  <2> QED
    BY <1>1, <2>1, <2>2, <2>3, <2>4, <2>5, <2>6, <2>7, <2>8, <2>9, <2>10, <2>11, <2>12, <2>13, <2>14, <2>15, <2>16, <2>17, <2>18, <2>19, <2>20, <2>21, <2>22, <2>23, <2>24, <2>25, <2>26, <2>27, <2>28, <2>29, <2>30, <2>31, <2>32, <2>33, <2>34, <2>35, <2>36, <2>37, <2>38, <2>39 DEF Next, C2sNext, S2cNext, MainNext
<1>2. ASSUME IInv, KeptInv, [Next]_vars, main.pc = "lock", main'.pc = "back"
      PROVE  rot_refused \/ age >= IF rot_dual THEN VerifyDual ELSE Verify
  <2>1. MainLock
    BY <1>2, MainLockOnly DEF IInv
  <2>2. main.st = "pending" /\ rot_state = "pending"
    BY <1>2, <2>1 DEF MainLock, IInv, TypeOK, MainOK
  <2> QED BY <1>2, <2>2 DEF KeptInv
<1> QED
  BY <1>0, <1>1, <1>2, Invariant, PTL DEF Spec, BackAfterVerify
=============================================================================
