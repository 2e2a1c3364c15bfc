------------------------ MODULE HappyEyeballs_proofs ------------------------
(***************************************************************************)
(* The probe's invariants, for every sequence of answers, errors, requests *)
(* and restarts.                                                           *)
(***************************************************************************)
EXTENDS HappyEyeballs, TLAPS

(* main shuts the probe's own socket down only when it ends, and after the *)
(* one in use: poll() cannot report the one without the other.             *)
ShutInOrder ==
    /\ remote_fd2 # None /\ "shut" \in inbox[remote_fd2] => main = "join"
    /\ main \in {"cutalt", "join"} /\ s2c \in {"poll", "send"} => "shut" \in inbox[remote_fd]
    /\ s2c \in {"dial", "publish"} => remote_fd = None
    /\ s2c = "dial" => \A f \in Families : inbox[f] = {}

HInv == TypeOK /\ ProbePairs /\ ShutInOrder

(* Init establishes the invariant.                                         *)
LEMMA HInit == Init => HInv
BY HappyAssumption DEF Init, HInv, TypeOK, ProbePairs, ShutInOrder, Families, Silence, Probing, Other, Fam

(* What he_learn leaves behind.                                            *)
LEMMA LearnType ==
    ASSUME TypeOK, NEW from \in BOOLEAN, NEW p6 \in BOOLEAN, HeLearn(from, p6)
    PROVE  /\ prefer6' = p6 /\ prefer6' \in BOOLEAN
           /\ state_written' \in BOOLEAN /\ disk' \in {"4", "6", None}
<1>1. prefer6' = p6
  BY DEF HeLearn
<1>2. state_written' \in BOOLEAN
  BY Zenon DEF HeLearn, TypeOK
<1>3. disk' \in {"4", "6", None}
  BY DEF HeLearn, TypeOK, Byte
<1> QED
  BY <1>1, <1>2, <1>3

(* What a step that keeps these variables keeps of the types.              *)
LEMMA KeptTypes ==
    ASSUME TypeOK
    PROVE  /\ learned' = learned => prefer6' \in BOOLEAN /\ state_written' \in BOOLEAN /\ disk' \in {"4", "6", None}
           /\ stash' = stash => he_sent' \in BOOLEAN /\ he_pkt' \in {"none", "init", "data"}
           /\ asked' = asked => he_reset' \in BOOLEAN /\ reconnect_needed' \in BOOLEAN
           /\ remote_fd' = remote_fd => remote_fd' \in Families \cup {None}
           /\ remote_fd2' = remote_fd2 => remote_fd2' \in Families \cup {None}
           /\ dialled' = dialled => dialled' \in Families \cup {None}
           /\ inbox' = inbox => inbox' \in [Families -> SUBSET {"data", "err", "shut"}]
           /\ he_pkt' = he_pkt => he_pkt' \in {"none", "init", "data"}
           /\ c2s' = c2s => c2s' \in {"idle", "data", "init", "send"}
           /\ s2c' = s2c => s2c' \in {"read", "dial", "publish", "probe", "poll", "send"}
           /\ main' = main => main' \in {"run", "cut", "cutalt", "join"}
           /\ rough' = rough => rough' \in BOOLEAN
           /\ replayed' = replayed => replayed' \in BOOLEAN
<1>1. learned' = learned => prefer6' \in BOOLEAN /\ state_written' \in BOOLEAN /\ disk' \in {"4", "6", None}
  <2>1. learned' = learned => prefer6' = prefer6 /\ state_written' = state_written /\ disk' = disk
    BY DEF learned
  <2> QED
    BY <2>1, Zenon DEF TypeOK
<1>2. stash' = stash => he_sent' \in BOOLEAN /\ he_pkt' \in {"none", "init", "data"}
  <2>1. stash' = stash => he_sent' = he_sent /\ he_pkt' = he_pkt
    BY DEF stash
  <2> QED
    BY <2>1, Zenon DEF TypeOK
<1>3. asked' = asked => he_reset' \in BOOLEAN /\ reconnect_needed' \in BOOLEAN
  <2>1. asked' = asked => he_reset' = he_reset /\ reconnect_needed' = reconnect_needed
    BY DEF asked
  <2> QED
    BY <2>1, Zenon DEF TypeOK
<1>4. /\ rough' = rough => rough' \in BOOLEAN
      /\ replayed' = replayed => replayed' \in BOOLEAN
  BY Zenon DEF TypeOK
<1>5. /\ remote_fd' = remote_fd => remote_fd' \in Families \cup {None}
      /\ remote_fd2' = remote_fd2 => remote_fd2' \in Families \cup {None}
      /\ dialled' = dialled => dialled' \in Families \cup {None}
      /\ inbox' = inbox => inbox' \in [Families -> SUBSET {"data", "err", "shut"}]
      /\ he_pkt' = he_pkt => he_pkt' \in {"none", "init", "data"}
      /\ c2s' = c2s => c2s' \in {"idle", "data", "init", "send"}
      /\ s2c' = s2c => s2c' \in {"read", "dial", "publish", "probe", "poll", "send"}
      /\ main' = main => main' \in {"run", "cut", "cutalt", "join"}
  BY DEF TypeOK
<1> QED
  BY <1>1, <1>2, <1>3, <1>4, <1>5

(* The dial leaves the preferred family to be published and the other one  *)
(* beside it, or one socket alone, or none.                                *)
LEMMA DialStep == HInv /\ Dial => HInv'
<1> SUFFICES ASSUME HInv, Dial PROVE HInv'
  OBVIOUS
<1> USE HappyAssumption
<1>1. PICK rec \in SUBSET Families, route \in SUBSET Families :
        LET p6      == prefer6 /\ ~he_reset
            primary == Primary(p6, rec)
            ok      == rec \cap route # {}
            used    == IF primary \in route THEN primary ELSE Other(primary)
            second  == used = primary /\ Other(primary) \in rec \cap route
        IN  /\ rec # {}
            /\ IF ok
               THEN /\ dialled' = used /\ s2c' = "publish"
                    /\ remote_fd2' = IF second THEN Other(primary) ELSE None
                    /\ reconnect_needed' = FALSE
                    /\ he_sent' = FALSE /\ he_pkt' \in {"none"} \cup (IF Copying THEN {he_pkt} ELSE {})
                    /\ IF used # primary THEN HeLearn(p6, used = "v6")
                       ELSE prefer6' = p6 /\ UNCHANGED <<state_written, disk>>
               ELSE /\ prefer6' = p6 /\ s2c' = "read"
                    /\ UNCHANGED <<remote_fd2, dialled, stash, reconnect_needed, state_written, disk>>
  BY DEF Dial
<1> DEFINE p6      == prefer6 /\ ~he_reset
           primary == Primary(p6, rec)
           ok      == rec \cap route # {}
           used    == IF primary \in route THEN primary ELSE Other(primary)
           second  == used = primary /\ Other(primary) \in rec \cap route
<1>2. p6 \in BOOLEAN
  BY Zenon DEF HInv, TypeOK
<1>3. primary \in Families /\ used \in Families /\ Other(primary) \in Families
  BY DEF Primary, Other, Families
<1>4. second => primary = Fam(p6) /\ used = primary
  <2>1. SUFFICES ASSUME second PROVE primary = Fam(p6)
    OBVIOUS
  <2>2. Other(primary) \in rec
    BY <2>1
  <2>3. CASE p6
    BY <2>2, <2>3 DEF Primary, Other, Fam
  <2>4. CASE ~p6
    BY <2>2, <2>4 DEF Primary, Other, Fam
  <2> QED
    BY <1>2, <2>3, <2>4
<1>5. /\ he_reset' = FALSE /\ remote_fd' = remote_fd /\ inbox' = inbox /\ c2s' = c2s /\ main' = main
      /\ rough' = rough /\ replayed' = replayed /\ s2c = "dial"
  BY DEF Dial
<1>6. remote_fd = None /\ remote_fd2 = None
  BY <1>5 DEF HInv, ProbePairs, ShutInOrder, Probing
<1>0. TypeOK
  BY DEF HInv
<1>7. CASE ok
  <2>1. /\ dialled' = used /\ s2c' = "publish"
        /\ remote_fd2' = IF second THEN Other(primary) ELSE None
        /\ reconnect_needed' = FALSE
        /\ he_sent' = FALSE /\ he_pkt' \in {"none"} \cup (IF Copying THEN {he_pkt} ELSE {})
        /\ IF used # primary THEN HeLearn(p6, used = "v6")
           ELSE prefer6' = p6 /\ UNCHANGED <<state_written, disk>>
    BY <1>1, <1>7
  <2>2. /\ prefer6' \in BOOLEAN /\ state_written' \in BOOLEAN /\ disk' \in {"4", "6", None}
        /\ second => prefer6' = p6
    <3>1. CASE used # primary
      <4>1. HeLearn(p6, used = "v6")
        BY <2>1, <3>1
      <4>2. (used = "v6") \in BOOLEAN
        OBVIOUS
      <4> HIDE DEF p6, primary, ok, used, second
      <4>3. prefer6' \in BOOLEAN /\ state_written' \in BOOLEAN /\ disk' \in {"4", "6", None}
        BY <1>0, <1>2, <4>1, <4>2, LearnType
      <4>4. ~second
        BY <3>1 DEF second
      <4> QED
        BY <4>3, <4>4
    <3>2. CASE used = primary
      <4>1. prefer6' = p6 /\ state_written' = state_written /\ disk' = disk
        BY <2>1, <3>2
      <4> HIDE DEF p6, primary, ok, used, second
      <4>2. prefer6' \in BOOLEAN
        BY <1>2, <4>1
      <4>3. state_written' \in BOOLEAN /\ disk' \in {"4", "6", None}
        BY <4>1 DEF HInv, TypeOK
      <4> QED
        BY <4>1, <4>2, <4>3
    <3> QED
      BY <3>1, <3>2
  <2> HIDE DEF p6, primary, ok, used, second
  <2>3. TypeOK'
    <3>1. he_sent' \in BOOLEAN /\ he_reset' \in BOOLEAN /\ reconnect_needed' \in BOOLEAN
      BY <1>5, <2>1
    <3>2. dialled' \in Families \cup {None} /\ remote_fd2' \in Families \cup {None}
      BY <1>3, <2>1
    <3>3. s2c' \in {"read", "dial", "publish", "probe", "poll", "send"}
      BY <2>1
    <3>4. he_pkt' \in {"none", "init", "data"}
      BY <2>1 DEF HInv, TypeOK
    <3> QED
      BY <1>0, <1>5, <2>2, <3>1, <3>2, <3>3, <3>4, KeptTypes, Zenon DEF TypeOK
  <2>4. ProbePairs'
    <3>1. CASE second
      <4>1. remote_fd2' = Other(primary) /\ dialled' = primary /\ s2c' = "publish" /\ prefer6' = p6
        BY <1>4, <2>1, <2>2, <3>1
      <4> QED
        BY <1>4, <3>1, <4>1 DEF ProbePairs, Probing
    <3>2. CASE ~second
      BY <2>1, <3>2 DEF ProbePairs, Probing
    <3> QED
      BY <3>1, <3>2
  <2>5. ShutInOrder'
    <3>1. \A f \in Families : inbox[f] = {}
      BY <1>5 DEF HInv, ShutInOrder
    <3> QED
      BY <1>3, <1>5, <1>6, <2>1, <3>1 DEF ShutInOrder
  <2> QED
    BY <2>3, <2>4, <2>5 DEF HInv
<1>8. CASE ~ok
  <2>1. /\ prefer6' = p6 /\ s2c' = "read"
        /\ UNCHANGED <<remote_fd2, dialled, stash, reconnect_needed, state_written, disk>>
    BY <1>1, <1>8
  <2> HIDE DEF p6, primary, ok, used, second
  <2>2. TypeOK'
    <3>1. prefer6' \in BOOLEAN /\ he_reset' \in BOOLEAN
      BY <1>2, <1>5, <2>1
    <3>2. state_written' \in BOOLEAN /\ reconnect_needed' \in BOOLEAN
      BY <1>0, <2>1, Zenon DEF TypeOK
    <3>3. disk' \in {"4", "6", None} /\ s2c' \in {"read", "dial", "publish", "probe", "poll", "send"}
      BY <1>0, <2>1 DEF TypeOK
    <3> QED
      BY <1>0, <1>5, <2>1, <3>1, <3>2, <3>3, KeptTypes, Zenon DEF TypeOK
  <2>3. ProbePairs' /\ ShutInOrder'
    BY <1>5, <1>6, <2>1 DEF ProbePairs, ShutInOrder, Probing
  <2> QED
    BY <2>2, <2>3 DEF HInv
<1> QED
  BY <1>7, <1>8

(* he_finish leaves one socket, whichever it keeps.                        *)
LEMMA FinishStep ==
    ASSUME HInv, Probing, NEW use_alt \in BOOLEAN, NEW learn \in BOOLEAN, Finish(use_alt, learn)
    PROVE  HInv'
<1> USE HappyAssumption
<1> DEFINE keep == IF use_alt THEN remote_fd2 ELSE remote_fd
<1>0. TypeOK
  BY DEF HInv
<1>1. keep \in Families /\ (keep = "v6") \in BOOLEAN
  BY DEF HInv, TypeOK, ProbePairs, Families, Fam, Other, Probing
<1>2. /\ remote_fd' = keep /\ remote_fd2' = None /\ s2c' = "read"
      /\ inbox' = [inbox EXCEPT ![Other(keep)] = {}]
      /\ IF learn THEN HeLearn(prefer6, keep = "v6") ELSE UNCHANGED learned
      /\ UNCHANGED <<dialled, stash, c2s, main, asked, rough, replayed>>
  BY DEF Finish
<1> HIDE DEF keep
<1>3. prefer6' \in BOOLEAN /\ state_written' \in BOOLEAN /\ disk' \in {"4", "6", None}
  <2>1. CASE learn
    <3>1. HeLearn(prefer6, keep = "v6")
      BY <1>2, <2>1
    <3>2. prefer6 \in BOOLEAN
      BY <1>0, Zenon DEF TypeOK
    <3> QED
      BY <1>0, <1>1, <3>1, <3>2, LearnType
  <2>2. CASE ~learn
    BY <1>0, <1>2, <2>2, KeptTypes
  <2> QED
    BY <2>1, <2>2
<1>4. TypeOK'
  <2>1. inbox' \in [Families -> SUBSET {"data", "err", "shut"}]
    BY <1>2 DEF HInv, TypeOK
  <2>2. remote_fd' \in Families \cup {None} /\ remote_fd2' \in Families \cup {None}
        /\ s2c' \in {"read", "dial", "publish", "probe", "poll", "send"}
    BY <1>1, <1>2
  <2> QED
    BY <1>0, <1>2, <1>3, <2>1, <2>2, KeptTypes, Zenon DEF TypeOK
<1>5. ProbePairs' /\ ShutInOrder'
  BY <1>2 DEF ProbePairs, ShutInOrder, Probing
<1> QED
  BY <1>4, <1>5 DEF HInv

(* A packet sent adds an answer or an error, and takes no report away.     *)
LEMMA AnswerType ==
    ASSUME HInv, NEW f \in Families, Answer(f)
    PROVE  /\ inbox' \in [Families -> SUBSET {"data", "err", "shut"}]
           /\ \A g \in Families : "shut" \in inbox'[g] <=> "shut" \in inbox[g]
<1>1. CASE UNCHANGED inbox
  BY <1>1 DEF HInv, TypeOK
<1>2. CASE \E r \in Replies(f) : inbox' = [inbox EXCEPT ![f] = @ \cup {r}]
  <2>1. PICK r \in Replies(f) : inbox' = [inbox EXCEPT ![f] = @ \cup {r}]
    BY <1>2
  <2>2. r \in {"data", "err"}
    BY DEF Replies
  <2> QED
    BY <2>1, <2>2 DEF HInv, TypeOK
<1> QED
  BY <1>1, <1>2 DEF Answer

(* A shutdown() reaches one socket and takes no report away.               *)
LEMMA ShutdownType ==
    ASSUME HInv, NEW fd \in Families \cup {None}, Shutdown(fd)
    PROVE  /\ inbox' \in [Families -> SUBSET {"data", "err", "shut"}]
           /\ \A g \in Families : g # fd => inbox'[g] = inbox[g]
           /\ \A g \in Families : "shut" \in inbox[g] => "shut" \in inbox'[g]
           /\ fd # None => "shut" \in inbox'[fd]
BY HappyAssumption DEF Shutdown, HInv, TypeOK

(* Steps that leave the sockets, their reports and the order alone.        *)
LEMMA PairsKept ==
    ASSUME HInv, prefer6' = prefer6, UNCHANGED <<remote_fd, remote_fd2, dialled, s2c, main>>,
           \A g \in Families : "shut" \in inbox'[g] <=> "shut" \in inbox[g],
           s2c = "dial" => inbox' = inbox
    PROVE  ProbePairs' /\ ShutInOrder'
<1>1. ProbePairs'
  BY DEF HInv, ProbePairs, Probing
<1>2. remote_fd2 # None => remote_fd2 \in Families
  BY DEF HInv, TypeOK
<1>3. s2c \in {"poll", "send"} => remote_fd \in Families
  BY DEF HInv, ProbePairs, Probing, Fam, Families
<1>4. ShutInOrder'
  BY <1>2, <1>3 DEF HInv, ShutInOrder
<1> QED
  BY <1>1, <1>4

(* Every step of s2c preserves the invariant, ...                          *)
LEMMA S2cStep == HInv /\ (S2cNext \/ S2cRead) => HInv'
<1> SUFFICES ASSUME HInv, S2cNext \/ S2cRead PROVE HInv'
  OBVIOUS
<1> USE HappyAssumption
<1>0. TypeOK
  BY DEF HInv
<1>1. CASE S2cCloses
  <2>1. /\ s2c = "read" /\ s2c' = "dial" /\ remote_fd' = None /\ remote_fd2' = None
        /\ inbox' = Silence /\ replayed' = FALSE
        /\ UNCHANGED <<learned, dialled, stash, c2s, main, asked, rough>>
    BY <1>1 DEF S2cCloses
  <2>2. /\ inbox' \in [Families -> SUBSET {"data", "err", "shut"}]
        /\ \A f \in Families : inbox'[f] = {}
    BY <2>1 DEF Silence
  <2>3. /\ s2c' \in {"read", "dial", "publish", "probe", "poll", "send"} /\ replayed' \in BOOLEAN
        /\ remote_fd' \in Families \cup {None} /\ remote_fd2' \in Families \cup {None}
    BY <2>1
  <2>4. TypeOK'
    BY <1>0, <2>1, <2>2, <2>3, KeptTypes, Zenon DEF TypeOK
  <2>5. ProbePairs' /\ ShutInOrder'
    BY <2>1, <2>2 DEF ProbePairs, ShutInOrder, Probing
  <2> QED
    BY <2>4, <2>5 DEF HInv
<1>2. ASSUME NEW from, NEW to \in {"read", "dial", "publish", "probe", "poll", "send"}, Goes(from, to)
      PROVE  TypeOK' /\ s2c = from /\ s2c' = to /\ prefer6' = prefer6
             /\ UNCHANGED <<remote_fd, remote_fd2, dialled, inbox, main>>
  <2>1. /\ s2c = from /\ s2c' = to
        /\ UNCHANGED <<learned, remote_fd, remote_fd2, dialled, inbox, stash, c2s, main, asked, rough, replayed>>
    BY <1>2 DEF Goes, socks
  <2>2. prefer6' = prefer6 /\ s2c' \in {"read", "dial", "publish", "probe", "poll", "send"}
    BY <2>1 DEF learned
  <2>3. TypeOK'
    BY <1>0, <2>1, <2>2, KeptTypes, Zenon DEF TypeOK
  <2> QED
    BY <2>1, <2>2, <2>3
<1>3. CASE Unresolved
  <2>1. TypeOK' /\ s2c = "dial" /\ s2c' = "read" /\ prefer6' = prefer6
        /\ UNCHANGED <<remote_fd, remote_fd2, dialled, inbox, main>>
    BY <1>2, <1>3 DEF Unresolved
  <2>2. ProbePairs' /\ ShutInOrder'
    BY <2>1 DEF HInv, ProbePairs, ShutInOrder, Probing
  <2> QED
    BY <2>1, <2>2 DEF HInv
<1>4. CASE Dial
  BY <1>4, DialStep
<1>5. CASE Publish
  <2>1. /\ s2c = "publish" /\ remote_fd' = dialled /\ dialled' = None
        /\ s2c' = IF remote_fd2 # None THEN "probe" ELSE "read"
        /\ UNCHANGED <<learned, remote_fd2, inbox, stash, c2s, main, asked, rough, replayed>>
    BY <1>5 DEF Publish
  <2>2. prefer6' = prefer6
    BY <2>1 DEF learned
  <2>3. /\ remote_fd' \in Families \cup {None} /\ dialled' \in Families \cup {None}
        /\ s2c' \in {"read", "dial", "publish", "probe", "poll", "send"}
    BY <1>0, <2>1 DEF TypeOK
  <2>4. TypeOK'
    BY <1>0, <2>1, <2>3, KeptTypes, Zenon DEF TypeOK
  <2>5. ProbePairs' /\ ShutInOrder'
    BY <2>1, <2>2 DEF HInv, ProbePairs, ShutInOrder, Probing
  <2> QED
    BY <2>4, <2>5 DEF HInv
<1>6. CASE ProbeCut \/ ProbeIdle
  <2>1. Probing /\ Finish(FALSE, FALSE)
    BY <1>6 DEF ProbeCut, ProbeIdle, AtHead, Probing
  <2> QED
    BY <2>1, FinishStep
<1>7. CASE ProbePoll
  <2>1. TypeOK' /\ s2c = "probe" /\ s2c' = "poll" /\ prefer6' = prefer6 /\ main = "run"
        /\ UNCHANGED <<remote_fd, remote_fd2, dialled, inbox, main>>
    BY <1>2, <1>7 DEF ProbePoll, stopped
  <2>2. ProbePairs' /\ ShutInOrder'
    BY <2>1 DEF HInv, ProbePairs, ShutInOrder, Probing
  <2> QED
    BY <2>1, <2>2 DEF HInv
<1>8. CASE ProbeReport
  <2>1. Probing /\ UseAlt \in BOOLEAN /\ Finish(UseAlt, TRUE)
    BY <1>8 DEF ProbeReport, Probing, UseAlt
  <2> QED
    BY <2>1, FinishStep
<1>9. CASE ProbeDue
  <2>1. TypeOK' /\ s2c = "poll" /\ s2c' = "send" /\ prefer6' = prefer6
        /\ UNCHANGED <<remote_fd, remote_fd2, dialled, inbox, main>>
    BY <1>2, <1>9 DEF ProbeDue
  <2>2. ProbePairs' /\ ShutInOrder'
    BY <2>1 DEF HInv, ProbePairs, ShutInOrder, Probing
  <2> QED
    BY <2>1, <2>2 DEF HInv
<1>10. CASE ProbeSend
  <2>1. remote_fd2 \in Families
    BY <1>10 DEF ProbeSend, HInv, TypeOK, ProbePairs, Probing
  <2>2. /\ s2c = "send" /\ s2c' = "probe" /\ replayed' = (~Copying /\ he_pkt = "init")
        /\ UNCHANGED inbox \/ Answer(remote_fd2)
        /\ UNCHANGED <<learned, remote_fd, remote_fd2, dialled, stash, c2s, main, asked, rough>>
    BY <1>10 DEF ProbeSend
  <2>3. /\ inbox' \in [Families -> SUBSET {"data", "err", "shut"}]
        /\ \A g \in Families : "shut" \in inbox'[g] <=> "shut" \in inbox[g]
    <3>1. CASE UNCHANGED inbox
      BY <3>1 DEF HInv, TypeOK
    <3>2. CASE Answer(remote_fd2)
      BY <2>1, <3>2, AnswerType
    <3> QED
      BY <2>2, <3>1, <3>2
  <2>4. prefer6' = prefer6 /\ replayed' \in BOOLEAN /\ s2c' \in {"read", "dial", "publish", "probe", "poll", "send"}
    BY <2>2 DEF learned
  <2>5. TypeOK'
    BY <1>0, <2>2, <2>3, <2>4, KeptTypes, Zenon DEF TypeOK
  <2>6. ProbePairs'
    BY <2>2, <2>4 DEF HInv, ProbePairs, Probing
  <2>7. ShutInOrder'
    BY <2>1, <2>2, <2>3 DEF HInv, ShutInOrder
  <2> QED
    BY <2>5, <2>6, <2>7 DEF HInv
<1>11. CASE S2cRead
  <2>1. inbox' \in [Families -> SUBSET {"data", "err", "shut"}]
    BY <1>11 DEF S2cRead, HInv, TypeOK
  <2>2. s2c = "read" /\ UNCHANGED <<learned, remote_fd, remote_fd2, dialled, stash, c2s, s2c, main, asked, rough, replayed>>
    BY <1>11 DEF S2cRead
  <2>3. prefer6' = prefer6
    BY <2>2 DEF learned
  <2>4. TypeOK'
    BY <1>0, <2>1, <2>2, KeptTypes, Zenon DEF TypeOK
  <2>5. ProbePairs' /\ ShutInOrder'
    BY <2>2, <2>3 DEF HInv, ProbePairs, ShutInOrder, Probing
  <2> QED
    BY <2>4, <2>5 DEF HInv
<1> QED
  BY <1>1, <1>3, <1>4, <1>5, <1>6, <1>7, <1>8, <1>9, <1>10, <1>11 DEF S2cNext

(* ... and so does every step of c2s, ...                                  *)
LEMMA C2sStep == HInv /\ C2sNext => HInv'
<1> SUFFICES ASSUME HInv, C2sNext PROVE HInv'
  OBVIOUS
<1> USE HappyAssumption
<1>0. TypeOK
  BY DEF HInv
<1>1. ASSUME NEW init \in BOOLEAN, C2sStash(init) PROVE HInv'
  <2>1. UNCHANGED <<learned, remote_fd, remote_fd2, dialled, inbox, s2c, main, asked, rough, replayed>>
    BY <1>1 DEF C2sStash, socks
  <2>2. prefer6' = prefer6
    BY <2>1 DEF learned
  <2>3. he_sent' \in BOOLEAN
    BY <1>0, <1>1, Zenon DEF C2sStash, TypeOK, stash
  <2>4. he_pkt' \in {"none", "init", "data"} /\ c2s' \in {"idle", "data", "init", "send"}
    BY <1>0, <1>1 DEF C2sStash, TypeOK, stash
  <2>5. TypeOK'
    BY <1>0, <2>1, <2>3, <2>4, KeptTypes, Zenon DEF TypeOK
  <2>6. ProbePairs' /\ ShutInOrder'
    BY <2>1, <2>2, PairsKept
  <2> QED
    BY <2>5, <2>6 DEF HInv
<1>2. CASE C2sCopied
  <2>1. UNCHANGED <<learned, remote_fd, remote_fd2, dialled, inbox, he_pkt, s2c, main, asked, rough, replayed>>
    BY <1>2 DEF C2sCopied, socks
  <2>2. prefer6' = prefer6 /\ he_sent' \in BOOLEAN /\ c2s' \in {"idle", "data", "init", "send"}
    BY <1>2, <2>1 DEF C2sCopied, learned
  <2>3. TypeOK'
    BY <1>0, <2>1, <2>2, KeptTypes, Zenon DEF TypeOK
  <2>4. ProbePairs' /\ ShutInOrder'
    BY <2>1, <2>2, PairsKept
  <2> QED
    BY <2>3, <2>4 DEF HInv
<1>3. CASE C2sSend
  <2>1. /\ c2s' = "idle"
        /\ UNCHANGED <<learned, remote_fd, remote_fd2, dialled, stash, s2c, main, asked, rough, replayed>>
    BY <1>3 DEF C2sSend
  <2>2. /\ inbox' \in [Families -> SUBSET {"data", "err", "shut"}]
        /\ \A g \in Families : "shut" \in inbox'[g] <=> "shut" \in inbox[g]
        /\ remote_fd = None => inbox' = inbox
    <3>1. CASE remote_fd = None
      BY <1>3, <3>1 DEF C2sSend, HInv, TypeOK
    <3>2. CASE remote_fd # None
      <4>1. remote_fd \in Families /\ Answer(remote_fd)
        BY <1>0, <1>3, <3>2 DEF C2sSend, TypeOK
      <4> QED
        BY <3>2, <4>1, AnswerType
    <3> QED
      BY <3>1, <3>2
  <2>3. prefer6' = prefer6 /\ c2s' \in {"idle", "data", "init", "send"}
    BY <2>1 DEF learned
  <2>4. TypeOK'
    BY <1>0, <2>1, <2>2, <2>3, KeptTypes, Zenon DEF TypeOK
  <2>5. s2c = "dial" => inbox' = inbox
    BY <2>2 DEF HInv, ShutInOrder
  <2>6. ProbePairs' /\ ShutInOrder'
    BY <2>1, <2>2, <2>3, <2>5, PairsKept
  <2> QED
    BY <2>4, <2>6 DEF HInv
<1> QED
  BY <1>1, <1>2, <1>3 DEF C2sNext

(* ... a request, a stop, a restart.                                       *)
LEMMA OtherStep == HInv /\ (Ask \/ Watchdog \/ MainStop \/ MainCut \/ Settle \/ Restart) => HInv'
<1> SUFFICES ASSUME HInv, Ask \/ Watchdog \/ MainStop \/ MainCut \/ Settle \/ Restart PROVE HInv'
  OBVIOUS
<1> USE HappyAssumption
<1>0. TypeOK
  BY DEF HInv
<1>1. /\ remote_fd \in Families \cup {None} /\ remote_fd2 \in Families \cup {None}
      /\ s2c \in {"poll", "send"} => remote_fd \in Families /\ remote_fd # None
      /\ remote_fd2 # None => remote_fd2 # remote_fd
  BY DEF HInv, TypeOK, ProbePairs, ShutInOrder, Probing, Fam, Other, Families
<1>2. CASE Ask \/ Watchdog
  <2>1. /\ Shutdown(remote_fd)
        /\ UNCHANGED <<learned, remote_fd, remote_fd2, dialled, stash, c2s, s2c, main, rough, replayed>>
    BY <1>2 DEF Ask, Watchdog
  <2>2. he_reset' \in BOOLEAN /\ reconnect_needed' \in BOOLEAN
    BY <1>0, <1>2, Zenon DEF Ask, Watchdog, TypeOK
  <2>3. /\ inbox' \in [Families -> SUBSET {"data", "err", "shut"}]
        /\ \A g \in Families : g # remote_fd => inbox'[g] = inbox[g]
        /\ \A g \in Families : "shut" \in inbox[g] => "shut" \in inbox'[g]
    BY <1>1, <2>1, ShutdownType
  <2>4. prefer6' = prefer6
    BY <2>1 DEF learned
  <2>5. TypeOK'
    BY <1>0, <2>1, <2>2, <2>3, KeptTypes, Zenon DEF TypeOK
  <2>6. ProbePairs'
    BY <2>1, <2>4 DEF HInv, ProbePairs, Probing
  <2>7. ShutInOrder'
    BY <1>1, <2>1, <2>3 DEF HInv, ShutInOrder
  <2> QED
    BY <2>5, <2>6, <2>7 DEF HInv
<1>3. CASE MainStop
  <2>1. /\ main' = "cut" /\ main = "run"
        /\ UNCHANGED <<learned, remote_fd, remote_fd2, dialled, inbox, stash, c2s, s2c, asked, rough, replayed>>
    BY <1>3 DEF MainStop, socks
  <2>2. prefer6' = prefer6 /\ main' \in {"run", "cut", "cutalt", "join"}
    BY <2>1 DEF learned
  <2>3. TypeOK'
    BY <1>0, <2>1, <2>2, KeptTypes, Zenon DEF TypeOK
  <2>4. ProbePairs' /\ ShutInOrder'
    BY <2>1, <2>2 DEF HInv, ProbePairs, ShutInOrder, Probing
  <2> QED
    BY <2>3, <2>4 DEF HInv
<1>4. CASE MainCut
  <2>1. UNCHANGED <<learned, remote_fd, remote_fd2, dialled, stash, c2s, s2c, asked, rough, replayed>>
    BY <1>4 DEF MainCut
  <2>2. PICK fd \in {remote_fd, remote_fd2} :
          /\ Shutdown(fd)
          /\ \/ fd = remote_fd /\ main = "cut" /\ main' = "cutalt"
             \/ fd = remote_fd2 /\ main = "cutalt" /\ main' = "join"
    BY <1>4 DEF MainCut
  <2>3. /\ inbox' \in [Families -> SUBSET {"data", "err", "shut"}]
        /\ \A g \in Families : g # fd => inbox'[g] = inbox[g]
        /\ \A g \in Families : "shut" \in inbox[g] => "shut" \in inbox'[g]
        /\ fd # None => "shut" \in inbox'[fd]
    BY <1>1, <2>2, ShutdownType
  <2>4. prefer6' = prefer6 /\ main' \in {"run", "cut", "cutalt", "join"}
    BY <2>1, <2>2 DEF learned
  <2>5. TypeOK'
    BY <1>0, <2>1, <2>3, <2>4, KeptTypes, Zenon DEF TypeOK
  <2>6. ProbePairs'
    BY <2>1, <2>4 DEF HInv, ProbePairs, Probing
  <2>7. s2c = "dial" => fd = None
    BY <2>2 DEF HInv, ProbePairs, ShutInOrder, Probing
  <2>8. ShutInOrder'
    BY <1>1, <2>1, <2>2, <2>3, <2>7 DEF HInv, ShutInOrder
  <2> QED
    BY <2>5, <2>6, <2>8 DEF HInv
<1>5. CASE Settle
  <2>1. /\ rough' = FALSE
        /\ UNCHANGED <<learned, remote_fd, remote_fd2, dialled, inbox, stash, c2s, s2c, main, asked, replayed>>
    BY <1>5 DEF Settle, socks
  <2>2. prefer6' = prefer6 /\ rough' \in BOOLEAN
    BY <2>1 DEF learned
  <2>3. TypeOK'
    BY <1>0, <2>1, <2>2, KeptTypes, Zenon DEF TypeOK
  <2>4. ProbePairs' /\ ShutInOrder'
    BY <2>1, <2>2, PairsKept
  <2> QED
    BY <2>3, <2>4 DEF HInv
<1>6. CASE Restart
  <2>1. /\ prefer6' = (disk = "6") /\ state_written' = FALSE /\ he_sent' = FALSE
        /\ he_reset' = FALSE /\ reconnect_needed' = TRUE /\ replayed' = FALSE
        /\ remote_fd' = None /\ remote_fd2' = None /\ dialled' = None /\ inbox' = Silence
        /\ c2s' = "idle" /\ s2c' = "read" /\ main' = "run" /\ he_pkt' = "none"
        /\ disk' = disk /\ rough' = rough
    BY <1>6 DEF Restart
  <2>2. inbox' \in [Families -> SUBSET {"data", "err", "shut"}]
    BY <2>1 DEF Silence
  <2>3. /\ prefer6' \in BOOLEAN /\ state_written' \in BOOLEAN /\ he_sent' \in BOOLEAN
        /\ he_reset' \in BOOLEAN /\ reconnect_needed' \in BOOLEAN /\ replayed' \in BOOLEAN
    BY <2>1
  <2>4. /\ remote_fd' \in Families \cup {None} /\ remote_fd2' \in Families \cup {None}
        /\ dialled' \in Families \cup {None} /\ he_pkt' \in {"none", "init", "data"}
        /\ c2s' \in {"idle", "data", "init", "send"} /\ s2c' \in {"read", "dial", "publish", "probe", "poll", "send"}
        /\ main' \in {"run", "cut", "cutalt", "join"} /\ disk' \in {"4", "6", None}
    BY <1>0, <2>1 DEF TypeOK
  <2>5. TypeOK'
    BY <1>0, <2>1, <2>2, <2>3, <2>4, KeptTypes, Zenon DEF TypeOK
  <2>6. ProbePairs' /\ ShutInOrder'
    BY <2>1 DEF ProbePairs, ShutInOrder, Probing
  <2> QED
    BY <2>5, <2>6 DEF HInv
<1> QED
  BY <1>2, <1>3, <1>4, <1>5, <1>6

LEMMA HStep == HInv /\ [Next]_vars => HInv'
<1> SUFFICES ASSUME HInv, [Next]_vars PROVE HInv'
  OBVIOUS
<1>1. CASE UNCHANGED vars
  <2>1. UNCHANGED <<learned, remote_fd, remote_fd2, dialled, inbox, stash, c2s, s2c, main, asked, rough, replayed>>
    BY <1>1 DEF vars, socks
  <2>2. prefer6' = prefer6 /\ TypeOK
    BY <2>1 DEF learned, HInv
  <2>3. TypeOK'
    BY <2>1, <2>2, KeptTypes, Zenon DEF TypeOK
  <2>4. ProbePairs' /\ ShutInOrder'
    BY <2>1, <2>2, PairsKept
  <2> QED
    BY <2>3, <2>4 DEF HInv
<1>2. CASE Next
  BY <1>2, S2cStep, C2sStep, OtherStep DEF Next
<1> QED
  BY <1>1, <1>2

(* The invariant holds in every behaviour.                                 *)
THEOREM HappyInvariant == Spec => []HInv
BY HInit, HStep, PTL DEF Spec

(* Every variable keeps its type, the state file's byte included.          *)
THEOREM HappyTypeCorrect == Spec => []TypeOK
<1>1. HInv => TypeOK
  BY DEF HInv
<1> QED
  BY <1>1, HappyInvariant, PTL

(* While a probe runs, the preferred family is in use and the other one    *)
(* beside it (dial_remote, he_finish).                                     *)
THEOREM ProbePairsAlways == Spec => []ProbePairs
<1>1. HInv => ProbePairs
  BY DEF HInv
<1> QED
  BY <1>1, HappyInvariant, PTL

(* The dial order is taught by answers and errors only, although a         *)
(* shutdown() and an answer look the same to poll() (he_probe), and a stop *)
(* shuts both sockets down (proxy_run).                                    *)
THEOREM EvidenceOnly == Spec => LearnsFromEvidence
<1> USE HappyAssumption
<1> DEFINE Evidence == Probing /\ remote_fd' # None /\ prefer6' # prefer6 =>
                         "data" \in inbox[Fam(prefer6')] \/ "err" \in inbox[Fam(prefer6)]
<1>1. HInv /\ [Next]_vars => [Evidence]_vars
  <2> SUFFICES ASSUME HInv, Next, Probing, remote_fd' # None, prefer6' # prefer6
               PROVE  "data" \in inbox[Fam(prefer6')] \/ "err" \in inbox[Fam(prefer6)]
    BY DEF vars
  <2>1. ProbeReport
    BY DEF Next, S2cNext, C2sNext, S2cCloses, Unresolved, Goes, Dial, Publish, ProbeCut, ProbeIdle, ProbePoll,
           ProbeDue, ProbeSend, S2cRead, C2sStash, C2sCopied, C2sSend, Ask, Watchdog, MainStop, MainCut, Settle,
           Restart, Finish, Probing, learned
  <2>2. /\ s2c = "poll" /\ remote_fd2 # None /\ remote_fd = Fam(prefer6) /\ remote_fd2 = Other(remote_fd)
        /\ remote_fd \in Families /\ remote_fd2 \in Families
        /\ inbox \in [Families -> SUBSET {"data", "err", "shut"}]
    BY <2>1 DEF ProbeReport, HInv, TypeOK, ProbePairs, Probing, Fam, Other, Families
  <2>3. HeLearn(prefer6, (IF UseAlt THEN remote_fd2 ELSE remote_fd) = "v6")
    BY <2>1 DEF ProbeReport, Finish
  <2>4. prefer6' = ((IF UseAlt THEN remote_fd2 ELSE remote_fd) = "v6")
    BY <2>3 DEF HeLearn
  <2>5. prefer6 \in BOOLEAN
    BY Zenon DEF HInv, TypeOK
  <2>6. remote_fd = "v6" <=> prefer6
    BY <2>2, <2>5 DEF Fam
  <2>7. UseAlt
    BY <2>4, <2>5, <2>6
  <2>8. Fam(prefer6') = remote_fd2
    BY <2>2, <2>4, <2>7 DEF Fam, Families
  <2>9. ~Readable(remote_fd)
    BY <2>7 DEF UseAlt
  <2>10. CASE Readable(remote_fd2)
    <3>1. "shut" \notin inbox[remote_fd2]
      BY <2>2, <2>9 DEF HInv, ShutInOrder, Readable
    <3> QED
      BY <2>8, <2>10, <3>1 DEF Readable
  <2>11. CASE ~Readable(remote_fd2)
    <3>1. "err" \in inbox[remote_fd]
      BY <2>2, <2>7, <2>9, <2>11 DEF UseAlt, Readable
    <3> QED
      BY <2>2, <3>1
  <2> QED
    BY <2>10, <2>11
<1> QED
  BY <1>1, HappyInvariant, PTL DEF Spec, LearnsFromEvidence
=============================================================================
