-------------------------- MODULE Sessions_proofs --------------------------
(***************************************************************************)
(* No packet for one client goes to another, for any table, any number of  *)
(* clients, addresses and handshakes, and any choice of indices.           *)
(***************************************************************************)
EXTENDS Sessions, WellFoundedInduction, TLAPS

(* An entry's address and server index are its own client's, unless a slot *)
(* was taken from under s2c.                                               *)
Owned ==
    /\ \A s \in Slots : sessions[s].valid => sessions[s].idx # None
    /\ "reuse" \notin spoiled =>
        \A s \in Slots : sessions[s].valid =>
            /\ sessions[s].addr \in AddrOf[PeerOf[sessions[s].idx]]
            /\ sessions[s].sidx \in {None, sessions[s].idx}

(* So is its label, unless an init went to the sole client of another key. *)
Labelled ==
    spoiled \cap {"reuse", "sole"} = {} =>
        \A s \in Slots : sessions[s].valid =>
            sessions[s].peer_slot \in {None, PeerOf[sessions[s].idx]}

(* The entry s2c has looked up is still the one it found.                  *)
LookupHolds ==
    s2c # Idle /\ "reuse" \notin spoiled =>
        /\ sessions[s2c.e].valid
        /\ s2c.kind # "init" => sessions[s2c.e].idx = s2c.h

VInv == TypeOK /\ Owned /\ Labelled /\ LookupHolds

(* Our WireGuard answers an init once, so the server index of a client's   *)
(* handshake is written into one slot and never into a second one.         *)
Unanswered(h) == init[h] # "answered" \/ (s2c # Idle /\ s2c.kind = "resp" /\ s2c.h = h)

OneSlot ==
    \A h \in Handshakes \ Started :
        \A s, t \in Slots : sessions[s].sidx = h /\ sessions[t].sidx = h => s = t

NoneYet ==
    \A h \in Handshakes \ Started : Unanswered(h) =>
        /\ newest[h] = 0
        /\ \A s \in Slots : sessions[s].sidx # h /\ sessions[s].ctr_sidx # h

(* The counter kept in that slot is the newest one believed.               *)
CounterKept ==
    \A h \in Handshakes \ Started : \A s \in Slots : sessions[s].sidx = h =>
        newest[h] = IF sessions[s].ctr_sidx = h THEN sessions[s].ctr_next ELSE 0

(* An answer on its way has been counted.                                  *)
AnswerCounted == s2c # Idle /\ s2c.kind = "resp" => init[s2c.h] = "answered"

CInv == OneSlot /\ NoneYet /\ CounterKept /\ AnswerCounted

-----------------------------------------------------------------------------
(* What the loops over the table find.                                     *)

(* A nonempty set of natural numbers has a least element.                  *)
LEMMA LeastNat ==
    ASSUME NEW T, T \subseteq Nat, T # {}
    PROVE  \E x \in T : \A y \in T : x <= y
<1> DEFINE R == {p \in Nat \X Nat : p[1] < p[2]}
<1>1. IsWellFoundedOn(R, Nat)
  BY NatLessThanWellFounded DEF OpToRel
<1>2. \A x, y \in Nat : <<y, x>> \in R <=> y < x
  OBVIOUS
<1> HIDE DEF R
<1>3. PICK x \in T : \A y \in T : ~(<<y, x>> \in R)
  BY <1>1, WFMin
<1>4. ASSUME NEW y \in T PROVE x <= y
  <2>1. x \in Nat /\ y \in Nat
    OBVIOUS
  <2>2. ~(y < x)
    BY <1>2, <1>3, <2>1
  <2> QED
    BY <2>1, <2>2
<1> QED
  BY <1>4

(* Neither a slot nor an index, a peer or an address is "none".            *)
LEMMA Names ==
    /\ Slots \subseteq Nat /\ None \notin Slots
    /\ \A h \in Handshakes : PeerOf[h] \in Peers /\ PeerOf[h] # None /\ h # None
    /\ \A h \in Handshakes : \A a \in AddrOf[PeerOf[h]] : a \in Addrs /\ a # None
<1>1. Size \in Nat
  BY SizesAssumption
<1>2. Slots \subseteq Nat
  BY <1>1 DEF Slots
<1>3. \A h \in Handshakes : PeerOf[h] \in Peers
  BY DEF Peers
<1>4. \A h \in Handshakes : \A a \in AddrOf[PeerOf[h]] : a \in Addrs
  BY <1>3 DEF Addrs
<1> QED
  BY <1>2, <1>3, <1>4, NamesAssumption

(* A probed slot is a slot.                                                *)
LEMMA ProbeIn ==
    ASSUME NEW h \in Handshakes, NEW i \in 0..(Ways - 1)
    PROVE  Probe(h, i) \in Slots
<1>1. Size \in Nat /\ Size > 0 /\ Ways \in Nat /\ Home[h] \in 0..(Size - 1)
  BY SizesAssumption DEF Slots
<1>2. i \in Nat /\ Home[h] \in Nat
  BY <1>1
<1> QED
  BY <1>1, <1>2 DEF Probe, Slots

(* session_put_prof finds a slot.                                          *)
LEMMA PutSlotIn ==
    ASSUME NEW h \in Handshakes
    PROVE  PutSlot(h) \in Slots
<1> DEFINE T == {i \in 0..(Ways - 1) : ~sessions[Probe(h, i)].valid \/ sessions[Probe(h, i)].idx = h}
<1>1. Ways \in Nat /\ Home[h] \in Slots
  BY SizesAssumption
<1>2. CASE T = {}
  BY <1>1, <1>2 DEF PutSlot, First
<1>3. CASE T # {}
  <2>0. T \subseteq Nat
    BY <1>1
  <2>1. PICK i \in T : \A j \in T : i <= j
    <3> HIDE DEF T
    <3> QED
      BY <1>3, <2>0, LeastNat
  <2>2. \E k \in 0..(Ways - 1) :
           /\ PutSlot(h) = IF k = None THEN Home[h] ELSE Probe(h, k)
    BY <2>1 DEF PutSlot, First
  <2> QED
    BY <1>1, <2>2, ProbeIn
<1> QED
  BY <1>2, <1>3

(* session_get_entry finds nothing or an entry of that index.              *)
LEMMA GetEntryFinds ==
    ASSUME NEW h \in Handshakes, session_get_entry(h) # None
    PROVE  /\ session_get_entry(h) \in Slots
           /\ sessions[session_get_entry(h)].valid
           /\ sessions[session_get_entry(h)].idx = h
<1> DEFINE T == {i \in 0..(Ways - 1) : sessions[Probe(h, i)].valid /\ sessions[Probe(h, i)].idx = h}
<1>1. Ways \in Nat
  BY SizesAssumption
<1>2. CASE T = {}
  BY <1>2 DEF session_get_entry, First
<1>3. CASE T # {}
  <2>0. T \subseteq Nat
    BY <1>1
  <2>1. PICK i \in T : \A j \in T : i <= j
    <3> HIDE DEF T
    <3> QED
      BY <1>3, <2>0, LeastNat
  <2>2. \E k \in T : session_get_entry(h) = IF k = None THEN None ELSE Probe(h, k)
    BY <2>1 DEF session_get_entry, First
  <2> QED
    BY <2>2, ProbeIn
<1> QED
  BY <1>2, <1>3

(* session_find_by_peer finds nothing or an entry with that label.         *)
LEMMA ByPeerFinds ==
    ASSUME NEW p, session_find_by_peer(p) # None
    PROVE  /\ session_find_by_peer(p) \in Slots
           /\ sessions[session_find_by_peer(p)].valid
           /\ sessions[session_find_by_peer(p)].peer_slot = p
<1> DEFINE T == {s \in Slots : sessions[s].valid /\ sessions[s].peer_slot = p}
<1>1. CASE T = {}
  BY <1>1 DEF session_find_by_peer, First
<1>2. CASE T # {}
  <2>1. PICK s \in T : \A t \in T : s <= t
    BY <1>2, LeastNat, Names
  <2> QED
    BY <2>1 DEF session_find_by_peer, First
<1> QED
  BY <1>1, <1>2

(* session_find_sole_entry finds nothing or an entry.                      *)
LEMMA SoleFinds ==
    ASSUME session_find_sole_entry # None
    PROVE  /\ session_find_sole_entry \in Slots
           /\ sessions[session_find_sole_entry].valid
<1> DEFINE T == {s \in Slots : sessions[s].valid}
<1>1. CASE T = {}
  BY <1>1 DEF session_find_sole_entry, First
<1>2. CASE T # {}
  <2>1. PICK s \in T : \A t \in T : s <= t
    BY <1>2, LeastNat, Names
  <2> QED
    BY <2>1 DEF session_find_sole_entry, First
<1> QED
  BY <1>1, <1>2

(* The lookup of s2c: nothing, or an entry, of the packet's own index      *)
(* unless the packet is an init, which carries none of its client's.       *)
LEMMA DestFinds ==
    ASSUME NEW kind \in Kinds, NEW h \in Handshakes, Dest(kind, h) # None
    PROVE  /\ Dest(kind, h) \in Slots
           /\ sessions[Dest(kind, h)].valid
           /\ kind # "init" => sessions[Dest(kind, h)].idx = h
<1>1. CASE kind # "init"
  BY <1>1, GetEntryFinds DEF Dest
<1>2. CASE kind = "init"
  BY <1>2, ByPeerFinds, SoleFinds DEF Dest, InitDest
<1> QED
  BY <1>1, <1>2

-----------------------------------------------------------------------------
(* VInv is inductive.                                                      *)

(* An empty table mixes no one up.                                         *)
LEMMA VInit == Init => VInv
<1> SUFFICES ASSUME Init PROVE VInv
  OBVIOUS
<1>1. MaxCtr \in Nat
  BY SizesAssumption
<1>2. TypeOK
  BY <1>1 DEF Init, TypeOK, Entry
<1>3. Owned /\ Labelled
  BY DEF Init, Owned, Labelled
<1>4. LookupHolds
  BY DEF Init, LookupHolds
<1> QED
  BY <1>2, <1>3, <1>4 DEF VInv

(* What session_put_prof writes: the index and the address are the         *)
(* packet's, label and server index only those of the same index.          *)
LEMMA PutWrites ==
    ASSUME TypeOK, NEW h \in Handshakes, NEW from \in AddrOf[PeerOf[h]]
    PROVE  LET o == sessions[PutSlot(h)]
               x == PutEntry(h, from)
           IN  /\ o \in Entry /\ x \in Entry
               /\ x.valid /\ x.idx = h /\ x.addr = from
               /\ x.peer_slot = IF o.valid /\ o.idx = h THEN o.peer_slot ELSE None
               /\ x.sidx = IF o.valid /\ o.idx = h THEN o.sidx ELSE None
               /\ x.ctr_sidx = o.ctr_sidx /\ x.ctr_next = o.ctr_next
<1>1. PutSlot(h) \in Slots
  BY PutSlotIn
<1>2. sessions[PutSlot(h)] \in Entry
  BY <1>1 DEF TypeOK
<1>3. from \in Addrs
  BY Names
<1> QED
  BY <1>2, <1>3 DEF PutEntry, Entry

(* Writing an entry of h into the slot session_put_prof chose.             *)
LEMMA PutKeeps ==
    ASSUME VInv, NEW h \in Handshakes, NEW from \in AddrOf[PeerOf[h]], NEW x \in Entry,
           x.valid, x.idx = h, x.addr = from,
           x.peer_slot = PutEntry(h, from).peer_slot,
           x.sidx \in {h, PutEntry(h, from).sidx},
           sessions' = [sessions EXCEPT ![PutSlot(h)] = x],
           spoiled' = spoiled \cup PutSpoils(h), s2c' = s2c
    PROVE  /\ sessions' \in [Slots -> Entry] /\ spoiled' \subseteq Spoils
           /\ Owned' /\ Labelled' /\ LookupHolds'
<1> DEFINE k == PutSlot(h)
           o == sessions[k]
<1>1. k \in Slots
  BY PutSlotIn
<1>2. TypeOK /\ sessions \in [Slots -> Entry] /\ o \in Entry
  BY <1>1 DEF VInv, TypeOK
<1>3. /\ x.peer_slot = IF o.valid /\ o.idx = h THEN o.peer_slot ELSE None
      /\ x.sidx = h \/ x.sidx = IF o.valid /\ o.idx = h THEN o.sidx ELSE None
  BY <1>2, PutWrites
<1>4. sessions' \in [Slots -> Entry] /\ \A s \in Slots : sessions'[s] = IF s = k THEN x ELSE sessions[s]
  BY <1>1, <1>2
<1>5. spoiled' \subseteq Spoils /\ spoiled \subseteq spoiled'
      /\ (s2c.e = k /\ o.idx # h => "reuse" \in spoiled')
  BY <1>2 DEF TypeOK, PutSpoils, Spoils
<1> HIDE DEF k
<1>6. Owned'
  <2>1. \A s \in Slots : sessions'[s].valid => sessions'[s].idx # None
    BY <1>4, Names DEF VInv, Owned
  <2>2. ASSUME "reuse" \notin spoiled', NEW s \in Slots, sessions'[s].valid
        PROVE  /\ sessions'[s].addr \in AddrOf[PeerOf[sessions'[s].idx]]
               /\ sessions'[s].sidx \in {None, sessions'[s].idx}
    <3>1. CASE s = k
      BY <1>3, <1>4, <1>5, <2>2, <3>1 DEF VInv, Owned
    <3>2. CASE s # k
      BY <1>4, <1>5, <2>2, <3>2 DEF VInv, Owned
    <3> QED
      BY <3>1, <3>2
  <2> QED
    BY <2>1, <2>2 DEF Owned
<1>7. Labelled'
  <2> SUFFICES ASSUME spoiled' \cap {"reuse", "sole"} = {}, NEW s \in Slots, sessions'[s].valid
               PROVE  sessions'[s].peer_slot \in {None, PeerOf[sessions'[s].idx]}
    BY DEF Labelled
  <2>0. spoiled \cap {"reuse", "sole"} = {}
    BY <1>5
  <2>1. CASE s = k
    BY <1>1, <1>3, <1>4, <2>0, <2>1 DEF VInv, Labelled
  <2>2. CASE s # k
    BY <1>4, <2>0, <2>2 DEF VInv, Labelled
  <2> QED
    BY <2>1, <2>2
<1>8. LookupHolds'
  <2> SUFFICES ASSUME s2c # Idle, "reuse" \notin spoiled'
               PROVE  /\ sessions'[s2c.e].valid
                      /\ s2c.kind # "init" => sessions'[s2c.e].idx = s2c.h
    BY DEF LookupHolds
  <2>1. s2c.e \in Slots
    BY <1>2 DEF TypeOK
  <2>2. sessions[s2c.e].valid /\ (s2c.kind # "init" => sessions[s2c.e].idx = s2c.h)
    BY <1>5 DEF VInv, LookupHolds
  <2>3. CASE s2c.e = k
    BY <1>4, <1>5, <2>1, <2>2, <2>3
  <2>4. CASE s2c.e # k
    BY <1>4, <2>1, <2>2, <2>4
  <2> QED
    BY <2>3, <2>4
<1> QED
  BY <1>4, <1>5, <1>6, <1>7, <1>8

(* A client's init.                                                        *)
LEMMA VC2sInit ==
    ASSUME VInv, NEW h \in Handshakes, NEW from \in AddrOf[PeerOf[h]], C2sInit(h, from)
    PROVE  VInv'
<1>1. TypeOK
  BY DEF VInv
<1>2. /\ PutEntry(h, from) \in Entry /\ PutEntry(h, from).valid
      /\ PutEntry(h, from).idx = h /\ PutEntry(h, from).addr = from
  BY <1>1, PutWrites
<1>3. /\ sessions' = [sessions EXCEPT ![PutSlot(h)] = PutEntry(h, from)]
      /\ spoiled' = spoiled \cup PutSpoils(h) /\ s2c' = s2c
  BY DEF C2sInit
<1>4. /\ sessions' \in [Slots -> Entry] /\ spoiled' \subseteq Spoils
      /\ Owned' /\ Labelled' /\ LookupHolds'
  BY <1>2, <1>3, PutKeeps
<1>5. TypeOK'
  BY <1>1, <1>4 DEF C2sInit, TypeOK
<1> QED
  BY <1>4, <1>5 DEF VInv

(* A client's answer to an init of our WireGuard.                          *)
LEMMA VC2sResp ==
    ASSUME VInv, NEW h \in Handshakes, NEW from \in AddrOf[PeerOf[h]], C2sResp(h, from)
    PROVE  VInv'
<1>1. TypeOK
  BY DEF VInv
<1> DEFINE y == PutEntry(h, from)
           x == [y EXCEPT !.sidx = h]
<1>2. y \in Entry /\ y.valid /\ y.idx = h /\ y.addr = from
  BY <1>1, PutWrites
<1>3. /\ sessions' = [sessions EXCEPT ![PutSlot(h)] = x]
      /\ spoiled' = spoiled \cup PutSpoils(h) /\ s2c' = s2c
  BY DEF C2sResp
<1>4. x \in Entry /\ x.valid /\ x.idx = h /\ x.addr = from /\ x.peer_slot = y.peer_slot /\ x.sidx = h
  <2> HIDE DEF y
  <2> QED
    BY <1>2 DEF Entry
<1> HIDE DEF x
<1>5. /\ sessions' \in [Slots -> Entry] /\ spoiled' \subseteq Spoils
      /\ Owned' /\ Labelled' /\ LookupHolds'
  BY <1>3, <1>4, PutKeeps
<1>6. sidx_map' \in [Slots -> Slots \cup {None}]
  BY <1>1, PutSlotIn DEF C2sResp, TypeOK
<1>7. TypeOK'
  BY <1>1, <1>5, <1>6 DEF C2sResp, TypeOK
<1> QED
  BY <1>5, <1>7 DEF VInv

(* What session_follow_client writes.                                      *)
LEMMA DataWrites ==
    ASSUME TypeOK, NEW h \in Handshakes, NEW from \in AddrOf[PeerOf[h]], NEW ctr \in 0..MaxCtr,
           C2sData(h, from, ctr)
    PROVE  \E e \in Slots :
              /\ sessions[e].valid /\ sessions[e].sidx = h /\ Believed(sessions[e], h, ctr)
              /\ sessions' \in [Slots -> Entry]
              /\ \A s \in Slots :
                    /\ sessions'[s].valid = sessions[s].valid
                    /\ sessions'[s].idx = sessions[s].idx
                    /\ sessions'[s].sidx = sessions[s].sidx
                    /\ sessions'[s].peer_slot = sessions[s].peer_slot
                    /\ sessions'[s].addr = IF sessions[s].valid /\ sessions[s].addr = sessions[e].addr
                                           THEN from ELSE sessions[s].addr
                    /\ sessions'[s].ctr_sidx = IF s = e THEN h ELSE sessions[s].ctr_sidx
                    /\ sessions'[s].ctr_next = IF s = e THEN ctr + 1 ELSE sessions[s].ctr_next
<1> DEFINE e == session_get_by_server_index(h)
           old == sessions[e].addr
<1>1. MaxCtr \in Nat /\ from \in Addrs /\ ServerHome[h] \in Slots
  BY SizesAssumption, Names
<1>2. e \in Slots /\ sessions[e].valid /\ sessions[e].sidx = h /\ Believed(sessions[e], h, ctr)
  BY <1>1 DEF C2sData, session_get_by_server_index, TypeOK
<1>3. sessions' = [Moved(old, from) EXCEPT ![e].ctr_sidx = h, ![e].ctr_next = ctr + 1]
  BY DEF C2sData, NextCtr
<1> HIDE DEF e
<1>4. \A s \in Slots : /\ sessions[s] \in Entry
                       /\ Moved(old, from)[s] \in Entry
                       /\ Moved(old, from)[s].valid = sessions[s].valid
                       /\ Moved(old, from)[s].idx = sessions[s].idx
                       /\ Moved(old, from)[s].sidx = sessions[s].sidx
                       /\ Moved(old, from)[s].peer_slot = sessions[s].peer_slot
                       /\ Moved(old, from)[s].addr = IF sessions[s].valid /\ sessions[s].addr = old
                                                    THEN from ELSE sessions[s].addr
                       /\ Moved(old, from)[s].ctr_sidx = sessions[s].ctr_sidx
                       /\ Moved(old, from)[s].ctr_next = sessions[s].ctr_next
  BY <1>1 DEF TypeOK, Moved, Entry
<1>5. Moved(old, from) \in [Slots -> Entry]
  BY <1>4 DEF Moved
<1>6. ctr + 1 \in 0..(MaxCtr + 1)
  BY <1>1
<1>7. /\ sessions' \in [Slots -> Entry]
      /\ \A s \in Slots :
            /\ sessions'[s].valid = sessions[s].valid
            /\ sessions'[s].idx = sessions[s].idx
            /\ sessions'[s].sidx = sessions[s].sidx
            /\ sessions'[s].peer_slot = sessions[s].peer_slot
            /\ sessions'[s].addr = IF sessions[s].valid /\ sessions[s].addr = old
                                   THEN from ELSE sessions[s].addr
            /\ sessions'[s].ctr_sidx = IF s = e THEN h ELSE sessions[s].ctr_sidx
            /\ sessions'[s].ctr_next = IF s = e THEN ctr + 1 ELSE sessions[s].ctr_next
  <2> DEFINE M == Moved(old, from)
             x == [M[e] EXCEPT !.ctr_sidx = h, !.ctr_next = ctr + 1]
  <2>1. M \in [Slots -> Entry] /\ M[e] \in Entry
    BY <1>2, <1>5
  <2>2. sessions' = [M EXCEPT ![e] = x]
    BY <1>2, <1>3, <2>1
  <2> HIDE DEF M
  <2>3. /\ x \in Entry /\ x.valid = M[e].valid /\ x.idx = M[e].idx /\ x.sidx = M[e].sidx
        /\ x.peer_slot = M[e].peer_slot /\ x.addr = M[e].addr /\ x.ctr_sidx = h /\ x.ctr_next = ctr + 1
    BY <1>6, <2>1 DEF Entry
  <2> HIDE DEF x
  <2>4. sessions' \in [Slots -> Entry] /\ \A s \in Slots : sessions'[s] = IF s = e THEN x ELSE M[s]
    BY <1>2, <2>1, <2>2, <2>3
  <2>5. ASSUME NEW s \in Slots
        PROVE  /\ sessions'[s].valid = sessions[s].valid
               /\ sessions'[s].idx = sessions[s].idx
               /\ sessions'[s].sidx = sessions[s].sidx
               /\ sessions'[s].peer_slot = sessions[s].peer_slot
               /\ sessions'[s].addr = IF sessions[s].valid /\ sessions[s].addr = old
                                      THEN from ELSE sessions[s].addr
               /\ sessions'[s].ctr_sidx = IF s = e THEN h ELSE sessions[s].ctr_sidx
               /\ sessions'[s].ctr_next = IF s = e THEN ctr + 1 ELSE sessions[s].ctr_next
    <3>1. CASE s = e
      BY <1>4, <2>3, <2>4, <3>1 DEF M
    <3>2. CASE s # e
      BY <1>4, <2>4, <3>2 DEF M
    <3> QED
      BY <3>1, <3>2
  <2> QED
    BY <2>4, <2>5
<1> QED
  BY <1>2, <1>7

(* Whoever speaks from an address of a peer is that peer.                  *)
LEMMA OnePeerPerAddress ==
    ASSUME NEW p \in Peers, NEW q \in Peers, NEW a, a \in AddrOf[p], a \in AddrOf[q]
    PROVE  p = q
BY NamesAssumption

(* session_follow_client: what moves with a packet is its own client's.    *)
LEMMA VC2sData ==
    ASSUME VInv, NEW h \in Handshakes, NEW from \in AddrOf[PeerOf[h]], NEW ctr \in 0..MaxCtr,
           C2sData(h, from, ctr)
    PROVE  VInv'
<1>1. TypeOK /\ MaxCtr \in Nat /\ ctr + 1 \in 0..(MaxCtr + 1)
  BY SizesAssumption DEF VInv
<1>2. PICK e \in Slots :
         /\ sessions[e].valid /\ sessions[e].sidx = h
         /\ sessions' \in [Slots -> Entry]
         /\ \A s \in Slots :
               /\ sessions'[s].valid = sessions[s].valid
               /\ sessions'[s].idx = sessions[s].idx
               /\ sessions'[s].sidx = sessions[s].sidx
               /\ sessions'[s].peer_slot = sessions[s].peer_slot
               /\ sessions'[s].addr = IF sessions[s].valid /\ sessions[s].addr = sessions[e].addr
                                      THEN from ELSE sessions[s].addr
  BY <1>1, DataWrites
<1>3. UNCHANGED <<sidx_map, s2c, init, open, met, spoiled>> /\ newest' = [newest EXCEPT ![h] = ctr + 1]
  BY DEF C2sData
<1>4. TypeOK'
  BY <1>1, <1>2, <1>3 DEF TypeOK
<1>5. Owned'
  <2>1. \A s \in Slots : sessions'[s].valid => sessions'[s].idx # None
    BY <1>2 DEF VInv, Owned
  <2>2. ASSUME "reuse" \notin spoiled', NEW s \in Slots, sessions'[s].valid
        PROVE  /\ sessions'[s].addr \in AddrOf[PeerOf[sessions'[s].idx]]
               /\ sessions'[s].sidx \in {None, sessions'[s].idx}
    <3>1. /\ sessions[s].addr \in AddrOf[PeerOf[sessions[s].idx]] /\ sessions[s].idx \in Handshakes
          /\ sessions[s].sidx \in {None, sessions[s].idx}
      BY <1>1, <1>2, <1>3, <2>2 DEF VInv, Owned, TypeOK, Entry
    <3>2. sessions[e].idx = h /\ sessions[e].addr \in AddrOf[PeerOf[h]]
      BY <1>2, <1>3, <2>2, Names DEF VInv, Owned
    <3>3. sessions[s].addr = sessions[e].addr => PeerOf[sessions[s].idx] = PeerOf[h]
      BY <3>1, <3>2, Names, OnePeerPerAddress
    <3> QED
      BY <1>2, <3>1, <3>3
  <2> QED
    BY <2>1, <2>2 DEF Owned
<1>6. Labelled'
  BY <1>2, <1>3 DEF VInv, Labelled
<1>7. LookupHolds'
  BY <1>1, <1>2, <1>3 DEF VInv, LookupHolds, TypeOK
<1> QED
  BY <1>4, <1>5, <1>6, <1>7 DEF VInv

(* The lookup of s2c.                                                      *)
LEMMA VS2cRoute ==
    ASSUME VInv, NEW kind \in Kinds, NEW h \in Handshakes, S2cRoute(kind, h)
    PROVE  VInv'
<1>1. TypeOK
  BY DEF VInv
<1>2. /\ UNCHANGED <<sessions, sidx_map, open, met, newest, spoiled>>
      /\ init' = IF kind = "resp" THEN [init EXCEPT ![h] = "answered"] ELSE init
      /\ s2c' = IF Dest(kind, h) = None THEN Idle ELSE [kind |-> kind, h |-> h, e |-> Dest(kind, h)]
  BY DEF S2cRoute
<1>3. TypeOK'
  BY <1>1, <1>2, DestFinds DEF TypeOK
<1>4. Owned' /\ Labelled'
  BY <1>2 DEF VInv, Owned, Labelled
<1>5. LookupHolds'
  BY <1>2, DestFinds DEF LookupHolds
<1> QED
  BY <1>3, <1>4, <1>5 DEF VInv

(* What an answer's own index leaves in the table.                         *)
LEMMA IndexWrites ==
    ASSUME TypeOK, S2cIndex
    PROVE  /\ s2c.h \in Handshakes /\ s2c.e \in Slots /\ s2c.kind = "resp" /\ s2c # Idle
           /\ s2c' = [kind |-> "indexed", h |-> s2c.h, e |-> s2c.e]
           /\ sessions' \in [Slots -> Entry]
           /\ \A s \in Slots :
                 /\ sessions'[s].valid = sessions[s].valid /\ sessions'[s].idx = sessions[s].idx
                 /\ sessions'[s].addr = sessions[s].addr /\ sessions'[s].peer_slot = sessions[s].peer_slot
                 /\ sessions'[s].sidx = IF s = s2c.e THEN s2c.h ELSE sessions[s].sidx
                 /\ sessions'[s].ctr_sidx = sessions[s].ctr_sidx
                 /\ sessions'[s].ctr_next = sessions[s].ctr_next
<1>1. s2c \in [kind : Kinds, h : Handshakes, e : Slots] /\ s2c # Idle /\ s2c.kind = "resp"
  BY DEF S2cIndex, TypeOK
<1>2. sessions[s2c.e] \in Entry /\ sessions \in [Slots -> Entry]
  BY <1>1 DEF TypeOK
<1> DEFINE x == [sessions[s2c.e] EXCEPT !.sidx = s2c.h]
<1>3. /\ x \in Entry /\ x.sidx = s2c.h
      /\ x.valid = sessions[s2c.e].valid /\ x.idx = sessions[s2c.e].idx /\ x.addr = sessions[s2c.e].addr
      /\ x.peer_slot = sessions[s2c.e].peer_slot /\ x.ctr_sidx = sessions[s2c.e].ctr_sidx
      /\ x.ctr_next = sessions[s2c.e].ctr_next
  BY <1>1, <1>2 DEF Entry
<1>4. sessions' = [sessions EXCEPT ![s2c.e] = x]
  BY DEF S2cIndex
<1> HIDE DEF x
<1>5. s2c' = [kind |-> "indexed", h |-> s2c.h, e |-> s2c.e]
  BY <1>1 DEF S2cIndex
<1> QED
  BY <1>1, <1>2, <1>3, <1>4, <1>5

(* An answer's own index goes into the entry of the init it answers.       *)
LEMMA VS2cIndex ==
    ASSUME VInv, S2cIndex
    PROVE  VInv'
<1>1. TypeOK /\ ServerHome \in [Handshakes -> Slots]
  BY SizesAssumption DEF VInv
<1>2. /\ sidx_map' = [sidx_map EXCEPT ![ServerHome[s2c.h]] = s2c.e]
      /\ UNCHANGED <<init, open, met, newest, spoiled>>
  BY DEF S2cIndex
<1>3. TypeOK'
  <2>1. sidx_map' \in [Slots -> Slots \cup {None}]
    BY <1>1, <1>2, IndexWrites DEF TypeOK
  <2>2. s2c' \in [kind : Kinds, h : Handshakes, e : Slots]
    BY <1>1, IndexWrites DEF Kinds
  <2> QED
    BY <1>1, <1>2, <2>1, <2>2, IndexWrites DEF TypeOK
<1>4. "reuse" \notin spoiled => sessions[s2c.e].valid /\ sessions[s2c.e].idx = s2c.h
  BY <1>1, IndexWrites DEF VInv, LookupHolds
<1>5. Owned'
  <2>1. \A s \in Slots : sessions'[s].valid => sessions'[s].idx # None
    BY <1>1, IndexWrites DEF VInv, Owned
  <2>2. ASSUME "reuse" \notin spoiled, NEW s \in Slots, sessions[s].valid
        PROVE  /\ sessions'[s].addr \in AddrOf[PeerOf[sessions'[s].idx]]
               /\ sessions'[s].sidx \in {None, sessions'[s].idx}
    <3>1. /\ sessions[s].addr \in AddrOf[PeerOf[sessions[s].idx]]
          /\ sessions[s].sidx \in {None, sessions[s].idx}
      BY <2>2 DEF VInv, Owned
    <3>2. /\ sessions'[s].addr = sessions[s].addr /\ sessions'[s].idx = sessions[s].idx
          /\ sessions'[s].sidx = IF s = s2c.e THEN s2c.h ELSE sessions[s].sidx
      BY <1>1, IndexWrites
    <3> QED
      BY <1>4, <2>2, <3>1, <3>2
  <2>3. \A s \in Slots : sessions'[s].valid = sessions[s].valid
    BY <1>1, IndexWrites
  <2> QED
    BY <1>2, <2>1, <2>2, <2>3 DEF Owned
<1>6. Labelled'
  BY <1>1, <1>2, IndexWrites DEF VInv, Labelled
<1>7. LookupHolds'
  <2>1. s2c.e \in Slots /\ s2c'.e = s2c.e /\ s2c'.h = s2c.h
    BY <1>1, IndexWrites
  <2>2. sessions'[s2c.e].valid = sessions[s2c.e].valid /\ sessions'[s2c.e].idx = sessions[s2c.e].idx
    BY <1>1, <2>1, IndexWrites
  <2> QED
    BY <1>2, <1>4, <2>1, <2>2 DEF LookupHolds
<1> QED
  BY <1>3, <1>5, <1>6, <1>7 DEF VInv

(* What a handshake packet leaves in the table.                            *)
LEMMA HandshakeWrites ==
    ASSUME TypeOK, S2cHandshake
    PROVE  /\ s2c.kind \in Kinds /\ s2c.h \in Handshakes /\ s2c.e \in Slots
           /\ Label \in Peers \cup {None}
           /\ sessions \in [Slots -> Entry] /\ sessions' \in [Slots -> Entry]
           /\ \A s \in Slots :
                 /\ sessions'[s].valid <=> sessions[s].valid /\ ~(Label # None /\ Drops(s))
                 /\ sessions'[s].idx = sessions[s].idx
                 /\ sessions'[s].addr = sessions[s].addr
                 /\ sessions'[s].peer_slot = IF s = s2c.e THEN Label ELSE sessions[s].peer_slot
                 /\ sessions'[s].sidx = sessions[s].sidx
                 /\ sessions'[s].ctr_sidx = sessions[s].ctr_sidx
                 /\ sessions'[s].ctr_next = sessions[s].ctr_next
<1>1. s2c.kind \in Kinds /\ s2c.h \in Handshakes /\ s2c.e \in Slots
  BY DEF S2cHandshake, TypeOK
<1>2. \A s \in Slots : sessions[s] \in Entry
  BY DEF TypeOK
<1>3. Label \in Peers \cup {None}
  BY <1>1, <1>2, Names DEF Label, Entry
<1> DEFINE x(s) == [sessions[s] EXCEPT
               !.valid = @ /\ ~(Label # None /\ Drops(s)),
               !.peer_slot = IF s = s2c.e THEN Label ELSE @]
<1>4. ASSUME NEW s \in Slots
      PROVE  /\ x(s) \in Entry
             /\ x(s).valid <=> sessions[s].valid /\ ~(Label # None /\ Drops(s))
             /\ x(s).idx = sessions[s].idx
             /\ x(s).addr = sessions[s].addr
             /\ x(s).peer_slot = IF s = s2c.e THEN Label ELSE sessions[s].peer_slot
             /\ x(s).sidx = sessions[s].sidx
             /\ x(s).ctr_sidx = sessions[s].ctr_sidx
             /\ x(s).ctr_next = sessions[s].ctr_next
  BY <1>1, <1>2, <1>3, ZenonT(60) DEF Entry
<1>5. sessions' = [s \in Slots |-> x(s)]
  BY DEF S2cHandshake
<1> HIDE DEF x
<1>6. sessions' \in [Slots -> Entry] /\ \A s \in Slots : sessions'[s] = x(s)
  BY <1>4, <1>5
<1> QED
  BY <1>1, <1>3, <1>4, <1>6 DEF TypeOK

(* A handshake packet labels the entry with its own client's peer.         *)
LEMMA VS2cHandshake ==
    ASSUME VInv, S2cHandshake
    PROVE  VInv'
<1>1. TypeOK /\ ServerHome \in [Handshakes -> Slots]
  BY SizesAssumption DEF VInv
<1>2. /\ s2c # Idle /\ s2c.kind # "data" /\ s2c' = Idle /\ UNCHANGED <<sidx_map, init, newest>>
      /\ open' \subseteq open \cup {s2c.h}
      /\ met' = IF Label = None THEN met ELSE met \cup {Label}
      /\ spoiled' = IF s2c.kind = "init" /\ sessions[s2c.e].addr \notin AddrOf[PeerOf[s2c.h]]
                    THEN spoiled \cup {"sole"} ELSE spoiled
  BY DEF S2cHandshake
<1>3. TypeOK'
  <2>1. sidx_map' \in [Slots -> Slots \cup {None}]
    BY <1>1, <1>2, HandshakeWrites DEF TypeOK
  <2>2. open' \subseteq Handshakes /\ met' \subseteq Peers /\ spoiled' \subseteq Spoils
    BY <1>1, <1>2, HandshakeWrites DEF TypeOK, Spoils
  <2> QED
    BY <1>1, <1>2, <2>1, <2>2, HandshakeWrites DEF TypeOK
<1>4. Owned'
  <2>1. \A s \in Slots : sessions'[s].valid => sessions'[s].idx # None
    BY <1>1, HandshakeWrites DEF VInv, Owned
  <2>2. ASSUME "reuse" \notin spoiled', NEW s \in Slots, sessions'[s].valid
        PROVE  /\ sessions'[s].addr \in AddrOf[PeerOf[sessions'[s].idx]]
               /\ sessions'[s].sidx \in {None, sessions'[s].idx}
    <3>1. "reuse" \notin spoiled
      BY <1>2, <2>2
    <3>2. sessions[s].valid
      BY <1>1, <2>2, HandshakeWrites
    <3> QED
      BY <1>1, <3>1, <3>2, HandshakeWrites DEF VInv, Owned
  <2> QED
    BY <2>1, <2>2 DEF Owned
<1>5. Labelled'
  <2> SUFFICES ASSUME spoiled' \cap {"reuse", "sole"} = {}, NEW s \in Slots, sessions'[s].valid
               PROVE  sessions'[s].peer_slot \in {None, PeerOf[sessions'[s].idx]}
    BY DEF Labelled
  <2>1. spoiled \cap {"reuse", "sole"} = {} /\ sessions[s].valid /\ sessions'[s].idx = sessions[s].idx
    BY <1>1, <1>2, HandshakeWrites
  <2>2. sessions[s].peer_slot \in {None, PeerOf[sessions[s].idx]}
    BY <2>1 DEF VInv, Labelled
  <2>3. CASE s # s2c.e
    BY <1>1, <2>1, <2>2, <2>3, HandshakeWrites
  <2>4. CASE s = s2c.e
    <3>1. sessions'[s].peer_slot = Label
      BY <1>1, <2>4, HandshakeWrites
    <3>2. CASE Label = sessions[s].peer_slot
      BY <2>1, <2>2, <3>1, <3>2
    <3>3. CASE Label # sessions[s].peer_slot
      <4>1. Label = PeerOf[s2c.h] /\ s2c.kind \in {"init", "indexed"}
        BY <2>4, <3>3 DEF Label
      <4>2. CASE s2c.kind = "indexed"
        <5>1. sessions[s].idx = s2c.h
          BY <1>2, <2>1, <2>4, <4>2 DEF VInv, LookupHolds
        <5> QED
          BY <2>1, <3>1, <4>1, <5>1
      <4>3. CASE s2c.kind = "init"
        <5>1. sessions[s].addr \in AddrOf[PeerOf[s2c.h]]
          BY <1>2, <2>4, <4>3
        <5>2. sessions[s].addr \in AddrOf[PeerOf[sessions[s].idx]] /\ sessions[s].idx \in Handshakes
          BY <1>1, <2>1 DEF VInv, Owned, TypeOK, Entry
        <5>3. PeerOf[sessions[s].idx] = PeerOf[s2c.h]
          BY <1>1, <5>1, <5>2, HandshakeWrites, Names, NamesAssumption
        <5> QED
          BY <2>1, <3>1, <4>1, <5>3
      <4> QED
        BY <4>1, <4>2, <4>3
    <3> QED
      BY <3>2, <3>3
  <2> QED
    BY <2>3, <2>4
<1>6. LookupHolds'
  BY <1>2 DEF LookupHolds
<1> QED
  BY <1>3, <1>4, <1>5, <1>6 DEF VInv

(* VInv survives every step.                                               *)
LEMMA VNext == VInv /\ [Next]_vars => VInv'
<1> SUFFICES ASSUME VInv, [Next]_vars PROVE VInv'
  OBVIOUS
<1>1. CASE C2sNext
  <2>0. PICK h \in Handshakes : \E from \in AddrOf[PeerOf[h]] :
           C2sInit(h, from) \/ C2sResp(h, from) \/ \E ctr \in 0..MaxCtr : C2sData(h, from, ctr)
    BY <1>1 DEF C2sNext
  <2>1. PICK from \in AddrOf[PeerOf[h]] :
           C2sInit(h, from) \/ C2sResp(h, from) \/ \E ctr \in 0..MaxCtr : C2sData(h, from, ctr)
    BY <2>0
  <2> QED
    BY <2>1, VC2sInit, VC2sResp, VC2sData
<1>2. CASE S2cHandshake
  BY <1>2, VS2cHandshake
<1>6. CASE S2cIndex
  BY <1>6, VS2cIndex
<1>3. CASE S2cData
  BY <1>3 DEF S2cData, VInv, TypeOK, Owned, Labelled, LookupHolds
<1>4. CASE \E kind \in Kinds, h \in Handshakes : S2cRoute(kind, h)
  BY <1>4, VS2cRoute
<1>5. CASE UNCHANGED vars
  BY <1>5 DEF vars, VInv, TypeOK, Owned, Labelled, LookupHolds
<1> QED
  BY <1>1, <1>2, <1>3, <1>4, <1>5, <1>6 DEF Next, S2cNext

(* VInv holds in every reachable state.                                    *)
LEMMA VAlways == Spec => []VInv
<1> QED
  BY VInit, VNext, PTL DEF Spec

(* Server mode never mixes two clients in one entry of the session table   *)
(* (session_put_prof, session_follow_client, session_drop_moved_peer).     *)
THEOREM OneClientPerEntryAlways == Spec => []OneClientPerEntry
<1>1. VInv => OneClientPerEntry
  BY DEF VInv, OneClientPerEntry, Owned, Labelled
<1> QED
  BY <1>1, VAlways, PTL

(* What process_s2c_pkt_reverse sends goes to the client it is for,        *)
(* although c2s works on the table between the lookup and the use.         *)
THEOREM RepliesReachTheirClientAlways == Spec => []RepliesReachTheirClient
<1>1. VInv => RepliesReachTheirClient
  <2> SUFFICES ASSUME VInv, s2c # Idle, s2c.kind # "init", "reuse" \notin spoiled
               PROVE  sessions[s2c.e].addr \in AddrOf[PeerOf[s2c.h]]
    BY DEF RepliesReachTheirClient
  <2>1. s2c.e \in Slots /\ sessions[s2c.e].valid /\ sessions[s2c.e].idx = s2c.h
    BY DEF VInv, TypeOK, LookupHolds
  <2> QED
    BY <2>1 DEF VInv, Owned
<1> QED
  BY <1>1, VAlways, PTL

-----------------------------------------------------------------------------
(* PeerStaysInReach is inductive on top of VInv.                           *)

(* Writing an entry costs a peer its last one only by an eviction.         *)
LEMMA PutReach ==
    ASSUME VInv, PeerStaysInReach, NEW h \in Handshakes, NEW from \in AddrOf[PeerOf[h]],
           NEW x \in Entry, x.valid, x.addr = from, x.peer_slot = PutEntry(h, from).peer_slot,
           sessions' = [sessions EXCEPT ![PutSlot(h)] = x],
           spoiled' = spoiled \cup PutSpoils(h), met' = met
    PROVE  PeerStaysInReach'
<1> SUFFICES ASSUME spoiled' = {}, NEW p \in met
             PROVE  \E s \in Slots : /\ sessions'[s].valid /\ sessions'[s].peer_slot = p
                                     /\ sessions'[s].addr \in AddrOf[p]
  BY DEF PeerStaysInReach
<1> DEFINE k == PutSlot(h)
           o == sessions[k]
<1>1. TypeOK /\ k \in Slots /\ p \in Peers /\ p # None
  BY PutSlotIn, NamesAssumption DEF VInv, TypeOK
<1>2. spoiled = {} /\ PutSpoils(h) = {}
  OBVIOUS
<1>3. ~(o.valid /\ o.idx # h /\ o.peer_slot # None)
  BY <1>2 DEF PutSpoils
<1>4. x.peer_slot = IF o.valid /\ o.idx = h THEN o.peer_slot ELSE None
  BY <1>1, PutWrites
<1>5. \A s \in Slots : sessions'[s] = IF s = k THEN x ELSE sessions[s]
  BY <1>1 DEF TypeOK
<1>6. PICK s \in Slots : /\ sessions[s].valid /\ sessions[s].peer_slot = p
                         /\ sessions[s].addr \in AddrOf[p]
  BY <1>2 DEF PeerStaysInReach
<1>7. CASE s # k
  BY <1>5, <1>6, <1>7
<1>8. CASE s = k
  <2>1. o.valid /\ o.peer_slot = p /\ o.idx = h
    BY <1>1, <1>3, <1>6, <1>8
  <2>2. p = PeerOf[h]
    BY <1>1, <1>2, <2>1 DEF VInv, Labelled
  <2>3. sessions'[k].valid /\ sessions'[k].peer_slot = p /\ sessions'[k].addr \in AddrOf[p]
    BY <1>1, <1>4, <1>5, <2>1, <2>2
  <2> QED
    BY <1>1, <2>3
<1> QED
  BY <1>7, <1>8

(* A peer whose entries move is reached where it went.                     *)
LEMMA DataReach ==
    ASSUME VInv, PeerStaysInReach, NEW h \in Handshakes, NEW from \in AddrOf[PeerOf[h]],
           NEW ctr \in 0..MaxCtr, C2sData(h, from, ctr)
    PROVE  PeerStaysInReach'
<1>1. TypeOK
  BY DEF VInv
<1>2. PICK e \in Slots :
         /\ sessions[e].valid /\ sessions[e].sidx = h
         /\ \A s \in Slots :
               /\ sessions'[s].valid = sessions[s].valid
               /\ sessions'[s].peer_slot = sessions[s].peer_slot
               /\ sessions'[s].addr = IF sessions[s].valid /\ sessions[s].addr = sessions[e].addr
                                      THEN from ELSE sessions[s].addr
  BY <1>1, DataWrites
<1>3. met' = met /\ spoiled' = spoiled
  BY DEF C2sData
<1> SUFFICES ASSUME spoiled = {}, NEW p \in met
             PROVE  \E s \in Slots : /\ sessions'[s].valid /\ sessions'[s].peer_slot = p
                                     /\ sessions'[s].addr \in AddrOf[p]
  BY <1>3 DEF PeerStaysInReach
<1>4. PICK s \in Slots : /\ sessions[s].valid /\ sessions[s].peer_slot = p
                         /\ sessions[s].addr \in AddrOf[p]
  BY DEF PeerStaysInReach
<1>5. sessions[e].idx = h /\ sessions[e].addr \in AddrOf[PeerOf[h]]
  BY <1>2, Names DEF VInv, Owned
<1>6. sessions[s].addr = sessions[e].addr => p = PeerOf[h]
  BY <1>1, <1>4, <1>5, Names, OnePeerPerAddress DEF TypeOK
<1> QED
  BY <1>2, <1>4, <1>6

(* session_drop_moved_peer spares the entry of the handshake.              *)
LEMMA HandshakeReach ==
    ASSUME VInv, PeerStaysInReach, S2cHandshake
    PROVE  PeerStaysInReach'
<1>1. TypeOK /\ VInv'
  BY VS2cHandshake DEF VInv
<1>2. s2c # Idle /\ spoiled \subseteq spoiled' /\ met' = IF Label = None THEN met ELSE met \cup {Label}
  BY DEF S2cHandshake
<1> SUFFICES ASSUME spoiled' = {}, NEW p \in met'
             PROVE  \E s \in Slots : /\ sessions'[s].valid /\ sessions'[s].peer_slot = p
                                     /\ sessions'[s].addr \in AddrOf[p]
  BY DEF PeerStaysInReach
<1>3. spoiled = {} /\ p \in Peers /\ p # None
  BY <1>1, <1>2, NamesAssumption DEF VInv, TypeOK
<1> DEFINE e == s2c.e
<1>4. e \in Slots /\ sessions[e].valid
  BY <1>1, <1>2, <1>3, HandshakeWrites DEF VInv, LookupHolds
<1>5. sessions'[e].valid /\ sessions'[e].peer_slot = Label
      /\ sessions'[e].idx = sessions[e].idx /\ sessions'[e].addr = sessions[e].addr
  BY <1>1, <1>4, HandshakeWrites DEF Drops
<1>6. Label \in {None, PeerOf[sessions[e].idx]} /\ sessions[e].addr \in AddrOf[PeerOf[sessions[e].idx]]
  <2>1. Label \in {None, PeerOf[sessions[e].idx]}
    BY <1>1, <1>4, <1>5 DEF VInv, Labelled
  <2>2. sessions[e].addr \in AddrOf[PeerOf[sessions[e].idx]]
    BY <1>3, <1>4 DEF VInv, Owned
  <2> QED
    BY <2>1, <2>2
<1>7. CASE p = Label
  BY <1>3, <1>4, <1>5, <1>6, <1>7
<1>8. CASE p # Label
  <2>1. p \in met
    BY <1>2, <1>8
  <2>2. PICK s \in Slots : /\ sessions[s].valid /\ sessions[s].peer_slot = p
                           /\ sessions[s].addr \in AddrOf[p]
    BY <1>3, <2>1 DEF PeerStaysInReach
  <2>3. sessions'[s].valid /\ sessions'[s].addr = sessions[s].addr
        /\ (s # e => sessions'[s].peer_slot = sessions[s].peer_slot)
    BY <1>1, <1>8, <2>2, HandshakeWrites DEF Drops
  <2>4. s # e
    <3> SUFFICES ASSUME s = e PROVE FALSE
      OBVIOUS
    <3>1. p = PeerOf[sessions[e].idx]
      BY <1>3, <2>2 DEF VInv, Labelled
    <3>2. Label = None
      BY <1>6, <1>8, <3>1
    <3>3. sessions[e].peer_slot = None
      BY <1>1, <3>2, HandshakeWrites, Names DEF Label
    <3> QED
      BY <1>3, <2>2, <3>3
  <2> QED
    BY <2>2, <2>3, <2>4
<1> QED
  BY <1>7, <1>8

(* No step takes an identified peer out of reach.                          *)
LEMMA ReachNext == VInv /\ PeerStaysInReach /\ [Next]_vars => PeerStaysInReach'
<1> SUFFICES ASSUME VInv, PeerStaysInReach, [Next]_vars PROVE PeerStaysInReach'
  OBVIOUS
<1>0. TypeOK
  BY DEF VInv
<1>1. CASE C2sNext
  <2>0. PICK h \in Handshakes : \E from \in AddrOf[PeerOf[h]] :
           C2sInit(h, from) \/ C2sResp(h, from) \/ \E ctr \in 0..MaxCtr : C2sData(h, from, ctr)
    BY <1>1 DEF C2sNext
  <2>1. PICK from \in AddrOf[PeerOf[h]] :
           C2sInit(h, from) \/ C2sResp(h, from) \/ \E ctr \in 0..MaxCtr : C2sData(h, from, ctr)
    BY <2>0
  <2> DEFINE y == PutEntry(h, from)
             z == [y EXCEPT !.sidx = h]
  <2>2. y \in Entry /\ y.valid /\ y.addr = from
    BY <1>0, PutWrites
  <2>3. z \in Entry /\ z.valid /\ z.addr = from /\ z.peer_slot = y.peer_slot
    <3> HIDE DEF y
    <3> QED
      BY <2>2 DEF Entry
  <2>4. CASE C2sInit(h, from)
    <3>1. /\ sessions' = [sessions EXCEPT ![PutSlot(h)] = y]
          /\ spoiled' = spoiled \cup PutSpoils(h) /\ met' = met
      BY <2>4 DEF C2sInit
    <3> QED
      BY <2>2, <3>1, PutReach
  <2>5. CASE C2sResp(h, from)
    <3>1. /\ sessions' = [sessions EXCEPT ![PutSlot(h)] = z]
          /\ spoiled' = spoiled \cup PutSpoils(h) /\ met' = met
      BY <2>5 DEF C2sResp
    <3> HIDE DEF z
    <3> QED
      BY <2>3, <3>1, PutReach
  <2>6. CASE \E ctr \in 0..MaxCtr : C2sData(h, from, ctr)
    BY <2>6, DataReach
  <2> QED
    BY <2>1, <2>4, <2>5, <2>6
<1>2. CASE S2cHandshake
  BY <1>2, HandshakeReach
<1>6. CASE S2cIndex
  <2>1. met' = met /\ spoiled' = spoiled
    BY <1>6 DEF S2cIndex
  <2> QED
    BY <1>0, <1>6, <2>1, IndexWrites DEF PeerStaysInReach
<1>3. CASE S2cData
  BY <1>3 DEF S2cData, PeerStaysInReach
<1>4. CASE \E kind \in Kinds, h \in Handshakes : S2cRoute(kind, h)
  BY <1>4 DEF S2cRoute, PeerStaysInReach
<1>5. CASE UNCHANGED vars
  BY <1>5 DEF vars, PeerStaysInReach
<1> QED
  BY <1>1, <1>2, <1>3, <1>4, <1>5, <1>6 DEF Next, S2cNext

(* A peer that a handshake has identified can be reached by an init of our *)
(* WireGuard ever after: session_drop_moved_peer never retires its last    *)
(* entry.                                                                  *)
THEOREM PeerStaysInReachAlways == Spec => []PeerStaysInReach
<1>1. Init => PeerStaysInReach
  BY DEF Init, PeerStaysInReach
<1> QED
  BY <1>1, VAlways, ReachNext, PTL DEF Spec

-----------------------------------------------------------------------------
(* CInv is inductive on top of VInv.                                       *)

(* A client's packet that puts an entry writes no server index of a        *)
(* handshake the client started, and leaves the counters alone.            *)
LEMMA CPut ==
    ASSUME VInv, CInv, NEW h \in Handshakes, NEW from \in AddrOf[PeerOf[h]],
           NEW x \in Entry, x.sidx = PutEntry(h, from).sidx \/ (x.sidx = h /\ h \in Started),
           x.ctr_sidx = PutEntry(h, from).ctr_sidx, x.ctr_next = PutEntry(h, from).ctr_next,
           sessions' = [sessions EXCEPT ![PutSlot(h)] = x],
           \A g \in Handshakes : init'[g] = "answered" <=> init[g] = "answered",
           newest' = newest, s2c' = s2c
    PROVE  CInv'
<1> DEFINE k == PutSlot(h)
           o == sessions[k]
<1>1. TypeOK /\ k \in Slots
  BY PutSlotIn DEF VInv
<1>2. \A s \in Slots : sessions'[s] = IF s = k THEN x ELSE sessions[s]
  BY <1>1 DEF TypeOK
<1>3. /\ x.sidx \in {o.sidx, None} \/ x.sidx \in Started
      /\ x.ctr_sidx = o.ctr_sidx /\ x.ctr_next = o.ctr_next
  BY <1>1, PutWrites
<1> HIDE DEF k
<1>4. ASSUME NEW g \in Handshakes \ Started, NEW s \in Slots
      PROVE  /\ sessions'[s].sidx = g => sessions[s].sidx = g
             /\ sessions'[s].ctr_sidx = sessions[s].ctr_sidx
             /\ sessions'[s].ctr_next = sessions[s].ctr_next
  BY <1>2, <1>3, Names
<1>5. OneSlot'
  BY <1>4 DEF CInv, OneSlot
<1>6. \A g \in Handshakes : Unanswered(g)' => Unanswered(g)
  BY DEF Unanswered
<1>7. NoneYet'
  BY <1>4, <1>6 DEF CInv, NoneYet
<1>8. CounterKept'
  BY <1>4 DEF CInv, CounterKept
<1>9. AnswerCounted'
  BY <1>1 DEF CInv, AnswerCounted, TypeOK
<1> QED
  BY <1>5, <1>7, <1>8, <1>9 DEF CInv

(* A believed counter is kept where its server index is.                   *)
LEMMA CData ==
    ASSUME VInv, CInv, NEW h \in Handshakes, NEW from \in AddrOf[PeerOf[h]],
           NEW ctr \in 0..MaxCtr, C2sData(h, from, ctr)
    PROVE  CInv'
<1>1. TypeOK
  BY DEF VInv
<1>2. PICK e \in Slots :
         /\ sessions[e].sidx = h
         /\ \A s \in Slots :
               /\ sessions'[s].sidx = sessions[s].sidx
               /\ sessions'[s].ctr_sidx = IF s = e THEN h ELSE sessions[s].ctr_sidx
               /\ sessions'[s].ctr_next = IF s = e THEN ctr + 1 ELSE sessions[s].ctr_next
  BY <1>1, DataWrites
<1>3. UNCHANGED <<s2c, init>> /\ newest' = [newest EXCEPT ![h] = ctr + 1]
  BY DEF C2sData
<1>4. \A g \in Handshakes : newest'[g] = IF g = h THEN ctr + 1 ELSE newest[g]
  BY <1>1, <1>3 DEF TypeOK
<1>5. OneSlot'
  BY <1>2 DEF CInv, OneSlot
<1>6. \A g \in Handshakes : Unanswered(g)' => Unanswered(g)
  BY <1>3 DEF Unanswered
<1>7. NoneYet'
  <2> SUFFICES ASSUME NEW g \in Handshakes \ Started, Unanswered(g)'
               PROVE  /\ newest'[g] = 0
                      /\ \A s \in Slots : sessions'[s].sidx # g /\ sessions'[s].ctr_sidx # g
    BY DEF NoneYet
  <2>1. newest[g] = 0 /\ \A s \in Slots : sessions[s].sidx # g /\ sessions[s].ctr_sidx # g
    BY <1>6 DEF CInv, NoneYet
  <2>2. g # h
    BY <1>2, <2>1
  <2> QED
    BY <1>2, <1>4, <2>1, <2>2
<1>8. CounterKept'
  <2> SUFFICES ASSUME NEW g \in Handshakes \ Started, NEW s \in Slots, sessions'[s].sidx = g
               PROVE  newest'[g] = IF sessions'[s].ctr_sidx = g THEN sessions'[s].ctr_next ELSE 0
    BY DEF CounterKept
  <2>1. sessions[s].sidx = g
        /\ newest[g] = IF sessions[s].ctr_sidx = g THEN sessions[s].ctr_next ELSE 0
    BY <1>2 DEF CInv, CounterKept
  <2>2. CASE g = h
    <3>1. s = e
      BY <1>2, <2>1, <2>2 DEF CInv, OneSlot
    <3> QED
      BY <1>2, <1>4, <2>2, <3>1
  <2>3. CASE g # h
    <3>1. s # e
      BY <1>2, <2>1, <2>3
    <3> QED
      BY <1>2, <1>4, <2>1, <2>3, <3>1
  <2> QED
    BY <2>2, <2>3
<1>9. AnswerCounted'
  BY <1>3 DEF CInv, AnswerCounted
<1> QED
  BY <1>5, <1>7, <1>8, <1>9 DEF CInv

(* An init that is being answered was not answered before.                 *)
LEMMA CRoute ==
    ASSUME VInv, CInv, NEW kind \in Kinds, NEW h \in Handshakes, S2cRoute(kind, h)
    PROVE  CInv'
<1>1. /\ s2c = Idle /\ UNCHANGED <<sessions, newest>>
      /\ kind = "resp" => init[h] = "asked"
      /\ init' = IF kind = "resp" THEN [init EXCEPT ![h] = "answered"] ELSE init
      /\ s2c' # Idle => s2c' = [kind |-> kind, h |-> h, e |-> Dest(kind, h)]
  BY DEF S2cRoute, ServerSends
<1>2. init \in [Handshakes -> {"new", "asked", "answered"}]
  BY DEF VInv, TypeOK
<1>3. ASSUME NEW g \in Handshakes, Unanswered(g)' PROVE Unanswered(g)
  <2>1. CASE s2c' # Idle /\ s2c'.kind = "resp" /\ s2c'.h = g
    BY <1>1, <2>1 DEF Unanswered
  <2>2. CASE init'[g] # "answered"
    BY <1>1, <1>2, <2>2 DEF Unanswered
  <2> QED
    BY <1>3, <2>1, <2>2 DEF Unanswered
<1>4. OneSlot' /\ CounterKept'
  BY <1>1 DEF CInv, OneSlot, CounterKept
<1>5. NoneYet'
  BY <1>1, <1>3 DEF CInv, NoneYet
<1>6. AnswerCounted'
  BY <1>1, <1>2 DEF AnswerCounted
<1> QED
  BY <1>4, <1>5, <1>6 DEF CInv

(* An answer writes its server index into the one slot it was found in.    *)
LEMMA CIndex ==
    ASSUME VInv, CInv, S2cIndex
    PROVE  CInv'
<1>1. TypeOK
  BY DEF VInv
<1>2. s2c # Idle /\ s2c.kind = "resp" /\ s2c'.kind = "indexed" /\ UNCHANGED <<init, newest>>
  BY <1>1, IndexWrites DEF S2cIndex
<1>3. /\ s2c.e \in Slots /\ s2c.h \in Handshakes
      /\ \A s \in Slots :
            /\ sessions'[s].sidx = IF s = s2c.e THEN s2c.h ELSE sessions[s].sidx
            /\ sessions'[s].ctr_sidx = sessions[s].ctr_sidx
            /\ sessions'[s].ctr_next = sessions[s].ctr_next
  BY <1>1, IndexWrites
<1>4. s2c.h \notin Started =>
        /\ newest[s2c.h] = 0
        /\ \A s \in Slots : sessions[s].sidx # s2c.h /\ sessions[s].ctr_sidx # s2c.h
  BY <1>2, <1>3 DEF CInv, NoneYet, Unanswered
<1>5. OneSlot'
  BY <1>3, <1>4 DEF CInv, OneSlot
<1>6. NoneYet'
  <2> SUFFICES ASSUME NEW g \in Handshakes \ Started, Unanswered(g)'
               PROVE  /\ newest'[g] = 0
                      /\ \A s \in Slots : sessions'[s].sidx # g /\ sessions'[s].ctr_sidx # g
    BY DEF NoneYet
  <2>1. init[g] # "answered"
    BY <1>2 DEF Unanswered
  <2>2. s2c.h # g
    BY <1>2, <2>1 DEF CInv, AnswerCounted
  <2>3. newest[g] = 0 /\ \A s \in Slots : sessions[s].sidx # g /\ sessions[s].ctr_sidx # g
    BY <2>1 DEF CInv, NoneYet, Unanswered
  <2> QED
    BY <1>2, <1>3, <2>2, <2>3
<1>7. CounterKept'
  <2> SUFFICES ASSUME NEW g \in Handshakes \ Started, NEW s \in Slots, sessions'[s].sidx = g
               PROVE  newest'[g] = IF sessions'[s].ctr_sidx = g THEN sessions'[s].ctr_next ELSE 0
    BY DEF CounterKept
  <2>1. CASE s = s2c.e
    BY <1>2, <1>3, <1>4, <2>1
  <2>2. CASE s # s2c.e
    BY <1>2, <1>3, <2>2 DEF CInv, CounterKept
  <2> QED
    BY <2>1, <2>2
<1>8. AnswerCounted'
  BY <1>2 DEF AnswerCounted
<1> QED
  BY <1>5, <1>6, <1>7, <1>8 DEF CInv

(* The rest of a handshake touches neither counters nor server indices.    *)
LEMMA CHandshake ==
    ASSUME VInv, CInv, S2cHandshake
    PROVE  CInv'
<1>1. s2c.kind # "resp" /\ s2c' = Idle /\ UNCHANGED <<init, newest>>
  BY DEF S2cHandshake
<1>2. \A s \in Slots : /\ sessions'[s].sidx = sessions[s].sidx
                       /\ sessions'[s].ctr_sidx = sessions[s].ctr_sidx
                       /\ sessions'[s].ctr_next = sessions[s].ctr_next
  BY HandshakeWrites DEF VInv
<1>3. \A g \in Handshakes : Unanswered(g)' => Unanswered(g)
  BY <1>1 DEF Unanswered
<1>4. OneSlot' /\ CounterKept'
  BY <1>1, <1>2 DEF CInv, OneSlot, CounterKept
<1>5. NoneYet'
  BY <1>1, <1>2, <1>3 DEF CInv, NoneYet
<1>6. AnswerCounted'
  BY <1>1 DEF AnswerCounted
<1> QED
  BY <1>4, <1>5, <1>6 DEF CInv

(* CInv survives every step.                                               *)
LEMMA CNext == VInv /\ CInv /\ [Next]_vars => CInv'
<1> SUFFICES ASSUME VInv, CInv, [Next]_vars PROVE CInv'
  OBVIOUS
<1>0. TypeOK
  BY DEF VInv
<1>1. CASE C2sNext
  <2>0. PICK h \in Handshakes : \E from \in AddrOf[PeerOf[h]] :
           C2sInit(h, from) \/ C2sResp(h, from) \/ \E ctr \in 0..MaxCtr : C2sData(h, from, ctr)
    BY <1>1 DEF C2sNext
  <2>1. PICK from \in AddrOf[PeerOf[h]] :
           C2sInit(h, from) \/ C2sResp(h, from) \/ \E ctr \in 0..MaxCtr : C2sData(h, from, ctr)
    BY <2>0
  <2> DEFINE y == PutEntry(h, from)
             z == [y EXCEPT !.sidx = h]
  <2>2. y \in Entry
    BY <1>0, PutWrites
  <2>3. z \in Entry /\ z.sidx = h /\ z.ctr_sidx = y.ctr_sidx /\ z.ctr_next = y.ctr_next
    <3> HIDE DEF y
    <3> QED
      BY <2>2 DEF Entry
  <2>4. CASE C2sInit(h, from)
    <3>1. /\ sessions' = [sessions EXCEPT ![PutSlot(h)] = y]
          /\ init' = [init EXCEPT ![h] = IF @ = "new" THEN "asked" ELSE @]
          /\ newest' = newest /\ s2c' = s2c
      BY <2>4 DEF C2sInit
    <3>2. \A g \in Handshakes : init'[g] = "answered" <=> init[g] = "answered"
      BY <1>0, <3>1 DEF TypeOK
    <3> QED
      BY <2>2, <3>1, <3>2, CPut
  <2>5. CASE C2sResp(h, from)
    <3>1. /\ sessions' = [sessions EXCEPT ![PutSlot(h)] = z]
          /\ h \in Started /\ init' = init /\ newest' = newest /\ s2c' = s2c
      BY <2>5 DEF C2sResp
    <3>2. \A g \in Handshakes : init'[g] = "answered" <=> init[g] = "answered"
      BY <3>1
    <3> HIDE DEF z
    <3> QED
      BY <2>3, <3>1, <3>2, CPut
  <2>6. CASE \E ctr \in 0..MaxCtr : C2sData(h, from, ctr)
    BY <2>6, CData
  <2> QED
    BY <2>1, <2>4, <2>5, <2>6
<1>2. CASE S2cHandshake
  BY <1>2, CHandshake
<1>6. CASE S2cIndex
  BY <1>6, CIndex
<1>3. CASE S2cData
  BY <1>3 DEF S2cData, CInv, OneSlot, NoneYet, CounterKept, AnswerCounted, Unanswered
<1>4. CASE \E kind \in Kinds, h \in Handshakes : S2cRoute(kind, h)
  BY <1>4, CRoute
<1>5. CASE UNCHANGED vars
  BY <1>5 DEF vars, CInv, OneSlot, NoneYet, CounterKept, AnswerCounted, Unanswered
<1> QED
  BY <1>1, <1>2, <1>3, <1>4, <1>5, <1>6 DEF Next, S2cNext

(* session_follow_client is never moved by a packet that is not newer than *)
(* all its session has carried, for every handshake that a client started: *)
(* a late copy cannot take a client back to where it was.                  *)
THEOREM OnlyNewerMovesAlways == Spec => OnlyNewerMoves
<1>1. Init => CInv
  <2> SUFFICES ASSUME Init PROVE CInv
    OBVIOUS
  <2>1. OneSlot /\ NoneYet /\ CounterKept
    BY Names DEF Init, OneSlot, NoneYet, CounterKept
  <2>2. AnswerCounted
    BY DEF Init, AnswerCounted
  <2> QED
    BY <2>1, <2>2 DEF CInv
<1>2. ASSUME VInv, CInv, NEW h \in Handshakes \ Started, NEW from \in AddrOf[PeerOf[h]],
             NEW ctr \in 0..(newest[h] - 1), C2sData(h, from, ctr)
      PROVE  FALSE
  <2>1. TypeOK /\ MaxCtr \in Nat /\ Leap \in Nat /\ newest[h] \in 0..(MaxCtr + 1) /\ ctr \in 0..MaxCtr
    BY <1>2, SizesAssumption DEF VInv, TypeOK
  <2>2. PICK e \in Slots : sessions[e].sidx = h /\ Believed(sessions[e], h, ctr)
    BY <1>2, <2>1, DataWrites
  <2>3. newest[h] = IF sessions[e].ctr_sidx = h THEN sessions[e].ctr_next ELSE 0
    BY <1>2, <2>2 DEF CInv, CounterKept
  <2>4. newest[h] = 0 \/ ctr >= newest[h]
    BY <2>2, <2>3 DEF Believed
  <2> QED
    BY <2>1, <2>4
<1>3. VInv /\ CInv /\ [Next]_vars =>
        [(\E s \in Slots : sessions'[s].addr # sessions[s].addr) =>
            ~ \E h \in Handshakes \ Started : \E from \in AddrOf[PeerOf[h]], ctr \in 0..(newest[h] - 1) :
                 C2sData(h, from, ctr)]_vars
  BY <1>2
<1> QED
  BY <1>1, <1>3, VAlways, CNext, PTL DEF Spec, OnlyNewerMoves
=============================================================================
