------------------------------ MODULE Sessions ------------------------------
(***************************************************************************)
(* The session table of server mode: which client a packet of our          *)
(* WireGuard goes to.                                                      *)
(*                                                                         *)
(*   c2s   writes entries (session_put_prof) and moves them after a client *)
(*         that roams (session_follow_client);                             *)
(*   s2c   looks a packet's entry up, labels it with the peer that MAC1    *)
(*         names and retires what that peer left elsewhere.                *)
(*                                                                         *)
(* An index is the handshake that drew it: sender_index is the client's    *)
(* index of a handshake, server_index our WireGuard's. The network is not  *)
(* kept: a packet that was ever sent may come in, from any address of its  *)
(* client, at any time and any number of times (copies down two ports,     *)
(* stragglers, duplicates), or never.                                      *)
(*                                                                         *)
(* s2c is preempted between the lookup and the use of the entry. The loops *)
(* over the table are single steps. Profiles are left out.                 *)
(***************************************************************************)
EXTENDS Integers

CONSTANTS
    None,          \* no index (0), no entry, peer_slot -1
    Size,          \* SESSION_TABLE_SIZE
    Ways,          \* slots probed for an index (4)
    Handshakes,    \* one index each, on either side
    Started,       \* those our WireGuard starts; a client starts the others
    PeerOf,        \* whose handshake it is
    AddrOf,        \* the addresses each peer may speak from
    Listed,        \* peers whose key is in AWG_SERVER_PEERS
    Home, ServerHome, \* index & SESSION_TABLE_MASK, of either index
    Leap,          \* SESSION_CTR_LEAP
    MaxCtr         \* bound: the highest transport counter

Slots == 0..(Size - 1)
Peers == {PeerOf[h] : h \in Handshakes}
Addrs == UNION {AddrOf[p] : p \in Peers}

ASSUME SizesAssumption ==
    /\ Size \in Nat \ {0} /\ Ways \in 1..Size /\ Leap \in Nat /\ MaxCtr \in Nat
    /\ Started \subseteq Handshakes /\ Listed \subseteq Peers
    /\ Home \in [Handshakes -> Slots] /\ ServerHome \in [Handshakes -> Slots]
ASSUME NamesAssumption ==
    /\ None \notin Handshakes \cup Peers \cup Addrs \cup Nat
    /\ \A p, q \in Peers : p # q => AddrOf[p] \cap AddrOf[q] = {}

VARIABLES
    sessions,      \* the table
    sidx_map,      \* server index -> entry
    s2c,           \* idle, or between the lookup and the use of an entry;
                   \* "indexed" is a response whose index the entry has already
    init,          \* our WireGuard and each client's init: new, asked, answered
    open,          \* handshakes that ended: both sides may send transport
    met,           \* (ghost) peers that some entry has been labelled with
    newest,        \* (ghost) one past the newest counter each session believed
    spoiled        \* (ghost) what has happened to the table; see Spoils

vars == <<sessions, sidx_map, s2c, init, open, met, newest, spoiled>>

(* evict: a full set of slots cost an identified peer an entry. reuse:     *)
(* that entry was the one s2c had looked up. sole: an init of our          *)
(* WireGuard for one peer was sent to another, the only client around.     *)
Spoils == {"evict", "reuse", "sole"}

Kinds == {"data", "resp", "indexed", "cookie", "init"}
Entry == [valid : BOOLEAN, idx : Handshakes \cup {None}, addr : Addrs \cup {None},
          peer_slot : Peers \cup {None}, sidx : Handshakes \cup {None},
          ctr_sidx : Handshakes \cup {None}, ctr_next : 0..(MaxCtr + 1)]
Idle == [kind |-> None, h |-> None, e |-> None]

TypeOK ==
    /\ sessions \in [Slots -> Entry]
    /\ sidx_map \in [Slots -> Slots \cup {None}]
    /\ s2c = Idle \/ s2c \in [kind : Kinds, h : Handshakes, e : Slots]
    /\ init \in [Handshakes -> {"new", "asked", "answered"}] /\ open \subseteq Handshakes
    /\ met \subseteq Peers /\ newest \in [Handshakes -> 0..(MaxCtr + 1)]
    /\ spoiled \subseteq Spoils

Init ==
    /\ sessions = [s \in Slots |-> [valid |-> FALSE, idx |-> None, addr |-> None, peer_slot |-> None,
                                    sidx |-> None, ctr_sidx |-> None, ctr_next |-> 0]]
    /\ sidx_map = [s \in Slots |-> None]
    /\ s2c = Idle
    /\ init = [h \in Handshakes |-> "new"] /\ open = {} /\ met = {}
    /\ newest = [h \in Handshakes |-> 0]
    /\ spoiled = {}

-----------------------------------------------------------------------------
(* The first slot in a range that will do, None when none does.            *)
First(S, Will(_)) ==
    IF \E i \in S : Will(i) THEN CHOOSE i \in S : Will(i) /\ \A j \in S : Will(j) => i <= j ELSE None

Probe(h, i) == (Home[h] + i) % Size

MutGetEntry(h) ==
    LET Here(i) == sessions[Probe(h, i)].valid
        i == First(0..(Ways - 1), Here)
    IN  IF i = None THEN None ELSE Probe(h, i)

(* session_get_entry                                                       *)
session_get_entry(h) ==
    LET Here(i) == sessions[Probe(h, i)].valid /\ sessions[Probe(h, i)].idx = h
        i == First(0..(Ways - 1), Here)
    IN  IF i = None THEN None ELSE Probe(h, i)

(* session_find_sole_entry: all entries have one address.                  *)
session_find_sole_entry ==
    LET Valid(s) == sessions[s].valid
        f == First(Slots, Valid)
    IN  IF f # None /\ \A s \in Slots : Valid(s) => sessions[s].addr = sessions[f].addr THEN f ELSE None

(* session_find_by_peer                                                    *)
session_find_by_peer(p) ==
    LET Labelled(s) == sessions[s].valid /\ sessions[s].peer_slot = p
    IN  First(Slots, Labelled)

(* session_put_prof: the first slot that is free or the index's own, else  *)
(* the home slot is taken from whoever has it.                             *)
PutSlot(h) ==
    LET Usable(i) == ~sessions[Probe(h, i)].valid \/ sessions[Probe(h, i)].idx = h
        i == First(0..(Ways - 1), Usable)
    IN  IF i = None THEN Home[h] ELSE Probe(h, i)

MutPutEntry(h, from) == [sessions[PutSlot(h)] EXCEPT !.valid = TRUE, !.idx = h, !.addr = from]

(* A refreshed entry keeps its label and server index; every entry keeps   *)
(* the counter fields of whoever had the slot.                             *)
PutEntry(h, from) ==
    LET o == sessions[PutSlot(h)]
        kept == o.valid /\ o.idx = h
    IN  [o EXCEPT !.valid = TRUE, !.idx = h, !.addr = from,
                  !.peer_slot = IF kept THEN o.peer_slot ELSE None,
                  !.sidx = IF kept THEN o.sidx ELSE None]

PutSpoils(h) ==
    LET o == sessions[PutSlot(h)]
    IN  (IF o.valid /\ o.idx # h /\ o.peer_slot # None THEN {"evict"} ELSE {})
        \cup (IF s2c.e = PutSlot(h) /\ o.idx # h THEN {"reuse"} ELSE {})

(***************************************************************************)
(* c2s_thread_reverse                                                      *)
(***************************************************************************)

(* A client's init: its index is recorded, the packet goes on to our       *)
(* WireGuard, which answers an index once.                                 *)
C2sInit(h, from) ==
    /\ h \notin Started
    /\ sessions' = [sessions EXCEPT ![PutSlot(h)] = PutEntry(h, from)]
    /\ spoiled' = spoiled \cup PutSpoils(h)
    /\ init' = [init EXCEPT ![h] = IF @ = "new" THEN "asked" ELSE @]
    /\ UNCHANGED <<sidx_map, s2c, open, met, newest>>

(* A client's answer to an init of our WireGuard carries both indices.     *)
C2sResp(h, from) ==
    /\ h \in Started \cap open
    /\ sessions' = [sessions EXCEPT ![PutSlot(h)] = [PutEntry(h, from) EXCEPT !.sidx = h]]
    /\ sidx_map' = [sidx_map EXCEPT ![ServerHome[h]] = PutSlot(h)]
    /\ spoiled' = spoiled \cup PutSpoils(h)
    /\ UNCHANGED <<s2c, init, open, met, newest>>

(* session_get_by_server_index                                             *)
session_get_by_server_index(h) ==
    LET e == sidx_map[ServerHome[h]]
    IN  IF e = None \/ ~sessions[e].valid \/ sessions[e].sidx # h THEN None ELSE e

MutBelieved(e, h, ctr) == TRUE

(* Newer than anything the session has carried, and not by a leap.         *)
Believed(e, h, ctr) ==
    LET next == IF e.ctr_sidx = h THEN e.ctr_next ELSE 0
    IN  next = 0 \/ (ctr >= next /\ ctr - next <= Leap)

NextCtr(e, ctr) == ctr + 1

(* The entries at an address move together: they are one client.           *)
Moved(old, from) ==
    [s \in Slots |-> IF sessions[s].valid /\ sessions[s].addr = old
                     THEN [sessions[s] EXCEPT !.addr = from] ELSE sessions[s]]

(* Transport: session_follow_client.                                       *)
C2sData(h, from, ctr) ==
    /\ h \in open
    /\ LET e == session_get_by_server_index(h)
       IN  /\ e # None /\ Believed(sessions[e], h, ctr)
           /\ sessions' = [Moved(sessions[e].addr, from) EXCEPT ![e].ctr_sidx = h, ![e].ctr_next = NextCtr(sessions[e], ctr)]
    /\ newest' = [newest EXCEPT ![h] = ctr + 1]
    /\ UNCHANGED <<sidx_map, s2c, init, open, met, spoiled>>

-----------------------------------------------------------------------------
(***************************************************************************)
(* process_s2c_pkt_reverse                                                 *)
(***************************************************************************)

(* What our WireGuard may send: transport on an open session, one answer   *)
(* to an init, a cookie for one, an init of its own.                       *)
ServerSends(kind, h) ==
    \/ kind = "data" /\ h \in open
    \/ kind \in {"resp", "cookie"} /\ init[h] = "asked"
    \/ kind = "init" /\ h \in Started

(* The peer of an init is named by MAC1 if its key is listed, and its      *)
(* label leads to it; otherwise the sole client is taken.                  *)
InitDest(h) ==
    LET e == IF PeerOf[h] \in Listed THEN session_find_by_peer(PeerOf[h]) ELSE None
    IN  IF e # None THEN e ELSE session_find_sole_entry

Dest(kind, h) == IF kind = "init" THEN InitDest(h) ELSE session_get_entry(h)

(* The lookup. Without an entry the packet is dropped.                     *)
S2cRoute(kind, h) ==
    /\ s2c = Idle
    /\ ServerSends(kind, h)
    /\ LET e == Dest(kind, h)
       IN  s2c' = IF e = None THEN Idle ELSE [kind |-> kind, h |-> h, e |-> e]
    /\ init' = IF kind = "resp" THEN [init EXCEPT ![h] = "answered"] ELSE init
    /\ UNCHANGED <<sessions, sidx_map, open, met, newest, spoiled>>

(* The label of the entry once the packet is handled: an init with a       *)
(* listed peer always sets it, a response only where there is none.        *)
Label ==
    LET old == sessions[s2c.e].peer_slot
        new == PeerOf[s2c.h]
    IN  IF new \in Listed /\ (s2c.kind = "init" \/ (s2c.kind = "indexed" /\ old = None)) THEN new ELSE old

MutDrops(s) == sessions[s].peer_slot = Label

(* session_drop_moved_peer: the peer's entries at other addresses.         *)
Drops(s) == sessions[s].peer_slot = Label /\ sessions[s].addr # sessions[s2c.e].addr

(* session_set_server_index: an answer's own index, before anything else.  *)
S2cIndex ==
    /\ s2c # Idle /\ s2c.kind = "resp"
    /\ sessions' = [sessions EXCEPT ![s2c.e].sidx = s2c.h]
    /\ sidx_map' = [sidx_map EXCEPT ![ServerHome[s2c.h]] = s2c.e]
    /\ s2c' = [s2c EXCEPT !.kind = "indexed"]
    /\ UNCHANGED <<init, open, met, newest, spoiled>>

(* A handshake packet: the label, and what the peer left elsewhere; then   *)
(* it is sent. It ends the handshake if its own client gets it.            *)
S2cHandshake ==
    /\ s2c # Idle /\ s2c.kind \in {"indexed", "cookie", "init"}
    /\ sessions' =
         [s \in Slots |->
            [sessions[s] EXCEPT
               !.valid = @ /\ ~(Label # None /\ Drops(s)),
               !.peer_slot = IF s = s2c.e THEN Label ELSE @]]
    /\ open' = IF s2c.kind # "cookie" /\ sessions[s2c.e].addr \in AddrOf[PeerOf[s2c.h]]
               THEN open \cup {s2c.h} ELSE open
    /\ met' = IF Label = None THEN met ELSE met \cup {Label}
    /\ spoiled' = IF s2c.kind = "init" /\ sessions[s2c.e].addr \notin AddrOf[PeerOf[s2c.h]]
                  THEN spoiled \cup {"sole"} ELSE spoiled
    /\ s2c' = Idle
    /\ UNCHANGED <<sidx_map, init, newest>>

(* Transport is sent as it is.                                             *)
S2cData ==
    /\ s2c # Idle /\ s2c.kind = "data"
    /\ s2c' = Idle
    /\ UNCHANGED <<sessions, sidx_map, init, open, met, newest, spoiled>>

C2sNext ==
    \E h \in Handshakes : \E from \in AddrOf[PeerOf[h]] :
        C2sInit(h, from) \/ C2sResp(h, from) \/ \E ctr \in 0..MaxCtr : C2sData(h, from, ctr)

S2cNext == S2cIndex \/ S2cHandshake \/ S2cData \/ \E kind \in Kinds, h \in Handshakes : S2cRoute(kind, h)

Next == C2sNext \/ S2cNext

Spec == Init /\ [][Next]_vars

-----------------------------------------------------------------------------
(* Every entry describes one client: its address, its label and its server *)
(* index belong to whoever drew its index, through moves, rekeys, retired  *)
(* and reused slots. Only a slot taken from under s2c and an init sent to  *)
(* the sole client of another key can mix two clients in one entry.        *)
OneClientPerEntry ==
    /\ TypeOK
    /\ spoiled \cap {"reuse", "sole"} = {} =>
        \A s \in Slots : LET e == sessions[s] IN
            e.valid => /\ e.addr \in AddrOf[PeerOf[e.idx]]
                       /\ e.peer_slot \in {None, PeerOf[e.idx]}
                       /\ e.sidx \in {None, e.idx}

(* What s2c is about to send goes to an address of the client it is for,   *)
(* whatever c2s did to the table since the lookup.                         *)
RepliesReachTheirClient ==
    s2c # Idle /\ s2c.kind # "init" /\ "reuse" \notin spoiled =>
        sessions[s2c.e].addr \in AddrOf[PeerOf[s2c.h]]

(* A peer that a handshake has identified stays within reach of an init of *)
(* our WireGuard: moves and rekeys retire its entries but never the last   *)
(* one ("every server-initiated handshake is dropped from then on" was the *)
(* failure session_drop_moved_peer is there for).                          *)
PeerStaysInReach ==
    spoiled = {} => \A p \in met : \E s \in Slots :
        /\ sessions[s].valid /\ sessions[s].peer_slot = p
        /\ sessions[s].addr \in AddrOf[p]

(* A transport packet moves a client's entries only if it is newer than    *)
(* all its session has believed, although the counter is kept in a slot    *)
(* that is refreshed, retired and given to other sessions meanwhile.       *)
OnlyNewerMoves ==
    [][(\E s \in Slots : sessions'[s].addr # sessions[s].addr) =>
          ~ \E h \in Handshakes \ Started : \E from \in AddrOf[PeerOf[h]], ctr \in 0..(newest[h] - 1) :
                C2sData(h, from, ctr)]_vars

(* session_drop_moved_peer: what a handshake of a peer retires is its own, *)
(* "provably dead: that client is not there any more".                     *)
RetiredIsMoved ==
    [][\A s \in Slots : sessions[s].valid /\ ~sessions'[s].valid =>
          PeerOf[sessions[s].idx] = PeerOf[s2c.h]]_vars
=============================================================================
