------------------------------ MODULE Transform ------------------------------
(***************************************************************************)
(* How a WireGuard message is dressed for the wire and recognised again:   *)
(* padding S1-S4, type ranges H1-H4, the header protection of AWG 3.0 and  *)
(* the random trailer of 3.1 (transform.c, and the transport fast paths of *)
(* proxy.c).                                                               *)
(*                                                                         *)
(* A datagram is its length, where in it the message starts, and what can  *)
(* be read there: the type, in the clear or under the keystream.  Four     *)
(* bytes read at any other place, or unmasked when they are masked or the  *)
(* reverse, are random bytes; Garbage, which no range holds, stands for    *)
(* them.                                                                   *)
(***************************************************************************)
EXTENDS Integers, Sequences, FiniteSetsExt

WG_INIT_SIZE == 148
WG_RESP_SIZE == 92
WG_COOKIE_SIZE == 64
WG_TRANSPORT_MIN == 32
AWG_PACKET_BUF_SIZE == 1500
AWG_PACKET_HEADROOM == 256
AWG_HP_MIN_PADDING == 12
AWG_DEFAULT_UDP_WINDOW == 500

Handshakes == {"init", "resp", "cookie"}
Kinds      == Handshakes \cup {"data"}
WgSize  == [init |-> WG_INIT_SIZE, resp |-> WG_RESP_SIZE, cookie |-> WG_COOKIE_SIZE]
WgType  == [init |-> 1, resp |-> 2, cookie |-> 3, data |-> 4]
Garbage == -1

(* parse_hrange takes no range upside down.                                *)
HRange  == {r \in [min : Nat, max : Nat] : r.min <= r.max}

(* awg_profile_t: s and h by kind of message, hp_on and rt.                *)
Profile == [s : [Kinds -> Nat], h : [Kinds -> HRange], hp : BOOLEAN, rt : BOOLEAN]

(* A message of WireGuard, and a datagram between the two proxies.         *)
Message == [kind : Kinds, len : Nat]
Packet  == [n : Nat, off : Nat, type : Nat, hp : BOOLEAN, msg : Message]

-----------------------------------------------------------------------------
(* The profile.                                                            *)

HContains(r, v) == v >= r.min /\ v <= r.max
HOverlaps(a, b) == a.min <= b.max /\ b.min <= a.max

MutValidProfile(pr) ==
    /\ \A k \in Handshakes : pr.s[k] <= AWG_PACKET_BUF_SIZE - WgSize[k]
    /\ pr.s["data"] <= AWG_PACKET_HEADROOM
    /\ pr.hp => \A k \in Kinds : pr.s[k] >= AWG_HP_MIN_PADDING

ValidProfile(pr) ==
    /\ \A k \in Handshakes : pr.s[k] <= AWG_PACKET_BUF_SIZE - WgSize[k]
    /\ pr.s["data"] <= AWG_PACKET_HEADROOM
    /\ pr.hp => \A k \in Kinds : pr.s[k] >= AWG_HP_MIN_PADDING
    /\ \A k, l \in Kinds : k # l => ~HOverlaps(pr.h[k], pr.h[l])

H4Noop(pr) ==
    /\ pr.h["data"] = [min |-> WgType["data"], max |-> WgType["data"]]
    /\ pr.s["data"] = 0 /\ ~pr.hp

(* init_total, resp_total, cookie_total.                                   *)
Total(pr, k) == pr.s[k] + WgSize[k]

SizeAmbiguous(pr) == \E k \in Handshakes : Total(pr, k) >= pr.s["data"] + WG_TRANSPORT_MIN

(* config_compute_max_s4: the room in front of every packet.               *)
MutMaxS4(chain) == chain[Min(DOMAIN chain)].s["data"]
MaxS4(chain) == Max({chain[j].s["data"] : j \in DOMAIN chain})

-----------------------------------------------------------------------------
(* Outbound.                                                               *)

(* trailer_len: a draw from 0 up to, not including, what is left of the    *)
(* window, itself never more than the packet buffer.  The shortest and the *)
(* longest draw stand for all of them.                                     *)
TrailerLens(pr, window, size) ==
    LET win == Min({window, AWG_PACKET_BUF_SIZE})
    IN  IF ~pr.rt \/ win <= size THEN {0} ELSE {0, win - size - 1}

(* hrange_pick; the two ends of a range stand for it.                      *)
HPicks(r) == {r.min, r.max}

(* transform_outbound_profile: the datagrams a message may become with     *)
(* room bytes in front of it.  A handshake always gets its padding (in     *)
(* hs_buf if need be), transport only where it fits, and without padding   *)
(* there is no nonce and no protection.  A cookie dropped by               *)
(* AWG_DISABLE_COOKIES is one the path has lost.                           *)
Outbound(pr, room, window, m) ==
    LET pad  == IF m.kind = "data" /\ pr.s["data"] > room THEN 0 ELSE pr.s[m.kind]
        size == pad + m.len
        tls  == IF m.kind = "data" THEN {0} ELSE TrailerLens(pr, window, size)
    IN  {[n |-> size + tl, off |-> pad, type |-> t, hp |-> pr.hp /\ pad > 0, msg |-> m] :
            tl \in tls, t \in HPicks(pr.h[m.kind])}

(* The transport fast path of c2s, from the fields it reads one by one.    *)
FastOutbound(s4, hp, noop, h4, m) ==
    {[n |-> s4 + m.len, off |-> s4, type |-> t, hp |-> hp, msg |-> m] :
        t \in IF noop THEN {WgType["data"]} ELSE HPicks(h4)}

-----------------------------------------------------------------------------
(* Inbound.                                                                *)

Read(pkt, off, hp) == IF pkt.off = off /\ pkt.hp = hp THEN pkt.type ELSE Garbage

Nothing == [kind |-> "none", len |-> 0]

SizeFits(pr, n, k) == n = Total(pr, k) \/ (pr.rt /\ n > Total(pr, k))

IsHandshake(pr, pkt, k) ==
    SizeFits(pr, pkt.n, k) /\ HContains(pr.h[k], Read(pkt, pr.s[k], pr.hp))

IsTransport(s4, hp, h4, pkt) ==
    pkt.n >= s4 + WG_TRANSPORT_MIN /\ HContains(h4, Read(pkt, s4, hp))

(* transform_inbound_profile: handshakes by size and type in this order,   *)
(* each cut to its own length, transport last.                             *)
Inbound(pr, pkt) ==
    IF H4Noop(pr) /\ Read(pkt, 0, FALSE) = WgType["data"] /\ pkt.n >= WG_TRANSPORT_MIN
    THEN [kind |-> "data", len |-> pkt.n]
    ELSE LET order == <<"init", "resp", "cookie">>
             hits  == {o \in 1..3 : IsHandshake(pr, pkt, order[o])}
             first == order[Min(hits)]
         IN  IF hits # {} THEN [kind |-> first, len |-> WgSize[first]]
             ELSE IF IsTransport(pr.s["data"], pr.hp, pr.h["data"], pkt)
                  THEN [kind |-> "data", len |-> pkt.n - pr.s["data"]]
                  ELSE Nothing

(* The transport fast path of both inbound loops, from the fields it reads *)
(* one by one: not for a length that a handshake has exactly.              *)
FastInbound(s4, hp, h4, ambiguous, totals, pkt) ==
    IF (~ambiguous \/ pkt.n \notin totals) /\ IsTransport(s4, hp, h4, pkt)
    THEN [kind |-> "data", len |-> pkt.n - s4]
    ELSE Nothing

Totals(pr) == {Total(pr, k) : k \in Handshakes}

(* What a proxy makes of a datagram with one profile: the fast path, then  *)
(* the rest.                                                               *)
Receive(pr, pkt) ==
    LET fast == FastInbound(pr.s["data"], pr.hp, pr.h["data"], SizeAmbiguous(pr), Totals(pr), pkt)
    IN  IF fast # Nothing THEN fast ELSE Inbound(pr, pkt)
==============================================================================
