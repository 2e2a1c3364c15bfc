-------------------------- MODULE Profiles_proofs --------------------------
(***************************************************************************)
(* What a proxy makes of a datagram, for every chain of valid profiles and *)
(* every length of a message.                                              *)
(***************************************************************************)
EXTENDS Profiles, WellFoundedInduction, TLAPS

(* A datagram carries its message whole, under a type that some stage of   *)
(* the chain gives such a message, and fits where it is put together.      *)
Dressed(pkt) ==
    /\ pkt \in Packet
    /\ IF pkt.msg.kind = "data"
       THEN pkt.n = pkt.off + pkt.msg.len /\ pkt.off <= AWG_PACKET_HEADROOM
       ELSE pkt.msg.len = WgSize[pkt.msg.kind] /\ pkt.n <= AWG_PACKET_BUF_SIZE
    /\ \E j \in Stages : HContains(Stage(j).h[pkt.msg.kind], pkt.type)

Readable(pkt) == \E j \in Stages : Receive(Stage(j), pkt) = pkt.msg

(* What is under way.                                                      *)
Net ==
    /\ \A pkt \in out \cup back : Dressed(pkt)
    /\ \A pkt \in back : Readable(pkt)
    /\ \A pkt \in out : pkt.msg.kind # "data" => Readable(pkt)

(* A batch has both its words.                                             *)
HoistWhole == hoist = NoBatch \/ hoist \in [s4 : Stages, hp : Stages]

(* In server mode nothing is owed to a client without a stage: all there   *)
(* can be before the first handshake is read is that handshake.            *)
EntryFirst ==
    site.mode = "server" =>
        /\ \A o \in owed : o.prof # NoStage
        /\ entry = NoStage => /\ ~up /\ ~answering /\ hoist = NoBatch /\ back = {} /\ owed = {}
                              /\ \A pkt \in out : pkt.msg.kind = "init"

PInv == TypeOK /\ Net /\ HoistWhole /\ EntryFirst

-----------------------------------------------------------------------------
(* The numbers.                                                            *)

(* A nonempty set of natural numbers has a least element.                  *)
LEMMA LeastNat ==
    ASSUME NEW T, T \subseteq Nat, T # {}
    PROVE  \E x \in T : \A y \in T : x <= y
<1> DEFINE R == {p \in Nat \X Nat : p[1] < p[2]}
<1>1. IsWellFoundedOn(R, Nat)
  BY NatLessThanWellFounded DEF OpToRel
<1>2. \A x, y \in Nat : <<y, x>> \in R <=> y < x
  OBVIOUS
<1> HIDE DEF R
<1>3. PICK x \in T : \A y \in T : ~(<<y, x>> \in R)
  BY <1>1, WFMin
<1>4. ASSUME NEW y \in T PROVE x <= y
  <2>1. x \in Nat /\ y \in Nat
    OBVIOUS
  <2>2. ~(y < x)
    BY <1>2, <1>3, <2>1
  <2> QED
    BY <2>1, <2>2
<1> QED
  BY <1>4

(* The least element is what Min names.                                    *)
LEMMA MinIs ==
    ASSUME NEW T, T \subseteq Nat, T # {}
    PROVE  Min(T) \in T /\ \A y \in T : Min(T) <= y
BY LeastNat DEF Min

(* A bounded set has a greatest element, and that is what Max names.       *)
LEMMA MaxIs ==
    ASSUME NEW T, T \subseteq Nat, T # {}, NEW b \in Nat, \A y \in T : y <= b
    PROVE  Max(T) \in T /\ \A y \in T : y <= Max(T)
<1> DEFINE U == {u \in Nat : \A y \in T : y <= u}
<1>1. U \subseteq Nat /\ b \in U
  OBVIOUS
<1>2. PICK u \in U : \A v \in U : u <= v
  <2> HIDE DEF U
  <2> QED
    BY <1>1, LeastNat
<1>3. u \in Nat /\ \A y \in T : y <= u
  OBVIOUS
<1>4. u \in T
  <2> SUFFICES ASSUME u \notin T PROVE FALSE
    OBVIOUS
  <2>1. \A y \in T : y \in Nat /\ y < u
    BY <1>3
  <2>2. u > 0
    <3>1. PICK y \in T : TRUE
      OBVIOUS
    <3>2. y \in Nat /\ y < u
      BY <2>1
    <3> QED
      BY <1>3, <3>2
  <2>3. u - 1 \in U
    BY <1>3, <2>1, <2>2
  <2> QED
    BY <1>2, <1>3, <2>3
<1>5. \E x \in T : \A y \in T : x >= y
  BY <1>3, <1>4
<1>6. Max(T) \in T /\ \A y \in T : Max(T) >= y
  BY <1>5 DEF Max
<1> QED
  BY <1>6

(* The sizes of WireGuard's messages.                                      *)
LEMMA Sizes ==
    /\ WgSize["init"] = 148 /\ WgSize["resp"] = 92 /\ WgSize["cookie"] = 64
    /\ \A k \in Handshakes : WgSize[k] \in 64..148
    /\ WgType["data"] = 4
BY DEF WgSize, WgType, Handshakes, WG_INIT_SIZE, WG_RESP_SIZE, WG_COOKIE_SIZE

-----------------------------------------------------------------------------
(* What a profile makes of a datagram.                                     *)

(* Bytes that are in a range were read where the type is.                  *)
LEMMA ReadWhereItIs ==
    ASSUME NEW r \in HRange, NEW pkt, NEW off, NEW hp, HContains(r, Read(pkt, off, hp))
    PROVE  pkt.off = off /\ pkt.hp = hp /\ HContains(r, pkt.type)
BY DEF HContains, Read, Garbage, HRange

(* transform_inbound_profile, its outcomes.                                *)
LEMMA InboundIs ==
    ASSUME NEW pr, NEW pkt
    PROVE  \/ /\ H4Noop(pr) /\ Read(pkt, 0, FALSE) = WgType["data"]
              /\ pkt.n >= WG_TRANSPORT_MIN
              /\ Inbound(pr, pkt) = [kind |-> "data", len |-> pkt.n]
           \/ \E k \in Handshakes : /\ IsHandshake(pr, pkt, k)
                                    /\ Inbound(pr, pkt) = [kind |-> k, len |-> WgSize[k]]
           \/ /\ IsTransport(pr.s["data"], pr.hp, pr.h["data"], pkt)
              /\ Inbound(pr, pkt) = [kind |-> "data", len |-> pkt.n - pr.s["data"]]
           \/ /\ Inbound(pr, pkt) = Nothing
              /\ \A k \in Handshakes : ~IsHandshake(pr, pkt, k)
              /\ ~IsTransport(pr.s["data"], pr.hp, pr.h["data"], pkt)
<1> DEFINE order == <<"init", "resp", "cookie">>
           hits  == {o \in 1..3 : IsHandshake(pr, pkt, order[o])}
<1>1. \A o \in 1..3 : order[o] \in Handshakes
  BY DEF Handshakes
<1>2. \A k \in Handshakes : \E o \in 1..3 : order[o] = k
  BY DEF Handshakes
<1>3. hits # {} => Min(hits) \in hits
  BY MinIs
<1>4. CASE H4Noop(pr) /\ Read(pkt, 0, FALSE) = WgType["data"] /\ pkt.n >= WG_TRANSPORT_MIN
  BY <1>4 DEF Inbound
<1>5. CASE ~(H4Noop(pr) /\ Read(pkt, 0, FALSE) = WgType["data"] /\ pkt.n >= WG_TRANSPORT_MIN)
  <2>1. CASE hits # {}
    <3>1. Inbound(pr, pkt) = [kind |-> order[Min(hits)], len |-> WgSize[order[Min(hits)]]]
      BY <1>5, <2>1 DEF Inbound
    <3>2. order[Min(hits)] \in Handshakes /\ IsHandshake(pr, pkt, order[Min(hits)])
      BY <1>1, <1>3, <2>1
    <3> QED
      BY <3>1, <3>2
  <2>2. CASE hits = {}
    <3>1. Inbound(pr, pkt) = IF IsTransport(pr.s["data"], pr.hp, pr.h["data"], pkt)
                             THEN [kind |-> "data", len |-> pkt.n - pr.s["data"]]
                             ELSE Nothing
      BY <1>5, <2>2 DEF Inbound
    <3>2. \A k \in Handshakes : ~IsHandshake(pr, pkt, k)
      BY <1>2, <2>2
    <3> QED
      BY <3>1, <3>2
  <2> QED
    BY <2>1, <2>2
<1> QED
  BY <1>4, <1>5

(* The ranges of a valid profile tell its messages apart.                  *)
LEMMA OneKind ==
    ASSUME NEW pr \in Profile, ValidProfile(pr), NEW k \in Kinds, NEW m \in Kinds, NEW t \in Nat,
           HContains(pr.h[k], t), HContains(pr.h[m], t)
    PROVE  k = m
<1>1. pr.h[k] \in HRange /\ pr.h[m] \in HRange
  BY DEF Profile
<1>2. HOverlaps(pr.h[k], pr.h[m])
  BY <1>1 DEF HContains, HOverlaps, HRange
<1> QED
  BY <1>2 DEF ValidProfile

(* trailer_len: nothing without random trailers, and never past the packet *)
(* buffer.                                                                 *)
LEMMA TrailerFits ==
    ASSUME NEW pr, NEW window \in Nat, NEW size \in Nat, size <= AWG_PACKET_BUF_SIZE,
           NEW tl \in TrailerLens(pr, window, size)
    PROVE  tl \in Nat /\ size + tl <= AWG_PACKET_BUF_SIZE /\ (tl = 0 \/ pr.rt)
<1> DEFINE win == Min({window, AWG_PACKET_BUF_SIZE})
<1>1. win \in Nat /\ win <= AWG_PACKET_BUF_SIZE
  <2>1. {window, AWG_PACKET_BUF_SIZE} \subseteq Nat
    BY DEF AWG_PACKET_BUF_SIZE
  <2>2. win \in {window, AWG_PACKET_BUF_SIZE} /\ win <= AWG_PACKET_BUF_SIZE
    BY <2>1, MinIs
  <2> QED
    BY <2>1, <2>2
<1>2. tl \in IF ~pr.rt \/ win <= size THEN {0} ELSE {0, win - size - 1}
  BY DEF TrailerLens
<1> HIDE DEF win
<1>3. CASE tl = 0
  BY <1>3
<1>4. CASE tl # 0
  <2>1. pr.rt /\ ~(win <= size) /\ tl = win - size - 1
    BY <1>2, <1>4
  <2> QED
    BY <1>1, <2>1 DEF AWG_PACKET_BUF_SIZE
<1> QED
  BY <1>3, <1>4

(* What transform_outbound_profile may be given: transport of any length   *)
(* WireGuard sends, a handshake of its own length.                         *)
Proper(m) ==
    /\ m \in Message
    /\ IF m.kind = "data" THEN m.len >= WG_TRANSPORT_MIN ELSE m.len = WgSize[m.kind]

(* transform_outbound_profile: padding, protection, type and length of a   *)
(* message are those of the profile, and a handshake fits the buffer.      *)
LEMMA OutboundIs ==
    ASSUME NEW pr \in Profile, ValidProfile(pr), NEW room \in Nat, pr.s["data"] <= room,
           NEW window \in Nat, NEW m, Proper(m), NEW pkt \in Outbound(pr, room, window, m)
    PROVE  /\ pkt \in Packet /\ pkt.msg = m
           /\ pkt.off = pr.s[m.kind] /\ pkt.hp = pr.hp /\ HContains(pr.h[m.kind], pkt.type)
           /\ m.kind = "data" => pkt.n = pkt.off + m.len /\ pkt.off <= AWG_PACKET_HEADROOM
           /\ m.kind # "data" => /\ pkt.n <= AWG_PACKET_BUF_SIZE
                                 /\ SizeFits(pr, pkt.n, m.kind)
<1> DEFINE pad  == IF m.kind = "data" /\ pr.s["data"] > room THEN 0 ELSE pr.s[m.kind]
           size == pad + m.len
           tls  == IF m.kind = "data" THEN {0} ELSE TrailerLens(pr, window, size)
<1>1. m.kind \in Kinds /\ m.len \in Nat /\ pr.s \in [Kinds -> Nat] /\ pr.h \in [Kinds -> HRange]
      /\ pr.hp \in BOOLEAN /\ "data" \in Kinds
  BY DEF Proper, Message, Profile, Kinds
<1>2. PICK tl \in tls, t \in HPicks(pr.h[m.kind]) :
         pkt = [n |-> size + tl, off |-> pad, type |-> t, hp |-> pr.hp /\ pad > 0, msg |-> m]
  <2>1. pkt \in {[n |-> size + tl, off |-> pad, type |-> t, hp |-> pr.hp /\ pad > 0, msg |-> m] :
                    tl \in tls, t \in HPicks(pr.h[m.kind])}
    BY DEF Outbound
  <2> HIDE DEF pad, size, tls
  <2> QED
    BY <2>1
<1>3. pad = pr.s[m.kind] /\ pad \in Nat /\ size \in Nat
  BY <1>1
<1>4. t \in Nat /\ HContains(pr.h[m.kind], t)
  BY <1>1 DEF HPicks, HContains, HRange
<1>5. (pr.hp /\ pad > 0) = pr.hp
  <2>1. pr.hp => pad > 0
    BY <1>1, <1>3 DEF ValidProfile, AWG_HP_MIN_PADDING
  <2> QED
    BY <1>1, <2>1
<1>6. CASE m.kind = "data"
  <2>1. tl = 0
    BY <1>6
  <2>2. pad <= AWG_PACKET_HEADROOM
    BY <1>3, <1>6 DEF ValidProfile
  <2> HIDE DEF pad
  <2> QED
    BY <1>1, <1>2, <1>3, <1>4, <1>5, <1>6, <2>1, <2>2 DEF Packet, Proper
<1>7. CASE m.kind # "data"
  <2>1. m.kind \in Handshakes /\ m.len = WgSize[m.kind]
    BY <1>1, <1>7 DEF Kinds, Proper
  <2>2. size = Total(pr, m.kind) /\ size <= AWG_PACKET_BUF_SIZE
    <3>1. pr.s[m.kind] <= AWG_PACKET_BUF_SIZE - WgSize[m.kind]
      BY <2>1 DEF ValidProfile
    <3> HIDE DEF pad
    <3> QED
      BY <1>1, <1>3, <2>1, <3>1 DEF Total, AWG_PACKET_BUF_SIZE
  <2>3. tl \in TrailerLens(pr, window, size)
    BY <1>7
  <2> HIDE DEF pad, size
  <2>4. tl \in Nat /\ size + tl <= AWG_PACKET_BUF_SIZE /\ (tl = 0 \/ pr.rt)
    BY <1>3, <2>2, <2>3, TrailerFits
  <2>5. SizeFits(pr, size + tl, m.kind)
    BY <1>3, <2>2, <2>4 DEF SizeFits
  <2>6. size + tl \in Nat
    BY <1>3, <2>4
  <2> QED
    BY <1>1, <1>2, <1>3, <1>4, <1>5, <1>7, <2>4, <2>5, <2>6 DEF Packet, Proper
<1> QED
  BY <1>6, <1>7

(* What transform_outbound_profile makes of a message, a proxy on the same *)
(* profile reads as that message: the fast path and                        *)
(* transform_inbound_profile undo it, whatever the padding, the ranges,    *)
(* header protection and trailers of a profile config_validate_profile     *)
(* accepts.                                                                *)
THEOREM RoundTrip ==
    ASSUME NEW pr \in Profile, ValidProfile(pr), NEW room \in Nat, pr.s["data"] <= room,
           NEW window \in Nat, NEW m, Proper(m), NEW pkt \in Outbound(pr, room, window, m)
    PROVE  Receive(pr, pkt) = m
<1>1. /\ pkt \in Packet /\ pkt.msg = m
      /\ pkt.off = pr.s[m.kind] /\ pkt.hp = pr.hp /\ HContains(pr.h[m.kind], pkt.type)
      /\ m.kind = "data" => pkt.n = pkt.off + m.len
      /\ m.kind # "data" => SizeFits(pr, pkt.n, m.kind)
  BY OutboundIs
<1>2. /\ m.kind \in Kinds /\ m.len \in Nat /\ "data" \in Kinds /\ Handshakes \subseteq Kinds
      /\ pkt.n \in Nat /\ pkt.off \in Nat /\ pkt.type \in Nat
      /\ m = [kind |-> m.kind, len |-> m.len]
  BY <1>1 DEF Proper, Message, Packet, Kinds
<1>3. \A k \in Kinds : HContains(pr.h[k], Read(pkt, pr.s[k], pr.hp)) => k = m.kind
  <2> SUFFICES ASSUME NEW k \in Kinds, HContains(pr.h[k], Read(pkt, pr.s[k], pr.hp))
               PROVE  k = m.kind
    OBVIOUS
  <2>1. pr.h[k] \in HRange
    BY DEF Profile
  <2>2. HContains(pr.h[k], pkt.type)
    BY <2>1, ReadWhereItIs
  <2> QED
    BY <1>1, <1>2, <2>2, OneKind
<1>4. Read(pkt, pr.s[m.kind], pr.hp) = pkt.type
  BY <1>1 DEF Read
<1> DEFINE fast == FastInbound(pr.s["data"], pr.hp, pr.h["data"], SizeAmbiguous(pr), Totals(pr), pkt)
<1>5. Receive(pr, pkt) = IF fast # Nothing THEN fast ELSE Inbound(pr, pkt)
  BY DEF Receive
<1>6. CASE m.kind = "data"
  <2>1. pr.s["data"] \in Nat /\ m.len >= WG_TRANSPORT_MIN
    BY <1>2, <1>6 DEF Profile, Proper
  <2>2. IsTransport(pr.s["data"], pr.hp, pr.h["data"], pkt) /\ pkt.n - pr.s["data"] = m.len
    BY <1>1, <1>2, <1>4, <1>6, <2>1 DEF IsTransport, WG_TRANSPORT_MIN
  <2>3. fast \in {m, Nothing}
    BY <1>2, <1>6, <2>2 DEF FastInbound
  <2>4. \A k \in Handshakes : ~IsHandshake(pr, pkt, k)
    <3>1. "data" \notin Handshakes
      BY DEF Handshakes
    <3> QED
      BY <1>2, <1>3, <1>6, <3>1 DEF IsHandshake
  <2>5. H4Noop(pr) => pkt.n = m.len
    BY <1>1, <1>2, <1>6 DEF H4Noop
  <2>6. Inbound(pr, pkt) = m
    BY <1>2, <1>6, <2>2, <2>4, <2>5, InboundIs
  <2> HIDE DEF fast
  <2> QED
    BY <1>5, <2>3, <2>6
<1>7. CASE m.kind # "data"
  <2>1. ~IsTransport(pr.s["data"], pr.hp, pr.h["data"], pkt)
    BY <1>2, <1>3, <1>7 DEF IsTransport
  <2>2. fast = Nothing
    BY <2>1 DEF FastInbound
  <2>3. IsHandshake(pr, pkt, m.kind) /\ m.kind \in Handshakes /\ m.len = WgSize[m.kind]
    BY <1>1, <1>2, <1>4, <1>7 DEF IsHandshake, Kinds, Proper
  <2>4. \A k \in Handshakes : IsHandshake(pr, pkt, k) => k = m.kind
    BY <1>2, <1>3 DEF IsHandshake
  <2>5. ~(H4Noop(pr) /\ Read(pkt, 0, FALSE) = WgType["data"])
    <3> SUFFICES ASSUME H4Noop(pr), Read(pkt, 0, FALSE) = WgType["data"] PROVE FALSE
      OBVIOUS
    <3>1. pkt.type = 4
      BY Sizes DEF Read, Garbage
    <3>2. HContains(pr.h["data"], pkt.type)
      BY <3>1, Sizes DEF H4Noop, HContains
    <3> QED
      BY <1>1, <1>2, <1>7, <3>2, OneKind
  <2>6. PICK k \in Handshakes : /\ IsHandshake(pr, pkt, k)
                                /\ Inbound(pr, pkt) = [kind |-> k, len |-> WgSize[k]]
    BY <2>1, <2>3, <2>5, InboundIs
  <2>7. Inbound(pr, pkt) = [kind |-> m.kind, len |-> m.len]
    BY <2>3, <2>4, <2>6
  <2> HIDE DEF fast
  <2> QED
    BY <1>2, <1>5, <2>2, <2>7
<1> QED
  BY <1>6, <1>7

-----------------------------------------------------------------------------
(* Nothing is mistaken.                                                    *)

(* What config_validate_profile leaves of the configurations.              *)
LEMMA SiteGood ==
    ASSUME site \in GoodSites
    PROVE  /\ Stages \subseteq Nat /\ NoStage \notin Stages /\ 1 \in Stages
           /\ \A j \in Stages : Stage(j) \in Profile /\ ValidProfile(Stage(j))
           /\ \A j \in Stages : Stage(j).s["data"] \in 0..AWG_PACKET_HEADROOM
           /\ site.knows \subseteq Stages /\ site.knows # {}
           /\ site.mode \in {"reverse", "server"} /\ site.rough \in Nat
           /\ Stages = 1..Len(site.chain) /\ Len(site.chain) \in Nat
<1>1. site \in Sites /\ \A j \in Stages : ValidProfile(Stage(j))
  BY DEF GoodSites, Stages, Stage
<1>2. /\ site.chain \in Seq(Profile) /\ site.knows \subseteq Stages /\ site.knows # {}
      /\ site.mode \in {"reverse", "server"} /\ site.rough \in Nat
  BY <1>1, ProfilesAssumption DEF Stages
<1>3. Stages = 1..Len(site.chain) /\ Len(site.chain) \in Nat /\ \A j \in Stages : Stage(j) \in Profile
  BY <1>2 DEF Stages, Stage
<1>4. \A j \in Stages : Stage(j).s["data"] \in 0..AWG_PACKET_HEADROOM
  <2> SUFFICES ASSUME NEW j \in Stages PROVE Stage(j).s["data"] \in 0..AWG_PACKET_HEADROOM
    OBVIOUS
  <2>1. Stage(j).s["data"] <= AWG_PACKET_HEADROOM
    BY <1>1 DEF ValidProfile
  <2>2. Stage(j).s \in [Kinds -> Nat] /\ "data" \in Kinds
    BY <1>3 DEF Profile, Kinds
  <2> QED
    BY <2>1, <2>2 DEF AWG_PACKET_HEADROOM
<1>5. 1 \in Stages /\ NoStage \notin Stages
  BY <1>2, <1>3 DEF NoStage
<1> QED
  BY <1>1, <1>2, <1>3, <1>4, <1>5

(* A type tells the message, whichever stage is asked.                     *)
LEMMA KindTold ==
    ASSUME StagesApart, site \in GoodSites, NEW pkt, Dressed(pkt), NEW l \in Stages, NEW k \in Kinds,
           HContains(Stage(l).h[k], pkt.type)
    PROVE  k = pkt.msg.kind
<1> SUFFICES ASSUME k # pkt.msg.kind PROVE FALSE
  OBVIOUS
<1>1. PICK j \in Stages : HContains(Stage(j).h[pkt.msg.kind], pkt.type)
  BY DEF Dressed
<1>2. pkt.msg.kind \in Kinds /\ pkt.type \in Nat
  BY DEF Dressed, Packet, Message
<1>3. Stage(l).h[k] \in HRange /\ Stage(j).h[pkt.msg.kind] \in HRange
  BY <1>2, SiteGood DEF Profile
<1>4. HOverlaps(Stage(j).h[pkt.msg.kind], Stage(l).h[k])
  BY <1>1, <1>2, <1>3 DEF HContains, HOverlaps, HRange
<1>5. CASE j = l
  BY <1>2, <1>4, <1>5, SiteGood DEF ValidProfile
<1>6. CASE j # l
  <2>1. site \in Sites
    BY DEF GoodSites
  <2> QED
    BY <1>2, <1>4, <1>6, <2>1 DEF StagesApart, Stages, Stage
<1> QED
  BY <1>5, <1>6

(* The fast path, from words of any stages, makes the message of a         *)
(* datagram or nothing.                                                    *)
LEMMA FastNeverMistakes ==
    ASSUME StagesApart, site \in GoodSites, NEW pkt, Dressed(pkt),
           NEW a \in Stages, NEW b, NEW c \in Stages, NEW amb, NEW totals
    PROVE  FastInbound(Stage(a).s["data"], b, Stage(c).h["data"], amb, totals, pkt) \in {Nothing, pkt.msg}
<1> DEFINE s4 == Stage(a).s["data"]
           h4 == Stage(c).h["data"]
<1> SUFFICES ASSUME IsTransport(s4, b, h4, pkt) PROVE [kind |-> "data", len |-> pkt.n - s4] = pkt.msg
  BY DEF FastInbound
<1>1. "data" \in Kinds
  BY DEF Kinds
<1>2. h4 \in HRange
  BY <1>1, SiteGood DEF Profile
<1>3. pkt.off = s4 /\ HContains(h4, pkt.type)
  BY <1>2, ReadWhereItIs DEF IsTransport
<1>4. pkt.msg.kind = "data"
  BY <1>1, <1>3, KindTold
<1> QED
  BY <1>3, <1>4 DEF Dressed, Packet, Message

(* So does transform_inbound_profile, in any stage.                        *)
LEMMA InboundNeverMistakes ==
    ASSUME StagesApart, site \in GoodSites, NEW pkt, Dressed(pkt), NEW j \in Stages
    PROVE  Inbound(Stage(j), pkt) \in {Nothing, pkt.msg}
<1> DEFINE pr == Stage(j)
<1>1. pr \in Profile /\ "data" \in Kinds /\ Handshakes \subseteq Kinds /\ "data" \notin Handshakes
  BY SiteGood DEF Kinds, Handshakes
<1>2. /\ pkt.msg = [kind |-> pkt.msg.kind, len |-> pkt.msg.len] /\ pkt.msg.len \in Nat
      /\ pkt.n \in Nat /\ pkt.off \in Nat
  BY DEF Dressed, Packet, Message
<1>3. \A k \in Kinds : pr.h[k] \in HRange
  BY <1>1 DEF Profile
<1>4. CASE H4Noop(pr) /\ Read(pkt, 0, FALSE) = WgType["data"]
           /\ Inbound(pr, pkt) = [kind |-> "data", len |-> pkt.n]
  <2>1. pkt.off = 0 /\ pkt.type = 4
    BY <1>4, Sizes DEF Read, Garbage
  <2>2. HContains(pr.h["data"], pkt.type)
    BY <1>4, <2>1, Sizes DEF H4Noop, HContains
  <2>3. pkt.msg.kind = "data"
    BY <1>1, <2>2, KindTold
  <2>4. pkt.n = pkt.msg.len
    BY <1>2, <2>1, <2>3 DEF Dressed
  <2> QED
    BY <1>2, <1>4, <2>3, <2>4
<1>5. CASE \E k \in Handshakes : /\ IsHandshake(pr, pkt, k)
                                 /\ Inbound(pr, pkt) = [kind |-> k, len |-> WgSize[k]]
  <2>1. PICK k \in Handshakes : /\ IsHandshake(pr, pkt, k)
                                /\ Inbound(pr, pkt) = [kind |-> k, len |-> WgSize[k]]
    BY <1>5
  <2>2. HContains(pr.h[k], pkt.type)
    BY <1>1, <1>3, <2>1, ReadWhereItIs DEF IsHandshake
  <2>3. pkt.msg.kind = k
    BY <1>1, <2>2, KindTold
  <2>4. pkt.msg.len = WgSize[k]
    BY <1>1, <2>3 DEF Dressed
  <2> QED
    BY <1>2, <2>1, <2>3, <2>4
<1>6. CASE /\ IsTransport(pr.s["data"], pr.hp, pr.h["data"], pkt)
           /\ Inbound(pr, pkt) = [kind |-> "data", len |-> pkt.n - pr.s["data"]]
  <2>1. pkt.off = pr.s["data"] /\ HContains(pr.h["data"], pkt.type)
    BY <1>1, <1>3, <1>6, ReadWhereItIs DEF IsTransport
  <2>2. pkt.msg.kind = "data"
    BY <1>1, <2>1, KindTold
  <2>3. pkt.n - pr.s["data"] = pkt.msg.len
    BY <1>2, <2>1, <2>2 DEF Dressed
  <2> QED
    BY <1>2, <1>6, <2>2, <2>3
<1> QED
  BY <1>4, <1>5, <1>6, InboundIs

(* A stage reads the message of a datagram or nothing.                     *)
LEMMA ReceiveNeverMistakes ==
    ASSUME StagesApart, site \in GoodSites, NEW pkt, Dressed(pkt), NEW j \in Stages
    PROVE  Receive(Stage(j), pkt) \in {Nothing, pkt.msg}
BY FastNeverMistakes, InboundNeverMistakes DEF Receive

(* Whatever c2s and s2c read of the flat words is of a stage.              *)
LEMMA WordsAreStages ==
    ASSUME TypeOK
    PROVE  Words \subseteq Stages
BY DEF TypeOK, Words

(* The invariant says that nothing is mistaken.                            *)
LEMMA NothingMistaken ==
    ASSUME StagesApart, PInv
    PROVE  NeverMistaken
<1>1. TypeOK /\ site \in GoodSites /\ Words \subseteq Stages
  BY WordsAreStages DEF PInv, TypeOK
<1>2. \A pkt \in out, j \in site.knows : Receive(Stage(j), pkt) \in {Nothing, pkt.msg}
  BY <1>1, SiteGood, ReceiveNeverMistakes DEF PInv, Net
<1>3. ASSUME NEW pkt \in back, NEW x \in InitiatorReads(pkt)
      PROVE  x \in {Nothing, pkt.msg}
  <2>1. PICK w \in [s4 : Words, hp : Words, h4 : Words, totals : Words, active : Words] :
           x = LET fast == FastInbound(Stage(w.s4).s["data"], Stage(w.hp).hp, Stage(w.h4).h["data"],
                                       SizeAmbiguous(Stage(w.totals)), Totals(Stage(w.totals)), pkt)
               IN  IF fast # Nothing THEN fast ELSE Inbound(Stage(w.active), pkt)
    BY DEF InitiatorReads
  <2>2. w.s4 \in Stages /\ w.h4 \in Stages /\ w.active \in Stages /\ Dressed(pkt)
    BY <1>1 DEF PInv, Net
  <2>3. FastInbound(Stage(w.s4).s["data"], Stage(w.hp).hp, Stage(w.h4).h["data"],
                    SizeAmbiguous(Stage(w.totals)), Totals(Stage(w.totals)), pkt) \in {Nothing, pkt.msg}
    BY <1>1, <2>2, FastNeverMistakes
  <2>4. Inbound(Stage(w.active), pkt) \in {Nothing, pkt.msg}
    BY <1>1, <2>2, InboundNeverMistakes
  <2> QED
    BY <2>1, <2>3, <2>4
<1> QED
  BY <1>1, <1>2, <1>3 DEF NeverMistaken

-----------------------------------------------------------------------------
(* PInv is inductive.                                                      *)

(* The room in front of a packet is enough for the padding of any stage it *)
(* was computed over.                                                      *)
LEMMA RoomEnough ==
    ASSUME site \in GoodSites
    PROVE  /\ MaxS4(site.chain) \in Nat /\ \A j \in Stages : Stage(j).s["data"] <= MaxS4(site.chain)
           /\ Room \in Nat /\ \A j \in site.knows : Stage(j).s["data"] <= Room
<1> DEFINE pad(j) == Stage(j).s["data"]
           S == {pad(j) : j \in Stages}
           T == {pad(j) : j \in site.knows}
<1>0. AWG_PACKET_HEADROOM \in Nat
  BY DEF AWG_PACKET_HEADROOM
<1>1. /\ \A j \in Stages : pad(j) \in 0..AWG_PACKET_HEADROOM
      /\ site.knows \subseteq Stages /\ site.knows # {}
  BY SiteGood
<1>2. MaxS4(site.chain) = Max(S)
  BY DEF MaxS4, Stages, Stage
<1>3. Room = Max(T)
  <2> DEFINE f == [j \in site.knows |-> Stage(j)]
  <2>1. DOMAIN f = site.knows /\ \A j \in site.knows : f[j] = Stage(j)
    OBVIOUS
  <2>2. {f[j].s["data"] : j \in DOMAIN f} = T
    BY <2>1
  <2>3. Room = MaxS4(f)
    BY DEF Room
  <2> HIDE DEF f, T
  <2> QED
    BY <2>2, <2>3 DEF MaxS4
<1> HIDE DEF pad
<1>4. /\ S \subseteq Nat /\ S # {} /\ \A y \in S : y <= AWG_PACKET_HEADROOM
      /\ T \subseteq Nat /\ T # {} /\ \A y \in T : y <= AWG_PACKET_HEADROOM
      /\ \A j \in Stages : pad(j) \in S
      /\ \A j \in site.knows : pad(j) \in T
  BY <1>0, <1>1
<1> HIDE DEF S, T
<1>5. Max(S) \in S /\ \A y \in S : y <= Max(S)
  BY <1>0, <1>4, MaxIs
<1>6. Max(T) \in T /\ \A y \in T : y <= Max(T)
  BY <1>0, <1>4, MaxIs
<1>7. /\ MaxS4(site.chain) \in Nat /\ \A j \in Stages : pad(j) <= MaxS4(site.chain)
      /\ Room \in Nat /\ \A j \in site.knows : pad(j) <= Room
  BY <1>2, <1>3, <1>4, <1>5, <1>6
<1> QED
  BY <1>7 DEF pad

(* What WireGuard sends is proper.                                         *)
LEMMA WireGuardProper ==
    /\ \A k \in Handshakes : Proper(Handshake(k)) /\ Handshake(k).kind = k
    /\ \A len \in DataLens : Proper(Msg("data", len)) /\ Msg("data", len).kind = "data"
<1>1. \A k \in Handshakes : k \in Kinds /\ k # "data" /\ WgSize[k] \in Nat
  BY Sizes DEF Kinds, Handshakes
<1>2. "data" \in Kinds /\ \A len \in DataLens : len \in Nat /\ len >= WG_TRANSPORT_MIN
  BY ProfilesAssumption DEF Kinds
<1> QED
  BY <1>1, <1>2 DEF Proper, Handshake, Msg, Message

(* transform_outbound_profile in a stage of the chain.                     *)
LEMMA OutboundDressed ==
    ASSUME site \in GoodSites, NEW j \in Stages, NEW room \in Nat, Stage(j).s["data"] <= room,
           NEW m, Proper(m), NEW pkt \in Outbound(Stage(j), room, AWG_DEFAULT_UDP_WINDOW, m)
    PROVE  Dressed(pkt) /\ Readable(pkt) /\ pkt.msg = m
<1>1. Stage(j) \in Profile /\ ValidProfile(Stage(j)) /\ AWG_DEFAULT_UDP_WINDOW \in Nat
  BY SiteGood DEF AWG_DEFAULT_UDP_WINDOW
<1>2. /\ pkt \in Packet /\ pkt.msg = m
      /\ HContains(Stage(j).h[m.kind], pkt.type)
      /\ m.kind = "data" => pkt.n = pkt.off + m.len /\ pkt.off <= AWG_PACKET_HEADROOM
      /\ m.kind # "data" => pkt.n <= AWG_PACKET_BUF_SIZE
  BY <1>1, OutboundIs
<1>3. Receive(Stage(j), pkt) = m
  BY <1>1, RoundTrip
<1>4. Dressed(pkt)
  BY <1>2 DEF Dressed, Proper
<1> QED
  BY <1>2, <1>3, <1>4 DEF Readable

(* Transport of the fast path, torn by a switch or not.                    *)
LEMMA FastDressed ==
    ASSUME site \in GoodSites, NEW a \in Stages, NEW b \in Stages, NEW c \in Stages, NEW d \in Stages,
           NEW len \in DataLens,
           NEW pkt \in FastOutbound(Stage(a).s["data"], Stage(b).hp, H4Noop(Stage(c)),
                                    Stage(d).h["data"], Msg("data", len))
    PROVE  Dressed(pkt) /\ pkt.msg.kind = "data"
<1>1. /\ Stage(a).s["data"] \in Nat /\ Stage(a).s["data"] <= AWG_PACKET_HEADROOM
      /\ Stage(b).hp \in BOOLEAN /\ Stage(d).h["data"] \in HRange /\ "data" \in Kinds
  <2>1. "data" \in Kinds
    BY DEF Kinds
  <2>2. Stage(a).s["data"] \in 0..AWG_PACKET_HEADROOM
    BY SiteGood
  <2>3. Stage(b) \in Profile /\ Stage(d) \in Profile
    BY SiteGood
  <2> QED
    BY <2>1, <2>2, <2>3 DEF Profile, AWG_PACKET_HEADROOM
<1>2. PICK t \in IF H4Noop(Stage(c)) THEN {WgType["data"]} ELSE HPicks(Stage(d).h["data"]) :
         pkt = [n |-> Stage(a).s["data"] + len, off |-> Stage(a).s["data"], type |-> t,
                hp |-> Stage(b).hp, msg |-> [kind |-> "data", len |-> len]]
  BY DEF FastOutbound, Msg
<1>3. t \in Nat /\ \E j \in Stages : HContains(Stage(j).h["data"], t)
  <2>1. CASE H4Noop(Stage(c))
    <3>1. t = 4 /\ HContains(Stage(c).h["data"], t)
      BY <2>1, Sizes DEF H4Noop, HContains
    <3> QED
      BY <3>1
  <2>2. CASE ~H4Noop(Stage(c))
    <3>1. t \in Nat /\ HContains(Stage(d).h["data"], t)
      BY <1>1, <2>2 DEF HPicks, HContains, HRange
    <3> QED
      BY <3>1
  <2> QED
    BY <2>1, <2>2
<1>4. len \in Nat
  BY ProfilesAssumption
<1>5. pkt \in Packet
  BY <1>1, <1>2, <1>3, <1>4 DEF Packet, Message
<1> QED
  BY <1>1, <1>2, <1>3, <1>4, <1>5 DEF Dressed

(* Datagrams leave, and dressed ones come.                                 *)
LEMMA NetKept ==
    ASSUME Net, site' = site,
           \A pkt \in out' : \/ pkt \in out
                             \/ Dressed(pkt) /\ (pkt.msg.kind # "data" => Readable(pkt)),
           \A pkt \in back' : pkt \in back \/ (Dressed(pkt) /\ Readable(pkt))
    PROVE  Net'
<1>1. \A pkt : Dressed(pkt)' <=> Dressed(pkt)
  BY DEF Dressed, Stages, Stage
<1>2. \A pkt : Readable(pkt)' <=> Readable(pkt)
  BY DEF Readable, Stages, Stage
<1>3. \A pkt \in out' \cup back' : Dressed(pkt)
  BY DEF Net
<1>4. \A pkt \in back' : Readable(pkt)
  BY DEF Net
<1>5. \A pkt \in out' : pkt.msg.kind # "data" => Readable(pkt)
  BY DEF Net
<1> QED
  BY <1>1, <1>2, <1>3, <1>4, <1>5 DEF Net

(* A dressed datagram fits, before a step and after it.                    *)
Fits ==
    /\ out \cup back \subseteq Packet
    /\ \A pkt \in out \cup back :
          IF pkt.msg.kind = "data" THEN pkt.off <= AWG_PACKET_HEADROOM
                                   ELSE pkt.n <= AWG_PACKET_BUF_SIZE

(* What Net says of a datagram includes that it fits.                      *)
LEMMA NetFits == (Net => Fits) /\ (Net' => Fits')
<1>1. Net => Fits
  BY DEF Net, Dressed, Fits
<1>2. Net' => Fits'
  BY DEF Net, Dressed, Fits
<1> QED
  BY <1>1, <1>2

(* At the start nothing is under way.                                      *)
LEMMA PInit == Init => PInv
<1> SUFFICES ASSUME Init PROVE PInv
  OBVIOUS
<1>1. site \in GoodSites /\ out = {} /\ back = {} /\ owed = {} /\ hoist = NoBatch /\ up = FALSE /\ answering = FALSE
  BY DEF Init
<1>2. Min(site.knows) \in site.knows
  BY <1>1, SiteGood, MinIs
<1>3. 0 \in 0..FbChecks - 1 /\ 0 \in 0..PerTick /\ site.rough \in 0..site.rough
  BY <1>1, SiteGood, ProfilesAssumption
<1>4. stage \in Stages /\ goal \in Stages \cup {NoStage} /\ active_profile \in site.knows
      /\ {cache, entry} \subseteq site.knows \cup {NoStage}
  BY <1>1, <1>2, SiteGood DEF Init
<1>5. hoist \in [s4 : Stages \cup {NoStage}, hp : Stages \cup {NoStage}]
  BY <1>1 DEF NoBatch
<1>6. TypeOK
  BY <1>1, <1>3, <1>4, <1>5 DEF Init, TypeOK
<1>7. Net /\ HoistWhole /\ EntryFirst
  BY <1>1 DEF Net, HoistWhole, EntryFirst
<1> QED
  BY <1>6, <1>7 DEF PInv

(* A mishap is counted.                                                    *)
LEMMA MishapCounted ==
    ASSUME TypeOK, Mishap
    PROVE  rough' \in 0..site.rough
<1>1. site.rough \in Nat
  BY SiteGood DEF TypeOK
<1> QED
  BY <1>1 DEF TypeOK, Mishap

(* A batch of transport arrives.                                           *)
LEMMA PC2sBatch ==
    ASSUME PInv, C2sBatch
    PROVE  PInv'
<1>1. TypeOK /\ Words \subseteq Stages
  BY WordsAreStages DEF PInv
<1>2. /\ up /\ site' = site /\ out' = out /\ back' = back /\ owed' = owed /\ entry' = entry
      /\ up' = up /\ answering' = answering /\ hoist' \in [s4 : Words, hp : Words]
  BY DEF C2sBatch, responder, server
<1>3. Net'
  BY <1>2, NetKept DEF PInv
<1>4. rough' \in 0..site.rough
  BY <1>1, MishapCounted DEF C2sBatch, TypeOK
<1>5. sent' \in 0..PerTick
  BY <1>1, ProfilesAssumption DEF C2sBatch, TypeOK
<1>6. hoist' \in [s4 : Stages, hp : Stages]
  BY <1>1, <1>2
<1>7. TypeOK'
  BY <1>1, <1>3, <1>4, <1>5, <1>6, NetFits DEF Fits, C2sBatch, TypeOK, NoteClient, responder, server, Stages
<1>8. HoistWhole'
  BY <1>2, <1>6 DEF HoistWhole, Stages
<1>9. EntryFirst'
  BY <1>2 DEF PInv, EntryFirst
<1> QED
  BY <1>3, <1>7, <1>8, <1>9 DEF PInv

(* The fast path of c2s.                                                   *)
LEMMA PC2sData ==
    ASSUME PInv, C2sData
    PROVE  PInv'
<1>1. TypeOK /\ Words \subseteq Stages /\ site \in GoodSites
  BY WordsAreStages DEF PInv, TypeOK
<1>2. /\ hoist # NoBatch /\ hoist' = NoBatch
      /\ site' = site /\ back' = back /\ owed' = owed /\ entry' = entry
      /\ up' = up /\ answering' = answering
  BY DEF C2sData, responder, server, client
<1>3. hoist.s4 \in Stages /\ hoist.hp \in Stages
  BY <1>2 DEF PInv, HoistWhole
<1>40. PICK noop \in Words, active \in Words, len \in DataLens :
         \E pkt \in FastOutbound(Stage(hoist.s4).s["data"], Stage(hoist.hp).hp,
                                 H4Noop(Stage(noop)), Stage(active).h["data"], Msg("data", len)) :
            out' = out \cup {pkt}
  BY DEF C2sData
<1>4. PICK pkt \in FastOutbound(Stage(hoist.s4).s["data"], Stage(hoist.hp).hp,
                                H4Noop(Stage(noop)), Stage(active).h["data"], Msg("data", len)) :
         out' = out \cup {pkt}
  BY <1>40
<1>5. Dressed(pkt) /\ pkt.msg.kind = "data"
  BY <1>1, <1>3, FastDressed
<1>6. Net'
  <2>1. \A p \in out' : p \in out \/ (Dressed(p) /\ (p.msg.kind # "data" => Readable(p)))
    BY <1>4, <1>5
  <2> QED
    BY <1>2, <2>1, NetKept DEF PInv
<1>7. TypeOK'
  BY <1>1, <1>6, NetFits DEF Fits, C2sData, TypeOK, NoBatch, responder, server, client, Stages
<1>8. HoistWhole'
  BY <1>2 DEF HoistWhole
<1>9. EntryFirst'
  BY <1>2 DEF PInv, EntryFirst
<1> QED
  BY <1>6, <1>7, <1>8, <1>9 DEF PInv

(* A handshake of the client.                                              *)
LEMMA PC2sHandshake ==
    ASSUME PInv, NEW k \in {"init", "resp"}, C2sHandshake(k)
    PROVE  PInv'
<1>1. TypeOK /\ Words \subseteq Stages /\ site \in GoodSites /\ k \in Handshakes
  BY WordsAreStages DEF PInv, TypeOK, Handshakes
<1>2. /\ (k = "init" /\ ~up) \/ (k = "resp" /\ answering)
      /\ up' = (up \/ k = "resp") /\ answering' = (answering /\ k # "resp")
      /\ site' = site /\ back' = back /\ owed' = owed /\ entry' = entry /\ hoist' = hoist
  BY DEF C2sHandshake, responder, server
<1>30. PICK active \in Words :
         \E pkt \in Outbound(Stage(active), MaxS4(site.chain), AWG_DEFAULT_UDP_WINDOW, Handshake(k)) :
            out' = out \cup {pkt}
  BY DEF C2sHandshake
<1>3. PICK pkt \in Outbound(Stage(active), MaxS4(site.chain), AWG_DEFAULT_UDP_WINDOW, Handshake(k)) :
         out' = out \cup {pkt}
  BY <1>30
<1>4. Dressed(pkt) /\ Readable(pkt) /\ pkt.msg = Handshake(k)
  BY <1>1, RoomEnough, WireGuardProper, OutboundDressed
<1>5. Net'
  <2>1. \A p \in out' : p \in out \/ (Dressed(p) /\ (p.msg.kind # "data" => Readable(p)))
    BY <1>3, <1>4
  <2> QED
    BY <1>2, <2>1, NetKept DEF PInv
<1>6. sent' \in 0..PerTick
  BY <1>1, ProfilesAssumption DEF C2sHandshake, TypeOK
<1>7. TypeOK'
  BY <1>1, <1>5, <1>6, NetFits DEF Fits, C2sHandshake, TypeOK, NoteClient, responder, server, Stages
<1>8. HoistWhole'
  BY <1>2 DEF PInv, HoistWhole, Stages
<1>9. EntryFirst'
  <2> SUFFICES ASSUME site.mode = "server", entry = NoStage
               PROVE  /\ ~up' /\ ~answering' /\ hoist = NoBatch /\ back = {} /\ owed = {}
                      /\ \A p \in out' : p.msg.kind = "init"
    BY <1>2 DEF PInv, EntryFirst
  <2>1. /\ ~up /\ ~answering /\ hoist = NoBatch /\ back = {} /\ owed = {}
        /\ \A p \in out : p.msg.kind = "init"
    BY DEF PInv, EntryFirst
  <2>2. k = "init" /\ pkt.msg.kind = "init"
    BY <1>1, <1>2, <1>4, <2>1, WireGuardProper
  <2> QED
    BY <1>2, <1>3, <2>1, <2>2
<1> QED
  BY <1>5, <1>7, <1>8, <1>9 DEF PInv

(* A datagram reaches the initiator.                                       *)
LEMMA PDeliverBack ==
    ASSUME PInv, DeliverBack
    PROVE  PInv'
<1>1. TypeOK
  BY DEF PInv
<1>2. PICK pkt \in back : back' = back \ {pkt} /\ rough' = rough /\ S2cPacket(pkt)
  BY DEF DeliverBack
<1>3. /\ site' = site /\ out' = out /\ owed' = owed /\ entry' = entry /\ hoist' = hoist
      /\ up' \in BOOLEAN /\ answering' \in BOOLEAN /\ last_remote_rx' \in BOOLEAN
  BY <1>2 DEF S2cPacket, responder, server
<1>4. Net'
  BY <1>2, <1>3, NetKept DEF PInv
<1>5. TypeOK'
  BY <1>1, <1>2, <1>3, <1>4, NetFits DEF Fits, S2cPacket, TypeOK, responder, server, Stages
<1>6. HoistWhole'
  BY <1>3 DEF PInv, HoistWhole, Stages
<1>7. EntryFirst'
  BY <1>2, <1>3 DEF PInv, EntryFirst
<1> QED
  BY <1>4, <1>5, <1>6, <1>7 DEF PInv

(* do_reconnect.                                                           *)
LEMMA PReconnect ==
    ASSUME PInv, Reconnect
    PROVE  PInv'
<1>1. TypeOK
  BY DEF PInv
<1>2. /\ site' = site /\ out' = out /\ owed' = owed /\ entry' = entry /\ hoist' = hoist
      /\ up' = up /\ answering' = answering /\ back' \subseteq back
  BY DEF Reconnect, responder, server, client
<1>3. Net'
  BY <1>2, NetKept DEF PInv
<1>4. TypeOK'
  BY <1>1, <1>2, <1>3, NetFits DEF Fits, Reconnect, TypeOK, responder, server, client, Stages
<1>5. HoistWhole'
  BY <1>2 DEF PInv, HoistWhole, Stages
<1>6. EntryFirst'
  BY <1>2 DEF PInv, EntryFirst
<1> QED
  BY <1>3, <1>4, <1>5, <1>6 DEF PInv

(* Steps that leave the network, the client and what is owed alone.        *)
LEMMA QuietKeeps ==
    ASSUME PInv, UNCHANGED <<site, out, back, owed, entry, hoist, answering>>,
           up' = up \/ up' = FALSE, TypeOK'
    PROVE  PInv'
<1>1. Net'
  BY NetKept DEF PInv
<1>2. HoistWhole'
  BY DEF PInv, HoistWhole, Stages
<1>3. EntryFirst'
  BY DEF PInv, EntryFirst
<1> QED
  BY <1>1, <1>2, <1>3 DEF PInv

(* Main's fallback clock, and the end of a switch.                         *)
LEMMA PMain ==
    ASSUME PInv, FbTick \/ SwitchDone
    PROVE  PInv'
<1>1. TypeOK
  BY DEF PInv
<1>2. CASE FbTick
  <2>1. rough' \in 0..site.rough
    BY <1>1, <1>2, MishapCounted DEF FbTick, TypeOK
  <2>2. goal' \in Stages \cup {NoStage}
    <3>1. NextStage(stage) \in Stages
      BY <1>1, SiteGood DEF TypeOK, NextStage
    <3> QED
      BY <1>1, <1>2, <3>1 DEF FbTick, TypeOK
  <2>3. fb_silent_count' \in 0..FbChecks - 1
    <3>1. FbChecks \in Nat \ {0} /\ fb_silent_count \in 0..FbChecks - 1
      BY <1>1, ProfilesAssumption DEF TypeOK
    <3> QED
      BY <1>2, <3>1 DEF FbTick
  <2>4. sent' \in 0..PerTick
    BY <1>2, ProfilesAssumption DEF FbTick
  <2>5. TypeOK'
    BY <1>1, <1>2, <2>1, <2>2, <2>3, <2>4 DEF FbTick, TypeOK, responder, Stages
  <2> QED
    BY <1>2, <2>5, QuietKeeps DEF FbTick, responder
<1>3. CASE SwitchDone
  <2>1. TypeOK'
    BY <1>1, <1>3 DEF SwitchDone, TypeOK, responder, server, client, Stages
  <2> QED
    BY <1>3, <2>1, QuietKeeps DEF SwitchDone, responder, server, client
<1> QED
  BY <1>2, <1>3

(* Another client takes the cache's slot, a session ends.                  *)
LEMMA PElsewhere ==
    ASSUME PInv, OtherClient \/ SessionLost
    PROVE  PInv'
<1>1. TypeOK
  BY DEF PInv
<1>2. rough' \in 0..site.rough
  BY <1>1, MishapCounted DEF OtherClient, SessionLost
<1>3. CASE OtherClient
  <2>1. TypeOK'
    BY <1>1, <1>2, <1>3 DEF OtherClient, TypeOK, initiator, server, client, Stages
  <2> QED
    BY <1>3, <2>1, QuietKeeps DEF OtherClient, initiator, server, client
<1>4. CASE SessionLost
  <2>1. TypeOK'
    BY <1>1, <1>2, <1>4, ZenonT(60) DEF SessionLost, TypeOK, initiator, server, responder, Stages
  <2> QED
    BY <1>4, <2>1, QuietKeeps DEF SessionLost, initiator, server, responder
<1> QED
  BY <1>3, <1>4

(* A datagram is lost.                                                     *)
LEMMA PLose ==
    ASSUME PInv, Lose
    PROVE  PInv'
<1>1. TypeOK
  BY DEF PInv
<1>2. UNCHANGED <<site, owed, entry, hoist, up, answering>> /\ out' \subseteq out /\ back' \subseteq back
  BY DEF Lose, initiator, client, responder, server
<1>3. rough' \in 0..site.rough
  BY <1>1, MishapCounted DEF Lose, TypeOK
<1>4. Net'
  BY <1>2, NetKept DEF PInv
<1>5. TypeOK'
  BY <1>1, <1>2, <1>3, <1>4, NetFits DEF Fits, Lose, TypeOK, initiator, client, responder, server, Stages
<1>6. HoistWhole'
  BY <1>2 DEF PInv, HoistWhole, Stages
<1>7. EntryFirst'
  BY <1>2 DEF PInv, EntryFirst
<1> QED
  BY <1>4, <1>5, <1>6, <1>7 DEF PInv

(* c2s_thread_reverse: a datagram is dropped, or adopted in a stage that   *)
(* reads it as what it is; what is owed for it is owed in that stage.      *)
LEMMA ReverseReads ==
    ASSUME StagesApart, PInv, NEW pkt \in out, ReversePacket(pkt)
    PROVE  /\ active_profile' \in site.knows /\ {cache', entry'} \subseteq site.knows \cup {NoStage}
           /\ owed' \subseteq [kind : Kinds, prof : site.knows \cup {NoStage}]
           /\ site.mode = "server" => /\ entry' = entry \/ entry' # NoStage
                                      /\ entry' = NoStage => owed' = owed
                                      /\ \A o \in owed' : o \in owed \/ o.prof # NoStage
<1>1. TypeOK /\ site \in GoodSites /\ NoStage \notin site.knows
  BY SiteGood DEF PInv, TypeOK
<1>2. CASE Readers(pkt) = {} /\ UNCHANGED <<responder, owed>>
  BY <1>1, <1>2 DEF TypeOK, responder
<1>3. CASE \E prof \in Adopted(Readers(pkt)) : \E m \in {Receive(Stage(prof), pkt)} : Adopt(prof, m)
  <2>1. PICK prof \in Adopted(Readers(pkt)) : Adopt(prof, Receive(Stage(prof), pkt))
    BY <1>3
  <2>2. prof \in Readers(pkt)
    BY DEF Adopted
  <2>3. prof \in site.knows /\ Receive(Stage(prof), pkt) = pkt.msg
    <3>1. prof \in site.knows /\ Receive(Stage(prof), pkt) # Nothing
      BY <2>2 DEF Readers
    <3>2. prof \in Stages /\ Dressed(pkt)
      BY <1>1, <3>1, SiteGood DEF PInv, Net
    <3> QED
      BY <1>1, <3>1, <3>2, ReceiveNeverMistakes
  <2>4. pkt.msg.kind \in Kinds
    BY <1>1 DEF TypeOK, Packet, Message
  <2>5. Adopt(prof, pkt.msg)
    BY <2>1, <2>3
  <2>6. ASSUME NEW q \in site.knows \cup {NoStage}
        PROVE  Answers(pkt.msg, q) \subseteq [kind : Kinds, prof : {q}]
    BY <2>4 DEF Answers, Kinds, Handshakes
  <2>7. CASE site.mode = "reverse"
    <3>1. /\ active_profile' = prof /\ owed' = owed \cup Answers(pkt.msg, NoStage)
          /\ UNCHANGED <<cache, entry>>
      BY <2>5, <2>7 DEF Adopt
    <3> QED
      BY <1>1, <2>3, <2>6, <2>7, <3>1 DEF TypeOK
  <2>8. CASE site.mode = "server"
    <3>1. /\ cache' \in {prof, cache} /\ active_profile' = active_profile
          /\ entry' = IF pkt.msg.kind \in {"init", "resp"} THEN prof ELSE entry
          /\ owed' = owed \cup Answers(pkt.msg, entry')
      BY <2>5, <2>8 DEF Adopt
    <3>2. entry' \in site.knows \cup {NoStage}
      BY <1>1, <2>3, <3>1 DEF TypeOK
    <3>3. entry' # NoStage
      <4>1. CASE entry = NoStage
        <5>1. pkt.msg.kind = "init"
          BY <2>8, <4>1 DEF PInv, EntryFirst
        <5> QED
          BY <1>1, <2>3, <3>1, <5>1
      <4>2. CASE entry # NoStage
        BY <1>1, <2>3, <3>1, <4>2
      <4> QED
        BY <4>1, <4>2
    <3>4. \A o \in owed' : o \in owed \/ (o \in [kind : Kinds, prof : {entry'}])
      BY <2>6, <3>1, <3>2
    <3> QED
      BY <1>1, <2>3, <3>1, <3>2, <3>3, <3>4 DEF TypeOK
  <2> QED
    BY <1>1, <2>7, <2>8, SiteGood
<1> QED
  BY <1>2, <1>3 DEF ReversePacket

(* A datagram reaches the responder, once or again.                        *)
LEMMA PDeliverOut ==
    ASSUME StagesApart, PInv, DeliverOut \/ DuplicateOut
    PROVE  PInv'
<1>1. TypeOK
  BY DEF PInv
<1>2. PICK pkt \in out : ReversePacket(pkt) /\ out' \subseteq out /\ (rough' = rough \/ Mishap)
  BY DEF DeliverOut, DuplicateOut
<1>3. UNCHANGED <<site, initiator, client, back, started>>
  BY <1>2 DEF ReversePacket
<1>4. rough' \in 0..site.rough
  BY <1>1, <1>2, MishapCounted DEF TypeOK
<1>5. Net'
  BY <1>2, <1>3, NetKept DEF PInv
<1>6. /\ active_profile' \in site.knows /\ {cache', entry'} \subseteq site.knows \cup {NoStage}
      /\ owed' \subseteq [kind : Kinds, prof : site.knows \cup {NoStage}]
      /\ site.mode = "server" => /\ entry' = entry \/ entry' # NoStage
                                 /\ entry' = NoStage => owed' = owed
                                 /\ \A o \in owed' : o \in owed \/ o.prof # NoStage
  BY <1>2, ReverseReads
<1>7. TypeOK'
  BY <1>1, <1>3, <1>4, <1>5, <1>6, NetFits DEF Fits, TypeOK, initiator, client, Stages
<1>8. HoistWhole'
  BY <1>3 DEF PInv, HoistWhole, initiator, Stages
<1>9. EntryFirst'
  BY <1>2, <1>3, <1>6 DEF PInv, EntryFirst, initiator, client
<1> QED
  BY <1>5, <1>7, <1>8, <1>9 DEF PInv

(* process_s2c_pkt_reverse dresses its message in the stage it took.       *)
LEMMA SendBackDressed ==
    ASSUME site \in GoodSites, NEW prof \in site.knows, NEW k \in Kinds, SendBack(prof, k)
    PROVE  \E pkt : Dressed(pkt) /\ Readable(pkt) /\ back' = back \cup {pkt}
<1>1. PICK m \in IF k = "data" THEN {Msg(k, len) : len \in DataLens} ELSE {Handshake(k)} :
         \E pkt \in Outbound(Stage(prof), Room, AWG_DEFAULT_UDP_WINDOW, m) : back' = back \cup {pkt}
  BY DEF SendBack
<1>2. PICK pkt \in Outbound(Stage(prof), Room, AWG_DEFAULT_UDP_WINDOW, m) : back' = back \cup {pkt}
  BY <1>1
<1>3. Proper(m)
  BY WireGuardProper DEF Kinds
<1>4. prof \in Stages /\ Room \in Nat /\ Stage(prof).s["data"] <= Room
  BY SiteGood, RoomEnough
<1>5. Dressed(pkt) /\ Readable(pkt)
  BY <1>2, <1>3, <1>4, OutboundDressed
<1> QED
  BY <1>2, <1>5

(* The responder answers.                                                  *)
LEMMA PReverseReply ==
    ASSUME PInv, NEW o \in owed, ReverseReply(o)
    PROVE  PInv'
<1>1. TypeOK /\ site \in GoodSites
  BY DEF PInv, TypeOK
<1>2. UNCHANGED <<site, initiator, client, out, responder, started>> /\ owed' = owed \ {o}
  BY DEF ReverseReply
<1>3. /\ o.kind \in Kinds /\ "cookie" \in Kinds
      /\ ReplyStage(o) \in site.knows
  <2>1. o \in [kind : Kinds, prof : site.knows \cup {NoStage}] /\ active_profile \in site.knows
    BY <1>1 DEF TypeOK
  <2>2. site.mode = "server" => o.prof # NoStage
    BY DEF PInv, EntryFirst
  <2> QED
    BY <2>1, <2>2 DEF ReplyStage, Kinds, Handshakes
<1>4. PICK k \in Kinds : SendBack(ReplyStage(o), k) /\ (rough' = rough \/ Mishap)
  BY <1>3 DEF ReverseReply
<1>5. PICK pkt : Dressed(pkt) /\ Readable(pkt) /\ back' = back \cup {pkt}
  BY <1>1, <1>3, <1>4, SendBackDressed
<1>6. Net'
  <2>1. \A p \in back' : p \in back \/ (Dressed(p) /\ Readable(p))
    BY <1>5
  <2> QED
    BY <1>2, <2>1, NetKept DEF PInv
<1>7. rough' \in 0..site.rough
  BY <1>1, <1>4, MishapCounted DEF TypeOK
<1>8. TypeOK'
  BY <1>1, <1>2, <1>6, <1>7, NetFits DEF Fits, TypeOK, initiator, client, responder, Stages
<1>9. HoistWhole'
  BY <1>2 DEF PInv, HoistWhole, initiator, Stages
<1>10. EntryFirst'
  <2>1. site.mode = "server" => entry # NoStage
    BY DEF PInv, EntryFirst
  <2> QED
    BY <1>2, <2>1 DEF PInv, EntryFirst, responder
<1> QED
  BY <1>6, <1>8, <1>9, <1>10 DEF PInv

(* The responder's WireGuard starts a handshake.                           *)
LEMMA PServerInit ==
    ASSUME PInv, ServerInit
    PROVE  PInv'
<1>1. TypeOK
  BY DEF PInv
<1>2. /\ UNCHANGED <<site, initiator, client, out, back, responder, rough>> /\ started' = TRUE
      /\ site.mode = "server" => entry # NoStage
      /\ owed' = owed \cup {[kind |-> "init", prof |-> IF site.mode = "server" THEN entry ELSE NoStage]}
  BY DEF ServerInit
<1>3. Net'
  BY <1>2, NetKept DEF PInv
<1>4. owed' \subseteq [kind : Kinds, prof : site.knows \cup {NoStage}]
  BY <1>1, <1>2 DEF TypeOK, Kinds, Handshakes
<1>5. TypeOK'
  BY <1>1, <1>2, <1>3, <1>4, NetFits DEF Fits, TypeOK, initiator, client, responder, Stages
<1>6. HoistWhole'
  BY <1>2 DEF PInv, HoistWhole, initiator, Stages
<1>7. EntryFirst'
  BY <1>2 DEF PInv, EntryFirst, responder
<1> QED
  BY <1>3, <1>5, <1>6, <1>7 DEF PInv

(* PInv survives every step.                                               *)
LEMMA PNext ==
    ASSUME StagesApart
    PROVE  PInv /\ [Next]_vars => PInv'
<1> SUFFICES ASSUME PInv, [Next]_vars PROVE PInv'
  OBVIOUS
<1>1. CASE Answer
  BY <1>1, PMain, PReconnect, PC2sData, PReverseReply, PDeliverOut, PDeliverBack, PLose DEF Answer
<1>2. CASE C2sBatch \/ FbTick \/ OtherClient \/ SessionLost \/ ServerInit \/ DuplicateOut
  BY <1>2, PC2sBatch, PMain, PElsewhere, PServerInit, PDeliverOut
<1>3. CASE \E k \in {"init", "resp"} : C2sHandshake(k)
  BY <1>3, PC2sHandshake
<1>4. CASE UNCHANGED vars
  <2>1. TypeOK'
    BY <1>4 DEF PInv, TypeOK, vars, initiator, client, responder, server, Stages
  <2> QED
    BY <1>4, <2>1, QuietKeeps DEF vars, initiator, client, responder, server
<1> QED
  BY <1>1, <1>2, <1>3, <1>4 DEF Next

(* PInv holds in every reachable state.                                    *)
LEMMA PAlways ==
    ASSUME StagesApart
    PROVE  Spec => []PInv
<1>1. PInv /\ [Next]_vars => PInv'
  BY PNext
<1> QED
  BY <1>1, PInit, PTL DEF Spec

(* Nothing under way is ever read as another message, by the responder in  *)
(* any stage or by the initiator with any mix of words that main is        *)
(* rewriting (config_apply_profile), for any chain whose stages are apart: *)
(* config_validate_profile and a type read where it stands are enough.     *)
THEOREM NeverMistakenAlways ==
    ASSUME StagesApart
    PROVE  Spec => []NeverMistaken
<1>1. PInv => NeverMistaken
  BY NothingMistaken
<1> QED
  BY <1>1, PAlways, PTL

(* Every handshake and all that the responder sends is in one stage of the *)
(* chain (transform_outbound_profile with profiles[active_profile], or the *)
(* stage of the session entry), in the middle of a switch too.             *)
THEOREM OneStageAlways ==
    ASSUME StagesApart
    PROVE  Spec => []OneStage
<1>1. PInv => OneStage
  BY DEF PInv, Net, Readable, OneStage
<1> QED
  BY <1>1, PAlways, PTL
=============================================================================
