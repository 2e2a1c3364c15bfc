------------------------------ MODULE Profiles ------------------------------
(***************************************************************************)
(* The stage two proxies speak.  The initiator (mode normal) walks its     *)
(* fallback chain while the remote is silent; the responder (mode reverse  *)
(* or server) tries the stages it knows until one reads the datagram, and  *)
(* answers in it.  Main rewrites the flat copy of the active profile word  *)
(* by word while c2s and s2c read it: a word read meanwhile is of the old  *)
(* stage or of the new one.                                                *)
(*                                                                         *)
(* WireGuard on both sides, the path and the other clients of the server   *)
(* are external.  The path passes the stages in site.open, and rough is    *)
(* the number of times it may still lose, repeat or delay a datagram, a    *)
(* packet may meet a switch in its middle, another client may take the     *)
(* cache's slot or a session may end.                                      *)
(***************************************************************************)
EXTENDS Transform, TLC

CONSTANTS
    Sites,      \* what is configured: the chain of profiles, the responder's mode,
                \* the stages it knows and the path passes, whether its WireGuard
                \* starts handshakes, and (a bound) the mishaps to expect
    DataLens,   \* lengths of transport messages
    FbChecks,   \* silent ticks before the next stage
    PerTick,    \* bound: packets of the client between two ticks
    InFlight    \* bound: datagrams under way in one direction

(* parse_fb_stage and config_validate refuse to start with a bad stage.    *)
GoodSites == {st \in Sites : \A j \in DOMAIN st.chain : ValidProfile(st.chain[j])}

ASSUME ProfilesAssumption ==
    /\ \A st \in Sites :
          /\ st.chain \in Seq(Profile)
          /\ st.mode \in {"reverse", "server"} /\ st.starts \in BOOLEAN /\ st.rough \in Nat
          /\ st.knows \subseteq DOMAIN st.chain /\ st.open \subseteq DOMAIN st.chain
          /\ st.knows \cap st.open # {}
    /\ DataLens \subseteq {len \in Nat : len >= WG_TRANSPORT_MIN} /\ DataLens # {}
    /\ {FbChecks, PerTick, InFlight} \subseteq Nat \ {0}

(* The ranges of two stages do not meet either, except for the same        *)
(* message.  Nothing in the code asks for it: config_validate_profile      *)
(* looks at one stage.                                                     *)
StagesApart ==
    \A st \in Sites : \A j, l \in DOMAIN st.chain : \A k, m \in Kinds :
        j # l /\ k # m => ~HOverlaps(st.chain[j].h[k], st.chain[l].h[m])

NoStage == 0

VARIABLES
    site,            \* the one of Sites we are at
    stage,           \* initiator: the stage of the flat words
    goal,            \* initiator: the stage main is writing over them, or NoStage
    hoist,           \* initiator: c2s's batch, the stages of its s4 and hp
    fb_silent_count, last_active, last_remote_rx, reconnect_needed, has_client,
    up, answering,   \* the client's WireGuard: session, an init to answer
    sent,            \* packets of the client since the last tick
    out, back,       \* datagrams under way
    active_profile,  \* responder: reverse mode's stage
    cache, entry,    \* responder: stage by address, stage of the session entry
    owed,            \* what the responder's WireGuard is about to send
    started,         \* whether it started a handshake since the last tick
    rough

initiator == <<stage, goal, hoist, fb_silent_count, last_active,
               last_remote_rx, reconnect_needed, has_client>>
client    == <<up, answering, sent>>
responder == <<active_profile, cache, entry>>
server    == <<owed, started>>
vars == <<site, initiator, client, out, back, responder, server, rough>>

Stages == DOMAIN site.chain
Stage(j) == site.chain[j]

TypeOK ==
    /\ site \in GoodSites
    /\ stage \in Stages /\ goal \in Stages \cup {NoStage}
    /\ hoist \in [s4 : Stages \cup {NoStage}, hp : Stages \cup {NoStage}]
    /\ fb_silent_count \in 0..FbChecks - 1 /\ sent \in 0..PerTick
    /\ last_active \in BOOLEAN /\ last_remote_rx \in BOOLEAN
    /\ reconnect_needed \in BOOLEAN /\ has_client \in BOOLEAN
    /\ up \in BOOLEAN /\ answering \in BOOLEAN /\ started \in BOOLEAN
    /\ out \cup back \subseteq Packet
    /\ \A pkt \in out \cup back :
          IF pkt.msg.kind = "data" THEN pkt.off <= AWG_PACKET_HEADROOM
                                   ELSE pkt.n <= AWG_PACKET_BUF_SIZE
    /\ active_profile \in site.knows
    /\ {cache, entry} \subseteq site.knows \cup {NoStage}
    /\ owed \subseteq [kind : Kinds, prof : site.knows \cup {NoStage}]
    /\ rough \in 0..site.rough

NoBatch == [s4 |-> NoStage, hp |-> NoStage]

Init ==
    /\ site \in GoodSites /\ active_profile = Min(site.knows)
    /\ stage = 1 /\ goal = NoStage /\ hoist = NoBatch
    /\ fb_silent_count = 0 /\ sent = 0
    /\ last_active = FALSE /\ last_remote_rx = FALSE
    /\ reconnect_needed = FALSE /\ has_client = FALSE
    /\ up = FALSE /\ answering = FALSE /\ started = FALSE
    /\ out = {} /\ back = {} /\ owed = {}
    /\ cache = NoStage /\ entry = NoStage
    /\ rough = site.rough

Mishap == rough > 0 /\ rough' = rough - 1

Msg(k, len) == [kind |-> k, len |-> len]
Handshake(k) == Msg(k, WgSize[k])

-----------------------------------------------------------------------------
(* The initiator's c2s.                                                    *)

(* config_apply_profile is plain stores: what a word read now may be.      *)
Words == IF goal = NoStage THEN {stage} ELSE {stage, goal}

NoteClient == last_active' = TRUE /\ has_client' = TRUE

(* A batch of transport arrives; s4 and hp are read once for all of it.    *)
C2sBatch ==
    /\ up /\ hoist = NoBatch /\ sent < PerTick
    /\ IF goal = NoStage THEN UNCHANGED rough ELSE Mishap
    /\ NoteClient /\ sent' = sent + 1
    /\ hoist' \in [s4 : Words, hp : Words]
    /\ UNCHANGED <<site, stage, goal, fb_silent_count, last_remote_rx,
                   reconnect_needed, up, answering, out, back, responder, server>>

(* The fast path for a packet of it; h4_noop and the ring's stage are read *)
(* now.  The last packet ends the batch.                                   *)
C2sData ==
    /\ hoist # NoBatch /\ Cardinality(out) < InFlight
    /\ \E noop, active \in Words, len \in DataLens :
       \E pkt \in FastOutbound(Stage(hoist.s4).s["data"], Stage(hoist.hp).hp,
                               H4Noop(Stage(noop)), Stage(active).h["data"],
                               Msg("data", len)) :
          out' = out \cup {pkt}
    /\ hoist' = NoBatch
    /\ UNCHANGED <<site, stage, goal, fb_silent_count, last_active, last_remote_rx,
                   reconnect_needed, has_client, client, back, responder, server, rough>>

(* A handshake is dressed in profiles[active_profile], read in one go.     *)
C2sHandshake(k) ==
    /\ Cardinality(out) < InFlight /\ sent < PerTick
    /\ (k = "init" /\ ~up) \/ (k = "resp" /\ answering)
    /\ NoteClient /\ sent' = sent + 1
    /\ up' = (up \/ k = "resp") /\ answering' = (answering /\ k # "resp")
    /\ \E active \in Words :
       \E pkt \in Outbound(Stage(active), MaxS4(site.chain),
                           AWG_DEFAULT_UDP_WINDOW, Handshake(k)) :
          out' = out \cup {pkt}
    /\ UNCHANGED <<site, stage, goal, hoist, fb_silent_count, last_remote_rx,
                   reconnect_needed, back, responder, server, rough>>

-----------------------------------------------------------------------------
(* The initiator's s2c.                                                    *)

(* process_s2c_pkt_normal: the fast path from the flat words, the rest     *)
(* from profiles[active_profile].                                          *)
InitiatorReads(pkt) ==
    {LET fast == FastInbound(Stage(w.s4).s["data"], Stage(w.hp).hp, Stage(w.h4).h["data"],
                             SizeAmbiguous(Stage(w.totals)), Totals(Stage(w.totals)), pkt)
     IN  IF fast # Nothing THEN fast ELSE Inbound(Stage(w.active), pkt) :
        w \in [s4 : Words, hp : Words, h4 : Words, totals : Words, active : Words]}

(* Whatever arrives counts as an answer, before anyone tries to read it.   *)
S2cPacket(pkt) ==
    /\ last_remote_rx' = TRUE
    /\ \E m \in IF has_client THEN InitiatorReads(pkt) ELSE {Nothing} :
           /\ up' = (up \/ m.kind = "resp")
           /\ answering' = (answering \/ m.kind = "init")
    /\ UNCHANGED <<site, stage, goal, hoist, fb_silent_count, last_active,
                   reconnect_needed, has_client, sent, out, responder, server>>

(* do_reconnect: the new socket may or may not still get what was on its   *)
(* way to the old one.                                                     *)
Reconnect ==
    /\ reconnect_needed
    /\ reconnect_needed' = FALSE
    /\ last_active' = TRUE /\ last_remote_rx' = FALSE /\ has_client' = FALSE
    /\ back' \in {{}, back}
    /\ UNCHANGED <<site, stage, goal, hoist, fb_silent_count, client, out,
                   responder, server, rough>>

-----------------------------------------------------------------------------
(* Main: the fallback clock.                                               *)

(* The client sends and the remote does not answer.                        *)
MutSilent == ~last_remote_rx
Silent == ~last_remote_rx /\ last_active

MutNextStage(a) == IF a + 1 >= Len(site.chain) THEN 1 ELSE a + 1
NextStage(a) == IF a + 1 > Len(site.chain) THEN 1 ELSE a + 1

(* A round trip takes less than a tick: only by a mishap is something      *)
(* still under way.                                                        *)
Idle == out = {} /\ back = {} /\ owed = {} /\ hoist = NoBatch /\ ~reconnect_needed

FbTick ==
    /\ goal = NoStage
    /\ IF Idle THEN UNCHANGED rough ELSE Mishap
    /\ last_active' = FALSE /\ last_remote_rx' = FALSE
    /\ sent' = 0 /\ started' = FALSE
    /\ \/ /\ ~Silent
          /\ fb_silent_count' = IF last_remote_rx THEN 0 ELSE fb_silent_count
          /\ UNCHANGED goal
       \/ /\ Silent /\ fb_silent_count + 1 < FbChecks
          /\ fb_silent_count' = fb_silent_count + 1
          /\ UNCHANGED goal
       \/ /\ Silent /\ fb_silent_count + 1 >= FbChecks
          /\ fb_silent_count' = 0
          /\ goal' = NextStage(stage)
    /\ UNCHANGED <<site, stage, hoist, reconnect_needed, has_client, up, answering,
                   out, back, responder, owed>>

(* switch_profile returns, and main asks for a reconnect.                  *)
SwitchDone ==
    /\ goal # NoStage
    /\ stage' = goal /\ goal' = NoStage
    /\ reconnect_needed' = TRUE
    /\ UNCHANGED <<site, hoist, fb_silent_count, last_active, last_remote_rx,
                   has_client, client, out, back, responder, server, rough>>

-----------------------------------------------------------------------------
(* The responder.                                                          *)

ProfileFor == IF site.mode = "server" /\ cache # NoStage THEN cache ELSE active_profile

(* The stages that read a datagram, and the first of them in the order it  *)
(* tries: the one it expects, then the chain from its head.                *)
Readers(pkt) == {j \in site.knows : Receive(Stage(j), pkt) # Nothing}
Adopted(readers) ==
    IF ProfileFor \in readers THEN {ProfileFor}
    ELSE {j \in readers : \A k \in readers : j <= k}

(* What the message makes the responder's WireGuard send, in server mode   *)
(* through the entry of its session.                                       *)
Answers(m, prof) ==
    CASE m.kind = "init"             -> {[kind |-> "resp", prof |-> prof]}
      [] m.kind \in {"resp", "data"} -> {[kind |-> "data", prof |-> prof]}
      [] OTHER                       -> {}

(* switch_profile, or the cache and the session entry.                     *)
Adopt(prof, m) ==
    \/ /\ site.mode = "reverse"
       /\ active_profile' = prof
       /\ owed' = owed \cup Answers(m, NoStage)
       /\ UNCHANGED <<cache, entry>>
    \/ /\ site.mode = "server"
       /\ cache' = IF m.kind \in {"init", "resp"} \/ prof # ProfileFor THEN prof ELSE cache
       /\ entry' = IF m.kind \in {"init", "resp"} THEN prof ELSE entry
       /\ owed' = owed \cup Answers(m, entry')
       /\ UNCHANGED active_profile

(* c2s_thread_reverse: what no stage reads is dropped.                     *)
ReversePacket(pkt) ==
    /\ \/ Readers(pkt) = {} /\ UNCHANGED <<responder, owed>>
       \/ \E prof \in Adopted(Readers(pkt)) :
          \E m \in {Receive(Stage(prof), pkt)} : Adopt(prof, m)
    /\ UNCHANGED <<site, initiator, client, back, started>>

(* process_s2c_pkt_reverse: in server mode in the stage of the entry.      *)
ReplyStage(o) == IF site.mode = "server" THEN o.prof ELSE active_profile

Room == MaxS4([j \in site.knows |-> Stage(j)])

SendBack(prof, k) ==
    \E m \in IF k = "data" THEN {Msg(k, len) : len \in DataLens} ELSE {Handshake(k)} :
    \E pkt \in Outbound(Stage(prof), Room, AWG_DEFAULT_UDP_WINDOW, m) :
        back' = back \cup {pkt}

(* Under load WireGuard answers an init with a cookie.                     *)
ReverseReply(o) ==
    /\ Cardinality(back) < InFlight
    /\ owed' = owed \ {o}
    /\ \/ UNCHANGED rough /\ SendBack(ReplyStage(o), o.kind)
       \/ o.kind = "resp" /\ Mishap /\ SendBack(ReplyStage(o), "cookie")
    /\ UNCHANGED <<site, initiator, client, out, responder, started>>

-----------------------------------------------------------------------------
(* External: the path, the other clients, WireGuard's own timers.          *)

Passes(pkt) == \E j \in site.open : Receive(Stage(j), pkt) # Nothing

DeliverOut == \E pkt \in out :
    /\ out' = out \ {pkt} /\ UNCHANGED rough
    /\ Passes(pkt) /\ ReversePacket(pkt)

DeliverBack == \E pkt \in back :
    /\ back' = back \ {pkt} /\ UNCHANGED rough
    /\ Passes(pkt) /\ S2cPacket(pkt)

DuplicateOut == \E pkt \in out :
    /\ Mishap /\ UNCHANGED out
    /\ Passes(pkt) /\ ReversePacket(pkt)

Lose ==
    /\ \E pkt \in out \cup back :
          /\ out' = out \ {pkt} /\ back' = back \ {pkt}
          /\ IF Passes(pkt) THEN Mishap ELSE UNCHANGED rough
    /\ UNCHANGED <<site, initiator, client, responder, server>>

OtherClient ==
    /\ Mishap /\ site.mode = "server" /\ cache # NoStage
    /\ cache' = NoStage
    /\ UNCHANGED <<site, initiator, client, out, back, active_profile, entry, server>>

SessionLost ==
    /\ Mishap /\ up /\ up' = FALSE
    /\ UNCHANGED <<site, initiator, answering, sent, out, back, responder, server>>

(* The responder's WireGuard starts a handshake of its own towards the     *)
(* client it has heard of; last_active says that much happened.            *)
ServerInit ==
    /\ site.starts /\ ~started /\ last_active
    /\ site.mode = "server" => entry # NoStage
    /\ started' = TRUE
    /\ owed' = owed \cup {[kind |-> "init", prof |-> IF site.mode = "server" THEN entry ELSE NoStage]}
    /\ UNCHANGED <<site, initiator, client, out, back, responder, rough>>

-----------------------------------------------------------------------------
Answer == \/ SwitchDone \/ Reconnect \/ C2sData
          \/ \E o \in owed : ReverseReply(o)
          \/ DeliverOut \/ DeliverBack \/ Lose

Next ==
    \/ C2sBatch \/ \E k \in {"init", "resp"} : C2sHandshake(k)
    \/ FbTick \/ Answer
    \/ DuplicateOut \/ OtherClient \/ SessionLost \/ ServerInit

(* Datagrams move, threads run, the timer fires and WireGuard retries.     *)
Spec == Init /\ [][Next]_vars
             /\ WF_vars(Answer) /\ WF_vars(FbTick) /\ WF_vars(C2sHandshake("init"))
-----------------------------------------------------------------------------
(* Whatever is under way, torn by a switch or not, is read by the          *)
(* responder in any stage it may try, and by the initiator with any mix of *)
(* words, as the message that was sent or not at all: transport never      *)
(* passes for a handshake, nor a handshake or its trailer for transport.   *)
NeverMistaken ==
    /\ TypeOK
    /\ \A pkt \in out, j \in site.knows : Receive(Stage(j), pkt) \in {Nothing, pkt.msg}
    /\ \A pkt \in back : InitiatorReads(pkt) \subseteq {Nothing, pkt.msg}

(* A handshake of either side, in the middle of a switch too, and all that *)
(* the responder sends are in one stage of the chain, padding, protection  *)
(* and type together: a peer on that stage reads them.                     *)
OneStage ==
    \A pkt \in out \cup back :
        (pkt \in back \/ pkt.msg.kind # "data") =>
            \E j \in Stages : Receive(Stage(j), pkt) = pkt.msg

(* The tunnel comes up, again after every loss of its session, if one      *)
(* stage is known to both sides and gets through: the initiator's walk     *)
(* finds it and the responder answers in it.                               *)
ComesUp == ~site.starts => []<>up

(* The walk ends: the initiator does not leave a stage that works.         *)
Settles == ~site.starts => <>[](goal = NoStage)

(* The same promise where the responder's WireGuard starts handshakes too. *)
FindsTheStage == []<>up
=============================================================================
