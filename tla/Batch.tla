-------------------------------- MODULE Batch --------------------------------
(***************************************************************************)
(* One direction of the copying loop: a batch is read (one coalesced       *)
(* recvmsg with GRO, or recvmmsg), every packet of it is handed to the     *)
(* transform, and the result is sent in runs (UDP_SEGMENT) and rows        *)
(* (sendmmsg).  The four modes are the four loops of the code:             *)
(* c2s_thread_normal, c2s_thread_reverse, and s2c_thread in normal mode    *)
(* and in reverse or server mode.                                          *)
(*                                                                         *)
(* A datagram is the sequence of its bytes and a byte names the packet it  *)
(* belongs to, so that a read or a send that cuts in the wrong place       *)
(* shows.  What the transform does to a packet is module Transform's,      *)
(* what a send to the remote does besides (the port move's copies, the     *)
(* probe's stash, the reconnect request) is RotLag, HappyEyeballs, Link.   *)
(***************************************************************************)
EXTENDS Integers, Sequences, SequencesExt, FiniteSetsExt

CONSTANTS
    Lens,        \* lengths of a transport packet
    HsLen,       \* length of a handshake or of junk
    Dests,       \* clients of server mode
    Arrivals,    \* bound: packets per behaviour
    Batch,       \* BATCH_SIZE
    MaxSegs,     \* GSO_MAX_SEGMENTS
    MaxBytes,    \* GSO_MAX_BYTES
    BufSize,     \* BUF_SIZE
    NoCoalesce,  \* single reads before GRO is given up (8)
    RearmMin, RearmMax,
    Modes,       \* the loops looked at
    HsInBuf      \* the modes where a handshake's padding may exceed the headroom

ASSUME BatchAssumption ==
    /\ Lens \subseteq Nat \ {0} /\ HsLen \in Nat \ {0} /\ Dests # {}
    /\ Arrivals \in Nat /\ Batch \in Nat \ {0} /\ MaxSegs \in Nat \ {0}
    /\ MaxBytes \in Nat /\ BufSize \in Nat \ {0} /\ HsLen <= BufSize
    /\ NoCoalesce \in Nat \ {0} /\ RearmMin \in Nat \ {0} /\ RearmMax \in Nat /\ RearmMax >= RearmMin
    /\ Modes \subseteq {"c2s_normal", "c2s_reverse", "s2c_normal", "s2c_server"}
    /\ HsInBuf \subseteq {"c2s_normal", "s2c_server"}

VARIABLES
    mode,        \* which loop this is
    seq,         \* (ghost) packets that have arrived
    rq,          \* the socket's receive queue
    has_client,  \* (s2c, normal mode) somebody to send to
    udp_gro,     \* the UDP_GRO socket option
    gro,         \* gro_enabled, gro_enabled_c2s
    pend,        \* gro_pend_*: what is left of a coalesced read
    no_coalesce, rearm_in, rearm_gap,
    pc,
    bufs,        \* the packets of this turn, and
    i,           \*   the next one to process
    hs_buf,
    clobbered,   \* (ghost) handshakes written to hs_buf while the batch referred to it
    iov,         \* the send batch: where the bytes are, how many, for whom
    sent, err, gso_ok,
    tx, drop,    \* what the last flush of this turn added to st_*_tx and st_*_drop
    noted,       \* whether it called note_remote_send_err
    out,         \* (ghost) the datagrams the last step sent
    flushed,     \* (ghost) how many datagrams of the batch have left
    top,         \* (ghost) the latest packet that has left
    settled,     \* (ghost) packets batched, sent directly or thrown away
    glued        \* (ghost) packets of this turn that were read joined by recvmmsg

world == <<seq, rq, has_client>>
recv  == <<udp_gro, gro, pend, no_coalesce, rearm_in, rearm_gap>>
hs    == <<hs_buf, clobbered>>
turn  == <<bufs, i, hs>>
send  == <<iov, sent, err, gso_ok>>
stats == <<tx, drop, noted>>
ghost == <<flushed, top, settled, glued>>
vars  == <<mode, world, recv, pc, turn, send, stats, out, ghost>>

C2s     == mode \in {"c2s_normal", "c2s_reverse"}
HasGro  == mode \in {"c2s_normal", "s2c_normal"}
Flushes == C2s                                \* "Handshake slow path: flush batch first"
Addrs   == ~C2s                               \* the listening socket is not connected
Direct  == mode \in {"c2s_normal", "s2c_server"}  \* an init goes out by itself, after its junk

Kinds    == {"data", "hs", "init", "junk"}
Packet   == [id : 1..Arrivals, kind : Kinds, len : Lens \cup {HsLen}, to : Dests]
Datagram == Seq(Packet)
NoPend   == [bytes |-> <<>>, off |-> 0, seg |-> 0]
OneDest  == CHOOSE d \in Dests : TRUE

Bytes(p) == [j \in 1..p.len |-> p]
Ids(d)   == {p.id : p \in Range(d)}
AllIds(row) == UNION {Ids(d) : d \in Range(row)}

TypeOK ==
    /\ mode \in Modes /\ seq \in 0..Arrivals
    /\ rq \in Seq([bytes : Datagram, seg : Nat, stuck : BOOLEAN])
    /\ udp_gro \in BOOLEAN /\ gro \in BOOLEAN
    /\ pend \in [bytes : Datagram, off : Nat, seg : Nat]
    /\ no_coalesce \in 0..NoCoalesce /\ rearm_in \in 0..2 * RearmMax /\ rearm_gap \in RearmMin..2 * RearmMax
    /\ has_client \in BOOLEAN /\ pc \in {"recv", "walk", "send"}
    /\ bufs \in Seq(Datagram) /\ i \in 1..Len(bufs) + 1 /\ hs_buf \in Datagram
    /\ iov \in Seq([at : Nat, len : Nat, to : Dests]) /\ Len(iov) <= Batch
    /\ sent \in 0..Len(iov) /\ err \in BOOLEAN /\ gso_ok \in BOOLEAN
    /\ tx \in 0..Batch /\ drop \in 0..Batch /\ noted \in BOOLEAN
    /\ out \in Seq([bytes : Datagram, to : Dests])
    /\ flushed \in 0..Batch /\ top \in 0..Arrivals
    /\ settled \subseteq 1..Arrivals /\ glued \subseteq 1..Arrivals /\ clobbered \subseteq 1..Arrivals

(* The state the thread starts in: with the socket option on where the     *)
(* mode uses it, nothing read yet.                                         *)
Init ==
    /\ mode \in Modes
    /\ seq = 0 /\ rq = <<>> /\ has_client \in {mode # "s2c_normal", TRUE}
    /\ gro = HasGro /\ udp_gro = gro
    /\ pend = NoPend /\ no_coalesce = 0 /\ rearm_in = 0 /\ rearm_gap = RearmMin
    /\ pc = "recv" /\ bufs = <<>> /\ i = 1 /\ hs_buf = <<>> /\ clobbered = {}
    /\ iov = <<>> /\ sent = 0 /\ err = FALSE /\ gso_ok = TRUE
    /\ tx = 0 /\ drop = 0 /\ noted = FALSE
    /\ out = <<>> /\ flushed = 0 /\ top = 0 /\ settled = {} /\ glued = {}

-----------------------------------------------------------------------------
(* The kernel's receive side.  With UDP_GRO set it may join a packet to    *)
(* the buffer queued last: pieces of one length, the last one possibly     *)
(* shorter.  Nothing looks at the queue or at the option during a turn, so *)
(* what comes during one is taken to come right after it.                  *)

Coalesced(b) == b.seg > 0
SegOf(b) == IF Coalesced(b) THEN b.seg ELSE Len(b.bytes)
Joins(b, n) == n <= SegOf(b) /\ Len(b.bytes) % SegOf(b) = 0

Arrive(k, n, d) ==
    /\ pc = "recv" /\ seq < Arrivals
    /\ k # "data" => n = HsLen
    /\ k = "init" => Direct                  \* elsewhere an init is any handshake
    /\ mode # "s2c_server" => d = OneDest    \* one peer
    /\ seq' = seq + 1
    /\ LET new == Bytes([id |-> seq', kind |-> k, len |-> n, to |-> d])
       IN  \/ rq' = Append(rq, [bytes |-> new, seg |-> 0, stuck |-> FALSE])
           \/ /\ udp_gro /\ rq # <<>> /\ Joins(Last(rq), n)
              /\ rq' = Append(Front(rq), [bytes |-> Last(rq).bytes \o new, seg |-> SegOf(Last(rq)),
                                         stuck |-> FALSE])
    /\ out' = <<>>
    /\ UNCHANGED <<mode, has_client, recv, pc, turn, send, stats, ghost>>

(* The c2s thread met the client.  s2c looks at has_client once, right     *)
(* after its read.                                                         *)
ClientSeen ==
    /\ pc = "recv" /\ ~has_client /\ has_client' = TRUE /\ out' = <<>>
    /\ UNCHANGED <<mode, seq, rq, recv, pc, turn, send, stats, ghost>>

(* The other direction's thread found the kernel without the offload; this *)
(* one looks at the flag only while it sends.                              *)
OtherGsoOff ==
    /\ pc = "send" /\ gso_ok /\ gso_ok' = FALSE /\ out' = <<>>
    /\ UNCHANGED <<mode, world, recv, pc, turn, iov, sent, err, stats, ghost>>

-----------------------------------------------------------------------------
(* Reading.                                                                *)

Drop(v, k) == SubSeq(v, k + 1, Len(v))
Cut(v, k)  == SubSeq(v, 1, Min({k, Len(v)}))
Up(a, b)   == (a + b - 1) \div b

(* The pieces of a coalesced read from byte off on, at most limit of them. *)
Segments(bytes, off, seg, limit) ==
    [j \in 1..Min({limit, Up(Len(bytes) - off, seg)}) |->
        SubSeq(bytes, off + (j - 1) * seg + 1, Min({off + j * seg, Len(bytes)}))]

(* Mutant: the pieces a batch has no room for are dropped.                 *)
MutRemainder(bytes, off, seg) == NoPend

Remainder(bytes, off, seg) ==
    IF off < Len(bytes) THEN [bytes |-> bytes, off |-> off, seg |-> seg] ELSE NoPend

(* disable_gro: packets arrive apart from now on, but the buffers the      *)
(* kernel had already joined stay joined.                                  *)
GiveUpGro(queue) ==
    /\ gro' = FALSE /\ udp_gro' = FALSE
    /\ rq' = [j \in 1..Len(queue) |-> [queue[j] EXCEPT !.stuck = Coalesced(queue[j])]]

StartTurn(chunks) == bufs' = chunks /\ i' = 1 /\ pc' = "walk" /\ UNCHANGED hs

Settle(ids) == settled' = settled \cup ids

(* s2c drops what it reads before it looks at it while there is nobody to  *)
(* send to (NoSocket).                                                     *)
Served == C2s \/ has_client

(* c2s copies one batch of pieces out and remembers how far it got; s2c    *)
(* works in place and stops when its send batch is full (Advance).  A      *)
(* piece that c2s has no buffer for ends GRO for good, the rest of the     *)
(* read with it.                                                           *)
TakeSegments(bytes, off, seg, queue) ==
    IF C2s /\ Min({seg, Len(bytes) - off}) > BufSize
    THEN /\ GiveUpGro(queue)
         /\ pend' = [bytes |-> bytes, off |-> off, seg |-> seg]
         /\ Settle(Ids(Drop(bytes, off)))
         /\ UNCHANGED <<no_coalesce, rearm_in, pc, turn>>
    ELSE LET chunks == Segments(bytes, off, seg, IF C2s THEN Batch ELSE Len(bytes))
         IN  /\ no_coalesce' = IF Served THEN 0 ELSE no_coalesce
             /\ pend' = Remainder(bytes, IF C2s THEN off + Len(chunks) * seg ELSE off, seg)
             /\ StartTurn(chunks)
             /\ rq' = queue
             /\ UNCHANGED <<udp_gro, gro, rearm_in, settled>>

(* A read that was not coalesced; the NoCoalesce-th in a row, and each one *)
(* after it, retires GRO for rearm_gap reads.                              *)
TakeSingle(bytes, queue) ==
    /\ no_coalesce' = IF Served /\ no_coalesce < NoCoalesce THEN no_coalesce + 1 ELSE no_coalesce
    /\ IF Served /\ no_coalesce' = NoCoalesce
       THEN GiveUpGro(queue) /\ rearm_in' = rearm_gap
       ELSE rq' = queue /\ UNCHANGED <<gro, udp_gro, rearm_in>>
    /\ IF C2s /\ Len(bytes) > BufSize
       THEN Settle(Ids(bytes)) /\ UNCHANGED <<pc, turn>>
       ELSE StartTurn(<<bytes>>) /\ UNCHANGED settled
    /\ UNCHANGED pend

Reading ==
    /\ pc = "recv" /\ out' = <<>> /\ flushed' = 0
    /\ tx' = 0 /\ drop' = 0 /\ noted' = FALSE
    /\ UNCHANGED <<mode, seq, has_client, send, top>>

RecvGro ==
    /\ Reading /\ gro /\ pend = NoPend /\ rq # <<>>
    /\ IF Coalesced(Head(rq))
       THEN TakeSegments(Head(rq).bytes, 0, Head(rq).seg, Tail(rq))
       ELSE TakeSingle(Head(rq).bytes, Tail(rq))
    /\ glued' = {} /\ UNCHANGED rearm_gap

DrainPend ==
    /\ Reading /\ gro /\ pend # NoPend
    /\ TakeSegments(pend.bytes, pend.off, pend.seg, rq)
    /\ glued' = {} /\ UNCHANGED rearm_gap

(* GRO gets another chance, and the next wait is twice as long.            *)
Rearm ==
    /\ Reading /\ ~gro /\ rearm_in = 1
    /\ rearm_in' = 0 /\ gro' = TRUE /\ udp_gro' = TRUE /\ no_coalesce' = 0
    /\ rearm_gap' = IF rearm_gap < RearmMax THEN 2 * rearm_gap ELSE rearm_gap
    /\ UNCHANGED <<rq, pend, pc, turn, settled, glued>>

(* recvmmsg: what is queued, up to a batch, each datagram cut to its       *)
(* buffer.  With rearm_in = 1, setsockopt has just refused UDP_GRO.        *)
RecvMmsg ==
    /\ Reading /\ ~gro /\ rq # <<>>
    /\ LET got == Cut(rq, Batch)
       IN  /\ StartTurn([j \in DOMAIN got |-> Cut(got[j].bytes, BufSize)])
           /\ rq' = Drop(rq, Batch)
           /\ glued' = UNION {Ids(b.bytes) : b \in {c \in Range(got) : c.stuck}}
           /\ Settle(AllIds([j \in DOMAIN got |-> Drop(got[j].bytes, BufSize)])
                     \ AllIds([j \in DOMAIN got |-> Cut(got[j].bytes, BufSize)]))
    /\ rearm_in' = IF rearm_in > 0 THEN rearm_in - 1 ELSE 0
    /\ UNCHANGED <<udp_gro, gro, pend, no_coalesce, rearm_gap>>

(* s2c dials again: what the old socket had queued is lost, what is left   *)
(* of a coalesced read is not, nor are the counts; in normal mode the      *)
(* client is forgotten and the new socket gets the option.                 *)
Reconnect ==
    /\ pc = "recv" /\ ~C2s
    /\ rq' = <<>> /\ Settle(UNION {Ids(b.bytes) : b \in Range(rq)})
    /\ has_client' = (has_client /\ mode # "s2c_normal")
    /\ gro' = HasGro /\ udp_gro' = HasGro
    /\ out' = <<>>
    /\ UNCHANGED <<mode, seq, pend, no_coalesce, rearm_in, rearm_gap, pc, turn, send, stats, flushed, top, glued>>

-----------------------------------------------------------------------------
(* Processing the packets of a turn.                                       *)

(* The s2c loop walks the coalesced read itself, a piece per packet.       *)
Advance ==
    /\ i' = i + 1
    /\ pend' = IF C2s \/ pend = NoPend THEN pend
               ELSE Remainder(pend.bytes, pend.off + pend.seg, pend.seg)

(* Nothing of the turn is read again: the next one fills the buffers anew. *)
Recv == pc' = "recv" /\ bufs' = <<>> /\ i' = 1 /\ hs_buf' = <<>> /\ clobbered' = {}

StartSend == pc' = "send" /\ sent' = 0 /\ err' = FALSE /\ flushed' = 0 /\ UNCHANGED turn

AtEnd == i > Len(bufs) \/ (~C2s /\ Len(iov) = Batch)

Walk == pc = "walk" /\ UNCHANGED <<mode, world, udp_gro, gro, no_coalesce, rearm_in, rearm_gap, gso_ok, glued>>

(* c2s may find remote_fd < 0, s2c may have nobody to send to: the turn is *)
(* over, its packets are dropped.  Only a remainder that s2c drains stays  *)
(* for the next turn.                                                      *)
NoSocket ==
    /\ Walk /\ i = 1 /\ (C2s \/ ~has_client)
    /\ Recv
    /\ IF ~C2s /\ pend.off > 0 THEN UNCHANGED <<pend, settled>>
       ELSE Settle(AllIds(bufs)) /\ pend' = IF C2s THEN pend ELSE NoPend
    /\ out' = <<>> /\ UNCHANGED <<iov, sent, err, stats, flushed, top>>

Packets == Walk /\ ~AtEnd /\ has_client
Kind == bufs[i][1].kind
To   == bufs[i][1].to

Enqueue(at) ==
    /\ iov' = Append(iov, [at |-> at, len |-> Len(bufs[i]), to |-> To])
    /\ Advance /\ Settle(Ids(bufs[i]))
    /\ out' = <<>> /\ UNCHANGED <<pc, bufs, sent, err, stats, flushed, top>>

(* Transport: batched as it stands in its receive buffer.                  *)
Transport == Packets /\ Kind = "data" /\ Enqueue(i) /\ UNCHANGED hs

(* Mutant: the slow path does not flush the batch first.                   *)
MutFlushed == TRUE

(* Anything else, once the batch before it is out where the loop flushes.  *)
Flushed == Flushes => iov = <<>>

Flush ==
    /\ Packets /\ Kind # "data" /\ ~Flushed
    /\ StartSend
    /\ out' = <<>> /\ UNCHANGED <<pend, iov, stats, top, settled>>

(* The transform leaves a handshake in place, or copies it to the          *)
(* thread's one hs_buf when its padding does not fit in front of it,       *)
(* whoever still refers to what was there.                                 *)
Copied ==
    /\ mode \in HsInBuf /\ hs_buf' = bufs[i]
    /\ clobbered' = clobbered \cup IF \E e \in Range(iov) : e.at = 0 THEN Ids(bufs[i]) ELSE {}

Handshake ==
    /\ Packets /\ Kind = "hs" /\ Flushed
    /\ \/ Copied /\ Enqueue(0)
       \/ UNCHANGED hs /\ Enqueue(i)

(* In the loop that does not flush, an init goes around its batch, and a   *)
(* handshake copied over another one leaves in place of both.              *)
Overtakes(w)   == ~Flushes /\ Direct /\ w.bytes[1].kind = "init"
Overwritten(w) == ~Flushes /\ w.bytes[1].id \in clobbered
InTurn(w)      == ~Overtakes(w) /\ ~Overwritten(w)

(* Every step that sends: what left, and the latest of it.                 *)
Sends(ws) ==
    /\ out' = ws
    /\ top' = Max({top} \cup {Last(w.bytes).id : w \in {x \in Range(ws) : InTurn(x)}})

(* An init follows its junk at once, around the batch; the send may fail.  *)
SendInit ==
    /\ Packets /\ Kind = "init" /\ Flushed
    /\ Copied \/ UNCHANGED hs
    /\ \/ Sends(<<[bytes |-> bufs[i], to |-> To]>>)
       \/ Sends(<<>>)
    /\ Advance /\ Settle(Ids(bufs[i]))
    /\ UNCHANGED <<pc, bufs, iov, sent, err, stats, flushed>>

(* Junk, a cookie nobody wants, a packet without a session.                *)
Discard ==
    /\ Packets /\ Kind = "junk" /\ Flushed
    /\ Advance /\ Settle(Ids(bufs[i]))
    /\ out' = <<>> /\ UNCHANGED <<pc, bufs, hs, iov, sent, err, stats, flushed, top>>

EndTurn ==
    /\ Walk /\ AtEnd
    /\ IF iov = <<>> THEN Recv /\ UNCHANGED <<sent, err, flushed>> ELSE StartSend
    /\ out' = <<>> /\ UNCHANGED <<pend, iov, stats, top, settled>>

-----------------------------------------------------------------------------
(* Sending: send_batch_gso, one system call a step.                        *)

Content(e) == IF e.at = 0 THEN hs_buf ELSE bufs[e.at]

(* Mutant: a run does not end at another destination.                      *)
MutJoinable(a, b) == TRUE

Joinable(a, b) == ~Addrs \/ a.to = b.to

(* gso_run_len: equal lengths for one destination, one shorter packet at   *)
(* the end, within the kernel's limits; 0 when there is nothing to join.   *)
EqualRun(v) == Max({r \in 1..Min({Len(v), MaxSegs}) :
    r = 1 \/ (r * v[1].len <= MaxBytes /\ \A j \in 2..r : v[j].len = v[1].len /\ Joinable(v[j], v[1]))})

GsoRunLen(v) ==
    IF Len(v) <= 1 \/ v[1].len > MaxBytes THEN 0
    ELSE LET r    == EqualRun(v)
             tail == /\ r < Len(v) /\ r < MaxSegs /\ v[r + 1].len < v[1].len
                     /\ r * v[1].len + v[r + 1].len <= MaxBytes /\ Joinable(v[r + 1], v[1])
             run  == IF tail THEN r + 1 ELSE r
         IN  IF run > 1 THEN run ELSE 0

Rest == Drop(iov, sent)
Run  == IF gso_ok THEN GsoRunLen(Rest) ELSE 0

(* Without a run at the head: as far as the next run begins, or, without   *)
(* the offload, all of it.                                                 *)
Want == IF ~gso_ok THEN Len(Rest)
        ELSE Min({k \in 1..Len(Rest) : k = Len(Rest) \/ GsoRunLen(Drop(Rest, k)) > 0})

(* The kernel cuts a segmented send into pieces of the first length.       *)
Sliced(v) ==
    LET all == FlattenSeq([j \in 1..Len(v) |-> Content(v[j])])
        cut == Segments(all, 0, v[1].len, Len(all))
    IN  [j \in DOMAIN cut |-> [bytes |-> cut[j], to |-> v[1].to]]

Plain(v) == [j \in DOMAIN v |-> [bytes |-> Content(v[j]), to |-> v[j].to]]

SendsBatch(ws) == Sends(ws) /\ flushed' = flushed + Len(ws)

Sending ==
    /\ pc = "send" /\ sent < Len(iov) /\ ~err
    /\ UNCHANGED <<mode, world, recv, pc, turn, iov, stats, settled, glued>>

GsoSend ==
    /\ Sending /\ Run > 1
    /\ SendsBatch(Sliced(Cut(Rest, Run)))
    /\ sent' = sent + Run /\ err' = FALSE /\ UNCHANGED gso_ok

(* Mutant: sendmmsg is taken to have sent all it was given.                *)
MutMmsg(want) ==
    \/ \E r \in 1..want : SendsBatch(Plain(Cut(Rest, r))) /\ sent' = sent + want /\ err' = FALSE
    \/ SendsBatch(<<>>) /\ err' = TRUE /\ UNCHANGED sent

(* sendmmsg takes a part of the row, or fails and the tail is given up.    *)
Mmsg(want) ==
    \/ \E r \in 1..want : SendsBatch(Plain(Cut(Rest, r))) /\ sent' = sent + r /\ err' = FALSE
    \/ SendsBatch(<<>>) /\ err' = TRUE /\ UNCHANGED sent

(* A refused run is sent again as a row; ENOPROTOOPT and EIO also end the  *)
(* offload.                                                                *)
GsoRefused == Sending /\ Run > 1 /\ gso_ok' \in BOOLEAN /\ Mmsg(Run)

MmsgSend == Sending /\ Run <= 1 /\ Mmsg(Want) /\ UNCHANGED gso_ok

(* stats_add_tx, and for the remote note_remote_send_err.                  *)
SendDone ==
    /\ pc = "send" /\ (sent = Len(iov) \/ err)
    /\ tx' = sent /\ drop' = Len(iov) - sent /\ noted' = (err /\ C2s)
    /\ iov' = <<>> /\ sent' = 0 /\ err' = FALSE
    /\ IF AtEnd THEN Recv ELSE pc' = "walk" /\ UNCHANGED turn
    /\ out' = <<>> /\ UNCHANGED <<mode, world, recv, gso_ok, ghost>>

-----------------------------------------------------------------------------
Thread ==
    \/ RecvGro \/ DrainPend \/ Rearm \/ RecvMmsg \/ Reconnect
    \/ NoSocket \/ Transport \/ Flush \/ Handshake \/ SendInit \/ Discard \/ EndTurn
    \/ GsoSend \/ GsoRefused \/ MmsgSend \/ SendDone

Next ==
    \/ \E k \in Kinds, n \in Lens \cup {HsLen}, d \in Dests : Arrive(k, n, d)
    \/ ClientSeen \/ OtherGsoOff
    \/ Thread

Spec == Init /\ [][Next]_vars

-----------------------------------------------------------------------------
(* Every datagram that leaves is one packet that arrived, whole, for the   *)
(* peer it was meant for: whatever the kernel joined on the way in, what   *)
(* send_gso joined on the way out and how often the row was sent again.    *)
(* Only a packet longer than a packet buffer may be cut (recvmmsg), and    *)
(* packets the kernel had joined when GRO was given up leave glued.        *)
(* Nothing is said of the handshakes of a batch of the loop that does not  *)
(* flush (s2c_server, transform.c:300) after one was copied over another:  *)
(* the last one leaves in place of each, for its peer and at its length.   *)
Intact ==
    /\ TypeOK
    /\ \A w \in {x \in Range(out) : ~Overwritten(x)} :
        LET p == w.bytes[1]
        IN  /\ w.bytes = Bytes(p) \/ p.len > BufSize \/ Ids(w.bytes) \subseteq glued
            /\ w.to = p.to

(* Packets leave in the order they came and none leaves twice: not the     *)
(* remainder of a coalesced read, not the row sent again after a refused   *)
(* run, not what was left in the buffer when GRO was given up.  Two        *)
(* exceptions, both of the loop that does not flush: an init overtakes the *)
(* batch it came in, and a handshake copied over another one of its batch  *)
(* leaves in the place of both.                                            *)
InOrder(row, after) ==
    \A b \in {x \in DOMAIN row : InTurn(row[x])} :
        /\ after < row[b].bytes[1].id
        /\ \A a \in 1..b - 1 : InTurn(row[a]) => Last(row[a].bytes).id < row[b].bytes[1].id

InOrderOnce == [][InOrder(out', top)]_vars

(* No packet disappears between the socket and the send batch, and none is *)
(* in two places: each one that arrived is either still held (queued, part *)
(* of a coalesced read still to be split, or among the packets of this     *)
(* turn) or was batched or thrown away.  A full batch in the middle of a   *)
(* coalesced read is where this is hard.                                   *)
QueueIds == UNION {Ids(b.bytes) : b \in Range(rq)}
PendIds  == IF gro THEN Ids(Drop(pend.bytes, pend.off)) ELSE {}
TurnIds  == AllIds(Drop(bufs, i - 1))
Held     == QueueIds \cup PendIds \cup TurnIds

NonePassedOver == settled \cup Held = 1..seq /\ settled \cap Held = {}

(* What a flush reports is what happened: st_*_tx grows by the datagrams   *)
(* that left, st_*_drop by the rest, and the remote hears of an error      *)
(* exactly when something was lost, not when a refused run went out as a   *)
(* row after all.                                                          *)
FlushReported ==
    [][pc = "send" /\ pc' # "send" =>
          /\ tx' = flushed /\ drop' = Len(iov) - flushed
          /\ noted' <=> (C2s /\ flushed < Len(iov))]_vars
=============================================================================
