# A model of the AmneziaWG proxy

TLA+ modules for the core of `amneziawg-mikrotik-c`, a proxy that sits between a WireGuard
endpoint and an AmneziaWG one and rewrites every UDP packet that passes. The program is one process with three
threads, almost no locks and many one-word atomics. What a single packet is turned into is well covered by unit
tests; what no test of the repository can reach are the orders in which the threads read and write those words, two
proxies that change what they speak while packets are under way, and system calls that do half of what they were
asked. That is what the modules are about.

- `PROJECT.json` lists the components, the runs, the mutants, the source lines of every definition, the hazards
  and the theorems.
- A run is `tlc -config <cfg> <MC module>`; the proofs are in the eight modules `*_proofs.tla`, each checked with
  `tlapm <module>.tla`.

## 1. The system

All of it is in `src/src`. Line numbers below are those of `src/src/proxy.c` unless another file is named.

| Thread | Loop | What it owns |
|---|---|---|
| c2s | `c2s_thread_normal` 2535, `c2s_thread_reverse` 2809 | reads the listening socket, sends on `remote_fd`; moves the port; fills the session table |
| s2c | `s2c_thread` 3273 | reads `remote_fd`, sends to the client; closes and dials `remote_fd`; runs the Happy Eyeballs probe |
| main | `proxy_run` 3721 | epoll on timer, signal and the old port's socket; every clock; starts and joins the other two |

They meet in `proxy_t`: `remote_fd`, `remote_fd2`, `reconnect_needed`, `stopped`, `last_active`,
`last_remote_rx`, `client_init`, `he_reset`, `remote_dead`, the `rot_*` words, the stash of the probe and the
session table. One mutex, `remote_mu`, serialises the rewrites of the remote endpoint; the hot paths never take it.
A thread parked in `recv()` is woken by a `shutdown()` of its socket.

### Inventory

| Component | State | Operations | Hard behaviour | Correct when |
|---|---|---|---|---|
| Port rotation, the move | `rot_state`, `rot_from/to`, `rot_old_fd`, `rot_dual`, `rot_refused`, `rot_t0_ms`, `rot_ans_ms`, `rot_due`, `rot_changed`, `rot_failed`, `rot_force`, ring of dead ports | `rot_try`, `rot_move` (c2s); `rot_answered`, `do_reconnect`, `he_finish` (s2c); `rot_main_tick`, `rot_main_poll` (main) | three threads on plain atomics; answer against timeout; a lock taken with trylock | the record of a move describes the socket; a move is undone only on its own evidence; no socket leaks; every move ends |
| Port rotation, copies for the old port | ring `rot_lag` | `rot_lag_put`, `rot_lag_send`, `rot_lag_service` | the move ends under the sender; the ring wraps; sends in pieces | order kept, nothing dropped that could still arrive, nothing left behind |
| Port rotation, schedule | `rot_sched_t`, byte counters, busy ticks, `rot_due`, `rot_force`, port set | `rot_main_tick`, `rot_seen_note`, `rot_try`, `rot_sched_reset`, `rot_is_due`, `rot_window`, `portset_pick` | counters that wrap and are read at any moment; news of two threads in one tick | due within its span; the volume exact; moves in quiet or after the full wait; no early retry |
| Link to the remote | `remote_fd`, `reconnect_needed`, `local_port` | `note_remote_send_err`, `note_remote_read_err`, `do_reconnect_locked`, stop sequence | request and wake-up are two steps; descriptor numbers are reused; a name is resolved between load and use | requests are served; no socket lost; a signal ends all three threads |
| Clocks of the main loop | `fb_silent_count`, `silent_ticks`, `init_unanswered`, `hop_rounds`, `dns_miss`, `active_profile` | the 5 s tick | counters that restart each other | a silent remote is given up, a working one is not; every stage gets its turn |
| Happy Eyeballs, state file | `prefer6`, `state_written`, `remote_fd2`, stash `he_pkt`, byte on disk | `dial_remote`, `he_probe`, `he_finish`, `he_learn`, `he_stash` | poll() reports a shutdown like an answer; the stash is shared without a lock; restarts | the order is taught by evidence only; a family that works is found |
| Session table (server mode) | 4096 entries, `sidx_map` | `session_put_prof`, `session_follow_client`, `session_drop_moved_peer`, lookups | pointers held over another thread's writes; roaming; nothing expires | replies reach their client; an identified peer stays in reach; stragglers move nobody |
| Profiles | the flat copy of the active profile, `active_profile`, `prof` per entry, cache by address, `fb_silent_count` | `switch_profile`, the fallback clock, `profile_for_addr`, `profile_remember` | switched word by word while two threads read it and packets are under way; lost, late and repeated datagrams | the two sides find a common stage and stay on it; nothing is misread on the way |
| Packet transformation | none | `transform_outbound_profile`, `transform_inbound_profile`, the transport fast paths | sizes that fit two packet types | inbound inverts outbound; junk is told apart |
| CPS templates | counter | `cps_*` | bounds | never more than the buffer |
| Batching | `gso_ok`, `gro_enabled*`, `gro_pend_*`, the batch, `hs_buf` | `gso_run_len`, `send_batch_gso`, `recv_gro`, the four loops | partial sends, refused offload, reads that hold more than a batch | every packet once, whole, in order, to its own peer |
| Controllers | `rb_ctl_t`, `spin_ctl_t` | `rb_step`, `sp_tick` | idle windows, wrap | settle; never oscillate on noise |
| Configuration, DNS, hardware fit, crypto, log | start-up or pure | | | |

## 2. Modules

| Module | Models | Actions and the code |
|---|---|---|
| `Rotation` | the move of a port, three threads | `C2sBatch` … `C2sPutPending` are `rot_try` and `rot_move` store by store; `S2cCheck` … `S2cChanged` are `rot_answered`; `S2cReconnect` … `S2cRcChanged` are `do_reconnect_locked`; `MainPoll` … `MainBack` are `rot_main_poll`; `MainNews`, `MainRaise` are `rot_main_tick` |
| `LagQueue` | the promise of the copies' queue | abstract: a bounded FIFO that may be thrown away only when the old port is closed or the new one has answered |
| `RotLag` | the ring `rot_lag` | refines `LagQueue` with `q` mapped to the slots from `rot_lag_head` on |
| `Link` | request, wake-up, reconnect, stop | one action per load and store of the two askers, of s2c's reconnect and of the stop sequence; the kernel's descriptor table is `sock` |
| `Watchdog` | one tick of the main loop | `Tick` is the body of the timer event with every counter, what fires and what it restarts; `Dial` consumes the verdicts |
| `HappyEyeballs` | family choice, probe, state file | `S2cCloses`, `Unresolved`, `Dial`, `Publish` are `do_reconnect_locked` and `dial_remote`; `ProbePoll`, `ProbeReport`, `ProbeCut`, `ProbeIdle`, `ProbeDue`, `ProbeSend` are `he_probe`; `C2sStash`, `C2sCopied` (`he_stash`), then `C2sSend` in c2s; `MainStop`, `MainCut` are the stop with its two shutdown()s; `Restart` is the next start of the container |
| `Schedule` | when the port falls due and may move | `C2sSend` and, step by step with a batch in hand, `S2cTake`, `S2cNote`, `S2cAnswer`, `S2cCount` count traffic (`rot_seen_note`; `S2cAnswer` is `rot_answered`); `C2sTry`, `C2sMove`, `C2sStay` are `rot_try`, with the clock and the busy tick read apart; `MainClock`, `MainNews`, then `MainForce`, `MainDue` or `MainNotDue` are the tick and `rot_main_tick`, split where the threads can slip in; `MainBack`, `ReconnectBegins`, `Reconnect` are what ends a move otherwise |
| `Batch` | one turn of a copying loop, in four modes | the read (`recv_gro`, its remainder, giving up and trying again, `recvmmsg`), the dial between two reads of s2c (`Reconnect`), the walk over the packets, the handshake's slow path, and `send_batch_gso` call by call with every outcome of `sendmsg` and `sendmmsg` |
| `Transform` | a message dressed and recognised | operators: `ValidProfile`, `Outbound`, `FastOutbound`, `Inbound`, `FastInbound`. A datagram is its length, where the message starts and what can be read there |
| `Profiles` | the stage both proxies speak | `C2sBatch`, `C2sData`, `C2sHandshake`, `FbTick`, `SwitchDone`, `Reconnect` and `DeliverBack` in the initiator; `DeliverOut`, `ReverseReply` in the responder; `Lose`, `DuplicateOut`, `OtherClient`, `SessionLost`, `ServerInit` are the world |
| `Sessions` | the session table | `C2sInit`, `C2sResp`, `C2sData` in c2s; `S2cRoute` (lookup), then `S2cIndex` (`session_set_server_index`), `S2cHandshake` or `S2cData` (use) in s2c |
| `X_proofs` | | theorems about `X`, for `X` one of `Rotation`, `Link`, `RotLag`, `HappyEyeballs`, `Sessions`, `Batch`, `Profiles` (with `Transform`); `Tick_proofs` is about `Schedule` and `Watchdog` |
| `MC*` | | instances for TLC |

Conventions. A step of a thread is a run of accesses up to the next one whose outcome another thread can change.
Variables keep the C names; a variable marked *(ghost)* exists for a property only. Definitions that begin with
`Mut` are the mutated forms named in `PROJECT.json`: each property must fail when its mutant replaces the definition
behind it. A type invariant is checked by itself in `Rotation`, `HappyEyeballs` and `RotLag`, where bounds of the code
are part of it; in the other modules it is a conjunct of the first safety property, and of the inductive invariant of
the proofs.

How the modules meet: `Rotation` leaves requests to reconnect to `Link` (s2c may redial at any time) and the ring of
copies to `RotLag`, where a move is only what the ring can see of it; `Link` leaves to `Watchdog` when main asks, and
`Watchdog` leaves the threads' reports (`last_remote_rx`, `client_init`) as inputs; `HappyEyeballs` replaces the
dial of `Link` by one that chooses a family. `Schedule` sees of a move only that it is under way and how it ended;
`Rotation` takes the due flag as an input. `Profiles` is the composition of two proxies, each built on `Transform`,
with the fallback clock that `Watchdog` has beside the other clocks. `Batch` hands packets to `Transform` unopened,
and sees of a reconnect what it does to the queue, the option and `has_client`, at any moment between two turns of
s2c. Each takes the others' behaviour as free choices. What the cut loses are properties that would need both sides,
and the timing of one against the other.

## 3. Runs

| Run | Shows | Bounds |
|---|---|---|
| `rotation_safety` | six safety properties of the move in every interleaving, with the old port kept or not and a probe or none | two ports, one dead; one descriptor; windows of one clock unit |
| `rotation_live` | a move is taken back only after that move's own window or refusal, and is always decided; the old socket is let go, a signal ends everything | ports that never answer, the case in which nothing but main's clock helps; old port kept, soft moves, a verify window of two units so that a young and an old move differ |
| `link_sockets` | descriptors accounted for up to the end, shutdown, requests served | two descriptor numbers, so that a number is reused at once; two client ports |
| `watchdog` | the clocks do not starve or mislead each other | thresholds of 2 to 5 ticks, in four configurations: one port, several ports, a chain faster and a chain slower than the hops; the three reports of a tick in any combination, since the tick takes them one after the other |
| `rotlag_promise` | the ring implements `LagQueue`; nothing stays behind | ring of three slots, two packets a call: wraps, fills and splits; the move ends by an answer, a reconnect, the timeout or an answer that beats main's exchange, when the old port gets no time of grace |
| `happy_evidence` | the dial order changes on evidence only; with IPv4 dead and IPv6 alive, IPv6 is taken | complete: both families, every combination of what works; names that give one family, both or none, the stop at any point of a dial or a probe; a world with errors, requests, stops and restarts (`rough`) that may turn into one without, because these would help the second property, which is about the latter |
| `sessions_table` | four properties of the table | two slots for three indices (evictions happen), two peers, one with two addresses, counters 0 to 2 |
| `sessions_sole` | violation: a live session is retired | |
| `schedule` | volume exact, due within the span, no early retry, moves in quiet or after the full wait | five ticks, a timer of one or two ticks with moves under load and two units of traffic, a timer of two ticks with a volume and five units; counters that wrap at 5: a counter wraps once; s2c preempted with a batch in hand, across a tick too |
| `batch` | every datagram leaves whole, once, in order, for its peer; flushes report what happened | four packets of three lengths, two clients, batches of three, runs of two: a read exceeds a batch and a batch a run; the four loops, handshakes in place or in `hs_buf`, GRO given up and tried again, s2c's remote dialled anew |
| `profiles` | nothing is misread; the tunnel comes up, again after every loss, and stays | eight sites, one of them refused at start-up: chains of two and three stages, with and without header protection and trailers, stages only one side knows or the path blocks, both responder modes; two datagrams under way each way; one or two mishaps |
| `profiles_stuck` | violation: a responder that starts handshakes keeps the initiator on a stage that does not work | |

Why the bounds are enough. The hazards are about orders of steps, not about numbers: two ports are one to leave and
one to go to, a second move needs no third port; a window of one unit is enough to be over or not, two where the
property compares windows; a ring of three with calls of two has every alignment of head and count; two slots with
three indices force an eviction of each kind. Where a counter has a limit in the code (`BadN`, `N`, `checks`), the
instance reaches and passes it. In `Profiles` a mishap is what the path, another client or the peer does to the two
proxies; each property has to survive it at every moment, and a second one while the first is being repaired.

### Fairness

`Rotation` and `Link`: a thread inside a handler finishes it, the main loop turns (`epoll_wait` has a timeout of one
second), time passes. Nothing is assumed of the client, the server, the resolver or the signal. A reader on an open
socket may sleep for ever. `Watchdog`: the timer fires, and s2c serves a request in the end (this is what
`link_sockets` shows). `RotLag`: c2s wakes for the next copy, because it never sleeps past its due time (2557).
`HappyEyeballs`: the threads run, the client that asks keeps sending inits, and of what is repeated without end some
gets through (strong fairness): the name is resolved to both families and both are connected, an init or a replay of
one is answered by a family that works, c2s finds a socket to send on and the probe a moment to replay. UDP gives no
better, and without it no proxy could ever connect. Nothing is assumed while the world is `rough`. `Profiles`:
datagrams that are not lost move, the threads run, the timer fires and WireGuard repeats its init; a round trip is
shorter than a tick (`FbTick` waits until what is under way has arrived), without which the fallback clock could
outrun every answer. Losses are bounded by the site's mishaps: a path that loses everything brings no tunnel up.
`Batch` and `Schedule` state no liveness.

## 4. What the checks show

**A move of the port is sound.** `MoveConsistent`: while a move is pending, or being taken back, `rot_from`,
`rot_to` and the socket agree, although s2c may redial meanwhile. `OldSocketNotLeaked`: c2s checks `rot_old_fd` long
before it stores a new one, without a lock; nothing opens one in between. `OldHeldWhilePending` and `BackAfterVerify`:
main loads `rot_state`, computes, then takes the lock and exchanges; the move it exchanges is never a later one that
happened to be pending too. It is the check of `rot_old_fd` in c2s that makes this true: without it
(`MutMoveAllowed`) a young move is taken back on the evidence against its predecessor. `DueNeverLost`,
`NothingLeftOpen`, and the liveness trio complete it.

**The link heals and stops.** `RequestServed`: a reader asleep on a dead socket, or wedged on a socket that was shut
down, is brought to dial. Exempt (`overtaken`) are a request cleared after a dial before its shutdown() has hit the
old socket, main's late shutdown() of a number that has become another socket under a reader, and a change of the
client's port, which shuts nothing down (see below). `SocketsAccounted`: no descriptor is lost, and a socket that an
asker's shutdown() has hit, though it may have been meant for another one, is about to be replaced, or belongs to a
request of the exempt kinds.

**The clocks.** `FamilyKeptForShortSilence`: hops are counted over many ticks and the count survives other events; it
never condemns a family for a short silence. `SparseInitsSuffice`: a client that asks rarely still gets a verdict.

**The copies.** `KeepsPromise` is a refinement: every step of the ring is a step of `LagQueue` or leaves it alone. Its
`won` is `rot_won` itself, so a new move that a late store marks as won (see below) keeps the promise as stated.
`Drained` asks that the ring empties, sent or dropped.

**The family.** `LearnsFromEvidence`: poll() sets the same bit for an answer and for the shutdown() of a requested
reconnect, and of the two of a stop, which hit the probe's socket too; the order on disk is taught by none of them.
What makes it so is the order of the calls: a request is stored and a stop declared before its first shutdown(), and
the socket in use is shut before the other one, so that a verdict poll() may still reach keeps what there was.
`WorkingFamilyTaken`: the stash may hold a packet that no server answers; an init displaces it.

**The session table.** `OneClientPerEntry`, `RepliesReachTheirClient`, `PeerStaysInReach`, `OnlyNewerMoves` hold
except for two things, which the ghost `spoiled` marks: a slot taken by another index while s2c has it in hand
(`reuse`, only when a set of slots is full), and an init of the server for one peer that goes to another, the only
client there is (`sole`); `PeerStaysInReach` also excepts the eviction of a peer's entry (`evict`). `OnlyNewerMoves`
is about sessions that clients started: a duplicate of a client's answer may bring back an evicted session with a
counter that starts over.

**The schedule.** `VolumeExact`: the sum main keeps of two wrapping counters, read while the threads write them, is
what was carried. `DueInItsSpan` bounds the tick at which a port falls due from both sides, whatever reconnects and
moves happened before. `RetryKept`: a reconnect and a failed move reported in the same tick leave the pause in place,
because the failure is taken second; only a port change that a later tick reports, and that owes nothing to the
failure, draws a new schedule and ends the pause. `ForcedOnlyAfterWait`: permission to move under load, earned by one
wait, is not spent on the next port. `MovesInQuiet` speaks of what s2c has said when c2s decides: it exempts one order
of loads, described below, and a batch s2c has in hand and has not noted yet.

**The batches.** `Intact`: what the kernel joined on the way in and what `send_gso` joined on the way out is cut apart
where the packets end, and a run never crosses to another client. `InOrderOnce`, `NonePassedOver`: no packet is sent
twice when a refused run is sent again singly, nor skipped when GRO is given up or the remote dialled anew with a
remainder in hand. `NonePassedOver` compares sets: what is queued, left of a read or among the packets of the turn, and
what was batched or thrown away (`settled`), are together all that arrived and have nothing in common. `FlushReported`:
what the statistics and `note_remote_send_err` are told is what happened.

Two of these do not hold of everything, and name what they leave out:

- *handshakes copied over in `hs_buf`.* The server's loop does not flush its batch before a handshake, and with S2
  above `max_s4` (the usual server configuration: `AWG_S4` is 0 by default, 1729) a response is copied to the one
  `hs_buf` of the thread (`transform.c` 297). Two responses in one batch then both refer to the second: the first is
  lost, the second leaves twice, once with the first one's address and length. The code does this. The run contains
  the case (`s2c_server` is in `HsInBuf`), and `Intact` and `InOrderOnce` exempt exactly the handshakes that were
  copied while their batch still referred to an earlier one (`clobbered`, `Overwritten`), and no others: the transport
  of the same batch, and a single response, stay covered.
- *an init of the server* is sent around its batch (`Overtakes`; `InOrderOnce`).
- *packets the kernel had joined when GRO was given up* leave joined (`glued`; `Intact`), and a datagram longer than a
  packet buffer leaves cut.

**The stages.** `NeverMistaken`: main rewrites the active profile while two threads read it (66), so that packets
padded by one stage and protected by another exist; no stage of the chain reads one as a message it is not, because
validation keeps lengths and types of one stage apart and the ranges of two stages do not meet (`StagesApart`, which
the code does not check). `OneStage`:
handshakes are dressed from one profile even then. `ComesUp`, `Settles`: the initiator's walk ends on a stage both
know and the path passes, through late, lost and repeated datagrams, evicted cache slots and lost sessions.

### Disagreements with the repository's own words

Two are kept as runs, because a document or a comment states a promise that TLC refutes:

- `sessions_sole` (3170): the label given to the sole client retires its session later.
- `profiles_stuck` (3940): any datagram counts as an answer, so a responder that starts handshakes in a stage the
  initiator does not read keeps it from trying the next.

Others were met while the modules were written. They are consequences of the modelled code:

- The source port copied from the client (`docs/en/env.md` 229) may stay behind: `reconnect_needed` is cleared after
  the dial has bound the socket (3240), and a change of the client's port during the dial is cleared with it.
- With a fallback chain and one port, and `AWG_FB_AFTER` below `AWG_TIMEOUT`, each stage switch restarts the silence
  watchdog (3958): the silent address is never replaced, although `docs/en/env.md` 101 says so.
- A response whose S2 does not fit the headroom waits in the thread's one `hs_buf` (`transform.c` 302), and the
  server's loop, unlike both c2s loops, does not flush before the next one is written: two such responses in one
  batch both carry the second. This is what `Overwritten` in `Batch` exempts; without the exemption both `Intact` and
  `InOrderOnce` fail in the run.
- `rot_try` reads the clock before s2c's busy tick (2387, 2389). A tick and a busy s2c in between make `now - busy`
  wrap, and the busy tunnel passes for quiet (`proxy.h` 201: "no busy tick for this long, either way"). The
  antecedent of `MovesInQuiet` leaves this order out.
- A reconnect between main's reading of `rot_changed` and its raising of `rot_due` (2484) leaves the flag up under a
  new schedule, and the fresh port may move at once.
- With `AWG_FB_AFTER` under 10 s the chain needs one silent tick; `do_reconnect_locked` sets `last_active` itself
  (3234), so every switch is followed by a tick that looks like a sending client and a silent remote, and an idle
  client's initiator reconnects every 5 s. The default is 20 s; the run uses two ticks.
- The comment of `switch_profile` (62) says that no transport is in flight during the swap; it is, and `NeverMistaken`
  says why that does no harm.
- A reverse responder answers in the stage of the last datagram it decoded, not of the handshake
  (`docs/en/protocol.md` 31); a late datagram of the old stage switches it back until the next one.
- A session entry keeps the stage of its handshake: after a switch of the initiator, replies to its data go out in the
  old stage until the next handshake.
- Stages of one chain are not validated against each other: two may share lengths and types.
- When GRO is given up, buffers the kernel had already joined leave glued together (1428).
- In server mode an init sent directly by s2c overtakes the batch it arrived in, and its failure is not counted in
  `st_s2c_drop`.
- `rot_answered` (2418) says the socket "hears only the new port now": what the kernel had queued before `connect()`
  confirms a port that never answered. The silence watchdog finds out later.
- An answer, or a reconnect, that lands between main's loads and its exchange (3544) costs the old port its grace
  period (`MainLate` of `RotLag`).
- A tick of main between `rot_due = 0` and `rot_changed = 1` (2435, 3256) leaves the flag up under a new schedule:
  one move too early.
- `note_remote_send_err` (1961) asks, logs, then loads `remote_fd`: if s2c dials in between, the new socket is shut
  down with no request left, and s2c spins on reads of length 0 until the watchdog asks. `RequestServed` exempts it
  (`overtaken`).
- With `recvmmsg()` a shut-down socket yields empty datagrams, which count as news of the remote (3434).
- `silent_ticks` counts idle time too (3987), so the first handshake after a long idle time is given up at the next
  tick, not after `AWG_TIMEOUT`.
- `dns_miss` survives a reconnect to another address (4150): one miss each of two addresses counts as two in a row.
- The grace period of a move that stayed silent is over when the move goes back (3538): main may close the old port
  before c2s has sent the copies that wait for it. They are dropped, which the promise of the queue allows then.
- `rot_won` and `rot_dual` are stored after `rot_state` has turned idle (2433): without an old socket, c2s can start
  the next move in between and have it marked as won.
- After `he_reset` the order in memory is not the byte on disk (957): the file's one write of a run may write what it
  already holds.
- `he_probe` reads the stash while `he_stash` may be rewriting it (1388): the replay can mix two inits. The server
  drops it and the next replay is whole.
- A late copy of an init moves the entry of its index back (`proxy.h` 503): the counter guards transport only.
- A reconnect in normal mode forgets the client (3237) and keeps what is left of a coalesced read: until the client
  sends again, s2c finds the remainder and nobody to send it to, and loops without reading (3352, 3377), and each turn
  counts as news of the remote (3366).
- A reconnect turns `UDP_GRO` on again for s2c, whatever was given up, but not `gro_no_coalesce`: the first single read
  gives it up once more.
- A duplicate init whose home slot was freed meanwhile gets a second entry (`proxy.h` 498).

## 5. Proofs

TLC covers the instances above; the theorems hold for every value of the constants: every set of ports and
descriptors, every timer, table and ring size, word width, chain of profiles. They rest on the named assumptions of
the modules that declare the constants (`PortsAssumption`, `TimesAssumption`, `SwitchAssumption`, `HappyAssumption`,
`LinkAssumption`, `WatchdogAssumption`, `ScheduleAssumption`, `RotLagAssumption`, `SizesAssumption`,
`NamesAssumption`, `ProfilesAssumption`, `BatchAssumption`), which TLC evaluates in every run. Two go beyond types. A
byte counter holds twice the traffic of a tick (`2 * PerTick < Word`; 2^32 bytes in 10 s of a single direction would
be 3.4 Gbit/s), and the clock does not wrap (`MaxTick < TickWord`; 2^32 ticks of 5 s). `BatchAssumption` keeps the
sizes apart from zero and lets a handshake fit a packet buffer, in every loop and every configuration. One more
condition is no assumption but a hypothesis of the theorems that need it, because the code does not enforce it and a
configuration may violate it: `StagesApart` of `Profiles`. The instance of the run satisfies it.

A theorem says what its property says, exemptions included. Those are, in the words of the modules: `spoiled`
(`Sessions`), `clobbered`, `glued`, `Overtakes` and the packets longer than `BufSize` (`Batch`), the antecedent of
`MovesInQuiet` (`Schedule`), a later redraw in `RetryKept`, and `overtaken` in the last conjunct of `SocketsAccounted`
(`Link`). `overtaken` in `RequestServed` and `~site.starts` in `ComesUp` and `Settles` concern runs only.

TLC finds each inductive invariant true on the instance of the run as well (those of `Batch` with three packets and
its places in a buffer bounded). A step theorem goes through the actions one by one, and under each through the parts
it can disturb.

**`Rotation_proofs`**: `TypeCorrect`, `MoveConsistentAlways`, `DueNeverLostAlways`, `NothingLeftOpenAlways`,
`OldSocketNeverLeaks`, `OldHeld`, `BackOnlyAfterVerify`. `MoveConsistent` and `NothingLeftOpen` are not inductive by
themselves: nothing in them says who may write what when. The proofs use `IInv`, the type invariant together with

- `MutexHeld`: who holds `remote_mu` at which program counter, so that the steps of one holder exclude the others;
- `MoveAlone`: what c2s knows between its check and its stores: no move is pending and no old socket is open, because
  it alone creates either;
- `MoveRecorded`: `MoveConsistent`, extended to the steps in which the record is being written;
- `LetGoSafe`: what main's loads still mean when it has the mutex: an old socket with no move pending stays one;
- `ShutDown`: main ends last.

`BackOnlyAfterVerify` adds `KeptInv` and needs `Keep = {TRUE}` (the old port is always kept), as its run does: without
an old socket nothing stops c2s from starting the next move between main's load and its exchange, and then the young
move can be taken back. `KeptInv` says that a pending move has its old socket open, so that c2s cannot start another,
and that main, once past its loads with a move pending, has seen that very move's window end or its refusal.

**`HappyEyeballs_proofs`**: `HappyTypeCorrect`, `ProbePairsAlways`, `EvidenceOnly`. The invariant is `HInv`: the types,
`ProbePairs`, and `ShutInOrder`: the probe's own socket is shut down only by the stop and after the one in use, so
poll() cannot report the one without the other. `EvidenceOnly` is then a fact about single steps: of all that may
change `prefer6` in a probe, only an answer and an error do.

**`Link_proofs`**: `SocketsAccountedAlways`, and `ReadsLiveAlways`, which no run checks by itself: s2c never sits in
`recv()` on a number that was closed and given out again. `SocketsAccounted` says nothing of what s2c has in hand, so
a close could hit another number than the published one; `LInv` adds that s2c reads what is published
(`ReadsPublished`), that nothing is published between close and publication (`NonePublished`), and that main ends
last, so that its own close meets no reader and leaves nothing open (`EndsLast`). `AsksFirst` says that whoever is
about to shut a socket down has asked or declared the stop before, which is what ties a socket that is shut to a
request.

**`Tick_proofs`**, of `Schedule`: `VolumeExactAlways`, `DueInItsSpanAlways`, `RetryKeptAlways`,
`ForcedOnlyAfterWaitAlways`, `MovesInQuietAlways`. `SInv` relates what the threads keep to the ghost history: no
counter runs a word ahead of what main has folded, with what s2c has in hand counted in (`FoldsInTime`, without which
the unsigned difference of `VolumeExact` could lose a whole word), the last busy tick is kept exactly although
`rot_seen_note` stops adding (`SeenExact`, but for the batch in hand: `Shown`), `rot_force` belongs to the wait that
goes on (`ForceEarned`, `DueRaised`), the timer was drawn from its span (`TimerDrawn`), and a failure is told to the
first tick after it and to no other (`FailureTold`, `PauseSet`). Lemmas on `%` (`ModMinus`, `ModPlus`, `MinusCarried`)
keep the arithmetic of words out of the rest.

Of `Watchdog`: `CountedSilenceIsReal`, `FamilyKept`. The count of hops survives events that restart the ticks,
so a bound on each alone is not kept; `NoMoreThanHeard` bounds their sum, `hop_rounds * hop + silent_ticks`, by the
silence there really was, and `RoundsOfHops` says when rounds are counted at all. The verdict of `FamilyKept` is then
arithmetic on one tick, for every number of profiles, ports and thresholds.

**`RotLag_proofs`**: `RotLagTypeCorrect`, and `RingKeepsPromise`, the refinement of `LagQueue`: the initial states map
to initial states, and every step of the ring maps to a step of the queue or leaves it alone. The mapping reads the
slots from `rot_lag_head` on; lemmas say what putting at the end, taking from the front and emptying do to it
(`SlotWraps`, `SlotsDiffer` and those built on them). `RInv` adds that copies are in hand only while c2s sends, and
that an old socket found closed stays closed, because only c2s makes a move.

**`Sessions_proofs`**: `OneClientPerEntryAlways`, `RepliesReachTheirClientAlways`, `PeerStaysInReachAlways`,
`OnlyNewerMovesAlways`. `VInv` says whose each entry is (`Owned`, `Labelled`) and that the entry s2c looked up is
still the one it found (`LookupHolds`), before and after the index of an answer is noted, each with the exemptions
that `spoiled` marks. `PeerStaysInReach` is inductive on top of it. `OnlyNewerMoves` needs `CInv`: our WireGuard
answers an init once, so a server index is written into one slot (`OneSlot`, `NoneYet`, `AnswerCounted`), and the
counter of that slot is the newest one believed (`CounterKept`); if an index could be in two slots, a straggler would
be compared with the older counter.

**`Profiles_proofs`**: `RoundTrip`, `NeverMistakenAlways`, `OneStageAlways`. `RoundTrip` is about the operators of
`Transform` alone and is checked by no run: for every profile that validation accepts, every message and every trailer
window, receiving undoes sending. `PInv` says of all that is under way that it fits its buffer, carries its message
whole under a type some stage gives it, and that handshakes and replies are readable by some stage (`Net`); that a
batch has both its words (`HoistWhole`); and that in server mode nothing is owed to a client before a handshake was
read (`EntryFirst`). A packet padded by one stage and protected by another is then either readable or read as
nothing, by the arithmetic of lengths and the disjointness of ranges.

**`Batch_proofs`**: `RecvInvariant`, `NonePassedOverAlways`, `BatchInvariant`, `IntactAlways`, `InOrderOnceAlways`,
`FlushReportedAlways`. The four properties of the run say what leaves and what is held; none says why a packet cut out
of a joined buffer is whole, or why the batch still holds it when it is sent. The invariant has two halves.

`RecvInv` is about reading and implies `NonePassedOver`:

- `QueueOK`, `PendOK`: every buffer of the queue, and what is left of a coalesced read, is a row of whole packets of
  one length, the last one possibly shorter, in the order they came; an offset is always a boundary between two. This
  is what makes a piece of `seg` bytes a packet.
- `GroOK`: `UDP_GRO` is set exactly while the loop reads with it; once it is off, each joined buffer still queued is
  marked, and what the loop has left of a read (`gro_pend`, which `disable_gro` does not clear) is never looked at
  again. Without it that remainder could be read twice after GRO is tried again.
- `TurnOK`, `RoomOK`: the packets of a turn are whole, cut by a short buffer or known to be glued; the batch has fewer
  entries than packets taken, so it cannot overflow.
- `InStep`: s2c walks the coalesced read itself while it walks the packets split off it; the two stay in step, so that
  a batch that fills in between resumes at the right byte.
- `Ordered`: the turn came before the remainder (in c2s), and both before the queue.

`SendInv` is about sending and builds on the first half:

- `BatchOK`: the bytes an entry refers to, in a packet buffer or in `hs_buf`, are a whole packet, and the packet it was
  made for, with its length and its peer, unless that content was copied over another one (`Kept`). In a loop that
  flushes, nothing refers to `hs_buf` when it is written, and every entry is `Kept`.
- `OrderOK`: what has left came before what is to leave, and that before what is still to be processed. It speaks of
  what is due to leave in order (`Due`), to which a handshake that was copied over does not belong any more.
- `FlushOK`: what was sent is the beginning of the batch, and an error leaves something unsent.
- `StatsOK`, `OutOK`: ranges, and `Intact` of the last step's datagrams.

`Unjoined` adds that a loop that never asks for `UDP_GRO` meets no joined buffer, so that the exemption of `glued` is
none for `c2s_reverse` and `s2c_server`.

The step that joins and cuts is a chain of lemmas. `RunIs`: what `gso_run_len` returns is a run of one length and one
peer with at most one shorter packet at its end. `FlattenIs`: joining such a row gives the byte at each place that one
expects; `FlattenSeq` of the community modules is a recursive function, and that it agrees with the explicit form
(`Joint`) is shown by its least counterexample, not by induction. `CutAgain`: what the kernel cuts out of it are the
packets again. `SlicedIsPlain` and `RunSliced`: so a segmented send puts the same datagrams on the wire as `sendmmsg`
of the same entries would, which is why a refused run may be sent again singly. On the way in, `SegmentsIs` and
`QueueJoin` do the same for `UDP_GRO`, and `StepHeld`, `PacketTaken`, `SegmentsTaken`, `SingleTaken`, `MmsgRead` say
which packets a step moves from one place to the next.

Loops that take the first match (`Min` of the hits) need the least element of a set of numbers. The library's
induction theorems have an operator as parameter and are of no use; `LeastNat` gets it from `WFMin` and
`NatLessThanWellFounded`.

### What the proofs changed in the model

- `RetryKept` was false in general: a port change reported in a later tick than the failure draws a new schedule and
  ends the pause (`rot_sched_reset`), an order for which the instance of the run has no room. The property now says so.
- `LagQueue` left the queue alone when a move began. `rot_move` clears the ring; that the ring is empty by then holds
  only if `Lag` is below `Grace`, as the instance had it. The promise now allows it once the old port is closed, which
  is what the ring can be held to for all values.
- `Transform` used a number for unreadable bytes that a range might hold; `Garbage` is now outside all of them. Ranges
  are ordered, as `parse_hrange` (`main.c` 38) makes sure.
- `settled` of `Batch` counted packets; a count says that as many were passed on as arrived, not that they were the
  same ones, and says nothing a step can be reasoned about. It is a set now, and `NonePassedOver` two facts about it.
- `InOrder` of `Batch` compared the subsequence of the datagrams that overtake nothing (`SelectSeq`, a recursive
  function); it says the same of their places now.
- `SocketsAccounted` of `Link` said nothing of the state after main's last close. It now holds of every state, and
  says that none is left open there.
- The sending half of `Batch` was first proved under the hypothesis that no handshake is copied to `hs_buf` in a loop
  that does not flush, which the usual server configuration violates. The hypothesis is gone: `clobbered` records which
  handshakes the code really spoils, and everything else is proved in all four loops.
- `EvidenceOnly` rested on the probe's socket never being shut down, which left out the stop. `ShutInOrder` is what is
  true with it.
- The types of `Profiles` say that data leaves with the headroom there is and that a dressed handshake fits the buffer.

### Only model-checked

- Everything under fairness: `MoveResolves`, `OldReleased`, `ShutdownCompletes` of `Rotation` and of `Link`,
  `RequestServed`, `SparseInitsSuffice`, `StagesTried`, `Drained`, `WorkingFamilyTaken`, `ComesUp`, `Settles`. Liveness
  is out of the prover's reach.

## 6. Abstractions

- Packets are what the properties tell apart: init, data, an answer, a copy with an identity. No bytes.
- Time is a counter of one unit per interesting interval, capped where nothing depends on it any more.
- C11 relaxed atomics are modelled as sequentially consistent words. The code's own ordering arguments rest on
  acquire/release pairs around descriptors; the targets include ARM, and reordering of relaxed stores is not modelled.
- Loops over the session table are single steps; a reply read in the middle of an address update, which the code
  allows explicitly (`proxy.h` 645), is not modelled.
- In `Rotation` the client's traffic and the age of the tunnel are inputs (`rot_try` may always decline).
- In `Schedule` c2s notes its own tick and bytes in one step (`C2sSend`; both words are its own, and main reads each by
  itself), an answer or a failed move is one step (its stores are apart in `Rotation`), the batch's content
  (`rot_window`'s user packet or warm init) is an input, and a draw takes one end of its span or the other.
- In `Transform` random bytes never match a type by chance (what is read at a wrong offset is `Garbage`, which is in no
  range), the keystream hides what it covers, and MAC1, junk packets
  and the growth of the trailer window are left out. A word of the profile read during a switch is the old one or the
  new one, for each word apart.
- In `Watchdog` the three reports of a tick come in any combination, more than the threads can produce.
- In `HappyEyeballs` what a name resolves to and which families connect are free at every dial; a packet c2s sends goes
  out on the socket in use at that moment, and one sent on a socket that was closed meanwhile is lost (the code holds
  the number it loaded). A whole replay is one that c2s did not rewrite at that moment; the timing of `he_delay` and
  of the probe's window is left out.
- In `Sessions` the index of an answer, and then the label with the entries it retires, are two steps; each is one.
- In `Batch` all handshakes have one length, and the packet buffers of the four loops have one size.
- In `Batch` the kernel joins equal packets of one flow, the last of them possibly shorter, and cuts what it is given
  by the same rule; this is what the code expects of `UDP_GRO` and `UDP_SEGMENT`.
- In `Link` port rotation is off; in `Rotation` a reconnect may happen at any time.

Not modelled, with the reasons, are the components marked so in `PROJECT.json`: code that only computes on bytes
(crypto, base64), only logs, or only runs before the threads start (configuration, hardware fit).

## 7. Plan

Done: `Rotation`, `RotLag`/`LagQueue`, `Link`, `Watchdog`, `HappyEyeballs`, `Sessions`, `Schedule`, `Batch`,
`Transform`, `Profiles`; proofs of the safety properties of all of them.

Next, in this order:

1. Composition of `Link` and `Watchdog`, so that `RequestServed` and the clocks meet.
2. Controllers (`sp_tick`, `rb_step`), bounds of the CPS templates, the WARP line of the state file, port sets.

Not modelled and not planned: configuration (`main.c`) beyond the validation of a stage, which is a pass over strings
before any thread starts; cryptography and random numbers, which the repository checks against vectors; logging;
hardware fit and thread placement, which are system calls without state of their own.
