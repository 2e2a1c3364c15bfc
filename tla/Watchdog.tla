------------------------------ MODULE Watchdog ------------------------------
(***************************************************************************)
(* The 5 s tick of proxy_run: when does the proxy give up on a profile, a  *)
(* port, an address or an address family? Three clocks run side by side    *)
(* and restart each other: the fallback chain, the port hop and the        *)
(* silence watchdog. A fourth one counts the DNS checks.                   *)
(*                                                                         *)
(* What the threads reported since the last tick (last_active,             *)
(* last_remote_rx, client_init) and what the resolver said are inputs.     *)
(* The s2c thread answers a request with a dial (module Link).             *)
(***************************************************************************)
EXTENDS Integers

(* A configuration: profile_count; fb_checks, the silent ticks before the  *)
(* next fallback stage; hop_checks, 0 with a single port; checks_needed,   *)
(* AWG_TIMEOUT in ticks.                                                   *)
CONSTANT Configs

ASSUME WatchdogAssumption ==
    Configs \subseteq [profiles : Nat \ {0}, fb : Nat \ {0}, hop : Nat, checks : Nat \ {0}]

VARIABLES
    cfg,                 \* the one the process was started with
    fb_silent_count, active_profile,
    silent_ticks, init_unanswered, hop_rounds,
    dns_miss,
    he_reset,            \* drop the learned family at the next dial
    remote_dead,         \* move on to another address at the next dial
    reconnect_needed, up,\* up: remote_fd >= 0
    in,                  \* what the last tick was told
    silence              \* (ghost) ticks since the remote was heard or he_reset raised, capped

clocks   == <<fb_silent_count, active_profile, silent_ticks, init_unanswered, hop_rounds, dns_miss>>
shared   == <<he_reset, remote_dead, reconnect_needed, up>>
ghost    == <<in, silence>>
watchdog == <<cfg, clocks, shared, ghost>>

(* The tick takes the three reports one after the other, so that a thread  *)
(* that sets two of them may have one taken now and one at the next tick.  *)
(* The DNS check is off this tick, failed, found the address or found it   *)
(* gone.                                                                   *)
Inputs == [rx : BOOLEAN, active : BOOLEAN, init : BOOLEAN, dns : {"off", "error", "same", "gone"}]

Capped(n) == IF n < cfg.checks THEN n ELSE cfg.checks

WatchdogTypeOK ==
    /\ cfg \in Configs
    /\ fb_silent_count \in 0..cfg.fb-1 /\ active_profile \in 0..cfg.profiles-1
    /\ silent_ticks \in 0..cfg.checks /\ init_unanswered \in BOOLEAN
    /\ hop_rounds \in 0..cfg.checks /\ dns_miss \in 0..1
    /\ he_reset \in BOOLEAN /\ remote_dead \in BOOLEAN
    /\ reconnect_needed \in BOOLEAN /\ up \in BOOLEAN
    /\ in \in Inputs
    /\ silence \in 0..cfg.checks

WatchdogInit ==
    /\ cfg \in Configs
    /\ fb_silent_count = 0 /\ active_profile = 0
    /\ silent_ticks = 0 /\ init_unanswered = FALSE /\ hop_rounds = 0 /\ dns_miss = 0
    /\ he_reset = FALSE /\ remote_dead = FALSE /\ reconnect_needed = FALSE /\ up = TRUE
    /\ in = [rx |-> FALSE, active |-> TRUE, init |-> FALSE, dns |-> "off"]
    /\ silence = 0

-----------------------------------------------------------------------------
FbOn == cfg.profiles > 1

(* A silent remote under an active client, for cfg.fb ticks: next stage. *)
FbFires(i) == FbOn /\ ~i.rx /\ i.active /\ fb_silent_count + 1 >= cfg.fb

(* Mutant: an idle tick clears the count.                                  *)
MutFallback(i) ==
    /\ active_profile' = IF FbFires(i) THEN (active_profile + 1) % cfg.profiles ELSE active_profile
    /\ fb_silent_count' = IF FbFires(i) \/ ~FbOn \/ i.rx \/ ~i.active THEN 0 ELSE fb_silent_count + 1

Fallback(i) ==
    /\ active_profile' = IF FbFires(i) THEN (active_profile + 1) % cfg.profiles ELSE active_profile
    /\ fb_silent_count' = IF FbFires(i) \/ ~FbOn \/ i.rx THEN 0
                          ELSE fb_silent_count + IF i.active THEN 1 ELSE 0

(* The watchdog's two counters, after a stage switch has restarted them.   *)
(* Mutant: the clock of old, which an idle tick sets back to zero.         *)
MutSilent(i) ==
    LET n == IF FbFires(i) THEN 0 ELSE silent_ticks
    IN  IF ~i.active THEN 0 ELSE IF n < cfg.checks THEN n + 1 ELSE n

Silent(i) == LET n == IF FbFires(i) THEN 0 ELSE silent_ticks IN IF n < cfg.checks THEN n + 1 ELSE n
Unanswered(i) == i.init \/ (init_unanswered /\ ~FbFires(i))

HopFires(i)  == ~i.rx /\ cfg.hop # 0 /\ Unanswered(i) /\ Silent(i) >= cfg.hop
DeadFires(i) == ~i.rx /\ ~HopFires(i) /\ Unanswered(i) /\ Silent(i) >= cfg.checks
Verdict(i)   == HopFires(i) \/ DeadFires(i)

(* Hops are counted until they add up to AWG_TIMEOUT.                      *)
LastRound(i) == HopFires(i) /\ (hop_rounds + 1) * cfg.hop >= cfg.checks

(* Mutant: a heard remote leaves the count of hops alone.                  *)
MutNextRound(i) == IF LastRound(i) THEN 0 ELSE IF HopFires(i) THEN hop_rounds + 1 ELSE hop_rounds

NextRound(i) == IF LastRound(i) \/ i.rx THEN 0 ELSE IF HopFires(i) THEN hop_rounds + 1 ELSE hop_rounds

(* What restarts the watchdog: the remote was heard, or a verdict.         *)
Restart(i) == i.rx \/ Verdict(i)

Watch(i) ==
    /\ silent_ticks' = IF Restart(i) THEN 0 ELSE Silent(i)
    /\ init_unanswered' = (~Restart(i) /\ Unanswered(i))
    /\ hop_rounds' = NextRound(i)
    /\ he_reset' = (he_reset \/ LastRound(i) \/ DeadFires(i))
    /\ remote_dead' = (remote_dead \/ Verdict(i))

(* The DNS check runs on a live connection nobody wants replaced.          *)
Asked(i)    == up /\ (FbFires(i) \/ Verdict(i))
DnsRuns(i)  == i.dns # "off" /\ up /\ ~reconnect_needed /\ ~Asked(i)
DnsFires(i) == DnsRuns(i) /\ i.dns = "gone" /\ dns_miss + 1 >= 2

DnsCheck(i) ==
    dns_miss' = IF DnsFires(i) THEN 0
                ELSE IF DnsRuns(i) /\ i.dns = "gone" THEN dns_miss + 1
                ELSE IF DnsRuns(i) /\ i.dns = "same" THEN 0 ELSE dns_miss

Ghosts(i) ==
    /\ in' = i
    /\ silence' = IF i.rx \/ LastRound(i) \/ DeadFires(i) THEN 0 ELSE Capped(silence + 1)

Tick ==
    \E i \in Inputs :
        /\ Fallback(i) /\ Watch(i) /\ DnsCheck(i) /\ Ghosts(i)
        /\ reconnect_needed' = (reconnect_needed \/ Asked(i) \/ DnsFires(i))
        /\ UNCHANGED <<cfg, up>>

(* A thread asks on its own account: a send or a read failed.              *)
Ask ==
    /\ ~reconnect_needed
    /\ reconnect_needed' = TRUE
    /\ UNCHANGED <<cfg, clocks, he_reset, remote_dead, up, ghost>>

(* dial_remote moves on from a dead address at once; the family is         *)
(* reconsidered only when the name was resolved.                           *)
Dial ==
    /\ reconnect_needed \/ ~up
    /\ remote_dead' = FALSE
    /\ \/ he_reset' = FALSE /\ up' \in BOOLEAN
       \/ UNCHANGED he_reset /\ up' = FALSE       \* resolve_addr failed
    /\ reconnect_needed' = (reconnect_needed /\ ~up')
    /\ UNCHANGED <<cfg, clocks, ghost>>

WatchdogNext == Tick \/ Ask \/ Dial

WatchdogSpec == WatchdogInit /\ [][WatchdogNext]_watchdog

(* The timer fires for ever, and s2c serves a request in the end.          *)
FairSpec == WatchdogSpec /\ WF_watchdog(Tick) /\ WF_watchdog(Dial)

-----------------------------------------------------------------------------
(* The family is given up only after a long silence: he_reset is raised    *)
(* when nothing was heard for AWG_TIMEOUT, however many port hops, stage   *)
(* switches and reconnects that time was cut into.                         *)
FamilyKeptForShortSilence ==
    [][WatchdogTypeOK' /\ (~he_reset /\ he_reset' => silence + 1 >= cfg.checks)]_watchdog

(* The watchdog cannot be starved: a remote that stays silent for good     *)
(* under a client that keeps asking, however sparsely and with idle ticks  *)
(* in between, makes the proxy reconsider the family again and again. With *)
(* one port, or with port hops that each restart the clock; a fallback     *)
(* chain whose stages come faster than AWG_TIMEOUT restarts it for ever.   *)
SparseInitsSuffice == ~FbOn /\ <>[]~in.rx /\ []<>in.init => []<>he_reset

(* Every stage of the fallback chain gets its turn, again and again, while *)
(* the client sends, however sparsely, and the remote stays silent.        *)
StagesTried ==
    <>[]~in.rx /\ []<>in.active => []<>(active_profile = 0) /\ []<>(active_profile = cfg.profiles - 1)
=============================================================================
