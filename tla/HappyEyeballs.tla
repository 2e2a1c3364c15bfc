--------------------------- MODULE HappyEyeballs ---------------------------
(***************************************************************************)
(* Which address family carries the connection: the dial order and what it *)
(* learns, the probe that sounds the second family, and the state file.    *)
(*                                                                         *)
(*   s2c   dials, probes and decides; the only one to touch prefer6;       *)
(*   c2s   leaves a copy of a packet for the probe to replay (he_stash);   *)
(*   main  and c2s ask for a reconnect, with a shutdown() of remote_fd,    *)
(*         which poll() reports as readable; main shuts both sockets down  *)
(*         when the proxy is stopped.                                      *)
(***************************************************************************)
EXTENDS Integers

CONSTANT None

Families == {"v4", "v6"}
Other(f) == IF f = "v4" THEN "v6" ELSE "v4"
Fam(p6)  == IF p6 THEN "v6" ELSE "v4"

ASSUME HappyAssumption == None \notin Families

VARIABLES
    prefer6, state_written,
    disk,              \* the family byte of the state file, None: no such byte
    remote_fd,         \* the family of the socket in use, None: no socket
    remote_fd2,        \* the family of the probe's socket
    dialled,           \* the family s2c has connected and is about to publish
    inbox,             \* what poll() reports of each family's socket
    he_sent,           \* a packet is there to be replayed
    he_pkt,            \* which, none: he_pkt_len is 0; only an init draws an answer
    c2s,               \* idle, in the middle of he_stash, or about to send an init
    s2c,               \* read; dial, publish; probe (the loop's head), poll, send (a replay)
    main,              \* run; cut, cutalt: stopped is set, and a shutdown() is to come; join
    he_reset, reconnect_needed,
    rough,             \* anything may happen; if not, IPv4 swallows everything and IPv6 works
    replayed           \* (ghost) the last replay was of a whole init

learned == <<prefer6, state_written, disk>>
socks   == <<remote_fd, remote_fd2, dialled, inbox>>
asked   == <<he_reset, reconnect_needed>>
stash   == <<he_sent, he_pkt>>
vars    == <<learned, socks, stash, c2s, s2c, main, asked, rough, replayed>>

stopped  == main # "run"
Copying  == c2s \in {"data", "init"}
Probing  == s2c \in {"probe", "poll", "send"}

TypeOK ==
    /\ prefer6 \in BOOLEAN /\ state_written \in BOOLEAN /\ disk \in {"4", "6", None}
    /\ remote_fd \in Families \cup {None} /\ remote_fd2 \in Families \cup {None}
    /\ dialled \in Families \cup {None}
    /\ inbox \in [Families -> SUBSET {"data", "err", "shut"}]
    /\ he_sent \in BOOLEAN /\ he_pkt \in {"none", "init", "data"}
    /\ c2s \in {"idle", "data", "init", "send"} /\ s2c \in {"read", "dial", "publish", "probe", "poll", "send"}
    /\ main \in {"run", "cut", "cutalt", "join"}
    /\ he_reset \in BOOLEAN /\ reconnect_needed \in BOOLEAN
    /\ rough \in BOOLEAN
    /\ replayed \in BOOLEAN

Silence == [f \in Families |-> {}]

(* proxy_init reads the file; the first dial is the Dial below.            *)
Init ==
    /\ disk \in {"4", "6", None} /\ prefer6 = (disk = "6") /\ state_written = FALSE
    /\ remote_fd = None /\ remote_fd2 = None /\ dialled = None /\ inbox = Silence
    /\ he_sent = FALSE /\ he_pkt = "none" /\ c2s = "idle" /\ s2c = "read" /\ main = "run"
    /\ he_reset = FALSE /\ reconnect_needed = TRUE /\ replayed = FALSE
    /\ rough = TRUE

-----------------------------------------------------------------------------
(* The learned preference                                                  *)

(* Mutant: the byte written is not one that state_read_prefer6 knows.      *)
MutByte(p6) == IF p6 THEN "1" ELSE "0"

(* state_write and state_read_prefer6.                                     *)
Byte(p6) == IF p6 THEN "6" ELSE "4"

(* he_learn: memory follows every verdict, the file the first one of a     *)
(* run. A write can fail, and then leaves the file as it was or truncated. *)
HeLearn(from, p6) ==
    /\ prefer6' = p6
    /\ IF p6 = from \/ state_written
       THEN UNCHANGED <<state_written, disk>>
       ELSE state_written' = TRUE /\ disk' \in {Byte(p6), disk, None}

-----------------------------------------------------------------------------
(* s2c: dial_remote                                                        *)

(* Mutant: the order of the dial does not follow the preference.           *)
MutPrimary(p6, rec) == IF "v4" \in rec THEN "v4" ELSE "v6"

Primary(p6, rec) == IF p6 /\ "v6" \in rec THEN "v6" ELSE IF "v4" \in rec THEN "v4" ELSE "v6"

Goes(from, to) ==
    /\ s2c = from /\ s2c' = to
    /\ UNCHANGED <<learned, socks, stash, c2s, main, asked, rough, replayed>>

(* do_reconnect_locked closes what there is.                               *)
S2cCloses ==
    /\ s2c = "read" /\ ~stopped /\ (remote_fd = None \/ reconnect_needed)
    /\ s2c' = "dial"
    /\ remote_fd' = None /\ remote_fd2' = None /\ inbox' = Silence /\ replayed' = FALSE
    /\ UNCHANGED <<learned, dialled, stash, c2s, main, asked, rough>>

(* The name is not resolved: the flag of the long outage stays up.         *)
Unresolved == Goes("dial", "read")

(* The name gives rec, and connect() succeeds on the families in route. A  *)
(* long outage has put the order back first. c2s may be in the middle of   *)
(* he_stash: its he_pkt_len, and the he_sent it is about to store, can     *)
(* outlast the reset of the two. The probe's socket is published before    *)
(* the one in use.                                                         *)
Dial ==
    /\ s2c = "dial"
    /\ he_reset' = FALSE
    /\ \E rec \in SUBSET Families, route \in SUBSET Families :
        LET p6      == prefer6 /\ ~he_reset
            primary == Primary(p6, rec)
            ok      == rec \cap route # {}
            used    == IF primary \in route THEN primary ELSE Other(primary)
            second  == used = primary /\ Other(primary) \in rec \cap route
        IN  /\ rec # {}
            /\ IF ok
               THEN /\ dialled' = used /\ s2c' = "publish"
                    /\ remote_fd2' = IF second THEN Other(primary) ELSE None
                    /\ reconnect_needed' = FALSE
                    /\ he_sent' = FALSE /\ he_pkt' \in {"none"} \cup (IF Copying THEN {he_pkt} ELSE {})
                    /\ IF used # primary THEN HeLearn(p6, used = "v6")
                       ELSE prefer6' = p6 /\ UNCHANGED <<state_written, disk>>
               ELSE /\ prefer6' = p6 /\ s2c' = "read"
                    /\ UNCHANGED <<remote_fd2, dialled, stash, reconnect_needed, state_written, disk>>
    /\ UNCHANGED <<remote_fd, inbox, c2s, main, rough, replayed>>

Publish ==
    /\ s2c = "publish"
    /\ remote_fd' = dialled /\ dialled' = None
    /\ s2c' = IF remote_fd2 # None THEN "probe" ELSE "read"
    /\ UNCHANGED <<learned, remote_fd2, inbox, stash, c2s, main, asked, rough, replayed>>

-----------------------------------------------------------------------------
(* s2c: he_probe                                                           *)

(* he_finish: one family stays, and he_learn hears of it after a verdict.  *)
Finish(use_alt, learn) ==
    LET keep == IF use_alt THEN remote_fd2 ELSE remote_fd IN
    /\ remote_fd' = keep /\ remote_fd2' = None
    /\ inbox' = [inbox EXCEPT ![Other(keep)] = {}]
    /\ IF learn THEN HeLearn(prefer6, keep = "v6") ELSE UNCHANGED learned
    /\ s2c' = "read"
    /\ UNCHANGED <<dialled, stash, c2s, main, asked, rough, replayed>>

(* poll() reports data and a shutdown() alike as POLLIN.                   *)
Readable(f) == inbox[f] \cap {"data", "shut"} # {}

(* Mutant: a socket that was shut down counts as an error.                 *)
MutUseAlt == ~("data" \in inbox[remote_fd]) /\ ("data" \in inbox[remote_fd2] \/ inbox[remote_fd] # {})

UseAlt == ~Readable(remote_fd) /\ (Readable(remote_fd2) \/ inbox[remote_fd] # {})

(* The head of the loop is reached by entering it, and again whenever      *)
(* poll() has waited in vain. A turn with nothing to do changes nothing.   *)
Quiet  == inbox[remote_fd] = {} /\ inbox[remote_fd2] = {}
AtHead == s2c = "probe" \/ (s2c = "poll" /\ Quiet)

(* The loop ends with nothing measured when a reconnect is asked for or    *)
(* the proxy is stopped.                                                   *)
ProbeCut == AtHead /\ (reconnect_needed \/ stopped) /\ Finish(FALSE, FALSE)

(* Nothing was stashed for a whole window. A client that wants a handshake *)
(* sends three inits in that time.                                         *)
ProbeIdle == AtHead /\ ~reconnect_needed /\ ~stopped /\ ~he_sent /\ rough /\ Finish(FALSE, FALSE)

ProbePoll == ~reconnect_needed /\ ~stopped /\ Goes("probe", "poll")

(* poll() was entered before a request or the stop, and reports their      *)
(* shutdown() as it does an answer.                                        *)
ProbeReport == s2c = "poll" /\ ~Quiet /\ Finish(UseAlt, TRUE)

(* A replay is due: he_sent is loaded, ...                                 *)
ProbeDue == s2c = "poll" /\ Quiet /\ he_sent /\ he_pkt # "none" /\ Goes("poll", "send")

(* What a packet sent on family f may bring back; it may also be lost.     *)
Replies(f) == IF rough THEN {"data", "err"} ELSE IF f = "v6" THEN {"data"} ELSE {}
Answer(f)  == \/ UNCHANGED inbox
              \/ \E r \in Replies(f) : inbox' = [inbox EXCEPT ![f] = @ \cup {r}]

(* ... and the packet is read from the buffer, which c2s may be rewriting. *)
ProbeSend ==
    /\ s2c = "send"
    /\ s2c' = "probe"
    /\ replayed' = (~Copying /\ he_pkt = "init")
    /\ IF replayed' THEN Answer(remote_fd2) ELSE UNCHANGED inbox
    /\ UNCHANGED <<learned, remote_fd, remote_fd2, dialled, stash, c2s, main, asked, rough>>

(* The read path: the connection is in use.                                *)
S2cRead ==
    /\ s2c = "read" /\ remote_fd # None /\ inbox[remote_fd] # {}
    /\ inbox' = [inbox EXCEPT ![remote_fd] = {}]
    /\ UNCHANGED <<learned, remote_fd, remote_fd2, dialled, stash, c2s, s2c, main, asked, rough, replayed>>

-----------------------------------------------------------------------------
(* c2s                                                                     *)

(* Mutant: an init does not displace what is stashed.                      *)
MutStashes(init) == remote_fd2 # None /\ ~he_sent

Stashes(init) == remote_fd2 # None /\ (init \/ ~he_sent)

(* c2s has a packet for the socket in use: he_stash copies it first, ...   *)
C2sStash(init) ==
    /\ c2s = "idle" /\ remote_fd # None
    /\ IF Stashes(init)
       THEN he_sent' = FALSE /\ c2s' = (IF init THEN "init" ELSE "data") /\ he_pkt' = c2s'
       ELSE UNCHANGED stash /\ c2s' = (IF init THEN "send" ELSE "idle")
    /\ UNCHANGED <<learned, socks, s2c, main, asked, rough, replayed>>

C2sCopied ==
    /\ Copying
    /\ he_sent' = TRUE /\ c2s' = IF c2s = "init" THEN "send" ELSE "idle"
    /\ UNCHANGED <<learned, socks, he_pkt, s2c, main, asked, rough, replayed>>

(* ... then it is sent. Only an init draws an answer; one sent on a socket *)
(* that was closed meanwhile is lost.                                      *)
C2sSend ==
    /\ c2s = "send" /\ c2s' = "idle"
    /\ IF remote_fd # None THEN Answer(remote_fd) ELSE UNCHANGED inbox
    /\ UNCHANGED <<learned, remote_fd, remote_fd2, dialled, stash, s2c, main, asked, rough, replayed>>

Shutdown(fd) == inbox' = IF fd = None THEN inbox ELSE [inbox EXCEPT ![fd] = @ \cup {"shut"}]

(* A send fails, or the DNS check or a fallback stage wants a new dial.    *)
Ask ==
    /\ rough /\ ~reconnect_needed
    /\ reconnect_needed' = TRUE /\ Shutdown(remote_fd)
    /\ UNCHANGED <<learned, remote_fd, remote_fd2, dialled, stash, c2s, s2c, main, he_reset, rough, replayed>>

(* main: an init stayed unanswered for AWG_TIMEOUT, long enough for a      *)
(* probe to have replayed it (he_delay) and for s2c to have seen what came.*)
Watchdog ==
    /\ ~stopped /\ inbox = Silence /\ s2c # "send"
    /\ rough \/ remote_fd # "v6"
    /\ remote_fd2 # None => replayed
    /\ he_reset' = TRUE /\ reconnect_needed' = (reconnect_needed \/ remote_fd # None) /\ Shutdown(remote_fd)
    /\ UNCHANGED <<learned, remote_fd, remote_fd2, dialled, stash, c2s, s2c, main, rough, replayed>>

(* The stop: both sockets are shut down, the one in use first.             *)
MainStop ==
    /\ rough /\ main = "run" /\ main' = "cut"
    /\ UNCHANGED <<learned, socks, stash, c2s, s2c, asked, rough, replayed>>

MainCut ==
    /\ \/ main = "cut" /\ main' = "cutalt" /\ Shutdown(remote_fd)
       \/ main = "cutalt" /\ main' = "join" /\ Shutdown(remote_fd2)
    /\ UNCHANGED <<learned, remote_fd, remote_fd2, dialled, stash, c2s, s2c, asked, rough, replayed>>

-----------------------------------------------------------------------------
(* The world: families come and go and the client asks or not, until       *)
(* things settle with the proxy running and the client asking; the router  *)
(* or the container goes down at any point, stopped or not, and comes back.*)
Settle ==
    /\ rough /\ ~stopped /\ rough' = FALSE
    /\ UNCHANGED <<learned, socks, stash, c2s, s2c, main, asked, replayed>>

Restart ==
    /\ rough
    /\ prefer6' = (disk = "6") /\ state_written' = FALSE
    /\ remote_fd' = None /\ remote_fd2' = None /\ dialled' = None /\ inbox' = Silence
    /\ he_sent' = FALSE /\ he_pkt' = "none" /\ c2s' = "idle" /\ s2c' = "read" /\ main' = "run"
    /\ he_reset' = FALSE /\ reconnect_needed' = TRUE /\ replayed' = FALSE
    /\ UNCHANGED <<disk, rough>>

S2cNext ==
    \/ S2cCloses \/ Unresolved \/ Dial \/ Publish
    \/ ProbeCut \/ ProbeIdle \/ ProbePoll \/ ProbeReport \/ ProbeDue \/ ProbeSend
C2sNext == C2sCopied \/ C2sSend \/ \E init \in BOOLEAN : C2sStash(init)

Next == S2cNext \/ S2cRead \/ C2sNext \/ Ask \/ Watchdog \/ MainStop \/ MainCut \/ Settle \/ Restart

Spec == Init /\ [][Next]_vars

(***************************************************************************)
(* Fairness: s2c and c2s run, the client that asks keeps sending inits,    *)
(* the watchdog fires in the end. Of what is done over and over, some gets *)
(* through: a dial finds both families, an init or a whole replay of one   *)
(* is answered by a family that works.                                     *)
(***************************************************************************)
Fairness ==
    /\ WF_vars(S2cNext) /\ WF_vars(S2cRead) /\ WF_vars(C2sCopied \/ C2sSend) /\ WF_vars(Watchdog)
    /\ SF_vars(C2sStash(TRUE)) /\ SF_vars(Dial /\ remote_fd2' # None) /\ SF_vars(ProbeDue)
    /\ SF_vars(ProbeSend /\ inbox' # inbox) /\ SF_vars(C2sSend /\ inbox' # inbox)

FairSpec == Spec /\ Fairness

-----------------------------------------------------------------------------
(* The probe holds two different families, the preferred one in use and    *)
(* the other one beside it: what the verdict of he_finish relies on.       *)
ProbePairs ==
    /\ Probing => remote_fd2 # None
    /\ remote_fd2 # None => Probing \/ s2c = "publish"
    /\ remote_fd2 # None =>
        /\ (IF s2c = "publish" THEN dialled ELSE remote_fd) = Fam(prefer6)
        /\ remote_fd2 = Other(Fam(prefer6))

(* The order changes in a probe only on evidence: the family preferred     *)
(* from now on answered, or the other one reported an error. A shutdown()  *)
(* of a socket, which poll() cannot tell from an answer, teaches nothing,  *)
(* neither one that asks for a reconnect nor the two of a stop             *)
(* ("A loop cut short by shutdown or reconnect measured nothing").         *)
LearnsFromEvidence ==
    [][Probing /\ remote_fd' # None /\ prefer6' # prefer6 =>
          "data" \in inbox[Fam(prefer6')] \/ "err" \in inbox[Fam(prefer6)]]_vars

(* A family that swallows everything does not keep the connection: while   *)
(* IPv4 is dead and silent, IPv6 works and the client asks, IPv6 is taken  *)
(* in the end, whatever was learned before, with what errors and restarts, *)
(* and whatever replays are lost and watchdog reconnects come in between.  *)
WorkingFamilyTaken ==
    <>~rough => []<>(remote_fd = "v6" /\ remote_fd2 = None)
=============================================================================
