------------------------------ MODULE LagQueue ------------------------------
(***************************************************************************)
(* What rot_lag promises: copies for the old port leave in the order they  *)
(* came, and none is dropped while the old port is open and the new one    *)
(* has not answered. A copy that finds the queue full, or is too large for *)
(* it, goes out at once.                                                   *)
(***************************************************************************)
EXTENDS Sequences, Integers

CONSTANTS Copies, Capacity

VARIABLES
    q,      \* copies waiting, oldest first
    out,    \* what the last step handed to the old port's socket
    open,   \* the old port's socket is open
    won     \* the new port answered

vars == <<q, out, open, won>>

Init == q = <<>> /\ out = <<>> /\ open \in BOOLEAN /\ won = FALSE

Put(c) == Len(q) < Capacity /\ q' = Append(q, c) /\ out' = <<>>

Straight(c) == out' \in {<<c>>, <<>>} /\ UNCHANGED q

(* The k oldest go out, or into a socket that main has just closed.        *)
Send(k) ==
    /\ q' = SubSeq(q, k + 1, Len(q))
    /\ out' = IF open THEN SubSeq(q, 1, k) ELSE <<>>

Drop == (~open \/ won) /\ q' = <<>> /\ out' = <<>>

Other == UNCHANGED q /\ out' = <<>>

(* What the threads do to the move meanwhile: the socket is closed by      *)
(* main, and a new move, with or without a socket for the old port, starts *)
(* with an empty queue; only once the last one's socket is closed.         *)
Moved == open' # open \/ won' # won

Next ==
    \/ ~Moved /\ \/ \E c \in Copies : Put(c) \/ Straight(c)
                 \/ \E k \in 1..Len(q) : Send(k)
                 \/ Drop \/ Other
    \/ Moved /\ out' = <<>> /\ (UNCHANGED q \/ (~open /\ q' = <<>>))

Spec == Init /\ [][Next]_vars
=============================================================================
