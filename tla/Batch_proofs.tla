---------------------------- MODULE Batch_proofs ----------------------------
(***************************************************************************)
(* Proofs about Batch: that the copying loops lose, repeat and reorder no  *)
(* packet and join none but those the kernel cuts apart again, for every   *)
(* size of a batch, a buffer and a packet and every limit of the kernel.   *)
(* In the loop that does not flush, a handshake may be written to hs_buf   *)
(* while the batch refers to the one before: the sending half follows      *)
(* which entries that takes the content from (Kept).                       *)
(***************************************************************************)
EXTENDS Batch, SequenceTheorems, WellFoundedInduction, TLAPS

-----------------------------------------------------------------------------
(* The numbers.                                                            *)

(* A nonempty set of natural numbers has a least element.                  *)
LEMMA LeastNat ==
    ASSUME NEW T, T \subseteq Nat, T # {}
    PROVE  \E x \in T : \A y \in T : x <= y
<1> DEFINE R == {p \in Nat \X Nat : p[1] < p[2]}
<1>1. IsWellFoundedOn(R, Nat)
  BY NatLessThanWellFounded DEF OpToRel
<1>2. \A x, y \in Nat : <<y, x>> \in R <=> y < x
  OBVIOUS
<1> HIDE DEF R
<1>3. PICK x \in T : \A y \in T : ~(<<y, x>> \in R)
  BY <1>1, WFMin
<1>4. ASSUME NEW y \in T PROVE x <= y
  <2>1. x \in Nat /\ y \in Nat
    OBVIOUS
  <2>2. ~(y < x)
    BY <1>2, <1>3, <2>1
  <2> QED
    BY <2>1, <2>2
<1> QED
  BY <1>4

(* The least element is what Min names.                                    *)
LEMMA MinIs ==
    ASSUME NEW T, T \subseteq Nat, T # {}
    PROVE  Min(T) \in T /\ \A y \in T : Min(T) <= y
BY LeastNat DEF Min

(* The smaller of two numbers.                                             *)
LEMMA MinOfTwo ==
    ASSUME NEW a \in Int, NEW b \in Int
    PROVE  Min({a, b}) = IF a <= b THEN a ELSE b
BY DEF Min

(* A bounded set has a greatest element, and that is what Max names.       *)
LEMMA MaxIs ==
    ASSUME NEW T, T \subseteq Nat, T # {}, NEW b \in Nat, \A y \in T : y <= b
    PROVE  Max(T) \in T
<1> DEFINE U == {u \in Nat : \A y \in T : y <= u}
<1>1. U \subseteq Nat /\ b \in U
  OBVIOUS
<1>2. PICK u \in U : \A v \in U : u <= v
  <2> HIDE DEF U
  <2> QED
    BY <1>1, LeastNat
<1>3. u \in Nat /\ \A y \in T : y <= u
  OBVIOUS
<1>4. u \in T
  <2> SUFFICES ASSUME u \notin T PROVE FALSE
    OBVIOUS
  <2>1. \A y \in T : y \in Nat /\ y < u
    BY <1>3
  <2>2. PICK y \in T : y \in Nat /\ y < u
    BY <2>1
  <2>3. u - 1 \in U
    BY <1>3, <2>1, <2>2
  <2> QED
    BY <1>2, <1>3, <2>3
<1>5. \E x \in T : \A y \in T : x >= y
  BY <1>3, <1>4
<1> QED
  BY <1>5 DEF Max

(* Where piece m starts when each is s long.                               *)
Start(m, s) == m * s

LEMMA StartIs ==
    ASSUME NEW m \in Nat, NEW s \in Nat
    PROVE  Start(m, s) \in Nat
BY DEF Start

LEMMA StartFirst ==
    ASSUME NEW s \in Nat
    PROVE  Start(0, s) = 0 /\ Start(1, s) = s
BY DEF Start

LEMMA StartSum ==
    ASSUME NEW m \in Nat, NEW k \in Nat, NEW s \in Nat
    PROVE  Start(m + k, s) = Start(m, s) + Start(k, s)
BY DEF Start

LEMMA StartNext ==
    ASSUME NEW m \in Nat, NEW s \in Nat
    PROVE  Start(m + 1, s) = Start(m, s) + s /\ (m > 0 => Start(m - 1, s) + s = Start(m, s))
<1>1. (m + 1) * s = m * s + s
  OBVIOUS
<1>2. ASSUME m > 0 PROVE (m - 1) * s + s = m * s
  <2>1. PICK k \in Nat : m = k + 1
    <3>1. m - 1 \in Nat /\ m = (m - 1) + 1
      BY <1>2
    <3> QED
      BY <3>1
  <2>2. (k + 1) * s = k * s + s /\ k = m - 1
    BY <2>1
  <2> QED
    BY <2>1, <2>2
<1> QED
  BY <1>1, <1>2 DEF Start

LEMMA StartsGrow ==
    ASSUME NEW m \in Nat, NEW n \in Nat, NEW s \in Nat, m < n
    PROVE  Start(m, s) + s <= Start(n, s)
<1>1. PICK k \in Nat : n = (m + 1) + k
  <2>1. n - (m + 1) \in Nat /\ n = (m + 1) + (n - (m + 1))
    OBVIOUS
  <2> QED
    BY <2>1
<1>2. Start(n, s) = Start(m + 1, s) + Start(k, s)
  BY <1>1, StartSum
<1>3. Start(m + 1, s) = Start(m, s) + s /\ Start(m, s) \in Nat /\ Start(k, s) \in Nat
  BY StartIs, StartNext
<1> QED
  BY <1>2, <1>3

(* Every place lies in one piece.                                          *)
LEMMA Place ==
    ASSUME NEW x \in Nat \ {0}, NEW s \in Nat \ {0}
    PROVE  \E m \in Nat, b \in 1..s : x = Start(m, s) + b
<1> DEFINE T == {m \in Nat : x <= Start(m, s) + s}
<1>1. x \in T
  <2>1. x <= x * s
    <3>1. PICK k \in Nat : s = k + 1
      <4>1. s - 1 \in Nat /\ s = (s - 1) + 1
        OBVIOUS
      <4> QED
        BY <4>1
    <3>2. x * (k + 1) = x * k + x /\ x * k \in Nat
      OBVIOUS
    <3> QED
      BY <3>1, <3>2
  <2>2. x <= Start(x, s) /\ Start(x, s) \in Nat
    BY <2>1, StartIs DEF Start
  <2> QED
    BY <2>2
<1>2. PICK m \in T : \A y \in T : m <= y
  <2>1. T \subseteq Nat /\ T # {}
    BY <1>1
  <2> HIDE DEF T
  <2> QED
    BY <2>1, LeastNat
<1>3. m \in Nat /\ x <= Start(m, s) + s /\ Start(m, s) \in Nat
  BY <1>2, StartIs
<1>4. Start(m, s) < x
  <2>1. CASE m = 0
    BY <2>1, StartFirst
  <2>2. CASE m # 0
    <3>1. m - 1 \in Nat /\ Start(m - 1, s) + s = Start(m, s)
      BY <1>3, <2>2, StartNext
    <3>2. m - 1 \notin T
      BY <1>2, <1>3, <3>1
    <3>3. ~(x <= Start(m - 1, s) + s)
      BY <3>1, <3>2
    <3> QED
      BY <1>3, <3>1, <3>3
  <2> QED
    BY <2>1, <2>2
<1>5. x - Start(m, s) \in 1..s /\ x = Start(m, s) + (x - Start(m, s))
  BY <1>3, <1>4
<1> QED
  BY <1>3, <1>5

(* So many pieces, and one less is not enough.                             *)
LEMMA UpIs ==
    ASSUME NEW a \in Nat \ {0}, NEW b \in Nat \ {0}
    PROVE  /\ Up(a, b) \in Nat \ {0} /\ a <= Start(Up(a, b), b)
           /\ \A j \in Nat : j < Up(a, b) => Start(j, b) < a
<1> DEFINE u == Up(a, b)
<1>1. PICK m \in Nat, c \in 1..b : a = Start(m, b) + c
  BY Place
<1>3. Start(m + 1, b) = Start(m, b) + b /\ Start(m, b) \in Nat
  BY StartIs, StartNext
<1>2. u = m + 1
  <2> DEFINE t == a + b - 1
             q == t \div b
  <2>1. t = Start(m + 1, b) + (c - 1) /\ t \in Nat
    BY <1>1, <1>3
  <2>2. q \in Nat /\ Start(q, b) <= t /\ t < Start(q, b) + b
    <3>1. t \in Nat
      BY <2>1
    <3> HIDE DEF t
    <3>2. q \in Int /\ q * b <= t /\ t < (q + 1) * b
      BY <3>1
    <3>3. q \in Nat
      BY <3>1, <3>2
    <3> HIDE DEF q
    <3> QED
      BY <3>2, <3>3, StartNext DEF Start
  <2> HIDE DEF q
  <2>3. Start(q, b) \in Nat
    BY <2>2, StartIs
  <2>4. ~(q < m + 1)
    BY <1>1, <1>3, <2>1, <2>2, <2>3, StartsGrow
  <2>5. ~(m + 1 < q)
    BY <1>1, <1>3, <2>1, <2>2, <2>3, StartsGrow
  <2>6. q = m + 1
    BY <2>2, <2>4, <2>5
  <2> QED
    BY <2>6 DEF Up, q
<1>4. ASSUME NEW j \in Nat, j < u PROVE Start(j, b) < a
  <2>1. Start(j, b) \in Nat
    BY StartIs
  <2>2. CASE j = m
    BY <1>1, <1>3, <2>2
  <2>3. CASE j < m
    BY <1>1, <1>3, <2>1, <2>3, StartsGrow
  <2> QED
    BY <1>2, <1>4, <2>2, <2>3
<1> QED
  BY <1>1, <1>2, <1>3, <1>4

-----------------------------------------------------------------------------
(* The sequences: their parts and the packets in them.                     *)

LEMMA DropIs ==
    ASSUME NEW S, NEW v \in Seq(S), NEW k \in Nat
    PROVE  /\ Drop(v, k) \in Seq(S) /\ Len(Drop(v, k)) = IF k <= Len(v) THEN Len(v) - k ELSE 0
           /\ \A x \in 1..Len(v) - k : Drop(v, k)[x] = v[k + x]
<1>1. Len(v) \in Nat /\ \A x \in 1..Len(v) : v[x] \in S
  BY ElementOfSeq
<1>2. \A x \in k + 1..Len(v) : v[x] \in S
  BY <1>1
<1>3. /\ SubSeq(v, k + 1, Len(v)) \in Seq(S)
      /\ Len(SubSeq(v, k + 1, Len(v))) = IF k + 1 <= Len(v) THEN Len(v) - (k + 1) + 1 ELSE 0
      /\ \A x \in 1..Len(v) - (k + 1) + 1 : SubSeq(v, k + 1, Len(v))[x] = v[k + 1 + x - 1]
  BY <1>1, <1>2, SubSeqProperties
<1>4. \A x \in Int : k + 1 + x - 1 = k + x
  OBVIOUS
<1> QED
  BY <1>1, <1>3, <1>4 DEF Drop

LEMMA CutIs ==
    ASSUME NEW S, NEW v \in Seq(S), NEW k \in Nat
    PROVE  /\ Cut(v, k) \in Seq(S) /\ Len(Cut(v, k)) = IF k <= Len(v) THEN k ELSE Len(v)
           /\ \A x \in 1..Len(Cut(v, k)) : x \in 1..Len(v) /\ Cut(v, k)[x] = v[x]
<1> DEFINE n == Min({k, Len(v)})
<1>1. Len(v) \in Nat /\ \A x \in 1..Len(v) : v[x] \in S
  BY ElementOfSeq
<1>2. n = IF k <= Len(v) THEN k ELSE Len(v)
  BY <1>1, MinOfTwo
<1>7. Cut(v, k) = SubSeq(v, 1, n)
  BY DEF Cut
<1> HIDE DEF n
<1>3. n \in Nat /\ n <= Len(v)
  BY <1>1, <1>2
<1>4. \A x \in 1..n : v[x] \in S
  BY <1>1, <1>3
<1>5. /\ SubSeq(v, 1, n) \in Seq(S) /\ Len(SubSeq(v, 1, n)) = IF 1 <= n THEN n - 1 + 1 ELSE 0
      /\ \A x \in 1..n - 1 + 1 : SubSeq(v, 1, n)[x] = v[1 + x - 1]
  BY <1>3, <1>4, SubSeqProperties
<1>6. Len(SubSeq(v, 1, n)) = n /\ \A x \in 1..n : SubSeq(v, 1, n)[x] = v[x]
  BY <1>3, <1>5
<1> QED
  BY <1>1, <1>2, <1>3, <1>5, <1>6, <1>7

(* What a set of packets is made of, and what comes before what.           *)
Both(C, A, B) == C = A \cup B

Below(A, B) == \A x \in A, y \in B : x < y

LEMMA IdsIs ==
    ASSUME NEW S, NEW d \in Seq(S)
    PROVE  \A n : n \in Ids(d) <=> \E x \in 1..Len(d) : d[x].id = n
BY DEF Ids, Range

LEMMA AllIdsIs ==
    ASSUME NEW S, NEW row \in Seq(S)
    PROVE  \A n : n \in AllIds(row) <=> \E j \in 1..Len(row) : n \in Ids(row[j])
BY DEF AllIds, Range

(* The packets of a queue of buffers.                                      *)
IdsIn(queue) == UNION {Ids(b.bytes) : b \in Range(queue)}

LEMMA IdsInIs ==
    ASSUME NEW S, NEW queue \in Seq(S)
    PROVE  \A n : n \in IdsIn(queue) <=> \E j \in 1..Len(queue) : n \in Ids(queue[j].bytes)
BY DEF IdsIn, Range

LEMMA IdsOfNone == Ids(<<>>) = {} /\ AllIds(<<>>) = {} /\ IdsIn(<<>>) = {}
BY DEF Ids, AllIds, IdsIn, Range

(* A datagram cut in two.                                                  *)
LEMMA IdsSplit ==
    ASSUME NEW S, NEW d \in Seq(S), NEW k \in Nat
    PROVE  Both(Ids(d), Ids(Cut(d, k)), Ids(Drop(d, k)))
<1>1. /\ Cut(d, k) \in Seq(S) /\ Len(Cut(d, k)) = IF k <= Len(d) THEN k ELSE Len(d)
      /\ \A x \in 1..Len(Cut(d, k)) : x \in 1..Len(d) /\ Cut(d, k)[x] = d[x]
  BY CutIs
<1>2. /\ Drop(d, k) \in Seq(S) /\ Len(Drop(d, k)) = IF k <= Len(d) THEN Len(d) - k ELSE 0
      /\ \A x \in 1..Len(d) - k : Drop(d, k)[x] = d[k + x]
  BY DropIs
<1>3. Len(d) \in Nat
  OBVIOUS
<1>4. ASSUME NEW n \in Ids(d) PROVE n \in Ids(Cut(d, k)) \cup Ids(Drop(d, k))
  <2>1. PICK x \in 1..Len(d) : d[x].id = n
    BY <1>4, IdsIs
  <2>2. CASE x <= k
    <3>1. x \in 1..Len(Cut(d, k)) /\ Cut(d, k)[x].id = n
      BY <1>1, <1>3, <2>1, <2>2
    <3> QED
      BY <1>1, <3>1, IdsIs
  <2>3. CASE x > k
    <3>1. x - k \in 1..Len(d) - k /\ k + (x - k) = x /\ x - k \in 1..Len(Drop(d, k))
      BY <1>2, <1>3, <2>3
    <3>2. Drop(d, k)[x - k].id = n
      BY <1>2, <2>1, <3>1
    <3> QED
      BY <1>2, <3>1, <3>2, IdsIs
  <2> QED
    BY <1>3, <2>2, <2>3
<1>5. ASSUME NEW n \in Ids(Cut(d, k)) PROVE n \in Ids(d)
  <2>1. PICK x \in 1..Len(Cut(d, k)) : Cut(d, k)[x].id = n
    BY <1>1, <1>5, IdsIs
  <2>2. x \in 1..Len(d) /\ d[x].id = n
    BY <1>1, <2>1
  <2> QED
    BY <2>2, IdsIs
<1>6. ASSUME NEW n \in Ids(Drop(d, k)) PROVE n \in Ids(d)
  <2>1. PICK x \in 1..Len(Drop(d, k)) : Drop(d, k)[x].id = n
    BY <1>2, <1>6, IdsIs
  <2>2. x \in 1..Len(d) - k /\ k + x \in 1..Len(d)
    BY <1>2, <1>3, <2>1
  <2>3. d[k + x].id = n
    BY <1>2, <2>1, <2>2
  <2> QED
    BY <2>2, <2>3, IdsIs
<1> QED
  BY <1>4, <1>5, <1>6 DEF Both

LEMMA IdsConcat ==
    ASSUME NEW S, NEW c \in Seq(S), NEW d \in Seq(S)
    PROVE  Both(Ids(c \o d), Ids(c), Ids(d))
<1>1. Range(c \o d) = Range(c) \cup Range(d)
  BY RangeConcatenation
<1> QED
  BY <1>1 DEF Ids, Both

(* What is left of a row after its first k.                                *)
LEMMA AllIdsDrop ==
    ASSUME NEW S, NEW row \in Seq(S), NEW k \in Nat
    PROVE  /\ \A n : n \in AllIds(Drop(row, k)) <=> \E j \in k + 1..Len(row) : n \in Ids(row[j])
           /\ k < Len(row) => Both(AllIds(Drop(row, k)), Ids(row[k + 1]), AllIds(Drop(row, k + 1)))
           /\ AllIds(Drop(row, 0)) = AllIds(row)
           /\ k >= Len(row) => AllIds(Drop(row, k)) = {}
<1>0. Len(row) \in Nat
  OBVIOUS
<1>1. ASSUME NEW h \in Nat, NEW n
      PROVE  n \in AllIds(Drop(row, h)) <=> \E j \in h + 1..Len(row) : n \in Ids(row[j])
  <2>1. /\ Drop(row, h) \in Seq(S) /\ Len(Drop(row, h)) = IF h <= Len(row) THEN Len(row) - h ELSE 0
        /\ \A x \in 1..Len(row) - h : Drop(row, h)[x] = row[h + x]
    BY DropIs
  <2>2. ASSUME NEW j \in h + 1..Len(row), n \in Ids(row[j]) PROVE n \in AllIds(Drop(row, h))
    <3>1. j - h \in 1..Len(row) - h /\ h + (j - h) = j /\ j - h \in 1..Len(Drop(row, h))
      BY <1>0, <2>1
    <3>2. n \in Ids(Drop(row, h)[j - h])
      BY <2>1, <2>2, <3>1
    <3> QED
      BY <2>1, <3>1, <3>2, AllIdsIs
  <2>3. ASSUME n \in AllIds(Drop(row, h)) PROVE \E j \in h + 1..Len(row) : n \in Ids(row[j])
    <3>1. PICK x \in 1..Len(Drop(row, h)) : n \in Ids(Drop(row, h)[x])
      BY <2>1, <2>3, AllIdsIs
    <3>2. x \in 1..Len(row) - h /\ h + x \in h + 1..Len(row)
      BY <1>0, <2>1, <3>1
    <3> QED
      BY <2>1, <3>1, <3>2
  <2> QED
    BY <2>2, <2>3
<1>2. ASSUME k < Len(row) PROVE AllIds(Drop(row, k)) = Ids(row[k + 1]) \cup AllIds(Drop(row, k + 1))
  <2>1. \A j \in Nat : j \in k + 1..Len(row) <=> j = k + 1 \/ j \in k + 1 + 1..Len(row)
    BY <1>0, <1>2
  <2>2. k + 1 \in Nat
    OBVIOUS
  <2> QED
    BY <1>1, <2>1, <2>2
<1>3. AllIds(Drop(row, 0)) = AllIds(row)
  <2>1. 0 \in Nat /\ 0 + 1 = 1
    OBVIOUS
  <2> QED
    BY <1>1, <2>1, AllIdsIs
<1>4. ASSUME k >= Len(row) PROVE AllIds(Drop(row, k)) = {}
  <2>1. k + 1..Len(row) = {}
    BY <1>0, <1>4
  <2> QED
    BY <1>1, <2>1
<1> QED
  BY <1>1, <1>2, <1>3, <1>4 DEF Both

(* A packet's bytes.                                                       *)
LEMMA BytesIs ==
    ASSUME NEW S, NEW p \in S, p.len \in Nat \ {0}
    PROVE  /\ Bytes(p) \in Seq(S) /\ Len(Bytes(p)) = p.len /\ Bytes(p) # <<>>
           /\ \A x \in 1..p.len : Bytes(p)[x] = p
           /\ Ids(Bytes(p)) = {p.id}
<1>1. Bytes(p) \in Seq(S) /\ Len(Bytes(p)) = p.len /\ \A x \in 1..p.len : Bytes(p)[x] = p
  BY DEF Bytes
<1>2. 1 \in 1..p.len
  OBVIOUS
<1>3. Ids(Bytes(p)) = {p.id}
  BY <1>1, <1>2, IdsIs
<1> QED
  BY <1>1, <1>2, <1>3

-----------------------------------------------------------------------------
(* A coalesced read and its pieces.                                        *)

(* The packets a loop meets: only server mode has more than one peer, and  *)
(* an init is told from a handshake only where it goes out by itself.      *)
Met(m) == {p \in Packet : /\ m # "s2c_server" => p.to = OneDest
                          /\ p.kind # "data" => p.len = HsLen
                          /\ p.kind = "init" => m \in {"c2s_normal", "s2c_server"}}

(* One piece after another, all of one length but the last, which may be   *)
(* shorter; each a packet of P, in the order they came.                    *)
Pieces(P, d, s) ==
    /\ d \in Seq(P) /\ d # <<>> /\ s \in Nat \ {0}
    /\ \A m \in Nat, b \in 1..s : Start(m, s) + b <= Len(d) =>
          /\ d[Start(m, s) + b] = d[Start(m, s) + 1]
          /\ d[Start(m, s) + 1].len = IF Start(m, s) + s <= Len(d) THEN s ELSE Len(d) - Start(m, s)
    /\ \A m, n \in Nat, a, b \in 1..s : m < n /\ Start(n, s) + b <= Len(d) =>
          d[Start(m, s) + a].id < d[Start(n, s) + b].id

Piece(d, s, m) == SubSeq(d, Start(m, s) + 1, Min({Start(m, s) + s, Len(d)}))

LEMMA PacketIs ==
    ASSUME NEW m, NEW p \in Met(m)
    PROVE  p \in Packet /\ p.len \in Nat \ {0} /\ p.id \in 1..Arrivals /\ p.to \in Dests
BY BatchAssumption DEF Met, Packet

(* A packet that arrives alone.                                            *)
LEMMA OnePiece ==
    ASSUME NEW P, NEW p \in P, NEW s \in Nat \ {0}
    PROVE  p.len = s => Pieces(P, Bytes(p), s)
<1>0. SUFFICES ASSUME p.len = s PROVE Pieces(P, Bytes(p), s)
  OBVIOUS
<1> DEFINE d == Bytes(p)
<1>1. d \in Seq(P) /\ Len(d) = s /\ d # <<>> /\ \A x \in 1..s : d[x] = p
  BY <1>0, BytesIs
<1> HIDE DEF d
<1>2. ASSUME NEW m \in Nat, NEW b \in 1..s, Start(m, s) + b <= Len(d)
      PROVE  m = 0 /\ Start(m, s) = 0
  <2>1. CASE m = 0
    BY <2>1, StartFirst
  <2>2. CASE m # 0
    <3>1. Start(m, s) \in Nat /\ Start(0, s) + s <= Start(m, s) /\ Start(0, s) = 0
      BY <2>2, StartIs, StartFirst, StartsGrow
    <3> QED
      BY <1>1, <1>2, <3>1
  <2> QED
    BY <2>1, <2>2
<1>3. ASSUME NEW m \in Nat, NEW b \in 1..s, Start(m, s) + b <= Len(d)
      PROVE  /\ d[Start(m, s) + b] = d[Start(m, s) + 1]
             /\ d[Start(m, s) + 1].len = IF Start(m, s) + s <= Len(d) THEN s ELSE Len(d) - Start(m, s)
  <2>1. Start(m, s) = 0
    BY <1>2, <1>3
  <2>2. b \in 1..s /\ 1 \in 1..s /\ d[b] = p /\ d[1] = p
    BY <1>1
  <2>3. 0 + b = b /\ 0 + 1 = 1 /\ 0 + s = s
    OBVIOUS
  <2> QED
    BY <1>0, <1>1, <2>1, <2>2, <2>3
<1>4. ASSUME NEW m \in Nat, NEW n \in Nat, NEW b \in 1..s, m < n, Start(n, s) + b <= Len(d)
      PROVE  FALSE
  BY <1>2, <1>4
<1>5. Pieces(P, d, s)
  BY <1>1, <1>3, <1>4 DEF Pieces
<1> QED
  BY <1>5 DEF d

(* The kernel joins a packet no longer than the pieces before it.          *)
LEMMA JoinedPieces ==
    ASSUME NEW P, NEW d, NEW s \in Nat \ {0}, NEW p \in P, NEW l \in 1..s
    PROVE  Pieces(P, d, s) /\ Len(d) % s = 0 /\ p.len = l /\ (\A x \in 1..Len(d) : d[x].id < p.id)
               => Pieces(P, d \o Bytes(p), s)
<1>9. SUFFICES ASSUME Pieces(P, d, s), Len(d) % s = 0, p.len = l, \A x \in 1..Len(d) : d[x].id < p.id
               PROVE  Pieces(P, d \o Bytes(p), s)
  OBVIOUS
<1> DEFINE e == d \o Bytes(p)
<1>0. d \in Seq(P) /\ Len(d) \in Nat
  BY <1>9 DEF Pieces
<1>1. Bytes(p) \in Seq(P) /\ Len(Bytes(p)) = l /\ \A x \in 1..l : Bytes(p)[x] = p
  <2>1. p.len = l /\ p.len \in Nat \ {0}
    BY <1>9
  <2>2. Bytes(p) \in Seq(P) /\ Len(Bytes(p)) = p.len /\ \A x \in 1..p.len : Bytes(p)[x] = p
    BY <2>1, BytesIs
  <2> QED
    BY <2>1, <2>2
<1>2. PICK k \in Nat : Len(d) = Start(k, s)
  <2>1. Len(d) \in Nat \ {0}
    <3>1. d # <<>>
      BY <1>9 DEF Pieces
    <3> QED
      BY <1>0, <3>1
  <2>2. PICK m \in Nat, b \in 1..s : Len(d) = Start(m, s) + b
    BY <2>1, Place
  <2>3. b = s
    <3>1. (m * s + b) % s = 0
      BY <1>9, <2>2 DEF Start
    <3>2. b % s = 0
      BY <3>1
    <3> QED
      BY <3>2
  <2>4. Len(d) = Start(m + 1, s)
    BY <2>2, <2>3, StartNext
  <2> QED
    BY <2>4
<1>3. /\ e \in Seq(P) /\ Len(e) = Len(d) + l /\ e # <<>>
      /\ \A x \in 1..Len(e) : e[x] = IF x <= Len(d) THEN d[x] ELSE p
  <2>1. /\ e \in Seq(P) /\ Len(e) = Len(d) + l
        /\ \A x \in 1..Len(d) + l : e[x] = IF x <= Len(d) THEN d[x] ELSE Bytes(p)[x - Len(d)]
    BY <1>0, <1>1, ConcatProperties
  <2>2. \A x \in 1..Len(d) + l : x > Len(d) => x - Len(d) \in 1..l
    BY <1>0
  <2>3. Len(e) # 0
    BY <1>0, <2>1
  <2> QED
    BY <1>1, <2>1, <2>2, <2>3
<1> HIDE DEF e
<1>4. ASSUME NEW m \in Nat, NEW b \in 1..s, Start(m, s) + b <= Len(e)
      PROVE  /\ \/ m < k /\ Start(m, s) + s <= Len(d)
                \/ m = k /\ b <= l /\ Start(m, s) = Len(d)
             /\ m < k => e[Start(m, s) + b] = d[Start(m, s) + b]
             /\ m = k => e[Start(m, s) + b] = p
  <2>0. Start(m, s) \in Nat
    BY StartIs
  <2>1. Start(m, s) + b \in 1..Len(e)
    BY <1>4, <2>0
  <2>2. CASE m < k
    <3>1. Start(m, s) + s <= Start(k, s)
      BY <2>2, StartsGrow
    <3>2. Start(m, s) + s <= Len(d)
      BY <1>2, <3>1
    <3>3. Start(m, s) + b <= Len(d)
      BY <1>0, <2>0, <3>2
    <3>4. e[Start(m, s) + b] = d[Start(m, s) + b]
      BY <1>3, <2>1, <3>3
    <3>5. m # k
      BY <2>2
    <3> QED
      BY <2>2, <3>2, <3>4, <3>5
  <2>3. CASE m = k
    <3>1. Start(m, s) = Len(d)
      BY <1>2, <2>3
    <3>2. b <= l /\ ~(Start(m, s) + b <= Len(d))
      BY <1>0, <1>3, <1>4, <3>1
    <3> QED
      BY <1>3, <2>1, <2>3, <3>1, <3>2
  <2>4. CASE k < m
    <3>1. Start(k, s) + s <= Start(m, s)
      BY <2>4, StartsGrow
    <3>2. Len(d) + s <= Start(m, s)
      BY <1>2, <3>1
    <3>3. FALSE
      BY <1>0, <1>3, <1>4, <2>0, <3>2
    <3> QED
      BY <3>3
  <2> QED
    BY <2>2, <2>3, <2>4
<1>5. ASSUME NEW m \in Nat, NEW b \in 1..s, Start(m, s) + b <= Len(e)
      PROVE  /\ e[Start(m, s) + b] = e[Start(m, s) + 1]
             /\ e[Start(m, s) + 1].len = IF Start(m, s) + s <= Len(e) THEN s ELSE Len(e) - Start(m, s)
  <2>0. Start(m, s) \in Nat
    BY StartIs
  <2>1. 1 \in 1..s /\ Start(m, s) + 1 <= Len(e)
    BY <1>0, <1>3, <1>5, <2>0
  <2>2. CASE m < k
    <3>1. Start(m, s) + s <= Len(d)
      BY <1>4, <1>5, <2>2
    <3>2. e[Start(m, s) + b] = d[Start(m, s) + b] /\ e[Start(m, s) + 1] = d[Start(m, s) + 1]
      BY <1>4, <1>5, <2>1, <2>2
    <3>3. Start(m, s) + b <= Len(d) /\ Start(m, s) + s <= Len(e)
      BY <1>0, <1>3, <2>0, <3>1
    <3>4. d[Start(m, s) + b] = d[Start(m, s) + 1] /\ d[Start(m, s) + 1].len = s
      BY <1>9, <3>1, <3>3 DEF Pieces
    <3> QED
      BY <3>2, <3>3, <3>4
  <2>3. CASE m = k
    <3>1. e[Start(m, s) + b] = p /\ e[Start(m, s) + 1] = p
      BY <1>4, <1>5, <2>1, <2>3
    <3>2. Start(m, s) = Len(d)
      BY <1>2, <2>3
    <3>3. (Start(m, s) + s <= Len(e) => l = s) /\ Len(e) - Start(m, s) = l
      BY <1>0, <1>3, <3>2
    <3> QED
      BY <1>9, <3>1, <3>3
  <2> QED
    BY <1>4, <1>5, <2>2, <2>3
<1>6. ASSUME NEW m \in Nat, NEW n \in Nat, NEW a \in 1..s, NEW b \in 1..s, m < n, Start(n, s) + b <= Len(e)
      PROVE  e[Start(m, s) + a].id < e[Start(n, s) + b].id
  <2>0. Start(m, s) \in Nat /\ Start(n, s) \in Nat
    BY StartIs
  <2>1. (n = k /\ Start(n, s) = Len(d)) \/ (n < k /\ Start(n, s) + s <= Len(d))
    BY <1>4, <1>6
  <2>2. Start(m, s) + s <= Start(n, s)
    BY <1>6, StartsGrow
  <2>3. Start(m, s) + a \in 1..Len(d) /\ Start(m, s) + a <= Len(e) /\ m < k
    BY <1>0, <1>3, <1>6, <2>0, <2>1, <2>2, SMTT(60)
  <2>4. e[Start(m, s) + a] = d[Start(m, s) + a]
    BY <1>4, <2>3
  <2>5. CASE n < k /\ Start(n, s) + s <= Len(d)
    <3>1. e[Start(n, s) + b] = d[Start(n, s) + b]
      BY <1>4, <1>6, <2>5
    <3>2. Start(n, s) + b <= Len(d)
      BY <1>0, <2>0, <2>5
    <3> QED
      BY <1>6, <1>9, <2>4, <3>1, <3>2 DEF Pieces
  <2>6. CASE n = k
    <3>1. e[Start(n, s) + b] = p
      BY <1>4, <1>6, <2>6
    <3> QED
      BY <1>9, <2>3, <2>4, <3>1
  <2> QED
    BY <2>1, <2>5, <2>6
<1>7. Pieces(P, e, s)
  BY <1>3, <1>5, <1>6 DEF Pieces
<1> QED
  BY <1>7 DEF e

(* One piece is one whole packet.                                          *)
LEMMA PieceIs ==
    ASSUME NEW P, NEW d, NEW s \in Nat \ {0}, NEW m \in Nat
    PROVE  Pieces(P, d, s) /\ Start(m, s) < Len(d) =>
             /\ Piece(d, s, m) \in Seq(P) /\ Piece(d, s, m) # <<>>
             /\ Len(Piece(d, s, m)) = IF Start(m, s) + s <= Len(d) THEN s ELSE Len(d) - Start(m, s)
             /\ d[Start(m, s) + 1] \in P
             /\ Piece(d, s, m) = Bytes(d[Start(m, s) + 1]) /\ Piece(d, s, m)[1] = d[Start(m, s) + 1]
             /\ Ids(Piece(d, s, m)) = {d[Start(m, s) + 1].id}
<1>0. SUFFICES ASSUME Pieces(P, d, s), Start(m, s) < Len(d)
               PROVE  /\ Piece(d, s, m) \in Seq(P) /\ Piece(d, s, m) # <<>>
                      /\ Len(Piece(d, s, m)) = IF Start(m, s) + s <= Len(d) THEN s ELSE Len(d) - Start(m, s)
                      /\ d[Start(m, s) + 1] \in P
                      /\ Piece(d, s, m) = Bytes(d[Start(m, s) + 1]) /\ Piece(d, s, m)[1] = d[Start(m, s) + 1]
                      /\ Ids(Piece(d, s, m)) = {d[Start(m, s) + 1].id}
  OBVIOUS
<1>1. Start(m, s) \in Nat
  BY StartIs
<1>2. d \in Seq(P) /\ Len(d) \in Nat /\ \A x \in 1..Len(d) : d[x] \in P
  <2>1. d \in Seq(P)
    BY <1>0 DEF Pieces
  <2> QED
    BY <2>1, ElementOfSeq
<1> DEFINE a == Start(m, s)
           e == Min({a + s, Len(d)})
           c == SubSeq(d, a + 1, e)
           l == e - a
           p == d[a + 1]
<1>3. e = IF a + s <= Len(d) THEN a + s ELSE Len(d)
  <2>1. a + s \in Int /\ Len(d) \in Int
    BY <1>1, <1>2
  <2> DEFINE y == a + s
             z == Len(d)
  <2> HIDE DEF y, z
  <2>2. Min({y, z}) = IF y <= z THEN y ELSE z
    BY <2>1, MinOfTwo DEF y, z
  <2> QED
    BY <2>2 DEF y, z
<1>4. l \in 1..s /\ e \in Nat /\ e = a + l /\ e <= Len(d) /\ l = IF a + s <= Len(d) THEN s ELSE Len(d) - a
  <2> HIDE DEF e
  <2> QED
    BY <1>0, <1>1, <1>2, <1>3
<1>5. p \in P /\ p.len = l /\ \A b \in 1..l : d[a + b] = p
  <2>1. \A b \in 1..l : b \in 1..s /\ a + b <= Len(d)
    BY <1>1, <1>2, <1>4
  <2>2. 1 \in 1..l
    BY <1>4
  <2>3. \A b \in 1..l : d[a + b] = d[a + 1] /\ d[a + 1].len = IF a + s <= Len(d) THEN s ELSE Len(d) - a
    BY <1>0, <2>1 DEF Pieces
  <2>4. a + 1 \in 1..Len(d)
    BY <1>1, <1>2, <2>1, <2>2
  <2> QED
    BY <1>2, <1>4, <2>2, <2>3, <2>4
<1> HIDE DEF e, l, p
<1>6. c \in Seq(P) /\ Len(c) = l /\ \A x \in 1..l : c[x] = p
  <2>1. \A x \in a + 1..e : d[x] \in P
    BY <1>1, <1>2, <1>4
  <2>2. /\ c \in Seq(P) /\ Len(c) = IF a + 1 <= e THEN e - (a + 1) + 1 ELSE 0
        /\ \A x \in 1..e - (a + 1) + 1 : c[x] = d[a + 1 + x - 1]
    <3> DEFINE y == a + 1
    <3>1. y \in Int /\ e \in Int
      BY <1>1, <1>4
    <3> HIDE DEF y
    <3>2. y \in Nat \ {0} /\ e \in Nat
      BY <1>1, <1>4 DEF y
    <3>3. \A x \in y..e : d[x] \in P
      BY <2>1 DEF y
    <3>4. /\ SubSeq(d, y, e) \in Seq(P) /\ Len(SubSeq(d, y, e)) = IF y <= e THEN e - y + 1 ELSE 0
          /\ \A x \in 1..e - y + 1 : SubSeq(d, y, e)[x] = d[y + x - 1]
      BY <3>1, <3>3, SubSeqProperties
    <3> QED
      BY <3>4 DEF y
  <2>3. e - (a + 1) + 1 = l /\ a + 1 <= e /\ \A x \in 1..l : a + 1 + x - 1 = a + x
    BY <1>1, <1>4, SMTT(60)
  <2> QED
    BY <1>5, <2>2, <2>3
<1> HIDE DEF c
<1>7. Bytes(p) \in Seq(P) /\ Len(Bytes(p)) = l /\ Bytes(p) # <<>> /\ (\A x \in 1..l : Bytes(p)[x] = p) /\ Ids(Bytes(p)) = {p.id}
  <2>1. p.len \in Nat \ {0}
    BY <1>4, <1>5
  <2> QED
    BY <1>5, <2>1, BytesIs
<1>8. c = Bytes(p)
  BY <1>6, <1>7, SeqEqual
<1>9. Piece(d, s, m) = c
  BY DEF Piece, Start, c, e
<1>10. c[1] = p
  BY <1>4, <1>6
<1> QED
  BY <1>4, <1>5, <1>7, <1>8, <1>9, <1>10 DEF p, Start

(* A later piece is of a later packet.                                     *)
LEMMA PiecesAscend ==
    ASSUME NEW P, NEW d, NEW s \in Nat \ {0}, NEW m \in Nat, NEW n \in Nat
    PROVE  Pieces(P, d, s) /\ m < n /\ Start(n, s) < Len(d) =>
             d[Start(m, s) + 1].id < d[Start(n, s) + 1].id
<1>0. SUFFICES ASSUME Pieces(P, d, s), m < n, Start(n, s) < Len(d)
               PROVE  d[Start(m, s) + 1].id < d[Start(n, s) + 1].id
  OBVIOUS
<1>1. Start(n, s) \in Nat
  BY StartIs
<1>2. Len(d) \in Nat
  BY <1>0 DEF Pieces
<1>3. Start(n, s) + 1 <= Len(d) /\ 1 \in 1..s
  BY <1>0, <1>1, <1>2
<1> QED
  BY <1>0, <1>3 DEF Pieces

(* Every byte belongs to a piece.                                          *)
LEMMA InPiece ==
    ASSUME NEW P, NEW d, NEW s \in Nat \ {0}, NEW x \in Nat \ {0}
    PROVE  Pieces(P, d, s) /\ x <= Len(d) =>
             \E m \in Nat : /\ Start(m, s) < x /\ x <= Start(m, s) + s /\ Start(m, s) < Len(d)
                            /\ d[x] = d[Start(m, s) + 1]
<1>0. SUFFICES ASSUME Pieces(P, d, s), x <= Len(d)
               PROVE  \E m \in Nat : /\ Start(m, s) < x /\ x <= Start(m, s) + s /\ Start(m, s) < Len(d)
                                     /\ d[x] = d[Start(m, s) + 1]
  OBVIOUS
<1>1. PICK m \in Nat, b \in 1..s : x = Start(m, s) + b
  BY Place
<1>2. Start(m, s) \in Nat
  BY StartIs
<1>3. Len(d) \in Nat
  BY <1>0 DEF Pieces
<1>4. Start(m, s) < x /\ x <= Start(m, s) + s /\ Start(m, s) < Len(d)
  BY <1>0, <1>1, <1>2, <1>3
<1>5. d[x] = d[Start(m, s) + 1]
  BY <1>0, <1>1 DEF Pieces
<1> QED
  BY <1>4, <1>5

(* A row of the pieces of d from the k-th on.                              *)
Whole(w) == w = Bytes(w[1])

PieceRow(P, d, s, k, row) ==
    /\ row \in Seq(Seq(P)) /\ Len(row) > 0
    /\ \A j \in 1..Len(row) : Start(k + (j - 1), s) < Len(d) /\ row[j] = Piece(d, s, k + (j - 1))

(* What Segments cuts off.                                                 *)
LEMMA SegmentsIs ==
    ASSUME NEW P, NEW d, NEW s \in Nat \ {0}, NEW k \in Nat, NEW lim \in Nat \ {0}
    PROVE  Pieces(P, d, s) /\ Start(k, s) < Len(d) =>
             /\ PieceRow(P, d, s, k, Segments(d, Start(k, s), s, lim))
             /\ Len(Segments(d, Start(k, s), s, lim)) <= lim
             /\ Len(Segments(d, Start(k, s), s, lim)) < lim \/ lim = Len(d) =>
                    Len(d) <= Start(k + Len(Segments(d, Start(k, s), s, lim)), s)
<1> DEFINE a == Start(k, s)
           cs == Segments(d, a, s, lim)
           u == Up(Len(d) - a, s)
           n == Min({lim, u})
<1>0. SUFFICES ASSUME Pieces(P, d, s), a < Len(d)
               PROVE  /\ PieceRow(P, d, s, k, cs) /\ Len(cs) <= lim
                      /\ Len(cs) < lim \/ lim = Len(d) => Len(d) <= Start(k + Len(cs), s)
  OBVIOUS
<1>1. a \in Nat /\ Len(d) \in Nat
  BY <1>0, StartIs DEF Pieces
<1>2. /\ u \in Nat \ {0} /\ Len(d) - a <= Start(u, s)
      /\ \A j \in Nat : j < u => Start(j, s) < Len(d) - a
  <2> DEFINE r == Len(d) - a
  <2>1. r \in Nat \ {0}
    BY <1>0, <1>1
  <2> HIDE DEF r
  <2>2. /\ Up(r, s) \in Nat \ {0} /\ r <= Start(Up(r, s), s)
        /\ \A j \in Nat : j < Up(r, s) => Start(j, s) < r
    BY <2>1, UpIs
  <2> QED
    BY <2>2 DEF r
<1>3. n \in Nat \ {0} /\ n <= lim /\ n <= u /\ (n = lim \/ n = u)
  <2> HIDE DEF u
  <2>1. n = IF lim <= u THEN lim ELSE u
    BY <1>2, MinOfTwo
  <2> HIDE DEF n
  <2> QED
    BY <1>2, <2>1
<1>4. cs = [j \in 1..n |-> SubSeq(d, a + (j - 1) * s + 1, Min({a + j * s, Len(d)}))]
  BY DEF Segments
<1> HIDE DEF n
<1>5. ASSUME NEW j \in 1..n
      PROVE  /\ Start(k + (j - 1), s) < Len(d)
             /\ SubSeq(d, a + (j - 1) * s + 1, Min({a + j * s, Len(d)})) = Piece(d, s, k + (j - 1))
             /\ Piece(d, s, k + (j - 1)) \in Seq(P)
  <2> DEFINE h == j - 1
  <2>1. h \in Nat /\ j = h + 1 /\ h < u
    BY <1>2, <1>3
  <2> HIDE DEF h
  <2>2. Start(k + h, s) = a + Start(h, s)
    BY <2>1, StartSum
  <2>3. Start(j, s) = Start(h, s) + s
    BY <2>1, StartNext
  <2>4. Start(h, s) \in Nat /\ Start(h, s) < Len(d) - a
    BY <1>2, <2>1, StartIs
  <2> DEFINE b == Start(h, s)
  <2>5. b = h * s /\ Start(j, s) = j * s
    BY DEF Start
  <2>6. Start(k + h, s) = a + b /\ Start(k + h, s) < Len(d) /\ a + j * s = Start(k + h, s) + s
    <3> HIDE DEF a
    <3>1. b \in Nat /\ b < Len(d) - a /\ Start(k + h, s) = a + b /\ Start(j, s) = b + s
      BY <2>2, <2>3, <2>4
    <3> HIDE DEF b
    <3>2. j * s = b + s
      BY <2>5, <3>1
    <3> QED
      BY <1>1, <3>1, <3>2
  <2>7. SubSeq(d, a + h * s + 1, Min({a + j * s, Len(d)})) = Piece(d, s, k + h)
    <3>1. a + h * s = Start(k + h, s)
      BY <2>5, <2>6
    <3> QED
      BY <2>6, <3>1 DEF Piece
  <2>8. k + h \in Nat
    BY <2>1
  <2>9. Piece(d, s, k + h) \in Seq(P)
    BY <1>0, <2>6, <2>8, PieceIs
  <2> QED
    BY <2>6, <2>7, <2>9 DEF h
<1> HIDE DEF cs
<1>6. cs \in Seq(Seq(P)) /\ Len(cs) = n /\ \A j \in 1..n : cs[j] = Piece(d, s, k + (j - 1))
  <2>1. cs = [j \in 1..n |-> Piece(d, s, k + (j - 1))]
    BY <1>4, <1>5
  <2>2. n \in Nat
    BY <1>3
  <2>3. \A j \in 1..n : Piece(d, s, k + (j - 1)) \in Seq(P)
    BY <1>5
  <2> QED
    BY <2>1, <2>2, <2>3
<1>7. PieceRow(P, d, s, k, cs)
  <2>1. Len(cs) > 0
    BY <1>3, <1>6
  <2>2. \A j \in 1..Len(cs) : Start(k + (j - 1), s) < Len(d) /\ cs[j] = Piece(d, s, k + (j - 1))
    BY <1>5, <1>6
  <2> QED
    BY <1>6, <2>1, <2>2 DEF PieceRow
<1>8. ASSUME n < lim \/ lim = Len(d) PROVE Len(d) <= Start(k + n, s)
  <2>1. Start(k + n, s) = a + Start(n, s) /\ Start(n, s) \in Nat
    BY <1>3, StartSum, StartIs
  <2>2. CASE n = u
    <3> HIDE DEF a, u
    <3> QED
      BY <1>1, <1>2, <2>1, <2>2
  <2>3. CASE n = Len(d)
    <3>1. n <= Start(n, s)
      <4>1. PICK g \in Nat : s = g + 1
        <5>1. s - 1 \in Nat /\ s = (s - 1) + 1
          OBVIOUS
        <5> QED
          BY <5>1
      <4>2. n * (g + 1) = n * g + n /\ n * g \in Nat
        BY <1>3
      <4> QED
        BY <1>3, <4>1, <4>2 DEF Start
    <3> HIDE DEF a
    <3> QED
      BY <1>1, <1>3, <2>1, <2>3, <3>1
  <2> QED
    BY <1>3, <1>8, <2>2, <2>3
<1> QED
  BY <1>3, <1>6, <1>7, <1>8

(* What is left of a coalesced read from the k-th piece on.                *)
LEMMA RestIds ==
    ASSUME NEW P, NEW d, NEW s \in Nat \ {0}, NEW k \in Nat, NEW x
    PROVE  Pieces(P, d, s) =>
             (x \in Ids(Drop(d, Start(k, s))) <=>
                \E m \in Nat : m >= k /\ Start(m, s) < Len(d) /\ x = d[Start(m, s) + 1].id)
<1>0. SUFFICES ASSUME Pieces(P, d, s)
               PROVE  x \in Ids(Drop(d, Start(k, s))) <=>
                        \E m \in Nat : m >= k /\ Start(m, s) < Len(d) /\ x = d[Start(m, s) + 1].id
  OBVIOUS
<1> DEFINE a == Start(k, s)
<1>1. a \in Nat /\ Len(d) \in Nat /\ d \in Seq(P)
  <2>1. d \in Seq(P)
    BY <1>0 DEF Pieces
  <2>2. Start(k, s) \in Nat
    BY StartIs
  <2> QED
    BY <2>1, <2>2
<1>2. /\ Drop(d, a) \in Seq(P) /\ Len(Drop(d, a)) = IF a <= Len(d) THEN Len(d) - a ELSE 0
      /\ \A y \in 1..Len(d) - a : Drop(d, a)[y] = d[a + y]
  <2> HIDE DEF a
  <2> QED
    BY <1>1, DropIs
<1>3. ASSUME x \in Ids(Drop(d, a))
      PROVE  \E m \in Nat : m >= k /\ Start(m, s) < Len(d) /\ x = d[Start(m, s) + 1].id
  <2>1. PICK y \in 1..Len(Drop(d, a)) : Drop(d, a)[y].id = x
    BY <1>2, <1>3, IdsIs
  <2> HIDE DEF a
  <2>2. y \in 1..Len(d) - a /\ a + y \in Nat \ {0} /\ a + y <= Len(d)
    BY <1>1, <1>2, <2>1
  <2>3. d[a + y].id = x
    BY <1>2, <2>1, <2>2
  <2>4. PICK m \in Nat : /\ Start(m, s) < a + y /\ a + y <= Start(m, s) + s /\ Start(m, s) < Len(d)
                         /\ d[a + y] = d[Start(m, s) + 1]
    <3> DEFINE z == a + y
    <3>1. z \in Nat \ {0} /\ z <= Len(d)
      BY <2>2
    <3> HIDE DEF z
    <3>2. \E m \in Nat : /\ Start(m, s) < z /\ z <= Start(m, s) + s /\ Start(m, s) < Len(d)
                         /\ d[z] = d[Start(m, s) + 1]
      BY <1>0, <3>1, InPiece
    <3> QED
      BY <3>2 DEF z
  <2>5. m >= k
    <3>1. SUFFICES ASSUME m < k PROVE FALSE
      OBVIOUS
    <3>2. Start(m, s) + s <= a
      BY <3>1, StartsGrow DEF a
    <3>3. Start(m, s) \in Nat
      BY StartIs
    <3> QED
      BY <1>1, <2>2, <2>4, <3>2, <3>3
  <2> QED
    BY <2>3, <2>4, <2>5
<1>4. ASSUME NEW m \in Nat, m >= k, Start(m, s) < Len(d), x = d[Start(m, s) + 1].id
      PROVE  x \in Ids(Drop(d, a))
  <2>1. Start(m, s) \in Nat
    BY StartIs
  <2>2. a <= Start(m, s)
    <3>1. CASE m = k
      BY <1>1, <3>1
    <3>2. CASE k < m
      <4>1. a + s <= Start(m, s)
        BY <3>2, StartsGrow
      <4> HIDE DEF a
      <4> QED
        BY <1>1, <2>1, <4>1
    <3> QED
      BY <1>4, <3>1, <3>2
  <2> DEFINE y == Start(m, s) - a + 1
  <2>3. y \in 1..Len(d) - a /\ a + y = Start(m, s) + 1 /\ y \in 1..Len(Drop(d, a))
    <3> HIDE DEF a
    <3> QED
      BY <1>1, <1>2, <1>4, <2>1, <2>2, SMTT(60)
  <2> HIDE DEF y
  <2>4. Drop(d, a)[y].id = x
    BY <1>2, <1>4, <2>3
  <2> QED
    BY <1>2, <2>3, <2>4, IdsIs
<1> QED
  BY <1>3, <1>4

LEMMA StartOrder ==
    ASSUME NEW m \in Nat, NEW n \in Nat, NEW s \in Nat
    PROVE  Start(m, s) < Start(n, s) => m < n
<1>1. Start(m, s) \in Nat /\ Start(n, s) \in Nat
  BY StartIs
<1>2. CASE n < m
  <2>1. Start(n, s) + s <= Start(m, s)
    BY <1>2, StartsGrow
  <2> QED
    BY <1>1, <2>1
<1>3. CASE n = m
  BY <1>1, <1>3
<1> QED
  BY <1>2, <1>3

(* The pieces of a row: whole packets, in order.                           *)
LEMMA RowIs ==
    ASSUME NEW P, NEW d, NEW s \in Nat \ {0}, NEW k \in Nat, NEW row
    PROVE  PieceRow(P, d, s, k, row) => row \in Seq(Seq(P)) /\ Len(row) \in Nat \ {0}
BY DEF PieceRow

LEMMA RowPiece ==
    ASSUME NEW P, NEW d, NEW s \in Nat \ {0}, NEW k \in Nat, NEW row, NEW j \in 1..Len(row)
    PROVE  Pieces(P, d, s) /\ PieceRow(P, d, s, k, row) =>
             row[j] \in Seq(P) /\ row[j] # <<>> /\ Whole(row[j])
<1>0. SUFFICES ASSUME Pieces(P, d, s), PieceRow(P, d, s, k, row)
               PROVE  row[j] \in Seq(P) /\ row[j] # <<>> /\ Whole(row[j])
  OBVIOUS
<1>1. row \in Seq(Seq(P)) /\ Len(row) \in Nat \ {0}
  BY <1>0, RowIs
<1> DEFINE m == k + (j - 1)
<1>2. m \in Nat
  BY <1>1
<1>3. Start(m, s) < Len(d) /\ row[j] = Piece(d, s, m)
  BY <1>0 DEF PieceRow
<1> HIDE DEF m
<1>4. /\ Piece(d, s, m) \in Seq(P) /\ Piece(d, s, m) # <<>>
      /\ Piece(d, s, m) = Bytes(d[Start(m, s) + 1]) /\ Piece(d, s, m)[1] = d[Start(m, s) + 1]
      /\ Ids(Piece(d, s, m)) = {d[Start(m, s) + 1].id}
  BY <1>0, <1>2, <1>3, PieceIs
<1> QED
  BY <1>3, <1>4 DEF m, Whole

LEMMA RowAscends ==
    ASSUME NEW P, NEW d, NEW s \in Nat \ {0}, NEW k \in Nat, NEW row,
           NEW j \in 1..Len(row), NEW l \in 1..Len(row)
    PROVE  Pieces(P, d, s) /\ PieceRow(P, d, s, k, row) /\ j < l => Below(Ids(row[j]), Ids(row[l]))
<1>0. SUFFICES ASSUME Pieces(P, d, s), PieceRow(P, d, s, k, row), j < l
               PROVE  Below(Ids(row[j]), Ids(row[l]))
  OBVIOUS
<1>1. row \in Seq(Seq(P)) /\ Len(row) \in Nat \ {0}
  BY <1>0, RowIs
<1> DEFINE m == k + (j - 1)
           n == k + (l - 1)
<1>2. m \in Nat /\ n \in Nat /\ m < n
  BY <1>0, <1>1
<1>3. Start(n, s) < Len(d)
  BY <1>0 DEF PieceRow
<1>4. row[j] = Piece(d, s, m) /\ row[l] = Piece(d, s, n) /\ Start(m, s) < Len(d)
  BY <1>0 DEF PieceRow
<1> HIDE DEF m, n
<1>6. Ids(Piece(d, s, m)) = {d[Start(m, s) + 1].id} /\ Ids(Piece(d, s, n)) = {d[Start(n, s) + 1].id}
  BY <1>0, <1>2, <1>3, <1>4, PieceIs
<1>5. d[Start(m, s) + 1].id < d[Start(n, s) + 1].id
  BY <1>0, <1>2, <1>3, PiecesAscend
<1> QED
  BY <1>4, <1>5, <1>6 DEF Below

(* Splitting a read off a row of its pieces loses and repeats nothing.     *)
LEMMA RowIds ==
    ASSUME NEW P, NEW d, NEW s \in Nat \ {0}, NEW k \in Nat, NEW row
    PROVE  Pieces(P, d, s) /\ PieceRow(P, d, s, k, row) =>
             /\ Both(Ids(Drop(d, Start(k, s))), AllIds(row), Ids(Drop(d, Start(k + Len(row), s))))
             /\ Below(AllIds(row), Ids(Drop(d, Start(k + Len(row), s))))
<1> DEFINE n == Len(row)
<1>0. SUFFICES ASSUME Pieces(P, d, s), PieceRow(P, d, s, k, row)
               PROVE  /\ Both(Ids(Drop(d, Start(k, s))), AllIds(row), Ids(Drop(d, Start(k + n, s))))
                      /\ Below(AllIds(row), Ids(Drop(d, Start(k + n, s))))
  OBVIOUS
<1>1. /\ row \in Seq(Seq(P)) /\ n \in Nat \ {0}
      /\ \A j \in 1..n : Ids(row[j]) = {d[Start(k + (j - 1), s) + 1].id}
  <2>1. row \in Seq(Seq(P)) /\ Len(row) \in Nat \ {0}
    BY <1>0, RowIs
  <2>2. ASSUME NEW j \in 1..Len(row) PROVE Ids(row[j]) = {d[Start(k + (j - 1), s) + 1].id}
    <3> DEFINE m == k + (j - 1)
    <3>1. m \in Nat
      BY <2>1
    <3>2. Start(m, s) < Len(d) /\ row[j] = Piece(d, s, m)
      BY <1>0 DEF PieceRow
    <3> HIDE DEF m
    <3>3. Ids(Piece(d, s, m)) = {d[Start(m, s) + 1].id}
      BY <1>0, <3>1, <3>2, PieceIs
    <3> QED
      BY <3>2, <3>3 DEF m
  <2> QED
    BY <2>1, <2>2, Zenon
<1>2. \A j \in 1..n : Start(k + (j - 1), s) < Len(d)
  BY <1>0 DEF PieceRow
<1>3. \A x : x \in AllIds(row) <=> \E j \in 1..n : x = d[Start(k + (j - 1), s) + 1].id
  <2>1. \A x : x \in AllIds(row) <=> \E j \in 1..n : x \in Ids(row[j])
    BY <1>1, AllIdsIs, Zenon
  <2> DEFINE f(j) == d[Start(k + (j - 1), s) + 1].id
  <2>2. \A j \in 1..n : Ids(row[j]) = {f(j)}
    BY <1>1
  <2> HIDE DEF n, f
  <2>3. \A x : \A j \in 1..n : x \in Ids(row[j]) <=> x = f(j)
    BY <2>2
  <2>4. \A x : x \in AllIds(row) <=> \E j \in 1..n : x = f(j)
    BY <2>1, <2>3, Zenon
  <2> QED
    BY <2>4 DEF f
<1> HIDE DEF n
<1>4. k + n \in Nat
  BY <1>1
<1>5. \A x : x \in Ids(Drop(d, Start(k, s))) <=>
                \E m \in Nat : m >= k /\ Start(m, s) < Len(d) /\ x = d[Start(m, s) + 1].id
  BY <1>0, RestIds
<1>6. \A x : x \in Ids(Drop(d, Start(k + n, s))) <=>
                \E m \in Nat : m >= k + n /\ Start(m, s) < Len(d) /\ x = d[Start(m, s) + 1].id
  BY <1>0, <1>4, RestIds
<1>7. ASSUME NEW x \in AllIds(row) PROVE x \in Ids(Drop(d, Start(k, s)))
  <2>1. PICK j \in 1..n : x = d[Start(k + (j - 1), s) + 1].id
    BY <1>3
  <2>2. k + (j - 1) \in Nat /\ k + (j - 1) >= k
    BY <1>1
  <2> QED
    BY <1>2, <1>5, <2>1, <2>2
<1>8. ASSUME NEW x \in Ids(Drop(d, Start(k + n, s))) PROVE x \in Ids(Drop(d, Start(k, s)))
  <2>1. PICK m \in Nat : m >= k + n /\ Start(m, s) < Len(d) /\ x = d[Start(m, s) + 1].id
    BY <1>6
  <2>2. m >= k
    BY <1>1, <2>1
  <2> QED
    BY <1>5, <2>1, <2>2
<1>9. ASSUME NEW x \in Ids(Drop(d, Start(k, s))) PROVE x \in AllIds(row) \cup Ids(Drop(d, Start(k + n, s)))
  <2>1. PICK m \in Nat : m >= k /\ Start(m, s) < Len(d) /\ x = d[Start(m, s) + 1].id
    BY <1>5
  <2>2. CASE m >= k + n
    BY <1>6, <2>1, <2>2
  <2>3. CASE m < k + n
    <3>1. m - k + 1 \in 1..n /\ k + ((m - k + 1) - 1) = m
      BY <1>1, <2>1, <2>3
    <3>2. d[Start(k + ((m - k + 1) - 1), s) + 1].id = x
      BY <2>1, <3>1
    <3> QED
      BY <1>3, <3>1, <3>2
  <2> QED
    BY <1>4, <2>2, <2>3
<1>10. ASSUME NEW x \in AllIds(row), NEW y \in Ids(Drop(d, Start(k + n, s))) PROVE x < y
  <2>1. PICK j \in 1..n : x = d[Start(k + (j - 1), s) + 1].id
    BY <1>3
  <2>2. PICK m \in Nat : m >= k + n /\ Start(m, s) < Len(d) /\ y = d[Start(m, s) + 1].id
    BY <1>6
  <2> DEFINE h == k + (j - 1)
  <2>3. h \in Nat /\ h < m
    BY <1>1, <2>2
  <2>4. x = d[Start(h, s) + 1].id
    BY <2>1
  <2> HIDE DEF h
  <2>5. d[Start(h, s) + 1].id < d[Start(m, s) + 1].id
    BY <1>0, <2>2, <2>3, PiecesAscend
  <2> QED
    BY <2>2, <2>4, <2>5
<1> QED
  BY <1>7, <1>8, <1>9, <1>10 DEF Below, Both

(* The s2c loop walks the read a piece at a time.                          *)
LEMMA SegmentsNext ==
    ASSUME NEW P, NEW d, NEW s \in Nat \ {0}, NEW k \in Nat
    PROVE  Pieces(P, d, s) /\ Start(k, s) < Len(d) =>
             IF Start(k + 1, s) < Len(d)
             THEN Drop(Segments(d, Start(k, s), s, Len(d)), 1) = Segments(d, Start(k + 1, s), s, Len(d))
             ELSE Len(Segments(d, Start(k, s), s, Len(d))) = 1
<1> DEFINE cs == Segments(d, Start(k, s), s, Len(d))
           ds == Segments(d, Start(k + 1, s), s, Len(d))
<1>0. SUFFICES ASSUME Pieces(P, d, s), Start(k, s) < Len(d)
               PROVE  IF Start(k + 1, s) < Len(d) THEN Drop(cs, 1) = ds ELSE Len(cs) = 1
  OBVIOUS
<1>1. Start(k, s) \in Nat /\ Start(k + 1, s) \in Nat
  <2>1. k + 1 \in Nat
    OBVIOUS
  <2> QED
    BY <2>1, StartIs
<1>2. Len(d) \in Nat \ {0}
  <2>1. d \in Seq(P) /\ d # <<>>
    BY <1>0 DEF Pieces
  <2> QED
    BY <2>1
<1>3. PieceRow(P, d, s, k, cs) /\ Len(d) <= Start(k + Len(cs), s)
  BY <1>0, <1>2, SegmentsIs
<1> HIDE DEF cs
<1>4. cs \in Seq(Seq(P)) /\ Len(cs) \in Nat \ {0}
  BY <1>0, <1>3, RowIs
<1>5. \A j \in 1..Len(cs) : Start(k + (j - 1), s) < Len(d) /\ cs[j] = Piece(d, s, k + (j - 1))
  BY <1>3 DEF PieceRow
<1>6. ASSUME Start(k + 1, s) < Len(d) PROVE Drop(cs, 1) = ds
  <2>1. k + 1 \in Nat
    OBVIOUS
  <2>2. PieceRow(P, d, s, k + 1, ds) /\ Len(d) <= Start(k + 1 + Len(ds), s)
    BY <1>0, <1>2, <1>6, <2>1, SegmentsIs
  <2> HIDE DEF ds
  <2>3. ds \in Seq(Seq(P)) /\ Len(ds) \in Nat \ {0}
    BY <1>0, <2>1, <2>2, RowIs
  <2>4. \A j \in 1..Len(ds) : Start(k + 1 + (j - 1), s) < Len(d) /\ ds[j] = Piece(d, s, k + 1 + (j - 1))
    BY <2>2 DEF PieceRow
  <2>5. Len(cs) = Len(ds) + 1
    <3> DEFINE n == k + (Len(cs) - 1)
               m == k + 1 + (Len(ds) - 1)
    <3>1. n \in Nat /\ m \in Nat /\ k + Len(cs) \in Nat /\ k + 1 + Len(ds) \in Nat
      BY <1>4, <2>3
    <3>2. Start(n, s) < Len(d) /\ Start(m, s) < Len(d)
      BY <1>4, <1>5, <2>3, <2>4
    <3>3. /\ Start(n, s) \in Nat /\ Start(m, s) \in Nat
          /\ Start(k + Len(cs), s) \in Nat /\ Start(k + 1 + Len(ds), s) \in Nat
      <4> HIDE DEF n, m
      <4> QED
        BY <3>1, StartIs
    <3>4. n < k + 1 + Len(ds) /\ m < k + Len(cs)
      <4>1. Start(n, s) < Start(k + 1 + Len(ds), s) /\ Start(m, s) < Start(k + Len(cs), s)
        BY <1>2, <1>3, <2>2, <3>2, <3>3
      <4> HIDE DEF n, m
      <4> QED
        BY <3>1, <4>1, StartOrder
    <3> QED
      BY <1>4, <2>3, <3>4
  <2>6. /\ Drop(cs, 1) \in Seq(Seq(P)) /\ Len(Drop(cs, 1)) = Len(ds)
        /\ \A x \in 1..Len(ds) : Drop(cs, 1)[x] = cs[1 + x]
    <3>1. /\ Drop(cs, 1) \in Seq(Seq(P)) /\ Len(Drop(cs, 1)) = IF 1 <= Len(cs) THEN Len(cs) - 1 ELSE 0
          /\ \A x \in 1..Len(cs) - 1 : Drop(cs, 1)[x] = cs[1 + x]
      BY <1>4, DropIs
    <3> QED
      BY <1>4, <2>3, <2>5, <3>1
  <2>7. ASSUME NEW x \in 1..Len(ds) PROVE Drop(cs, 1)[x] = ds[x]
    <3>1. 1 + x \in 1..Len(cs) /\ k + ((1 + x) - 1) = k + 1 + (x - 1)
      BY <1>4, <2>3, <2>5
    <3>2. cs[1 + x] = Piece(d, s, k + 1 + (x - 1))
      BY <1>5, <3>1
    <3> QED
      BY <2>4, <2>6, <3>2
  <2> QED
    BY <2>3, <2>6, <2>7, SeqEqual
<1>7. ASSUME ~(Start(k + 1, s) < Len(d)) PROVE Len(cs) = 1
  <2>1. SUFFICES ASSUME Len(cs) # 1 PROVE FALSE
    OBVIOUS
  <2>2. 2 \in 1..Len(cs) /\ k + (2 - 1) = k + 1
    <3> DEFINE n == Len(cs)
    <3>1. n \in Nat \ {0} /\ n # 1
      BY <1>4, <2>1, Zenon
    <3> HIDE DEF n
    <3>2. 2 \in 1..n
      BY <3>1
    <3> QED
      BY <3>2 DEF n
  <2>3. Start(k + (2 - 1), s) < Len(d)
    BY <1>5, <2>2
  <2>4. Start(k + 1, s) < Len(d)
    BY <2>2, <2>3
  <2> QED
    BY <1>7, <2>4
<1> QED
  BY <1>6, <1>7

-----------------------------------------------------------------------------
(* What the loop keeps true of its queue, its coalesced read and the       *)
(* packets of its turn, whatever the transform and the senders do.         *)

(* A datagram that is one whole packet, or one of the two that need not be.*)
Sound(d) == Whole(d) \/ d[1].len > BufSize \/ Ids(d) \subseteq glued

Buffer(P) == [bytes : Seq(P), seg : Nat, stuck : BOOLEAN]

(* The socket's queue: coalesced reads and single packets, in order.       *)
GoodQueue(P, q) ==
    /\ q \in Seq(Buffer(P))
    /\ \A j \in 1..Len(q) : Pieces(P, q[j].bytes, SegOf(q[j]))
    /\ \A j, k \in 1..Len(q) : j < k => Below(Ids(q[j].bytes), Ids(q[k].bytes))

(* With GRO given up, what was joined before is marked as such.            *)
Marked(q) == \A j \in 1..Len(q) : Coalesced(q[j]) => q[j].stuck

(* What is left of a coalesced read begins at one of its pieces.           *)
GoodRest(P, p) ==
    /\ p \in [bytes : Seq(P), off : Nat, seg : Nat]
    /\ p # NoPend => /\ Pieces(P, p.bytes, p.seg) /\ p.off < Len(p.bytes)
                     /\ \E k \in Nat : p.off = Start(k, p.seg)

(* The packets of a turn.                                                  *)
GoodRow(P, row) ==
    /\ row \in Seq(Seq(P)) /\ \A j \in 1..Len(row) : row[j] # <<>>
    /\ \A j, k \in 1..Len(row) : j < k => Below(Ids(row[j]), Ids(row[k]))

-----------------------------------------------------------------------------
(* The queue.                                                              *)

(* The queue from its second buffer on, and from its n-th.                 *)
LEMMA QueueDrop ==
    ASSUME NEW P, NEW q, NEW n \in Nat
    PROVE  GoodQueue(P, q) =>
             /\ GoodQueue(P, Drop(q, n))
             /\ \A x : x \in IdsIn(Drop(q, n)) <=> \E j \in n + 1..Len(q) : x \in Ids(q[j].bytes)
<1>0. SUFFICES ASSUME GoodQueue(P, q)
               PROVE  /\ GoodQueue(P, Drop(q, n))
                      /\ \A x : x \in IdsIn(Drop(q, n)) <=> \E j \in n + 1..Len(q) : x \in Ids(q[j].bytes)
  OBVIOUS
<1> DEFINE S == Buffer(P)
           r == Drop(q, n)
<1>1. /\ q \in Seq(S)
      /\ \A j \in 1..Len(q) : Pieces(P, q[j].bytes, SegOf(q[j]))
      /\ \A j, k \in 1..Len(q) : j < k => Below(Ids(q[j].bytes), Ids(q[k].bytes))
  BY <1>0 DEF GoodQueue
<1> HIDE DEF S
<1>2. Len(q) \in Nat
  BY <1>1
<1>3. /\ r \in Seq(S) /\ Len(r) = IF n <= Len(q) THEN Len(q) - n ELSE 0
      /\ \A x \in 1..Len(q) - n : r[x] = q[n + x]
  BY <1>1, DropIs
<1> HIDE DEF r
<1>4. \A x \in 1..Len(r) : n + x \in 1..Len(q) /\ n + x \in n + 1..Len(q) /\ r[x] = q[n + x]
  BY <1>2, <1>3
<1>5. GoodQueue(P, r)
  <2>1. \A j \in 1..Len(r) : Pieces(P, r[j].bytes, SegOf(r[j]))
    BY <1>1, <1>4
  <2>2. ASSUME NEW j \in 1..Len(r), NEW k \in 1..Len(r), j < k
        PROVE  Below(Ids(r[j].bytes), Ids(r[k].bytes))
    <3>1. n + j < n + k
      BY <1>3, <2>2
    <3> QED
      BY <1>1, <1>4, <3>1
  <2> QED
    BY <1>3, <2>1, <2>2 DEF GoodQueue, S
<1>6. ASSUME NEW x
      PROVE  x \in IdsIn(r) <=> \E j \in n + 1..Len(q) : x \in Ids(q[j].bytes)
  <2>1. x \in IdsIn(r) <=> \E j \in 1..Len(r) : x \in Ids(r[j].bytes)
    BY <1>3, IdsInIs
  <2>2. ASSUME NEW j \in n + 1..Len(q), x \in Ids(q[j].bytes) PROVE x \in IdsIn(r)
    <3>1. j - n \in 1..Len(r) /\ n + (j - n) = j
      BY <1>2, <1>3
    <3>2. r[j - n] = q[j]
      BY <1>4, <3>1
    <3> QED
      BY <2>1, <2>2, <3>1, <3>2
  <2> QED
    BY <1>4, <2>1, <2>2
<1> QED
  BY <1>5, <1>6 DEF r

(* Reading the first buffer.                                               *)
LEMMA QueueTail ==
    ASSUME NEW P, NEW q
    PROVE  GoodQueue(P, q) /\ q # <<>> =>
             /\ GoodQueue(P, Tail(q))
             /\ Pieces(P, Head(q).bytes, SegOf(Head(q))) /\ Head(q).bytes \in Seq(P) /\ Head(q).seg \in Nat
             /\ Both(IdsIn(q), Ids(Head(q).bytes), IdsIn(Tail(q)))
             /\ Below(Ids(Head(q).bytes), IdsIn(Tail(q)))
<1>0. SUFFICES ASSUME GoodQueue(P, q), q # <<>>
               PROVE  /\ GoodQueue(P, Tail(q))
                      /\ Pieces(P, Head(q).bytes, SegOf(Head(q))) /\ Head(q).bytes \in Seq(P) /\ Head(q).seg \in Nat
                      /\ Both(IdsIn(q), Ids(Head(q).bytes), IdsIn(Tail(q)))
                      /\ Below(Ids(Head(q).bytes), IdsIn(Tail(q)))
  OBVIOUS
<1> DEFINE S == Buffer(P)
<1>1. /\ q \in Seq(S)
      /\ \A j \in 1..Len(q) : Pieces(P, q[j].bytes, SegOf(q[j]))
      /\ \A j, k \in 1..Len(q) : j < k => Below(Ids(q[j].bytes), Ids(q[k].bytes))
  BY <1>0 DEF GoodQueue
<1> HIDE DEF S
<1>2. Len(q) \in Nat /\ 1 \in 1..Len(q) /\ Head(q) = q[1] /\ Tail(q) = SubSeq(q, 2, Len(q)) /\ q[1] \in S
  BY <1>0, <1>1
<1>3. Tail(q) = Drop(q, 1)
  BY <1>2 DEF Drop
<1>4. /\ GoodQueue(P, Drop(q, 1))
      /\ \A x : x \in IdsIn(Drop(q, 1)) <=> \E j \in 1 + 1..Len(q) : x \in Ids(q[j].bytes)
  BY <1>0, QueueDrop
<1>5. \A x : x \in IdsIn(q) <=> \E j \in 1..Len(q) : x \in Ids(q[j].bytes)
  BY <1>1, IdsInIs
<1>6. \A j \in 1..Len(q) : j = 1 \/ j \in 1 + 1..Len(q)
  BY <1>2
<1>7. \A j \in 1 + 1..Len(q) : j \in 1..Len(q) /\ 1 < j
  BY <1>2
<1>8. IdsIn(q) = Ids(q[1].bytes) \cup IdsIn(Drop(q, 1))
  BY <1>2, <1>4, <1>5, <1>6, <1>7
<1>9. Below(Ids(q[1].bytes), IdsIn(Drop(q, 1)))
  BY <1>1, <1>2, <1>4, <1>7 DEF Below
<1>10. q[1].bytes \in Seq(P) /\ q[1].seg \in Nat
  BY <1>2 DEF S, Buffer
<1> QED
  BY <1>1, <1>2, <1>3, <1>4, <1>8, <1>9, <1>10 DEF Both

(* Putting a buffer at the end of the queue.                               *)
LEMMA QueueAppend ==
    ASSUME NEW P, NEW q, NEW b
    PROVE  /\ GoodQueue(P, q) /\ b \in Buffer(P)
           /\ Pieces(P, b.bytes, SegOf(b))
           /\ Below(IdsIn(q), Ids(b.bytes))
           => /\ GoodQueue(P, Append(q, b)) /\ Both(IdsIn(Append(q, b)), IdsIn(q), Ids(b.bytes))
<1> DEFINE S == Buffer(P)
           r == Append(q, b)
<1>0. SUFFICES ASSUME GoodQueue(P, q), b \in S, Pieces(P, b.bytes, SegOf(b)),
                      Below(IdsIn(q), Ids(b.bytes))
               PROVE  GoodQueue(P, r) /\ Both(IdsIn(r), IdsIn(q), Ids(b.bytes))
  OBVIOUS
<1>1. /\ q \in Seq(S)
      /\ \A j \in 1..Len(q) : Pieces(P, q[j].bytes, SegOf(q[j]))
      /\ \A j, k \in 1..Len(q) : j < k => Below(Ids(q[j].bytes), Ids(q[k].bytes))
  BY <1>0 DEF GoodQueue
<1> HIDE DEF S
<1>2. /\ Len(q) \in Nat /\ r \in Seq(S) /\ Len(r) = Len(q) + 1
      /\ r[Len(q) + 1] = b /\ \A j \in 1..Len(q) : r[j] = q[j]
  BY <1>0, <1>1, AppendProperties
<1> HIDE DEF r
<1>3. \A j \in 1..Len(r) : j \in 1..Len(q) \/ (j = Len(q) + 1 /\ r[j] = b)
  BY <1>2
<1>4. \A x : x \in IdsIn(q) <=> \E j \in 1..Len(q) : x \in Ids(q[j].bytes)
  BY <1>1, IdsInIs
<1>5. \A x : x \in IdsIn(r) <=> \E j \in 1..Len(r) : x \in Ids(r[j].bytes)
  BY <1>2, IdsInIs
<1>6. \A j \in 1..Len(r) : Pieces(P, r[j].bytes, SegOf(r[j]))
  BY <1>0, <1>1, <1>2, <1>3
<1>7. ASSUME NEW j \in 1..Len(r), NEW k \in 1..Len(r), j < k
      PROVE  Below(Ids(r[j].bytes), Ids(r[k].bytes))
  <2>1. j \in 1..Len(q) /\ r[j] = q[j]
    BY <1>2, <1>7
  <2>2. CASE k \in 1..Len(q)
    BY <1>1, <1>2, <1>7, <2>1, <2>2
  <2>3. CASE r[k] = b
    BY <1>0, <1>4, <2>1, <2>3 DEF Below
  <2> QED
    BY <1>3, <2>2, <2>3
<1>8. IdsIn(r) = IdsIn(q) \cup Ids(b.bytes)
  <2>1. Len(q) + 1 \in 1..Len(r) /\ \A j \in 1..Len(q) : j \in 1..Len(r)
    BY <1>2
  <2> QED
    BY <1>2, <1>3, <1>4, <1>5, <2>1
<1>9. GoodQueue(P, r)
  BY <1>2, <1>6, <1>7 DEF GoodQueue, S
<1> QED
  BY <1>8, <1>9 DEF Both

(* The first n buffers.                                                    *)
LEMMA QueueCut ==
    ASSUME NEW P, NEW q, NEW n \in Nat
    PROVE  GoodQueue(P, q) =>
             /\ GoodQueue(P, Cut(q, n))
             /\ Both(IdsIn(q), IdsIn(Cut(q, n)), IdsIn(Drop(q, n)))
             /\ Below(IdsIn(Cut(q, n)), IdsIn(Drop(q, n)))
<1> DEFINE S == Buffer(P)
           r == Cut(q, n)
<1>0. SUFFICES ASSUME GoodQueue(P, q)
               PROVE  /\ GoodQueue(P, r)
                      /\ Both(IdsIn(q), IdsIn(r), IdsIn(Drop(q, n)))
                      /\ Below(IdsIn(r), IdsIn(Drop(q, n)))
  OBVIOUS
<1>1. /\ q \in Seq(S)
      /\ \A j \in 1..Len(q) : Pieces(P, q[j].bytes, SegOf(q[j]))
      /\ \A j, k \in 1..Len(q) : j < k => Below(Ids(q[j].bytes), Ids(q[k].bytes))
  BY <1>0 DEF GoodQueue
<1> HIDE DEF S
<1>2. Len(q) \in Nat
  BY <1>1
<1>3. /\ r \in Seq(S) /\ Len(r) = (IF n <= Len(q) THEN n ELSE Len(q))
      /\ \A j \in 1..Len(r) : j \in 1..Len(q) /\ r[j] = q[j]
  BY <1>1, CutIs
<1> HIDE DEF r
<1>4. GoodQueue(P, r)
  <2>1. \A j \in 1..Len(r) : Pieces(P, r[j].bytes, SegOf(r[j]))
    BY <1>1, <1>3
  <2>2. \A j, k \in 1..Len(r) : j < k => Below(Ids(r[j].bytes), Ids(r[k].bytes))
    BY <1>1, <1>3
  <2> QED
    BY <1>3, <2>1, <2>2 DEF GoodQueue, S
<1>5. \A x : x \in IdsIn(q) <=> \E j \in 1..Len(q) : x \in Ids(q[j].bytes)
  BY <1>1, IdsInIs
<1>6. \A x : x \in IdsIn(r) <=> \E j \in 1..Len(r) : x \in Ids(r[j].bytes)
  BY <1>3, IdsInIs
<1>7. \A x : x \in IdsIn(Drop(q, n)) <=> \E j \in n + 1..Len(q) : x \in Ids(q[j].bytes)
  BY <1>0, QueueDrop
<1>8. /\ \A j \in 1..Len(q) : j \in 1..Len(r) \/ j \in n + 1..Len(q)
      /\ \A j \in n + 1..Len(q) : j \in 1..Len(q)
      /\ \A j \in 1..Len(r), k \in n + 1..Len(q) : j < k
  BY <1>2, <1>3
<1>9. IdsIn(q) = IdsIn(r) \cup IdsIn(Drop(q, n))
  BY <1>3, <1>5, <1>6, <1>7, <1>8
<1>10. Below(IdsIn(r), IdsIn(Drop(q, n)))
  <2>1. ASSUME NEW x \in IdsIn(r), NEW y \in IdsIn(Drop(q, n)) PROVE x < y
    <3>1. PICK j \in 1..Len(r) : x \in Ids(r[j].bytes)
      BY <1>6
    <3>2. PICK k \in n + 1..Len(q) : y \in Ids(q[k].bytes)
      BY <1>7
    <3>3. j \in 1..Len(q) /\ k \in 1..Len(q) /\ j < k /\ r[j] = q[j]
      BY <1>3, <1>8
    <3>4. Below(Ids(q[j].bytes), Ids(q[k].bytes))
      BY <1>1, <3>3
    <3> QED
      BY <3>1, <3>2, <3>3, <3>4 DEF Below
  <2> QED
    BY <2>1 DEF Below
<1> QED
  BY <1>4, <1>9, <1>10 DEF Both

(* The kernel joins a packet to the buffer queued last.                    *)
LEMMA QueueJoin ==
    ASSUME NEW P, NEW q, NEW p \in P, NEW l \in Nat \ {0}
    PROVE  GoodQueue(P, q) /\ q # <<>> /\ p.len = l /\ Joins(Last(q), l) /\ Below(IdsIn(q), {p.id})
           => LET b == [bytes |-> Last(q).bytes \o Bytes(p), seg |-> SegOf(Last(q)), stuck |-> FALSE]
              IN  /\ GoodQueue(P, Append(Front(q), b))
                  /\ Both(IdsIn(Append(Front(q), b)), IdsIn(q), {p.id})
<1> DEFINE n == Len(q) - 1
           c == Last(q)
           s == SegOf(c)
           b == [bytes |-> c.bytes \o Bytes(p), seg |-> s, stuck |-> FALSE]
           r == Front(q)
<1>0. SUFFICES ASSUME GoodQueue(P, q), q # <<>>, p.len = l, Joins(c, l), Below(IdsIn(q), {p.id})
               PROVE  GoodQueue(P, Append(r, b)) /\ Both(IdsIn(Append(r, b)), IdsIn(q), {p.id})
  OBVIOUS
<1> DEFINE S == Buffer(P)
<1>1. /\ q \in Seq(S)
      /\ \A j \in 1..Len(q) : Pieces(P, q[j].bytes, SegOf(q[j]))
      /\ \A j, k \in 1..Len(q) : j < k => Below(Ids(q[j].bytes), Ids(q[k].bytes))
  BY <1>0 DEF GoodQueue
<1> HIDE DEF S
<1>2. Len(q) \in Nat \ {0} /\ n \in Nat /\ n + 1 = Len(q)
  BY <1>0, <1>1
<1>3. c = q[Len(q)] /\ c \in S /\ Len(q) \in 1..Len(q)
  BY <1>1, <1>2 DEF Last
<1>4. r = Cut(q, n)
  <2>1. Min({n, Len(q)}) = n
    BY <1>2, MinOfTwo
  <2> QED
    BY <2>1 DEF Cut, Front
<1> HIDE DEF r, n
<1>5. /\ GoodQueue(P, r) /\ Both(IdsIn(q), IdsIn(r), IdsIn(Drop(q, n)))
      /\ Below(IdsIn(r), IdsIn(Drop(q, n)))
  <2>1. /\ GoodQueue(P, Cut(q, n)) /\ Both(IdsIn(q), IdsIn(Cut(q, n)), IdsIn(Drop(q, n)))
        /\ Below(IdsIn(Cut(q, n)), IdsIn(Drop(q, n)))
    <3>1. GoodQueue(P, q)
      BY <1>0
    <3> QED
      BY <1>2, <3>1, QueueCut
  <2> QED
    BY <1>4, <2>1
<1>6. IdsIn(Drop(q, n)) = Ids(c.bytes)
  <2>1. \A x : x \in IdsIn(Drop(q, n)) <=> \E j \in n + 1..Len(q) : x \in Ids(q[j].bytes)
    BY <1>0, <1>2, QueueDrop
  <2>2. \A j \in n + 1..Len(q) : j = Len(q)
    BY <1>2
  <2>3. Len(q) \in n + 1..Len(q)
    BY <1>2
  <2> QED
    BY <1>3, <2>1, <2>2, <2>3
<1>7. Pieces(P, c.bytes, s) /\ c.bytes \in Seq(P) /\ s \in Nat \ {0}
  <2>1. Pieces(P, c.bytes, s)
    BY <1>1, <1>3
  <2> QED
    BY <2>1 DEF Pieces
<1>8. l \in 1..s /\ Len(c.bytes) % s = 0
  BY <1>0, <1>7 DEF Joins
<1> HIDE DEF s, c
<1>9. Ids(Bytes(p)) = {p.id} /\ Bytes(p) \in Seq(P)
  BY <1>0, BytesIs
<1>10. \A x \in 1..Len(c.bytes) : c.bytes[x].id < p.id
  <2>1. \A x \in 1..Len(c.bytes) : c.bytes[x].id \in Ids(c.bytes)
    BY <1>7, IdsIs
  <2> QED
    BY <1>0, <1>5, <1>6, <2>1 DEF Below, Both
<1>11. Pieces(P, c.bytes \o Bytes(p), s)
  BY <1>0, <1>7, <1>8, <1>10, JoinedPieces
<1>12. Ids(c.bytes \o Bytes(p)) = Ids(c.bytes) \cup {p.id} /\ c.bytes \o Bytes(p) \in Seq(P)
  <2>1. Both(Ids(c.bytes \o Bytes(p)), Ids(c.bytes), Ids(Bytes(p)))
    BY <1>7, <1>9, IdsConcat
  <2> QED
    BY <1>7, <1>9, <2>1 DEF Both
<1>13. /\ b \in Buffer(P) /\ b.bytes = c.bytes \o Bytes(p)
       /\ SegOf(b) = s
  BY <1>7, <1>12 DEF SegOf, Coalesced, Buffer
<1> HIDE DEF b
<1>14. Below(IdsIn(r), Ids(b.bytes))
  <2>1. Below(IdsIn(r), Ids(c.bytes)) /\ Below(IdsIn(r), {p.id})
    BY <1>0, <1>5, <1>6 DEF Below, Both
  <2> QED
    BY <1>12, <1>13, <2>1 DEF Below
<1>15. GoodQueue(P, Append(r, b)) /\ Both(IdsIn(Append(r, b)), IdsIn(r), Ids(b.bytes))
  <2>1. Pieces(P, b.bytes, SegOf(b))
    BY <1>0, <1>11, <1>13
  <2>2. b \in Buffer(P)
    BY <1>13
  <2> QED
    BY <1>5, <1>14, <2>1, <2>2, QueueAppend
<1> QED
  BY <1>5, <1>6, <1>12, <1>13, <1>15 DEF Both

(* Giving GRO up keeps what is queued.                                     *)
LEMMA QueueGiveUp ==
    ASSUME NEW P, NEW q
    PROVE  GoodQueue(P, q) =>
             LET r == [j \in 1..Len(q) |-> [q[j] EXCEPT !.stuck = Coalesced(q[j])]]
             IN  GoodQueue(P, r) /\ IdsIn(r) = IdsIn(q)
<1> DEFINE r == [j \in 1..Len(q) |-> [q[j] EXCEPT !.stuck = Coalesced(q[j])]]
           S == Buffer(P)
<1>0. SUFFICES ASSUME GoodQueue(P, q)
               PROVE  GoodQueue(P, r) /\ IdsIn(r) = IdsIn(q)
  OBVIOUS
<1>1. /\ q \in Seq(S)
      /\ \A j \in 1..Len(q) : Pieces(P, q[j].bytes, SegOf(q[j]))
      /\ \A j, k \in 1..Len(q) : j < k => Below(Ids(q[j].bytes), Ids(q[k].bytes))
  BY <1>0 DEF GoodQueue
<1>2. Len(q) \in Nat /\ \A j \in 1..Len(q) : q[j] \in S
  <2> HIDE DEF S
  <2> QED
    BY <1>1, ElementOfSeq
<1>3. ASSUME NEW j \in 1..Len(q)
      PROVE  /\ r[j] \in S /\ r[j].bytes = q[j].bytes /\ r[j].seg = q[j].seg
             /\ r[j].stuck = Coalesced(q[j])
  <2>1. r[j] = [q[j] EXCEPT !.stuck = Coalesced(q[j])]
    OBVIOUS
  <2> HIDE DEF r
  <2>2. Coalesced(q[j]) \in BOOLEAN
    BY DEF Coalesced
  <2>3. q[j] \in S
    BY <1>2
  <2> QED
    BY <2>1, <2>2, <2>3 DEF Buffer
<1>4. r \in Seq(S) /\ Len(r) = Len(q)
  <2>1. r \in [1..Len(q) -> S]
    BY <1>3
  <2> HIDE DEF r, S
  <2> QED
    BY <1>2, <2>1
<1> HIDE DEF r, S
<1>5. \A j \in 1..Len(r) : Pieces(P, r[j].bytes, SegOf(r[j]))
  BY <1>1, <1>3, <1>4 DEF SegOf, Coalesced
<1>6. \A j, k \in 1..Len(r) : j < k => Below(Ids(r[j].bytes), Ids(r[k].bytes))
  BY <1>1, <1>3, <1>4
<1>7. GoodQueue(P, r)
  BY <1>4, <1>5, <1>6 DEF GoodQueue, S
<1>8. \A x : x \in IdsIn(q) <=> \E j \in 1..Len(q) : x \in Ids(q[j].bytes)
  BY <1>1, IdsInIs
<1>9. \A x : x \in IdsIn(r) <=> \E j \in 1..Len(r) : x \in Ids(r[j].bytes)
  BY <1>4, IdsInIs
<1>10. IdsIn(r) = IdsIn(q)
  BY <1>3, <1>4, <1>8, <1>9
<1> QED
  BY <1>7, <1>10 DEF r

-----------------------------------------------------------------------------
(* The packets of a turn.                                                  *)

LEMMA RowOfPieces ==
    ASSUME NEW P, NEW d, NEW s \in Nat \ {0}, NEW k \in Nat, NEW row
    PROVE  Pieces(P, d, s) /\ PieceRow(P, d, s, k, row) =>
             GoodRow(P, row) /\ \A j \in 1..Len(row) : Whole(row[j])
<1>0. SUFFICES ASSUME Pieces(P, d, s), PieceRow(P, d, s, k, row)
               PROVE  GoodRow(P, row) /\ \A j \in 1..Len(row) : Whole(row[j])
  OBVIOUS
<1>1. row \in Seq(Seq(P))
  BY <1>0, RowIs
<1>2. \A j \in 1..Len(row) : row[j] # <<>> /\ Whole(row[j])
  BY <1>0, RowPiece
<1>3. \A j, l \in 1..Len(row) : j < l => Below(Ids(row[j]), Ids(row[l]))
  BY <1>0, RowAscends
<1> QED
  BY <1>1, <1>2, <1>3 DEF GoodRow

(* A buffer that was not coalesced is one packet.                          *)
LEMMA SingleIs ==
    ASSUME NEW P, NEW d
    PROVE  Pieces(P, d, Len(d)) => d \in Seq(P) /\ d # <<>> /\ Len(d) \in Nat \ {0} /\ Whole(d)
<1>0. SUFFICES ASSUME Pieces(P, d, Len(d))
               PROVE  d \in Seq(P) /\ d # <<>> /\ Len(d) \in Nat \ {0} /\ Whole(d)
  OBVIOUS
<1>1. d \in Seq(P) /\ d # <<>> /\ Len(d) \in Nat \ {0}
  BY <1>0 DEF Pieces
<1>2. Start(0, Len(d)) = 0
  BY <1>1, StartFirst
<1>3. /\ Piece(d, Len(d), 0) = Bytes(d[Start(0, Len(d)) + 1])
      /\ Piece(d, Len(d), 0)[1] = d[Start(0, Len(d)) + 1]
  <2>1. Start(0, Len(d)) < Len(d) /\ 0 \in Nat
    BY <1>1, <1>2
  <2> DEFINE s == Len(d)
  <2>2. Pieces(P, d, s) /\ s \in Nat \ {0} /\ Start(0, s) < Len(d)
    BY <1>0, <1>1, <2>1
  <2> HIDE DEF s
  <2>3. Piece(d, s, 0) = Bytes(d[Start(0, s) + 1]) /\ Piece(d, s, 0)[1] = d[Start(0, s) + 1]
    BY <2>1, <2>2, PieceIs
  <2> QED
    BY <2>3 DEF s
<1>4. Piece(d, Len(d), 0) = d
  <2>1. Min({Len(d), Len(d)}) = Len(d)
    BY <1>1, MinOfTwo
  <2>2. Piece(d, Len(d), 0) = SubSeq(d, 1, Len(d))
    <3> DEFINE n == Len(d)
    <3>1. 0 + 1 = 1 /\ 0 + n = n
      BY <1>1
    <3> QED
      BY <1>2, <2>1, <3>1 DEF Piece
  <2>3. SubSeq(d, 1, Len(d)) = d
    BY <1>1
  <2> QED
    BY <2>2, <2>3
<1> QED
  BY <1>1, <1>3, <1>4 DEF Whole

LEMMA OneRow ==
    ASSUME NEW P, NEW d \in Seq(P), d # <<>>
    PROVE  GoodRow(P, <<d>>) /\ AllIds(<<d>>) = Ids(d) /\ Len(<<d>>) = 1 /\ <<d>>[1] = d
<1>1. <<d>> \in Seq(Seq(P)) /\ Len(<<d>>) = 1 /\ <<d>>[1] = d
  OBVIOUS
<1>2. \A j \in 1..1 : j = 1
  OBVIOUS
<1>3. AllIds(<<d>>) = Ids(d)
  <2> DEFINE e == <<d>>
  <2>1. e \in Seq(Seq(P)) /\ Len(e) = 1 /\ e[1] = d
    BY <1>1
  <2> HIDE DEF e
  <2>2. \A x : x \in AllIds(e) <=> \E j \in 1..Len(e) : x \in Ids(e[j])
    BY <2>1, AllIdsIs
  <2>3. \A x : x \in AllIds(e) <=> x \in Ids(d)
    BY <1>2, <2>1, <2>2
  <2> QED
    BY <2>3 DEF e
<1>4. GoodRow(P, <<d>>)
  BY <1>1, <1>2 DEF GoodRow
<1> QED
  BY <1>1, <1>3, <1>4

(* The next packet of a turn and the ones after it.                        *)
LEMMA RowNext ==
    ASSUME NEW P, NEW row, NEW n \in Nat \ {0}
    PROVE  GoodRow(P, row) /\ n <= Len(row) =>
             /\ row[n] \in Seq(P) /\ row[n] # <<>>
             /\ Both(AllIds(Drop(row, n - 1)), Ids(row[n]), AllIds(Drop(row, n)))
             /\ Below(Ids(row[n]), AllIds(Drop(row, n)))
<1>0. SUFFICES ASSUME GoodRow(P, row), n <= Len(row)
               PROVE  /\ row[n] \in Seq(P) /\ row[n] # <<>>
                      /\ Both(AllIds(Drop(row, n - 1)), Ids(row[n]), AllIds(Drop(row, n)))
                      /\ Below(Ids(row[n]), AllIds(Drop(row, n)))
  OBVIOUS
<1>1. row \in Seq(Seq(P)) /\ Len(row) \in Nat /\ n \in 1..Len(row)
  BY <1>0 DEF GoodRow
<1>2. PICK m \in Nat : n = m + 1
  <2>1. n - 1 \in Nat /\ n = (n - 1) + 1
    OBVIOUS
  <2> QED
    BY <2>1
<1>3. m < Len(row) /\ n - 1 = m
  BY <1>0, <1>1, <1>2
<1>4. Both(AllIds(Drop(row, m)), Ids(row[m + 1]), AllIds(Drop(row, m + 1)))
  BY <1>1, <1>3, AllIdsDrop
<1>5. \A x : x \in AllIds(Drop(row, n)) <=> \E j \in n + 1..Len(row) : x \in Ids(row[j])
  BY <1>1, AllIdsDrop
<1>6. \A j \in n + 1..Len(row) : j \in 1..Len(row) /\ n < j
  BY <1>1
<1>7. Below(Ids(row[n]), AllIds(Drop(row, n)))
  BY <1>0, <1>1, <1>5, <1>6 DEF Below, GoodRow
<1>8. row[n] \in Seq(P) /\ row[n] # <<>>
  <2>1. row[n] \in Seq(P)
    BY <1>1, ElementOfSeq
  <2> QED
    BY <1>0, <1>1, <2>1 DEF GoodRow
<1> QED
  BY <1>2, <1>3, <1>4, <1>7, <1>8

LEMMA RowRest ==
    ASSUME NEW P, NEW row, NEW n \in Nat
    PROVE  GoodRow(P, row) => AllIds(Drop(row, n)) \subseteq AllIds(row)
<1>0. SUFFICES ASSUME GoodRow(P, row) PROVE AllIds(Drop(row, n)) \subseteq AllIds(row)
  OBVIOUS
<1>1. row \in Seq(Seq(P)) /\ Len(row) \in Nat
  BY <1>0 DEF GoodRow
<1>2. \A x : x \in AllIds(Drop(row, n)) <=> \E j \in n + 1..Len(row) : x \in Ids(row[j])
  BY <1>1, AllIdsDrop
<1>3. \A x : x \in AllIds(row) <=> \E j \in 1..Len(row) : x \in Ids(row[j])
  BY <1>1, AllIdsIs
<1>4. \A j \in n + 1..Len(row) : j \in 1..Len(row)
  BY <1>1
<1> QED
  BY <1>2, <1>3, <1>4

(* recvmmsg: each buffer of the queue cut to the packet buffer.            *)
LEMMA RowOfQueue ==
    ASSUME NEW P, NEW q, NEW n \in Nat \ {0}
    PROVE  GoodQueue(P, q) =>
             /\ GoodRow(P, [j \in DOMAIN q |-> Cut(q[j].bytes, n)])
             /\ Len([j \in DOMAIN q |-> Cut(q[j].bytes, n)]) = Len(q)
             /\ Both(IdsIn(q), AllIds([j \in DOMAIN q |-> Cut(q[j].bytes, n)]),
                               AllIds([j \in DOMAIN q |-> Drop(q[j].bytes, n)]))
<1> DEFINE c == [j \in DOMAIN q |-> Cut(q[j].bytes, n)]
           r == [j \in DOMAIN q |-> Drop(q[j].bytes, n)]
<1>0. SUFFICES ASSUME GoodQueue(P, q)
               PROVE  GoodRow(P, c) /\ Len(c) = Len(q) /\ Both(IdsIn(q), AllIds(c), AllIds(r))
  OBVIOUS
<1>1. /\ q \in Seq(Buffer(P)) /\ Len(q) \in Nat /\ DOMAIN q = 1..Len(q)
      /\ \A j \in 1..Len(q) : Pieces(P, q[j].bytes, SegOf(q[j]))
      /\ \A j, k \in 1..Len(q) : j < k => Below(Ids(q[j].bytes), Ids(q[k].bytes))
  BY <1>0 DEF GoodQueue
<1>2. ASSUME NEW j \in 1..Len(q)
      PROVE  /\ c[j] = Cut(q[j].bytes, n) /\ r[j] = Drop(q[j].bytes, n)
             /\ c[j] \in Seq(P) /\ r[j] \in Seq(P) /\ c[j] # <<>>
             /\ Both(Ids(q[j].bytes), Ids(c[j]), Ids(r[j]))
  <2>1. c[j] = Cut(q[j].bytes, n) /\ r[j] = Drop(q[j].bytes, n)
    BY <1>1
  <2>2. q[j].bytes \in Seq(P) /\ q[j].bytes # <<>>
    BY <1>1 DEF Pieces
  <2> DEFINE b == q[j].bytes
  <2> HIDE DEF b, c, r
  <2>3. b \in Seq(P) /\ b # <<>> /\ Len(b) \in Nat \ {0}
    BY <2>2 DEF b
  <2>4. Cut(b, n) \in Seq(P) /\ Len(Cut(b, n)) = IF n <= Len(b) THEN n ELSE Len(b)
    BY <2>3, CutIs
  <2>5. Cut(b, n) # <<>>
    BY <2>3, <2>4
  <2>6. Drop(b, n) \in Seq(P)
    BY <2>3, DropIs
  <2>7. Both(Ids(b), Ids(Cut(b, n)), Ids(Drop(b, n)))
    BY <2>3, IdsSplit
  <2> QED
    BY <2>1, <2>4, <2>5, <2>6, <2>7 DEF b
<1>3. c \in Seq(Seq(P)) /\ Len(c) = Len(q) /\ r \in Seq(Seq(P)) /\ Len(r) = Len(q)
  <2> DEFINE T == Seq(P)
  <2>1. c \in [1..Len(q) -> T] /\ r \in [1..Len(q) -> T]
    BY <1>1, <1>2
  <2> HIDE DEF c, r, T
  <2>2. c \in Seq(T) /\ Len(c) = Len(q) /\ r \in Seq(T) /\ Len(r) = Len(q)
    BY <1>1, <2>1
  <2> QED
    BY <2>2 DEF T
<1> HIDE DEF c, r
<1>4. GoodRow(P, c)
  BY <1>1, <1>2, <1>3 DEF GoodRow, Below, Both
<1>5. \A x : x \in IdsIn(q) <=> \E j \in 1..Len(q) : x \in Ids(q[j].bytes)
  BY <1>1, IdsInIs
<1>6. \A x : x \in AllIds(c) <=> \E j \in 1..Len(q) : x \in Ids(c[j])
  <2>1. \A x : x \in AllIds(c) <=> \E j \in 1..Len(c) : x \in Ids(c[j])
    BY <1>3, AllIdsIs
  <2> QED
    BY <1>3, <2>1
<1>7. \A x : x \in AllIds(r) <=> \E j \in 1..Len(q) : x \in Ids(r[j])
  <2>1. \A x : x \in AllIds(r) <=> \E j \in 1..Len(r) : x \in Ids(r[j])
    BY <1>3, AllIdsIs
  <2> QED
    BY <1>3, <2>1
<1>8. Both(IdsIn(q), AllIds(c), AllIds(r))
  <2>1. ASSUME NEW x, NEW j \in 1..Len(q)
        PROVE  x \in Ids(q[j].bytes) <=> x \in Ids(c[j]) \/ x \in Ids(r[j])
    BY <1>2 DEF Both
  <2>2. \A x : x \in IdsIn(q) <=> x \in AllIds(c) \/ x \in AllIds(r)
    BY <1>5, <1>6, <1>7, <2>1
  <2> QED
    BY <2>2 DEF Both
<1> QED
  BY <1>3, <1>4, <1>8

(* The packets' numbers.                                                   *)
LEMMA IdsMet ==
    ASSUME NEW m, NEW d \in Seq(Met(m))
    PROVE  Ids(d) \subseteq 1..Arrivals
<1>1. \A x \in 1..Len(d) : d[x].id \in 1..Arrivals
  BY ElementOfSeq, PacketIs
<1> QED
  BY <1>1, IdsIs

(* The marks.                                                              *)
LEMMA MarkedAppend ==
    ASSUME NEW S, NEW q \in Seq(S), NEW b \in S
    PROVE  Marked(q) /\ ~Coalesced(b) => Marked(Append(q, b))
<1>1. /\ Len(q) \in Nat /\ Len(Append(q, b)) = Len(q) + 1
      /\ Append(q, b)[Len(q) + 1] = b /\ \A j \in 1..Len(q) : Append(q, b)[j] = q[j]
  BY AppendProperties
<1>2. \A j \in 1..Len(Append(q, b)) : j \in 1..Len(q) \/ j = Len(q) + 1
  BY <1>1
<1> QED
  BY <1>1, <1>2 DEF Marked

LEMMA MarkedDrop ==
    ASSUME NEW S, NEW q \in Seq(S), NEW n \in Nat
    PROVE  Marked(q) => Marked(Drop(q, n))
<1>1. /\ Len(Drop(q, n)) = IF n <= Len(q) THEN Len(q) - n ELSE 0
      /\ \A x \in 1..Len(q) - n : Drop(q, n)[x] = q[n + x]
  BY DropIs
<1>2. \A x \in 1..Len(Drop(q, n)) : n + x \in 1..Len(q) /\ Drop(q, n)[x] = q[n + x]
  <2>1. Len(q) \in Nat
    OBVIOUS
  <2> QED
    BY <1>1, <2>1
<1> QED
  BY <1>2 DEF Marked

LEMMA MarkedGiveUp ==
    ASSUME NEW P, NEW q
    PROVE  GoodQueue(P, q) => Marked([j \in 1..Len(q) |-> [q[j] EXCEPT !.stuck = Coalesced(q[j])]])
<1> DEFINE r == [j \in 1..Len(q) |-> [q[j] EXCEPT !.stuck = Coalesced(q[j])]]
<1>0. SUFFICES ASSUME GoodQueue(P, q) PROVE Marked(r)
  OBVIOUS
<1>1. q \in Seq(Buffer(P)) /\ Len(q) \in Nat
  BY <1>0 DEF GoodQueue
<1>2. \A j \in 1..Len(q) : q[j] \in Buffer(P)
  BY <1>1, ElementOfSeq
<1>3. Len(r) = Len(q)
  BY <1>1
<1>4. ASSUME NEW j \in 1..Len(q) PROVE Coalesced(r[j]) => r[j].stuck
  <2>1. r[j] = [q[j] EXCEPT !.stuck = Coalesced(q[j])] /\ q[j] \in Buffer(P)
    BY <1>2
  <2> HIDE DEF r
  <2>2. r[j].seg = q[j].seg /\ r[j].stuck = Coalesced(q[j])
    BY <2>1 DEF Buffer
  <2> QED
    BY <2>2 DEF Coalesced
<1> HIDE DEF r
<1>5. Marked(r)
  BY <1>3, <1>4 DEF Marked
<1> QED
  BY <1>5 DEF r

-----------------------------------------------------------------------------
(* The inductive invariant of the receiving side.                          *)

Numbers ==
    /\ mode \in Modes /\ seq \in 0..Arrivals /\ has_client \in BOOLEAN
    /\ no_coalesce \in 0..NoCoalesce /\ rearm_in \in 0..2 * RearmMax
    /\ rearm_gap \in RearmMin..2 * RearmMax
    /\ pc \in {"recv", "walk", "send"} /\ glued \subseteq 1..Arrivals

(* GRO is on exactly while the socket option is; only a reconnect turns it *)
(* on while the loop still waits to do so itself, and what a loop has left *)
(* of a read after it went off is never looked at again.  The two loops    *)
(* without GRO stay without.                                               *)
GroOK ==
    /\ gro \in BOOLEAN /\ udp_gro = gro
    /\ gro /\ C2s => rearm_in = 0
    /\ ~HasGro => ~gro /\ rearm_in = 0
    /\ ~gro => Marked(rq)
    /\ ~gro /\ pend # NoPend => C2s /\ rearm_in = 0

AllSound == \A j \in 1..Len(bufs) : Sound(bufs[j])

TurnOK ==
    /\ GoodRow(Met(mode), bufs) /\ AllSound
    /\ i \in 1..Len(bufs) + 1
    /\ pc = "recv" => bufs = <<>> /\ i = 1

(* The send batch has an entry for some of the packets processed so far.   *)
RoomOK == iov \in Seq([at : Nat, len : Nat, to : Dests]) /\ Len(iov) <= Batch /\ Len(iov) < i

(* s2c walks the coalesced read while it walks its pieces.                 *)
InStep ==
    IF C2s \/ pend = NoPend THEN Len(bufs) <= Batch \/ i > Len(bufs)
    ELSE pc # "recv" => Drop(bufs, i - 1) = Segments(pend.bytes, pend.off, pend.seg, Len(pend.bytes))

Ordered ==
    /\ Below(PendIds, QueueIds) /\ Below(AllIds(bufs), QueueIds)
    /\ C2s => Below(AllIds(bufs), PendIds)

QueueOK == GoodQueue(Met(mode), rq)
PendOK  == GoodRest(Met(mode), pend)

RecvInv ==
    /\ Numbers /\ QueueOK /\ PendOK /\ GroOK /\ TurnOK /\ RoomOK /\ InStep /\ Ordered
    /\ NonePassedOver

LEMMA QueueIdsAre == QueueIds = IdsIn(rq) /\ QueueIds' = IdsIn(rq')
BY DEF QueueIds, IdsIn

(* Nothing has been read yet.                                              *)
LEMMA NothingYet ==
    ASSUME NEW P
    PROVE  /\ GoodQueue(P, <<>>) /\ Marked(<<>>) /\ GoodRest(P, NoPend) /\ GoodRow(P, <<>>)
           /\ \A n \in Nat : AllIds(Drop(<<>>, n)) = {} /\ Ids(Drop(<<>>, n)) = {}
<1>1. Len(<<>>) = 0 /\ 1..0 = {}
  OBVIOUS
<1>2. GoodQueue(P, <<>>) /\ Marked(<<>>) /\ GoodRow(P, <<>>)
  BY <1>1 DEF GoodQueue, Marked, GoodRow
<1>3. GoodRest(P, NoPend)
  BY DEF GoodRest, NoPend
<1>4. ASSUME NEW n \in Nat PROVE Drop(<<>>, n) = <<>>
  BY <1>1 DEF Drop
<1> QED
  BY <1>2, <1>3, <1>4, IdsOfNone

LEMMA RecvInvInit == Init => RecvInv
<1>0. SUFFICES ASSUME Init PROVE RecvInv
  OBVIOUS
<1>1. /\ mode \in Modes /\ seq = 0 /\ rq = <<>> /\ has_client \in {mode # "s2c_normal", TRUE}
      /\ gro = HasGro /\ udp_gro = gro /\ pend = NoPend /\ no_coalesce = 0 /\ rearm_in = 0
      /\ rearm_gap = RearmMin /\ pc = "recv" /\ bufs = <<>> /\ i = 1 /\ iov = <<>>
      /\ settled = {} /\ glued = {}
  BY <1>0 DEF Init
<1>2. Numbers
  <2>1. has_client \in BOOLEAN
    BY <1>1
  <2>2. seq \in 0..Arrivals /\ no_coalesce \in 0..NoCoalesce /\ rearm_in \in 0..2 * RearmMax
    BY <1>1, BatchAssumption
  <2>3. rearm_gap \in RearmMin..2 * RearmMax
    BY <1>1, BatchAssumption
  <2>4. mode \in Modes /\ pc \in {"recv", "walk", "send"} /\ glued \subseteq 1..Arrivals
    BY <1>1
  <2> QED
    BY <2>1, <2>2, <2>3, <2>4 DEF Numbers
<1>3. QueueOK /\ PendOK /\ Marked(rq) /\ GoodRow(Met(mode), bufs)
  BY <1>1, NothingYet DEF QueueOK, PendOK
<1>4. GroOK
  <2>1. gro = HasGro /\ HasGro \in BOOLEAN
    BY <1>1 DEF HasGro
  <2> QED
    BY <1>1, <1>3, <2>1 DEF GroOK
<1>5. TurnOK
  BY <1>1, <1>3 DEF TurnOK, AllSound
<1>6. RoomOK
  BY <1>1, BatchAssumption DEF RoomOK
<1>7. InStep
  BY <1>1 DEF InStep
<1>8. PendIds = {} /\ AllIds(bufs) = {} /\ QueueIds = {} /\ TurnIds = {}
  <2>1. PendIds = {}
    BY <1>1, NothingYet DEF PendIds, NoPend
  <2>2. TurnIds = {}
    BY <1>1, NothingYet DEF TurnIds
  <2> QED
    BY <1>1, <2>1, <2>2, IdsOfNone, QueueIdsAre
<1>9. Ordered
  BY <1>8 DEF Ordered, Below
<1>10. NonePassedOver
  BY <1>1, <1>8 DEF NonePassedOver, Held
<1> QED
  BY <1>2, <1>3, <1>4, <1>5, <1>6, <1>7, <1>9, <1>10 DEF RecvInv

(* What s2c has split off a coalesced read is what is left of it.          *)
LEMMA ReadIds ==
    ASSUME NEW P, NEW p
    PROVE  GoodRest(P, p) /\ p # NoPend =>
             AllIds(Segments(p.bytes, p.off, p.seg, Len(p.bytes))) = Ids(Drop(p.bytes, p.off))
<1> DEFINE d == p.bytes
           s == p.seg
           cs == Segments(d, p.off, s, Len(d))
<1>0. SUFFICES ASSUME GoodRest(P, p), p # NoPend PROVE AllIds(cs) = Ids(Drop(d, p.off))
  OBVIOUS
<1>1. Pieces(P, d, s) /\ p.off < Len(d) /\ \E k \in Nat : p.off = Start(k, s)
  BY <1>0 DEF GoodRest
<1>2. PICK k \in Nat : p.off = Start(k, s)
  BY <1>1
<1>3. s \in Nat \ {0} /\ Len(d) \in Nat \ {0} /\ d \in Seq(P)
  <2>1. d \in Seq(P) /\ d # <<>> /\ s \in Nat \ {0}
    BY <1>1 DEF Pieces
  <2> QED
    BY <2>1
<1> HIDE DEF d, s
<1>4. PieceRow(P, d, s, k, cs) /\ Len(d) <= Start(k + Len(cs), s)
  BY <1>1, <1>2, <1>3, SegmentsIs
<1> HIDE DEF cs
<1>5. Both(Ids(Drop(d, Start(k, s))), AllIds(cs), Ids(Drop(d, Start(k + Len(cs), s))))
  BY <1>1, <1>3, <1>4, RowIds
<1>6. Len(cs) \in Nat
  BY <1>4 DEF PieceRow
<1>7. Ids(Drop(d, Start(k + Len(cs), s))) = {}
  <2>1. k + Len(cs) \in Nat
    BY <1>6
  <2> DEFINE n == k + Len(cs)
  <2> HIDE DEF n
  <2>2. Start(n, s) \in Nat
    BY <1>3, <2>1, StartIs DEF n
  <2>3. Drop(d, Start(n, s)) \in Seq(P) /\ Len(Drop(d, Start(n, s))) = IF Start(n, s) <= Len(d) THEN Len(d) - Start(n, s) ELSE 0
    BY <1>3, <2>2, DropIs
  <2>4. Len(d) <= Start(n, s)
    BY <1>4 DEF n
  <2>5. Len(Drop(d, Start(n, s))) = 0
    BY <1>3, <2>2, <2>3, <2>4
  <2>6. Drop(d, Start(n, s)) = <<>>
    BY <2>3, <2>5
  <2> QED
    BY <2>6, IdsOfNone DEF n
<1> QED
  BY <1>2, <1>5, <1>7 DEF Both

(* A step that neither reads nor processes a packet.                       *)
LEMMA RecvStays ==
    ASSUME RecvInv, UNCHANGED <<mode, seq, rq, recv, bufs, i, settled, glued>>,
           has_client' \in BOOLEAN, pc' = pc \/ (pc # "recv" /\ pc' \in {"walk", "send"}), iov' = iov \/ iov' = <<>>
    PROVE  RecvInv'
<1>1. /\ mode' = mode /\ seq' = seq /\ rq' = rq /\ bufs' = bufs /\ i' = i /\ settled' = settled
      /\ glued' = glued /\ udp_gro' = udp_gro /\ gro' = gro /\ pend' = pend
      /\ no_coalesce' = no_coalesce /\ rearm_in' = rearm_in /\ rearm_gap' = rearm_gap
  BY DEF recv
<1>2. pc' = "recv" <=> pc = "recv"
  OBVIOUS
<1>3. Numbers'
  <2>1. pc' \in {"recv", "walk", "send"}
    BY DEF RecvInv, Numbers
  <2> QED
    BY <1>1, <2>1 DEF RecvInv, Numbers
<1>4. QueueOK' /\ PendOK'
  BY <1>1 DEF RecvInv, QueueOK, PendOK
<1>5. GroOK'
  BY <1>1 DEF RecvInv, GroOK, C2s, HasGro
<1>6. TurnOK'
  BY <1>1, <1>2 DEF RecvInv, TurnOK, AllSound, Sound
<1>7. RoomOK'
  <2>1. i \in Nat \ {0}
    BY DEF RecvInv, TurnOK
  <2>2. iov' = <<>> => Len(iov') = 0 /\ iov' \in Seq([at : Nat, len : Nat, to : Dests])
    OBVIOUS
  <2> QED
    BY <1>1, <2>1, <2>2, BatchAssumption DEF RecvInv, RoomOK
<1>8. InStep'
  <2>1. InStep
    BY DEF RecvInv
  <2>2. Drop(bufs', i' - 1) = Drop(bufs, i - 1)
    BY <1>1
  <2>3. Segments(pend'.bytes, pend'.off, pend'.seg, Len(pend'.bytes)) = Segments(pend.bytes, pend.off, pend.seg, Len(pend.bytes))
    BY <1>1
  <2>4. C2s' = C2s /\ Len(bufs') = Len(bufs) /\ (pend' = NoPend <=> pend = NoPend) /\ (i' > Len(bufs') <=> i > Len(bufs))
    BY <1>1 DEF C2s
  <2>5. CASE C2s \/ pend = NoPend
    <3>1. Len(bufs) <= Batch \/ i > Len(bufs)
      BY <2>1, <2>5 DEF InStep
    <3>2. Len(bufs') <= Batch \/ i' > Len(bufs')
      BY <1>1, <3>1
    <3> QED
      BY <2>4, <2>5, <3>2 DEF InStep
  <2>6. CASE ~(C2s \/ pend = NoPend)
    <3>1. pc # "recv" => Drop(bufs, i - 1) = Segments(pend.bytes, pend.off, pend.seg, Len(pend.bytes))
      BY <2>1, <2>6 DEF InStep
    <3>2. pc' # "recv" => Drop(bufs', i' - 1) = Segments(pend'.bytes, pend'.off, pend'.seg, Len(pend'.bytes))
      BY <1>2, <2>2, <2>3, <3>1
    <3> QED
      BY <2>4, <2>6, <3>2 DEF InStep
  <2> QED
    BY <2>5, <2>6
<1>9. PendIds' = PendIds /\ QueueIds' = QueueIds /\ TurnIds' = TurnIds /\ AllIds(bufs') = AllIds(bufs)
  BY <1>1, QueueIdsAre DEF PendIds, TurnIds
<1>10. Ordered'
  BY <1>1, <1>9 DEF RecvInv, Ordered, C2s
<1>11. NonePassedOver'
  BY <1>1, <1>9 DEF RecvInv, NonePassedOver, Held
<1> QED
  BY <1>3, <1>4, <1>5, <1>6, <1>7, <1>8, <1>10, <1>11 DEF RecvInv

(* The end of a turn that has seen all its packets; or whose rest is still *)
(* in the coalesced read.                                                  *)
LEMMA TurnOver ==
    ASSUME RecvInv, UNCHANGED <<mode, seq, rq, recv, has_client, settled, glued>>, Recv, AtEnd,
           iov' = <<>>
    PROVE  RecvInv'
<1>1. /\ mode' = mode /\ seq' = seq /\ rq' = rq /\ settled' = settled /\ has_client' = has_client
      /\ glued' = glued /\ udp_gro' = udp_gro /\ gro' = gro /\ pend' = pend
      /\ no_coalesce' = no_coalesce /\ rearm_in' = rearm_in /\ rearm_gap' = rearm_gap
  BY DEF recv
<1>2. pc' = "recv" /\ bufs' = <<>> /\ i' = 1
  BY DEF Recv
<1>3. Numbers'
  BY <1>1, <1>2 DEF RecvInv, Numbers
<1>4. QueueOK' /\ PendOK'
  BY <1>1 DEF RecvInv, QueueOK, PendOK
<1>5. GroOK'
  BY <1>1 DEF RecvInv, GroOK, C2s, HasGro
<1>6. TurnOK'
  BY <1>2, NothingYet DEF TurnOK, AllSound
<1>7. RoomOK'
  BY <1>2, BatchAssumption DEF RoomOK
<1>8. InStep'
  BY <1>2 DEF InStep
<1>9. QueueIds' = QueueIds /\ PendIds' = PendIds /\ TurnIds' = {} /\ AllIds(bufs') = {}
  BY <1>1, <1>2, QueueIdsAre, NothingYet, IdsOfNone DEF PendIds, TurnIds
<1>10. TurnIds \subseteq PendIds
  <2>1. bufs \in Seq(Seq(Met(mode))) /\ Len(bufs) \in Nat /\ i \in 1..Len(bufs) + 1 /\ i - 1 \in Nat
    BY DEF RecvInv, TurnOK, GoodRow
  <2>2. CASE i > Len(bufs)
    <3>1. i - 1 >= Len(bufs)
      BY <2>1, <2>2
    <3> QED
      BY <2>1, <3>1, AllIdsDrop DEF TurnIds
  <2>3. CASE i <= Len(bufs)
    <3>1. ~C2s /\ Len(iov) = Batch /\ Len(iov) < i
      BY <2>1, <2>3 DEF AtEnd, RecvInv, RoomOK
    <3>2. pend # NoPend
      <4>1. SUFFICES ASSUME pend = NoPend PROVE FALSE
        OBVIOUS
      <4>2. Len(bufs) <= Batch \/ i > Len(bufs)
        BY <4>1 DEF RecvInv, InStep
      <4> QED
        BY <2>1, <2>3, <3>1, <4>2, BatchAssumption
    <3>3. pc # "recv"
      <4>1. pc = "recv" => Len(bufs) = 0
        BY DEF RecvInv, TurnOK
      <4> QED
        BY <2>1, <2>3, <4>1
    <3>4. Drop(bufs, i - 1) = Segments(pend.bytes, pend.off, pend.seg, Len(pend.bytes))
      BY <3>1, <3>2, <3>3 DEF RecvInv, InStep
    <3>5. gro
      BY <3>1, <3>2 DEF RecvInv, GroOK
    <3>6. AllIds(Drop(bufs, i - 1)) \subseteq Ids(Drop(pend.bytes, pend.off))
      BY <3>2, <3>4, ReadIds DEF RecvInv, PendOK
    <3> QED
      BY <3>5, <3>6 DEF TurnIds, PendIds
  <2> QED
    BY <2>1, <2>2, <2>3
<1>11. Ordered'
  BY <1>1, <1>9 DEF RecvInv, Ordered, C2s, Below
<1>12. NonePassedOver'
  BY <1>1, <1>9, <1>10 DEF RecvInv, NonePassedOver, Held
<1> QED
  BY <1>3, <1>4, <1>5, <1>6, <1>7, <1>8, <1>11, <1>12 DEF RecvInv

-----------------------------------------------------------------------------
(* Processing one packet.                                                  *)

(* Nothing is twice among what comes before and what comes after.          *)
LEMMA Apart ==
    ASSUME NEW A, NEW B, A \subseteq Nat, Below(A, B)
    PROVE  A \cap B = {}
<1>1. ASSUME NEW x \in A, x \in B PROVE FALSE
  <2>1. x \in Nat /\ x < x
    BY <1>1 DEF Below
  <2> QED
    BY <2>1
<1> QED
  BY <1>1

LEMMA DropDrop ==
    ASSUME NEW S, NEW v \in Seq(S), NEW n \in Nat
    PROVE  n < Len(v) => Drop(Drop(v, n), 1) = Drop(v, n + 1)
<1>0. SUFFICES ASSUME n < Len(v) PROVE Drop(Drop(v, n), 1) = Drop(v, n + 1)
  OBVIOUS
<1>1. Len(v) \in Nat
  OBVIOUS
<1> DEFINE u == Drop(v, n)
           w == Drop(v, n + 1)
<1>2. /\ u \in Seq(S) /\ Len(u) = IF n <= Len(v) THEN Len(v) - n ELSE 0
      /\ \A x \in 1..Len(v) - n : u[x] = v[n + x]
  BY DropIs
<1>3. /\ w \in Seq(S) /\ Len(w) = IF n + 1 <= Len(v) THEN Len(v) - (n + 1) ELSE 0
      /\ \A x \in 1..Len(v) - (n + 1) : w[x] = v[n + 1 + x]
  <2>1. n + 1 \in Nat
    OBVIOUS
  <2> QED
    BY <2>1, DropIs
<1> HIDE DEF u, w
<1>4. /\ Drop(u, 1) \in Seq(S) /\ Len(Drop(u, 1)) = IF 1 <= Len(u) THEN Len(u) - 1 ELSE 0
      /\ \A x \in 1..Len(u) - 1 : Drop(u, 1)[x] = u[1 + x]
  <2>1. u \in Seq(S) /\ 1 \in Nat
    BY <1>2
  <2> QED
    BY <2>1, DropIs
<1>5. Len(u) = Len(v) - n /\ Len(w) = Len(v) - (n + 1) /\ Len(Drop(u, 1)) = Len(w) /\ Len(w) = Len(u) - 1
  BY <1>0, <1>1, <1>2, <1>3, <1>4
<1>6. ASSUME NEW x \in 1..Len(w) PROVE Drop(u, 1)[x] = w[x]
  <2>1. x \in 1..Len(u) - 1 /\ 1 + x \in 1..Len(v) - n /\ x \in 1..Len(v) - (n + 1) /\ n + (1 + x) = n + 1 + x
    BY <1>1, <1>5
  <2>2. Drop(u, 1)[x] = u[1 + x] /\ u[1 + x] = v[n + (1 + x)] /\ w[x] = v[n + 1 + x]
    BY <1>2, <1>3, <1>4, <2>1
  <2> QED
    BY <2>1, <2>2
<1>7. Drop(u, 1) = w
  BY <1>3, <1>4, <1>5, <1>6, SeqEqual
<1> QED
  BY <1>7 DEF u, w

(* What is left of a read when its next piece is taken.                    *)
LEMMA NextPiece ==
    ASSUME NEW P, NEW p
    PROVE  GoodRest(P, p) /\ p # NoPend =>
             /\ GoodRest(P, Remainder(p.bytes, p.off + p.seg, p.seg))
             /\ IF Remainder(p.bytes, p.off + p.seg, p.seg) = NoPend
                THEN Len(Segments(p.bytes, p.off, p.seg, Len(p.bytes))) = 1
                ELSE /\ Remainder(p.bytes, p.off + p.seg, p.seg)
                          = [bytes |-> p.bytes, off |-> p.off + p.seg, seg |-> p.seg]
                     /\ Drop(Segments(p.bytes, p.off, p.seg, Len(p.bytes)), 1)
                          = Segments(p.bytes, p.off + p.seg, p.seg, Len(p.bytes))
<1> DEFINE d == p.bytes
           s == p.seg
           r == Remainder(d, p.off + s, s)
<1>0. SUFFICES ASSUME GoodRest(P, p), p # NoPend
               PROVE  /\ GoodRest(P, r)
                      /\ IF r = NoPend THEN Len(Segments(d, p.off, s, Len(d))) = 1
                         ELSE /\ r = [bytes |-> d, off |-> p.off + s, seg |-> s]
                              /\ Drop(Segments(d, p.off, s, Len(d)), 1) = Segments(d, p.off + s, s, Len(d))
  OBVIOUS
<1>1. Pieces(P, d, s) /\ p.off < Len(d) /\ \E k \in Nat : p.off = Start(k, s)
  BY <1>0 DEF GoodRest
<1>2. PICK k \in Nat : p.off = Start(k, s)
  BY <1>1
<1>3. s \in Nat \ {0} /\ d \in Seq(P) /\ d # <<>>
  BY <1>1 DEF Pieces
<1> HIDE DEF d, s
<1>4. Start(k + 1, s) = p.off + s /\ p.off \in Nat /\ k + 1 \in Nat
  <2>1. Start(k, s) \in Nat
    BY <1>3, StartIs
  <2>2. Start(k + 1, s) = Start(k, s) + s
    BY <1>3, StartNext
  <2> QED
    BY <1>2, <2>1, <2>2
<1>5. IF Start(k + 1, s) < Len(d)
      THEN Drop(Segments(d, Start(k, s), s, Len(d)), 1) = Segments(d, Start(k + 1, s), s, Len(d))
      ELSE Len(Segments(d, Start(k, s), s, Len(d))) = 1
  BY <1>1, <1>2, <1>3, SegmentsNext
<1>6. CASE p.off + s < Len(d)
  <2>1. r = [bytes |-> d, off |-> p.off + s, seg |-> s]
    BY <1>6 DEF Remainder
  <2>2. r # NoPend
    <3>1. r.bytes = d /\ NoPend.bytes = <<>>
      BY <2>1 DEF NoPend
    <3> QED
      BY <1>3, <3>1
  <2>3. GoodRest(P, r)
    <3>1. r.bytes = d /\ r.off = p.off + s /\ r.seg = s /\ p.off + s \in Nat
      BY <1>3, <1>4, <2>1
    <3>2. r \in [bytes : Seq(P), off : Nat, seg : Nat]
      BY <1>3, <2>1, <3>1
    <3>3. \E m \in Nat : r.off = Start(m, s)
      BY <1>4, <3>1
    <3> QED
      BY <1>1, <1>6, <3>1, <3>2, <3>3 DEF GoodRest
  <2>4. Drop(Segments(d, p.off, s, Len(d)), 1) = Segments(d, p.off + s, s, Len(d))
    BY <1>2, <1>4, <1>5, <1>6
  <2> QED
    BY <2>1, <2>2, <2>3, <2>4
<1>7. CASE ~(p.off + s < Len(d))
  <2>1. r = NoPend
    BY <1>7 DEF Remainder
  <2>2. Len(Segments(d, p.off, s, Len(d))) = 1
    BY <1>2, <1>4, <1>5, <1>7
  <2> QED
    BY <2>1, <2>2, NothingYet
<1> QED
  BY <1>6, <1>7

StepOf == /\ pc = "walk" /\ i <= Len(bufs) /\ Advance
          /\ UNCHANGED <<mode, rq, gro, bufs>>

(* The packet leaves the turn, and the coalesced read with it.             *)
LEMMA StepHeld ==
    ASSUME RecvInv, StepOf
    PROVE  /\ PendOK' /\ InStep' /\ (pend = NoPend => pend' = NoPend) /\ (C2s => pend' = pend)
           /\ Both(Held, Ids(bufs[i]), Held') /\ Below(Ids(bufs[i]), Held')
           /\ PendIds' \subseteq PendIds
<1>1. /\ mode' = mode /\ rq' = rq /\ gro' = gro /\ bufs' = bufs /\ i' = i + 1 /\ pc = "walk"
      /\ i <= Len(bufs)
  BY DEF StepOf, Advance
<1>2. GoodRow(Met(mode), bufs) /\ i \in Nat \ {0} /\ Len(bufs) \in Nat /\ bufs \in Seq(Seq(Met(mode)))
  BY DEF RecvInv, TurnOK, GoodRow
<1>3. i' - 1 = i /\ i - 1 \in Nat /\ i - 1 < Len(bufs) /\ (i - 1) + 1 = i
  BY <1>1, <1>2
<1>4. TurnIds = AllIds(Drop(bufs, i - 1)) /\ TurnIds' = AllIds(Drop(bufs, i))
  BY <1>1, <1>3 DEF TurnIds
<1>5. Both(TurnIds, Ids(bufs[i]), TurnIds') /\ Below(Ids(bufs[i]), TurnIds')
  BY <1>1, <1>2, <1>4, RowNext
<1>6. QueueIds' = QueueIds
  BY <1>1, QueueIdsAre
<1>7. TurnIds \subseteq AllIds(bufs) /\ Below(AllIds(bufs), QueueIds)
  <2>1. TurnIds \subseteq AllIds(bufs)
    BY <1>2, <1>3, <1>4, RowRest
  <2> QED
    BY <2>1 DEF RecvInv, Ordered
<1>8. Below(Ids(bufs[i]), QueueIds')
  BY <1>5, <1>6, <1>7 DEF Both, Below
<1>9. CASE C2s \/ pend = NoPend
  <2>1. pend' = pend
    BY <1>9 DEF StepOf, Advance
  <2>2. PendOK' /\ PendIds' = PendIds
    BY <1>1, <2>1 DEF RecvInv, PendOK, PendIds
  <2>3. InStep'
    <3>1. Len(bufs) <= Batch \/ i > Len(bufs)
      BY <1>9 DEF RecvInv, InStep
    <3>2. Len(bufs') <= Batch \/ i' > Len(bufs')
      BY <1>1, <1>2, <3>1
    <3>3. C2s' = C2s /\ (pend' = NoPend <=> pend = NoPend)
      BY <1>1, <2>1 DEF C2s
    <3> QED
      BY <1>9, <3>2, <3>3 DEF InStep
  <2>4. Below(Ids(bufs[i]), PendIds')
    <3>1. CASE C2s
      BY <1>5, <1>7, <2>2, <3>1 DEF RecvInv, Ordered, Both, Below
    <3>2. CASE pend = NoPend
      <4>1. PendIds = {}
        BY <3>2, NothingYet DEF PendIds, NoPend
      <4> QED
        BY <2>2, <4>1 DEF Below
    <3> QED
      BY <1>9, <3>1, <3>2
  <2>5. Both(Held, Ids(bufs[i]), Held')
    BY <1>5, <1>6, <2>2 DEF Both, Held
  <2>6. Below(Ids(bufs[i]), Held')
    BY <1>5, <1>8, <2>4 DEF Below, Held
  <2> QED
    BY <2>1, <2>2, <2>3, <2>5, <2>6
<1>10. CASE ~(C2s \/ pend = NoPend)
  <2>1. pend' = Remainder(pend.bytes, pend.off + pend.seg, pend.seg)
    BY <1>10 DEF StepOf, Advance
  <2>2. Drop(bufs, i - 1) = Segments(pend.bytes, pend.off, pend.seg, Len(pend.bytes))
    <3>1. pc # "recv"
      BY <1>1
    <3> QED
      BY <1>10, <3>1 DEF RecvInv, InStep
  <2>3. GoodRest(Met(mode), pend) /\ pend # NoPend
    BY <1>10 DEF RecvInv, PendOK
  <2>4. Drop(Drop(bufs, i - 1), 1) = Drop(bufs, i)
    BY <1>2, <1>3, DropDrop
  <2>5. Len(Drop(bufs, i - 1)) = Len(bufs) - (i - 1)
    <3>1. Len(Drop(bufs, i - 1)) = IF i - 1 <= Len(bufs) THEN Len(bufs) - (i - 1) ELSE 0
      <4> DEFINE n == i - 1
      <4>1. n \in Nat /\ bufs \in Seq(Seq(Met(mode)))
        BY <1>2, <1>3
      <4> HIDE DEF n
      <4>2. Len(Drop(bufs, n)) = IF n <= Len(bufs) THEN Len(bufs) - n ELSE 0
        BY <4>1, DropIs
      <4> QED
        BY <4>2 DEF n
    <3>2. i - 1 <= Len(bufs)
      BY <1>2, <1>3
    <3> QED
      BY <3>1, <3>2
  <2>6. gro
    BY <1>10 DEF RecvInv, GroOK
  <2>7. /\ GoodRest(Met(mode), pend')
        /\ IF pend' = NoPend THEN Len(Drop(bufs, i - 1)) = 1
           ELSE /\ pend' = [bytes |-> pend.bytes, off |-> pend.off + pend.seg, seg |-> pend.seg]
                /\ Drop(bufs, i) = Segments(pend.bytes, pend.off + pend.seg, pend.seg, Len(pend.bytes))
    BY <2>1, <2>2, <2>3, <2>4, NextPiece
  <2>8. PendOK'
    BY <1>1, <2>7 DEF PendOK
  <2>9. TurnIds = PendIds
    BY <1>4, <2>2, <2>3, <2>6, ReadIds DEF PendIds
  <2>10. CASE pend' = NoPend
    <3>1. i = Len(bufs)
      <4>1. Len(Drop(bufs, i - 1)) = 1
        BY <2>7, <2>10
      <4>2. Len(bufs) - (i - 1) = 1
        BY <2>5, <4>1
      <4> QED
        BY <1>2, <4>2
    <3>2. InStep'
      <4>1. i' > Len(bufs')
        BY <1>1, <1>2, <3>1
      <4> QED
        BY <2>10, <4>1 DEF InStep
    <3>3. PendIds' = {}
      BY <2>10, NothingYet DEF PendIds, NoPend
    <3>4. Both(Held, Ids(bufs[i]), Held') /\ Below(Ids(bufs[i]), Held')
      BY <1>5, <1>6, <1>8, <2>9, <3>3 DEF Both, Below, Held
    <3> QED
      BY <1>10, <2>8, <2>10, <3>2, <3>3, <3>4
  <2>11. CASE pend' # NoPend
    <3>1. pend'.bytes = pend.bytes /\ pend'.off = pend.off + pend.seg /\ pend'.seg = pend.seg
      BY <2>7, <2>11
    <3>2. Drop(bufs', i' - 1) = Segments(pend'.bytes, pend'.off, pend'.seg, Len(pend'.bytes))
      <4>1. Drop(bufs', i' - 1) = Drop(bufs, i)
        BY <1>1, <1>3
      <4>2. Drop(bufs, i) = Segments(pend.bytes, pend.off + pend.seg, pend.seg, Len(pend.bytes))
        BY <2>7, <2>11
      <4> QED
        BY <3>1, <4>1, <4>2
    <3>3. InStep'
      <4>1. ~C2s'
        BY <1>1, <1>10 DEF C2s
      <4> QED
        BY <2>11, <3>2, <4>1 DEF InStep
    <3>4. TurnIds' = PendIds'
      <4>1. AllIds(Segments(pend'.bytes, pend'.off, pend'.seg, Len(pend'.bytes))) = Ids(Drop(pend'.bytes, pend'.off))
        BY <2>7, <2>11, ReadIds
      <4> QED
        BY <1>1, <2>6, <3>2, <4>1 DEF PendIds, TurnIds
    <3>5. Both(Held, Ids(bufs[i]), Held') /\ Below(Ids(bufs[i]), Held') /\ PendIds' \subseteq PendIds
      BY <1>5, <1>6, <1>8, <2>9, <3>4 DEF Both, Below, Held
    <3> QED
      BY <1>10, <2>8, <3>3, <3>5
  <2> QED
    BY <2>10, <2>11
<1> QED
  BY <1>9, <1>10

LEMMA PacketTaken ==
    ASSUME RecvInv, StepOf, ~AtEnd, Settle(Ids(bufs[i])),
           UNCHANGED <<seq, has_client, udp_gro, no_coalesce, rearm_in, rearm_gap, pc, glued>>,
           iov' = iov \/ \E e \in [at : Nat, len : Nat, to : Dests] : iov' = Append(iov, e)
    PROVE  RecvInv'
<1>1. /\ mode' = mode /\ rq' = rq /\ gro' = gro /\ bufs' = bufs /\ i' = i + 1 /\ i <= Len(bufs)
      /\ seq' = seq /\ has_client' = has_client /\ udp_gro' = udp_gro /\ no_coalesce' = no_coalesce
      /\ rearm_in' = rearm_in /\ rearm_gap' = rearm_gap /\ pc' = pc /\ glued' = glued /\ pc = "walk"
  BY DEF StepOf, Advance
<1>2. i \in Nat \ {0} /\ Len(bufs) \in Nat /\ GoodRow(Met(mode), bufs)
  BY DEF RecvInv, TurnOK, GoodRow
<1>3. /\ PendOK' /\ InStep' /\ (pend = NoPend => pend' = NoPend) /\ (C2s => pend' = pend)
      /\ Both(Held, Ids(bufs[i]), Held') /\ Below(Ids(bufs[i]), Held')
      /\ PendIds' \subseteq PendIds
  BY StepHeld
<1>4. Numbers'
  BY <1>1 DEF RecvInv, Numbers
<1>5. QueueOK'
  BY <1>1 DEF RecvInv, QueueOK
<1>6. GroOK'
  <2>1. gro' \in BOOLEAN /\ udp_gro' = gro'
    BY <1>1 DEF RecvInv, GroOK
  <2>2. (gro' /\ C2s' => rearm_in' = 0) /\ (~HasGro' => ~gro' /\ rearm_in' = 0)
    BY <1>1 DEF RecvInv, GroOK, C2s, HasGro
  <2>3. ~gro' => Marked(rq')
    BY <1>1 DEF RecvInv, GroOK
  <2>4. ~gro' /\ pend' # NoPend => C2s' /\ rearm_in' = 0
    BY <1>1, <1>3 DEF RecvInv, GroOK, C2s, HasGro
  <2> QED
    BY <2>1, <2>2, <2>3, <2>4 DEF GroOK
<1>7. TurnOK'
  <2>1. i' \in 1..Len(bufs') + 1
    BY <1>1, <1>2
  <2>2. GoodRow(Met(mode'), bufs') /\ pc' # "recv"
    BY <1>1, <1>2
  <2>3. AllSound'
    BY <1>1 DEF RecvInv, TurnOK, AllSound, Sound
  <2> QED
    BY <2>1, <2>2, <2>3 DEF TurnOK
<1>8. RoomOK'
  <2>1. iov \in Seq([at : Nat, len : Nat, to : Dests]) /\ Len(iov) <= Batch /\ Len(iov) < i /\ Len(iov) \in Nat
    BY DEF RecvInv, RoomOK
  <2>2. Len(iov) + 1 <= Batch
    <3>1. CASE C2s
      <4>1. Len(bufs) <= Batch \/ i > Len(bufs)
        BY <3>1 DEF RecvInv, InStep
      <4> QED
        BY <1>1, <1>2, <2>1, <4>1, BatchAssumption
    <3>2. CASE ~C2s
      <4>1. Len(iov) # Batch
        BY <3>2 DEF AtEnd
      <4> QED
        BY <2>1, <4>1, BatchAssumption
    <3> QED
      BY <3>1, <3>2
  <2>3. CASE iov' = iov
    BY <1>1, <1>2, <2>1, <2>3 DEF RoomOK
  <2>4. CASE iov' # iov
    <3>1. PICK e \in [at : Nat, len : Nat, to : Dests] : iov' = Append(iov, e)
      BY <2>4
    <3> DEFINE S == [at : Nat, len : Nat, to : Dests]
    <3>2. iov' \in Seq(S) /\ Len(iov') = Len(iov) + 1
      <4>1. iov \in Seq(S) /\ e \in S
        BY <2>1
      <4> HIDE DEF S
      <4> QED
        BY <3>1, <4>1, AppendProperties
    <3>3. Len(iov') <= Batch /\ Len(iov') < i'
      BY <1>1, <1>2, <2>1, <2>2, <3>2
    <3> QED
      BY <3>2, <3>3 DEF RoomOK
  <2> QED
    BY <2>3, <2>4
<1>9. Ordered'
  <2>1. QueueIds' = QueueIds /\ AllIds(bufs') = AllIds(bufs)
    BY <1>1, QueueIdsAre
  <2>2. Below(PendIds', QueueIds') /\ Below(AllIds(bufs'), QueueIds')
    BY <1>3, <2>1 DEF RecvInv, Ordered, Below
  <2>3. C2s' => Below(AllIds(bufs'), PendIds')
    BY <1>1, <1>3, <2>1 DEF RecvInv, Ordered, Below, C2s
  <2> QED
    BY <2>2, <2>3 DEF Ordered
<1>10. NonePassedOver'
  <2>1. settled \cup Held = 1..seq /\ settled \cap Held = {} /\ settled' = settled \cup Ids(bufs[i])
    BY DEF RecvInv, NonePassedOver, Settle
  <2>2. Ids(bufs[i]) \cap Held' = {}
    <3>1. Ids(bufs[i]) \subseteq Nat
      <4>1. Ids(bufs[i]) \subseteq 1..seq /\ seq \in Nat
        BY <1>3, <2>1 DEF Both, RecvInv, Numbers
      <4> QED
        BY <4>1
    <3> QED
      BY <1>3, <3>1, Apart
  <2>3. settled' \cup Held' = 1..seq
    BY <1>3, <2>1 DEF Both
  <2>4. settled' \cap Held' = {}
    BY <1>3, <2>1, <2>2 DEF Both
  <2> QED
    BY <1>1, <2>3, <2>4 DEF NonePassedOver
<1> QED
  BY <1>3, <1>4, <1>5, <1>6, <1>7, <1>8, <1>9, <1>10 DEF RecvInv

(* A turn that finds no socket, or nobody to send to, is thrown away       *)
(* whole; c2s still has the rest of its read, and s2c what it was to       *)
(* drain.                                                                  *)
LEMMA TurnDropped ==
    ASSUME RecvInv, NoSocket
    PROVE  RecvInv'
<1>1. /\ mode' = mode /\ seq' = seq /\ rq' = rq /\ has_client' = has_client /\ udp_gro' = udp_gro
      /\ gro' = gro /\ no_coalesce' = no_coalesce /\ rearm_in' = rearm_in /\ rearm_gap' = rearm_gap
      /\ glued' = glued /\ pc = "walk" /\ i = 1 /\ pc' = "recv" /\ bufs' = <<>> /\ i' = 1 /\ iov' = iov
  BY DEF NoSocket, Walk, world, Recv
<1>0. IF ~C2s /\ pend.off > 0 THEN pend' = pend /\ settled' = settled
      ELSE settled' = settled \cup AllIds(bufs) /\ pend' = IF C2s THEN pend ELSE NoPend
  BY DEF NoSocket, Settle
<1>2. C2s' = C2s /\ HasGro' = HasGro
  BY <1>1 DEF C2s, HasGro
<1>3. bufs \in Seq(Seq(Met(mode))) /\ TurnIds = AllIds(bufs)
  <2>1. bufs \in Seq(Seq(Met(mode))) /\ i - 1 = 0
    BY <1>1 DEF RecvInv, TurnOK, GoodRow
  <2> QED
    BY <2>1, AllIdsDrop DEF TurnIds
<1>4. Numbers'
  BY <1>1 DEF RecvInv, Numbers
<1>5. QueueOK' /\ PendOK'
  BY <1>0, <1>1, NothingYet DEF RecvInv, QueueOK, PendOK
<1>6. GroOK'
  BY <1>0, <1>1, <1>2 DEF RecvInv, GroOK
<1>7. TurnOK'
  BY <1>1, NothingYet DEF TurnOK, AllSound
<1>8. RoomOK'
  BY <1>1 DEF RecvInv, RoomOK
<1>9. InStep'
  BY <1>1 DEF InStep
<1>10. QueueIds' = QueueIds /\ TurnIds' = {} /\ AllIds(bufs') = {}
  BY <1>1, QueueIdsAre, NothingYet, IdsOfNone DEF TurnIds
<1>11. CASE C2s
  <2>0. pend' = pend /\ settled' = settled \cup AllIds(bufs)
    BY <1>0, <1>11
  <2>1. PendIds' = PendIds
    BY <1>1, <2>0 DEF PendIds
  <2>2. Ordered'
    BY <1>2, <1>10, <2>1 DEF RecvInv, Ordered, Below
  <2>3. Below(AllIds(bufs), QueueIds \cup PendIds)
    BY <1>11 DEF RecvInv, Ordered, Below
  <2>4. NonePassedOver'
    <3>1. settled \cup Held = 1..seq /\ settled \cap Held = {} /\ seq \in Nat
      BY DEF RecvInv, NonePassedOver, Numbers
    <3>2. AllIds(bufs) \subseteq Nat
      <4>1. AllIds(bufs) \subseteq 1..seq
        BY <1>3, <3>1 DEF Held
      <4> QED
        BY <3>1, <4>1
    <3>3. AllIds(bufs) \cap (QueueIds \cup PendIds) = {}
      BY <2>3, <3>2, Apart
    <3>4. Held' = QueueIds \cup PendIds /\ Held = QueueIds \cup PendIds \cup AllIds(bufs)
      BY <1>3, <1>10, <2>1 DEF Held
    <3> QED
      BY <1>1, <2>0, <3>1, <3>3, <3>4 DEF NonePassedOver
  <2> QED
    BY <1>4, <1>5, <1>6, <1>7, <1>8, <1>9, <2>2, <2>4 DEF RecvInv
<1>12. CASE ~C2s /\ ~(pend.off > 0)
  <2>0. pend' = NoPend /\ settled' = settled \cup AllIds(bufs)
    BY <1>0, <1>12
  <2>1. PendIds' = {}
    BY <2>0, NothingYet DEF PendIds, NoPend
  <2>2. Ordered'
    BY <1>2, <1>10, <1>12, <2>1 DEF Ordered, Below
  <2>3. PendIds \subseteq AllIds(bufs)
    <3>1. CASE pend = NoPend
      BY <3>1, NothingYet DEF PendIds, NoPend
    <3>2. CASE pend # NoPend
      <4>1. Drop(bufs, i - 1) = Segments(pend.bytes, pend.off, pend.seg, Len(pend.bytes))
        BY <1>1, <1>12, <3>2 DEF RecvInv, InStep
      <4>2. AllIds(Drop(bufs, i - 1)) = Ids(Drop(pend.bytes, pend.off))
        BY <3>2, <4>1, ReadIds DEF RecvInv, PendOK
      <4>3. TurnIds = AllIds(Drop(bufs, i - 1))
        BY DEF TurnIds
      <4> QED
        BY <1>3, <4>2, <4>3 DEF PendIds
    <3> QED
      BY <3>1, <3>2
  <2>4. NonePassedOver'
    <3>1. settled \cup Held = 1..seq /\ settled \cap Held = {} /\ seq \in Nat
      BY DEF RecvInv, NonePassedOver, Numbers
    <3>2. AllIds(bufs) \subseteq Nat
      <4>1. AllIds(bufs) \subseteq 1..seq
        BY <1>3, <3>1 DEF Held
      <4> QED
        BY <3>1, <4>1
    <3>3. AllIds(bufs) \cap QueueIds = {}
      BY <3>2, Apart DEF RecvInv, Ordered
    <3>4. Held' = QueueIds /\ Held = QueueIds \cup AllIds(bufs)
      BY <1>3, <1>10, <2>1, <2>3 DEF Held
    <3> QED
      BY <1>1, <2>0, <3>1, <3>3, <3>4 DEF NonePassedOver
  <2> QED
    BY <1>4, <1>5, <1>6, <1>7, <1>8, <1>9, <2>2, <2>4 DEF RecvInv
<1>13. CASE ~C2s /\ pend.off > 0
  <2>0. pend' = pend /\ settled' = settled
    BY <1>0, <1>13
  <2>1. PendIds' = PendIds
    BY <1>1, <2>0 DEF PendIds
  <2>2. Ordered'
    BY <1>2, <1>10, <1>13, <2>1 DEF RecvInv, Ordered, Below
  <2>3. AllIds(bufs) = PendIds
    <3>1. pend # NoPend
      BY <1>13 DEF NoPend
    <3>2. gro
      BY <1>13, <3>1 DEF RecvInv, GroOK
    <3>3. Drop(bufs, i - 1) = Segments(pend.bytes, pend.off, pend.seg, Len(pend.bytes))
      BY <1>1, <1>13, <3>1 DEF RecvInv, InStep
    <3>4. AllIds(Drop(bufs, i - 1)) = Ids(Drop(pend.bytes, pend.off))
      BY <3>1, <3>3, ReadIds DEF RecvInv, PendOK
    <3> QED
      BY <1>3, <3>2, <3>4 DEF TurnIds, PendIds
  <2>4. NonePassedOver'
    <3>1. Held' = QueueIds \cup PendIds /\ Held = QueueIds \cup PendIds
      BY <1>3, <1>10, <2>1, <2>3 DEF Held
    <3> QED
      BY <1>1, <2>0, <3>1 DEF RecvInv, NonePassedOver
  <2> QED
    BY <1>4, <1>5, <1>6, <1>7, <1>8, <1>9, <2>2, <2>4 DEF RecvInv
<1> QED
  BY <1>11, <1>12, <1>13

-----------------------------------------------------------------------------
(* A packet arrives.                                                       *)

LEMMA Arrives ==
    ASSUME RecvInv, NEW k \in Kinds, NEW n \in Lens \cup {HsLen}, NEW d \in Dests, Arrive(k, n, d)
    PROVE  RecvInv'
<1> DEFINE p == [id |-> seq + 1, kind |-> k, len |-> n, to |-> d]
           b == [bytes |-> Bytes(p), seg |-> 0, stuck |-> FALSE]
           c == [bytes |-> Last(rq).bytes \o Bytes(p), seg |-> SegOf(Last(rq)), stuck |-> FALSE]
           P == Met(mode)
<1>1. /\ pc = "recv" /\ seq < Arrivals /\ seq' = seq + 1 /\ (mode # "s2c_server" => d = OneDest)
      /\ mode' = mode /\ has_client' = has_client /\ udp_gro' = udp_gro /\ gro' = gro /\ pend' = pend
      /\ no_coalesce' = no_coalesce /\ rearm_in' = rearm_in /\ rearm_gap' = rearm_gap /\ pc' = pc
      /\ bufs' = bufs /\ i' = i /\ iov' = iov /\ settled' = settled /\ glued' = glued
  BY DEF Arrive, recv, turn, send, ghost
<1>2. \/ rq' = Append(rq, b)
      \/ udp_gro /\ rq # <<>> /\ Joins(Last(rq), n) /\ rq' = Append(Front(rq), c)
  BY DEF Arrive
<1>3. seq \in Nat /\ seq + 1 \in 1..Arrivals /\ Arrivals \in Nat
  BY <1>1, BatchAssumption DEF RecvInv, Numbers
<1>4. n \in Nat \ {0}
  BY BatchAssumption
<1>5. p \in P /\ p.len = n /\ p.id = seq + 1
  <2>1. p \in Packet
    BY <1>3 DEF Packet
  <2>2. p.len = n /\ p.id = seq + 1 /\ p.to = d /\ p.kind = k
    OBVIOUS
  <2>3. (k = "init" => mode \in {"c2s_normal", "s2c_server"}) /\ (k # "data" => n = HsLen)
    BY DEF Arrive, Direct
  <2> HIDE DEF p
  <2> QED
    BY <1>1, <2>1, <2>2, <2>3 DEF Met
<1> HIDE DEF p
<1>6. Bytes(p) \in Seq(P) /\ Len(Bytes(p)) = n /\ Ids(Bytes(p)) = {seq + 1} /\ Pieces(P, Bytes(p), n)
  <2>1. p.len \in Nat \ {0}
    BY <1>4, <1>5
  <2>2. Bytes(p) \in Seq(P) /\ Len(Bytes(p)) = p.len /\ Ids(Bytes(p)) = {p.id}
    BY <1>5, <2>1, BytesIs
  <2>3. Pieces(P, Bytes(p), n)
    BY <1>4, <1>5, OnePiece
  <2> QED
    BY <1>5, <2>2, <2>3
<1> HIDE DEF P
<1>7. GoodQueue(P, rq) /\ QueueIds = IdsIn(rq) /\ QueueIds' = IdsIn(rq')
  BY QueueIdsAre DEF RecvInv, QueueOK, P
<1>8. settled \cup Held = 1..seq /\ settled \cap Held = {}
  BY DEF RecvInv, NonePassedOver
<1>9. Below(Held, {seq + 1})
  BY <1>3, <1>8 DEF Below
<1>10. Below(IdsIn(rq), {seq + 1})
  BY <1>7, <1>9 DEF Held, Below
<1>11. GoodQueue(P, rq') /\ Both(IdsIn(rq'), IdsIn(rq), {seq + 1}) /\ (~gro => Marked(rq'))
  <2>1. CASE rq' = Append(rq, b)
    <3>1. b \in Buffer(P) /\ b.bytes = Bytes(p) /\ b.seg = 0
      BY <1>6 DEF Buffer
    <3>2. ~Coalesced(b) /\ SegOf(b) = n
      BY <1>6, <3>1 DEF SegOf, Coalesced
    <3> HIDE DEF b
    <3>3. GoodQueue(P, rq') /\ Both(IdsIn(rq'), IdsIn(rq), {seq + 1})
      <4>1. Pieces(P, b.bytes, SegOf(b)) /\ Below(IdsIn(rq), Ids(b.bytes))
        BY <1>6, <1>10, <3>1, <3>2
      <4>2. GoodQueue(P, Append(rq, b)) /\ Both(IdsIn(Append(rq, b)), IdsIn(rq), Ids(b.bytes))
        BY <1>7, <3>1, <4>1, QueueAppend
      <4> QED
        BY <1>6, <2>1, <3>1, <4>2
    <3>4. ~gro => Marked(rq')
      <4>1. rq \in Seq(Buffer(P))
        BY <1>7 DEF GoodQueue
      <4>2. Marked(rq) => Marked(Append(rq, b))
        BY <3>1, <3>2, <4>1, MarkedAppend
      <4> QED
        BY <2>1, <4>2 DEF RecvInv, GroOK
    <3> QED
      BY <3>3, <3>4
  <2>2. CASE udp_gro /\ rq # <<>> /\ Joins(Last(rq), n) /\ rq' = Append(Front(rq), c)
    <3>1. gro
      BY <2>2 DEF RecvInv, GroOK
    <3>2. Below(IdsIn(rq), {p.id})
      BY <1>5, <1>10
    <3>3. GoodQueue(P, Append(Front(rq), c)) /\ Both(IdsIn(Append(Front(rq), c)), IdsIn(rq), {p.id})
      BY <1>4, <1>5, <1>7, <2>2, <3>2, QueueJoin
    <3> QED
      BY <1>5, <2>2, <3>1, <3>3
  <2> QED
    BY <1>2, <2>1, <2>2
<1>12. Numbers'
  BY <1>1, <1>3 DEF RecvInv, Numbers
<1>13. QueueOK' /\ PendOK'
  BY <1>1, <1>11 DEF RecvInv, QueueOK, PendOK, P
<1>14. GroOK'
  BY <1>1, <1>11 DEF RecvInv, GroOK, C2s, HasGro
<1>15. TurnOK'
  BY <1>1 DEF RecvInv, TurnOK, AllSound, Sound
<1>16. RoomOK'
  BY <1>1 DEF RecvInv, RoomOK
<1>17. InStep'
  <2>1. bufs = <<>> /\ i = 1
    BY <1>1 DEF RecvInv, TurnOK
  <2>2. i' > Len(bufs') /\ pc' = "recv"
    BY <1>1, <2>1
  <2> QED
    BY <2>2 DEF InStep
<1>18. PendIds' = PendIds /\ TurnIds' = TurnIds /\ AllIds(bufs') = {}
  <2>1. bufs' = <<>>
    BY <1>1 DEF RecvInv, TurnOK
  <2> QED
    BY <1>1, <2>1, IdsOfNone DEF PendIds, TurnIds
<1>19. Both(Held', Held, {seq + 1}) /\ Both(QueueIds', QueueIds, {seq + 1})
  BY <1>7, <1>11, <1>18 DEF Both, Held
<1>20. Ordered'
  <2>1. Below(PendIds, QueueIds) /\ Below(PendIds, {seq + 1})
    BY <1>9 DEF RecvInv, Ordered, Held, Below
  <2>2. Below(PendIds', QueueIds')
    BY <1>18, <1>19, <2>1 DEF Both, Below
  <2> QED
    BY <1>18, <2>2 DEF Ordered, Below
<1>21. NonePassedOver'
  <2>1. 1..seq + 1 = (1..seq) \cup {seq + 1} /\ seq + 1 \notin 1..seq
    BY <1>3
  <2>2. settled \cup Held' = 1..seq + 1
    BY <1>8, <1>19, <2>1 DEF Both
  <2>3. settled \cap Held' = {}
    BY <1>8, <1>19, <2>1 DEF Both
  <2> QED
    BY <1>1, <2>2, <2>3 DEF NonePassedOver
<1> QED
  BY <1>12, <1>13, <1>14, <1>15, <1>16, <1>17, <1>20, <1>21 DEF RecvInv

-----------------------------------------------------------------------------
(* Reading.                                                                *)

LEMMA DropNone ==
    ASSUME NEW S, NEW v \in Seq(S)
    PROVE  Drop(v, 0) = v
<1>1. Len(v) \in Nat /\ 0 + 1 = 1
  OBVIOUS
<1>2. SubSeq(v, 1, Len(v)) = v
  OBVIOUS
<1> QED
  BY <1>1, <1>2 DEF Drop

(* What Remainder keeps of a read.                                         *)
LEMMA RemainderIs ==
    ASSUME NEW P, NEW d, NEW s \in Nat \ {0}, NEW m \in Nat
    PROVE  Pieces(P, d, s) =>
             /\ GoodRest(P, Remainder(d, Start(m, s), s))
             /\ Ids(Drop(Remainder(d, Start(m, s), s).bytes, Remainder(d, Start(m, s), s).off))
                  = Ids(Drop(d, Start(m, s)))
             /\ Start(m, s) < Len(d) =>
                  Remainder(d, Start(m, s), s) = [bytes |-> d, off |-> Start(m, s), seg |-> s]
<1> DEFINE a == Start(m, s)
           r == Remainder(d, a, s)
<1>0. SUFFICES ASSUME Pieces(P, d, s)
               PROVE  /\ GoodRest(P, r) /\ Ids(Drop(r.bytes, r.off)) = Ids(Drop(d, a))
                      /\ a < Len(d) => r = [bytes |-> d, off |-> a, seg |-> s]
  OBVIOUS
<1>1. d \in Seq(P) /\ Len(d) \in Nat
  BY <1>0 DEF Pieces
<1>2. a \in Nat
  BY StartIs
<1>3. CASE a < Len(d)
  <2>1. r = [bytes |-> d, off |-> a, seg |-> s]
    BY <1>3 DEF Remainder
  <2>2. r.bytes = d /\ r.off = a /\ r.seg = s
    BY <2>1
  <2>3. r \in [bytes : Seq(P), off : Nat, seg : Nat]
    BY <1>1, <1>2, <2>1
  <2>4. \E k \in Nat : r.off = Start(k, s)
    BY <2>2
  <2>5. GoodRest(P, r)
    BY <1>0, <1>3, <2>2, <2>3, <2>4 DEF GoodRest
  <2> QED
    BY <2>1, <2>2, <2>5
<1>4. CASE ~(a < Len(d))
  <2>1. r = NoPend
    BY <1>4 DEF Remainder
  <2>2. Ids(Drop(r.bytes, r.off)) = {}
    BY <2>1, NothingYet DEF NoPend
  <2> HIDE DEF a
  <2>3. /\ Drop(d, a) \in Seq(P)
        /\ Len(Drop(d, a)) = IF a <= Len(d) THEN Len(d) - a ELSE 0
    BY <1>1, <1>2, DropIs
  <2>4. Len(Drop(d, a)) = 0
    BY <1>1, <1>2, <1>4, <2>3
  <2>5. Ids(Drop(d, a)) = {}
    <3>1. Drop(d, a) = <<>>
      BY <2>3, <2>4
    <3> QED
      BY <3>1, IdsOfNone
  <2> QED
    BY <1>4, <2>1, <2>2, <2>5, NothingYet DEF a
<1> QED
  BY <1>3, <1>4

(* Between two turns nothing is in a packet buffer.                        *)
LEMMA BetweenTurns ==
    ASSUME RecvInv, pc = "recv"
    PROVE  bufs = <<>> /\ i = 1 /\ TurnIds = {} /\ Len(iov) = 0
<1>1. bufs = <<>> /\ i = 1
  BY DEF RecvInv, TurnOK
<1>2. TurnIds = {}
  BY <1>1, NothingYet DEF TurnIds
<1>3. iov \in Seq([at : Nat, len : Nat, to : Dests]) /\ Len(iov) < i
  BY DEF RecvInv, RoomOK
<1>4. Len(iov) \in Nat
  BY <1>3
<1>5. Len(iov) = 0
  BY <1>1, <1>3, <1>4
<1> QED
  BY <1>1, <1>2, <1>5

(* A turn begins with the packets of a row; the rest of the read waits.    *)
LEMMA TurnBegins ==
    ASSUME RecvInv, Reading, NEW row, StartTurn(row),
           GoodRow(Met(mode), row), Numbers', GoodQueue(Met(mode), rq'), GoodRest(Met(mode), pend'),
           GroOK', AllSound', InStep',
           Below(PendIds', IdsIn(rq')), Below(AllIds(row), IdsIn(rq')),
           C2s => Below(AllIds(row), PendIds'),
           settled' \cap (IdsIn(rq') \cup PendIds' \cup AllIds(row)) = {},
           settled' \cup IdsIn(rq') \cup PendIds' \cup AllIds(row) = settled \cup Held
    PROVE  RecvInv'
<1>1. /\ mode' = mode /\ seq' = seq /\ iov' = iov /\ pc = "recv"
      /\ bufs' = row /\ i' = 1 /\ pc' = "walk"
  BY DEF Reading, StartTurn, send
<1>2. row \in Seq(Seq(Met(mode))) /\ Len(row) \in Nat
  BY DEF GoodRow
<1>3. QueueOK' /\ PendOK'
  BY <1>1 DEF QueueOK, PendOK
<1>4. TurnOK'
  <2>1. GoodRow(Met(mode'), bufs') /\ i' \in 1..Len(bufs') + 1 /\ pc' # "recv"
    BY <1>1, <1>2
  <2> QED
    BY <2>1 DEF TurnOK
<1>5. RoomOK'
  <2>1. Len(iov) = 0
    BY <1>1, BetweenTurns
  <2> QED
    BY <1>1, <2>1 DEF RecvInv, RoomOK
<1>6. AllIds(bufs') = AllIds(row) /\ TurnIds' = AllIds(row) /\ QueueIds' = IdsIn(rq')
  <2>1. Drop(bufs', i' - 1) = row
    <3>1. i' - 1 = 0
      BY <1>1
    <3>2. Drop(row, 0) = row
      BY <1>2, DropNone
    <3> QED
      BY <1>1, <3>1, <3>2
  <2> QED
    BY <1>1, <2>1, QueueIdsAre DEF TurnIds
<1>7. Ordered'
  BY <1>1, <1>6 DEF Ordered, C2s
<1>8. NonePassedOver'
  <2>1. settled \cup Held = 1..seq
    BY DEF RecvInv, NonePassedOver
  <2>2. Held' = IdsIn(rq') \cup PendIds' \cup AllIds(row)
    BY <1>6 DEF Held
  <2> QED
    BY <1>1, <2>1, <2>2 DEF NonePassedOver
<1> QED
  BY <1>3, <1>4, <1>5, <1>7, <1>8 DEF RecvInv

(* A read that fills no packet buffer.                                     *)
LEMMA NoTurn ==
    ASSUME RecvInv, Reading, UNCHANGED <<pc, turn>>, glued' \subseteq 1..Arrivals,
           Numbers', GoodQueue(Met(mode), rq'), GoodRest(Met(mode), pend'),
           GroOK',
           Below(PendIds', IdsIn(rq')),
           settled' \cap (IdsIn(rq') \cup PendIds') = {},
           settled' \cup IdsIn(rq') \cup PendIds' = settled \cup Held
    PROVE  RecvInv'
<1>1. /\ mode' = mode /\ seq' = seq /\ iov' = iov /\ pc = "recv" /\ pc' = pc
      /\ bufs' = bufs /\ i' = i
  BY DEF Reading, send, turn
<1>2. bufs = <<>> /\ i = 1 /\ Len(iov) = 0
  BY <1>1, BetweenTurns
<1>3. QueueOK' /\ PendOK'
  BY <1>1 DEF QueueOK, PendOK
<1>4. TurnOK'
  BY <1>1, <1>2, NothingYet DEF TurnOK, AllSound
<1>5. RoomOK'
  BY <1>1, <1>2 DEF RecvInv, RoomOK
<1>6. AllIds(bufs') = {} /\ TurnIds' = {} /\ QueueIds' = IdsIn(rq')
  BY <1>1, <1>2, QueueIdsAre, NothingYet, IdsOfNone DEF TurnIds
<1>7. Ordered'
  BY <1>6 DEF Ordered, Below
<1>8. NonePassedOver'
  <2>1. settled \cup Held = 1..seq
    BY DEF RecvInv, NonePassedOver
  <2>2. Held' = IdsIn(rq') \cup PendIds'
    BY <1>6 DEF Held
  <2> QED
    BY <1>1, <2>1, <2>2 DEF NonePassedOver
<1>9. InStep'
  <2>1. pc' = "recv" /\ i' > Len(bufs')
    BY <1>1, <1>2
  <2> QED
    BY <2>1 DEF InStep
<1> QED
  BY <1>3, <1>4, <1>5, <1>7, <1>8, <1>9 DEF RecvInv

(* Splitting a coalesced read.                                             *)
LEMMA SegmentsTaken ==
    ASSUME RecvInv, Reading, gro, glued' = {}, rearm_gap' = rearm_gap,
           NEW d, NEW s \in Nat \ {0}, NEW k \in Nat, NEW q,
           Pieces(Met(mode), d, s), Start(k, s) < Len(d), GoodQueue(Met(mode), q),
           Both(Held, Ids(Drop(d, Start(k, s))), IdsIn(q)), Below(Ids(Drop(d, Start(k, s))), IdsIn(q)),
           TakeSegments(d, Start(k, s), s, q)
    PROVE  RecvInv'
<1> DEFINE a == Start(k, s)
           P == Met(mode)
           cs == Segments(d, a, s, IF C2s THEN Batch ELSE Len(d))
<1>1. /\ mode' = mode /\ seq' = seq /\ has_client' = has_client /\ pc = "recv"
  BY DEF Reading
<1>2. C2s' = C2s /\ HasGro' = HasGro /\ a \in Nat /\ d \in Seq(P) /\ Len(d) \in Nat \ {0}
  <2>1. a \in Nat
    BY StartIs
  <2>2. d \in Seq(P) /\ d # <<>>
    BY DEF Pieces
  <2> QED
    BY <1>1, <2>1, <2>2 DEF C2s, HasGro
<1>3. settled \cup Held = 1..seq /\ settled \cap Held = {}
  BY DEF RecvInv, NonePassedOver
<1>4. Ids(Drop(d, a)) \cap IdsIn(q) = {}
  <2>1. Ids(Drop(d, a)) \subseteq Nat
    <3>1. Ids(Drop(d, a)) \subseteq 1..seq /\ seq \in Nat
      BY <1>3 DEF Both, RecvInv, Numbers
    <3> QED
      BY <3>1
  <2> QED
    BY <2>1, Apart
<1>5. CASE C2s /\ Min({s, Len(d) - a}) > BufSize
  <2>1. /\ gro' = FALSE /\ udp_gro' = FALSE
        /\ rq' = [j \in 1..Len(q) |-> [q[j] EXCEPT !.stuck = Coalesced(q[j])]]
        /\ pend' = [bytes |-> d, off |-> a, seg |-> s]
        /\ settled' = settled \cup Ids(Drop(d, a))
        /\ UNCHANGED <<no_coalesce, rearm_in, pc, turn>>
    BY <1>5 DEF TakeSegments, GiveUpGro, Settle
  <2>2. GoodQueue(P, rq') /\ IdsIn(rq') = IdsIn(q) /\ Marked(rq')
    BY <2>1, QueueGiveUp, MarkedGiveUp
  <2>3. GoodRest(P, pend')
    BY <2>1, RemainderIs
  <2>4. PendIds' = {}
    BY <2>1 DEF PendIds
  <2>5. GroOK'
    <3>1. rearm_in' = 0
      BY <1>5, <2>1 DEF RecvInv, GroOK
    <3>2. HasGro
      BY DEF RecvInv, GroOK
    <3> QED
      BY <1>2, <1>5, <2>1, <2>2, <3>1, <3>2 DEF GroOK
  <2>6. Numbers'
    BY <1>1, <2>1 DEF RecvInv, Numbers
  <2>7. Below(PendIds', IdsIn(rq'))
    BY <2>4 DEF Below
  <2>8. settled' \cap (IdsIn(rq') \cup PendIds') = {}
    BY <1>3, <1>4, <2>1, <2>2, <2>4 DEF Both
  <2>9. settled' \cup IdsIn(rq') \cup PendIds' = settled \cup Held
    BY <2>1, <2>2, <2>4 DEF Both
  <2>10. UNCHANGED <<pc, turn>> /\ glued' \subseteq 1..Arrivals
    BY <2>1
  <2> HIDE DEF a
  <2> QED
    BY <2>2, <2>3, <2>5, <2>6, <2>7, <2>8, <2>9, <2>10, NoTurn
<1>6. CASE ~(C2s /\ Min({s, Len(d) - a}) > BufSize)
  <2>1. /\ no_coalesce' \in {0, no_coalesce} /\ pend' = Remainder(d, IF C2s THEN a + Len(cs) * s ELSE a, s)
        /\ StartTurn(cs) /\ rq' = q
        /\ udp_gro' = udp_gro /\ gro' = gro /\ rearm_in' = rearm_in /\ settled' = settled
    BY <1>6 DEF TakeSegments
  <2>2. PieceRow(P, d, s, k, cs) /\ (C2s => Len(cs) <= Batch)
    <3>1. (IF C2s THEN Batch ELSE Len(d)) \in Nat \ {0}
      BY <1>2, BatchAssumption
    <3> DEFINE lim == IF C2s THEN Batch ELSE Len(d)
    <3> HIDE DEF lim
    <3>2. PieceRow(P, d, s, k, Segments(d, Start(k, s), s, lim)) /\ Len(Segments(d, Start(k, s), s, lim)) <= lim
      BY <3>1, SegmentsIs DEF lim
    <3> QED
      BY <3>2 DEF lim
  <2> HIDE DEF cs
  <2>3. GoodRow(P, cs) /\ (\A j \in 1..Len(cs) : Whole(cs[j])) /\ Len(cs) \in Nat \ {0}
    BY <2>2, RowOfPieces, RowIs
  <2>4. a + Len(cs) * s = Start(k + Len(cs), s)
    <3>1. Start(k + Len(cs), s) = Start(k, s) + Start(Len(cs), s)
      BY <2>3, StartSum
    <3> QED
      BY <3>1 DEF Start
  <2>5. /\ Both(Ids(Drop(d, a)), AllIds(cs), Ids(Drop(d, Start(k + Len(cs), s))))
        /\ Below(AllIds(cs), Ids(Drop(d, Start(k + Len(cs), s))))
    BY <2>2, RowIds
  <2>6. gro' /\ PendIds' = Ids(Drop(pend'.bytes, pend'.off))
    BY <2>1 DEF PendIds
  <2>7. Numbers'
    <3>1. pc' = "walk"
      BY <2>1 DEF StartTurn
    <3> QED
      BY <1>1, <2>1, <3>1, BatchAssumption DEF RecvInv, Numbers
  <2>8. GoodQueue(P, rq')
    BY <2>1
  <2>9. GroOK'
    BY <1>2, <2>1 DEF RecvInv, GroOK
  <2>10. AllSound'
    <3>1. bufs' = cs
      BY <2>1 DEF StartTurn
    <3> QED
      BY <2>3, <3>1 DEF AllSound, Sound
  <2>11. CASE C2s
    <3> DEFINE m == k + Len(cs)
    <3>1. pend' = Remainder(d, Start(m, s), s) /\ m \in Nat
      BY <2>1, <2>3, <2>4, <2>11
    <3> HIDE DEF m
    <3>2. GoodRest(P, pend') /\ PendIds' = Ids(Drop(d, Start(m, s)))
      BY <2>6, <3>1, RemainderIs
    <3>3. /\ Both(Ids(Drop(d, a)), AllIds(cs), PendIds') /\ Below(AllIds(cs), PendIds')
      BY <2>5, <3>2 DEF m
    <3>4. InStep'
      <4>1. C2s' /\ Len(bufs') <= Batch
        BY <1>2, <2>1, <2>2, <2>11 DEF StartTurn
      <4> QED
        BY <4>1 DEF InStep
    <3>5. Below(PendIds', IdsIn(rq')) /\ Below(AllIds(cs), IdsIn(rq'))
      BY <2>1, <3>3 DEF Both, Below
    <3>6. settled' \cap (IdsIn(rq') \cup PendIds' \cup AllIds(cs)) = {}
      BY <1>3, <2>1, <3>3 DEF Both
    <3>7. settled' \cup IdsIn(rq') \cup PendIds' \cup AllIds(cs) = settled \cup Held
      BY <2>1, <3>3 DEF Both
    <3> HIDE DEF a
    <3> QED
      BY <2>1, <2>3, <2>7, <2>8, <2>9, <2>10, <3>2, <3>3, <3>4, <3>5, <3>6, <3>7, TurnBegins
  <2>12. CASE ~C2s
    <3>1. pend' = Remainder(d, Start(k, s), s)
      BY <2>1, <2>12
    <3>2. GoodRest(P, pend') /\ PendIds' = Ids(Drop(d, a)) /\ pend' = [bytes |-> d, off |-> a, seg |-> s]
      BY <2>6, <3>1, RemainderIs
    <3>3. pend'.bytes = d /\ pend'.off = a /\ pend'.seg = s /\ pend' # NoPend
      <4>1. pend'.bytes = d /\ pend'.off = a /\ pend'.seg = s
        BY <3>2
      <4>2. d # <<>>
        BY <1>2
      <4> QED
        BY <4>1, <4>2 DEF NoPend
    <3>4. cs = Segments(pend'.bytes, pend'.off, pend'.seg, Len(pend'.bytes))
      BY <2>12, <3>3 DEF cs
    <3>5. AllIds(cs) = PendIds'
      <4>1. AllIds(Segments(pend'.bytes, pend'.off, pend'.seg, Len(pend'.bytes))) = Ids(Drop(pend'.bytes, pend'.off))
        BY <3>2, <3>3, ReadIds
      <4> QED
        BY <2>6, <3>4, <4>1
    <3>6. InStep'
      <4>1. bufs' = cs /\ i' - 1 = 0
        BY <2>1 DEF StartTurn
      <4>2. Drop(bufs', i' - 1) = cs
        <5>1. cs \in Seq(Seq(P))
          BY <2>3 DEF GoodRow
        <5>2. Drop(cs, 0) = cs
          BY <5>1, DropNone
        <5> QED
          BY <4>1, <5>2
      <4>3. ~C2s'
        BY <1>2, <2>12
      <4> QED
        BY <3>3, <3>4, <4>2, <4>3 DEF InStep
    <3>7. Below(PendIds', IdsIn(rq')) /\ Below(AllIds(cs), IdsIn(rq'))
      BY <2>1, <3>2, <3>5
    <3>8. settled' \cap (IdsIn(rq') \cup PendIds' \cup AllIds(cs)) = {}
      BY <1>3, <2>1, <3>2, <3>5 DEF Both
    <3>9. settled' \cup IdsIn(rq') \cup PendIds' \cup AllIds(cs) = settled \cup Held
      BY <2>1, <3>2, <3>5 DEF Both
    <3> HIDE DEF a
    <3> QED
      BY <2>1, <2>3, <2>7, <2>8, <2>9, <2>10, <2>12, <3>2, <3>6, <3>7, <3>8, <3>9, TurnBegins
  <2> QED
    BY <2>11, <2>12
<1> QED
  BY <1>5, <1>6

(* A read that was not coalesced.                                          *)
LEMMA SingleTaken ==
    ASSUME RecvInv, Reading, gro, pend = NoPend, glued' = {}, rearm_gap' = rearm_gap,
           NEW d, NEW q, Pieces(Met(mode), d, Len(d)), GoodQueue(Met(mode), q),
           Both(Held, Ids(d), IdsIn(q)), Below(Ids(d), IdsIn(q)), TakeSingle(d, q)
    PROVE  RecvInv'
<1> DEFINE P == Met(mode)
<1>1. /\ mode' = mode /\ seq' = seq /\ has_client' = has_client /\ pc = "recv" /\ C2s' = C2s
      /\ HasGro' = HasGro
  BY DEF Reading, C2s, HasGro
<1>2. /\ no_coalesce' = (IF Served /\ no_coalesce < NoCoalesce THEN no_coalesce + 1 ELSE no_coalesce)
      /\ pend' = NoPend
      /\ IF Served /\ no_coalesce' = NoCoalesce
         THEN GiveUpGro(q) /\ rearm_in' = rearm_gap
         ELSE rq' = q /\ gro' = gro /\ udp_gro' = udp_gro /\ rearm_in' = rearm_in
  BY DEF TakeSingle
<1>3. settled \cup Held = 1..seq /\ settled \cap Held = {}
  BY DEF RecvInv, NonePassedOver
<1>4. d \in Seq(P) /\ d # <<>> /\ Whole(d)
  BY SingleIs
<1>5. Ids(d) \cap IdsIn(q) = {}
  <2>1. Ids(d) \subseteq Nat
    <3>1. Ids(d) \subseteq 1..seq /\ seq \in Nat
      BY <1>3 DEF Both, RecvInv, Numbers
    <3> QED
      BY <3>1
  <2> QED
    BY <2>1, Apart
<1>6. PendIds' = {}
  BY <1>2, NothingYet DEF PendIds, NoPend
<1>7. GoodRest(P, pend')
  BY <1>2, NothingYet
<1>8. /\ HasGro /\ no_coalesce \in 0..NoCoalesce /\ udp_gro = gro /\ (C2s => rearm_in = 0)
      /\ rearm_in \in 0..2 * RearmMax /\ rearm_gap \in RearmMin..2 * RearmMax
  BY BatchAssumption DEF RecvInv, GroOK, Numbers
<1>9. GoodQueue(P, rq') /\ IdsIn(rq') = IdsIn(q) /\ GroOK' /\ rearm_in' \in 0..2 * RearmMax
  <2>1. CASE Served /\ no_coalesce' = NoCoalesce
    <3>1. /\ gro' = FALSE /\ udp_gro' = FALSE /\ rearm_in' = rearm_gap
          /\ rq' = [j \in 1..Len(q) |-> [q[j] EXCEPT !.stuck = Coalesced(q[j])]]
      BY <1>2, <2>1 DEF GiveUpGro
    <3>2. GoodQueue(P, rq') /\ IdsIn(rq') = IdsIn(q) /\ Marked(rq')
      BY <3>1, QueueGiveUp, MarkedGiveUp
    <3>3. GroOK'
      BY <1>1, <1>2, <1>8, <3>1, <3>2 DEF GroOK
    <3>4. rearm_in' \in 0..2 * RearmMax
      BY <1>8, <3>1, BatchAssumption, SMTT(60)
    <3> QED
      BY <3>2, <3>3, <3>4
  <2>2. CASE ~(Served /\ no_coalesce' = NoCoalesce)
    <3>1. rq' = q /\ gro' = gro /\ udp_gro' = udp_gro /\ rearm_in' = rearm_in
      BY <1>2, <2>2
    <3>2. GroOK'
      BY <1>1, <1>2, <1>8, <3>1 DEF GroOK
    <3> QED
      BY <1>8, <3>1, <3>2
  <2> QED
    BY <2>1, <2>2
<1>10. no_coalesce' \in 0..NoCoalesce
  BY <1>2, <1>8, BatchAssumption
<1>11. pc' \in {"recv", "walk", "send"} => Numbers'
  BY <1>1, <1>9, <1>10 DEF RecvInv, Numbers
<1>12. Below(PendIds', IdsIn(rq'))
  BY <1>6 DEF Below
<1>13. CASE C2s /\ Len(d) > BufSize
  <2>1. settled' = settled \cup Ids(d) /\ UNCHANGED <<pc, turn>>
    BY <1>13 DEF TakeSingle, Settle
  <2>2. settled' \cap (IdsIn(rq') \cup PendIds') = {}
    BY <1>3, <1>5, <1>6, <1>9, <2>1 DEF Both
  <2>3. settled' \cup IdsIn(rq') \cup PendIds' = settled \cup Held
    BY <1>6, <1>9, <2>1 DEF Both
  <2>4. Numbers' /\ glued' \subseteq 1..Arrivals
    BY <1>1, <1>11, <2>1
  <2> QED
    BY <1>7, <1>9, <1>12, <2>1, <2>2, <2>3, <2>4, NoTurn
<1>14. CASE ~(C2s /\ Len(d) > BufSize)
  <2>1. StartTurn(<<d>>) /\ settled' = settled
    BY <1>14 DEF TakeSingle
  <2>2. GoodRow(P, <<d>>) /\ AllIds(<<d>>) = Ids(d) /\ Len(<<d>>) = 1 /\ <<d>>[1] = d
    BY <1>4, OneRow
  <2> DEFINE row == <<d>>
  <2>3. GoodRow(P, row) /\ AllIds(row) = Ids(d) /\ Len(row) = 1 /\ row[1] = d /\ StartTurn(row)
    BY <2>1, <2>2
  <2> HIDE DEF row
  <2>4. bufs' = row /\ pc' = "walk"
    BY <2>3 DEF StartTurn
  <2>5. Numbers'
    BY <1>11, <2>4
  <2>6. AllSound'
    <3>1. \A j \in 1..Len(row) : j = 1
      BY <2>3
    <3> QED
      BY <1>4, <2>3, <2>4, <3>1 DEF AllSound, Sound
  <2>7. InStep'
    <3>1. Len(bufs') <= Batch
      <4>1. Batch \in Nat \ {0}
        BY BatchAssumption
      <4>2. 1 <= Batch
        BY <4>1
      <4>3. Len(bufs') = 1
        BY <2>3, <2>4
      <4> QED
        BY <4>2, <4>3
    <3> QED
      BY <1>2, <3>1 DEF InStep
  <2>8. Below(AllIds(row), IdsIn(rq')) /\ (C2s => Below(AllIds(row), PendIds'))
    BY <1>6, <1>9, <2>3 DEF Below
  <2>9. settled' \cap (IdsIn(rq') \cup PendIds' \cup AllIds(row)) = {}
    BY <1>3, <1>6, <1>9, <2>1, <2>3 DEF Both
  <2>10. settled' \cup IdsIn(rq') \cup PendIds' \cup AllIds(row) = settled \cup Held
    BY <1>6, <1>9, <2>1, <2>3 DEF Both
  <2> QED
    BY <1>7, <1>9, <1>12, <2>3, <2>5, <2>6, <2>7, <2>8, <2>9, <2>10, TurnBegins
<1> QED
  BY <1>13, <1>14

(* Reading the queue, one buffer at a time.                                *)
LEMMA GroRead ==
    ASSUME RecvInv, RecvGro
    PROVE  RecvInv'
<1> DEFINE P == Met(mode)
           h == Head(rq)
           q == Tail(rq)
<1>1. /\ Reading /\ gro /\ pend = NoPend /\ rq # <<>> /\ glued' = {} /\ rearm_gap' = rearm_gap
      /\ IF Coalesced(h) THEN TakeSegments(h.bytes, 0, h.seg, q) ELSE TakeSingle(h.bytes, q)
  BY DEF RecvGro
<1>2. GoodQueue(P, rq)
  BY DEF RecvInv, QueueOK
<1>3. /\ GoodQueue(P, q) /\ Pieces(P, h.bytes, SegOf(h)) /\ h.bytes \in Seq(P) /\ h.seg \in Nat
      /\ Both(IdsIn(rq), Ids(h.bytes), IdsIn(q)) /\ Below(Ids(h.bytes), IdsIn(q))
  BY <1>1, <1>2, QueueTail
<1>4. Held = IdsIn(rq)
  <2>1. TurnIds = {}
    BY <1>1, BetweenTurns DEF Reading
  <2>2. PendIds = {}
    BY <1>1, NothingYet DEF PendIds, NoPend
  <2> QED
    BY <2>1, <2>2, QueueIdsAre DEF Held
<1> HIDE DEF h, q
<1>5. CASE Coalesced(h)
  <2> DEFINE s == h.seg
             d == h.bytes
  <2>1. s \in Nat \ {0} /\ SegOf(h) = s
    BY <1>3, <1>5 DEF Coalesced, SegOf
  <2>2. Pieces(P, d, s) /\ d \in Seq(P) /\ d # <<>> /\ TakeSegments(d, 0, s, q)
    BY <1>1, <1>3, <1>5, <2>1 DEF Pieces
  <2>3. Both(Held, Ids(d), IdsIn(q)) /\ Below(Ids(d), IdsIn(q))
    BY <1>3, <1>4
  <2> HIDE DEF s, d
  <2>4. Start(0, s) = 0
    BY <2>1, StartFirst
  <2>5. Drop(d, 0) = d
    BY <2>2, DropNone
  <2>6. Start(0, s) < Len(d)
    BY <2>2, <2>4
  <2>7. Both(Held, Ids(Drop(d, Start(0, s))), IdsIn(q)) /\ Below(Ids(Drop(d, Start(0, s))), IdsIn(q))
    BY <2>3, <2>4, <2>5
  <2>8. TakeSegments(d, Start(0, s), s, q)
    BY <2>2, <2>4
  <2>9. 0 \in Nat
    OBVIOUS
  <2> QED
    BY <1>1, <1>3, <2>1, <2>2, <2>6, <2>7, <2>8, <2>9, SegmentsTaken
<1>6. CASE ~Coalesced(h)
  <2> DEFINE d == h.bytes
  <2>1. Pieces(P, d, Len(d)) /\ TakeSingle(d, q)
    BY <1>1, <1>3, <1>6 DEF SegOf
  <2>2. Both(Held, Ids(d), IdsIn(q)) /\ Below(Ids(d), IdsIn(q))
    BY <1>3, <1>4
  <2> HIDE DEF d
  <2> QED
    BY <1>1, <1>3, <2>1, <2>2, SingleTaken
<1> QED
  BY <1>5, <1>6

(* Going on with a coalesced read.                                         *)
LEMMA PendRead ==
    ASSUME RecvInv, DrainPend
    PROVE  RecvInv'
<1> DEFINE P == Met(mode)
           d == pend.bytes
           s == pend.seg
<1>1. /\ Reading /\ gro /\ pend # NoPend /\ glued' = {} /\ rearm_gap' = rearm_gap
      /\ TakeSegments(d, pend.off, s, rq)
  BY DEF DrainPend
<1>2. /\ Pieces(P, d, s) /\ pend.off < Len(d) /\ \E k \in Nat : pend.off = Start(k, s)
  BY <1>1 DEF RecvInv, PendOK, GoodRest
<1>3. PICK k \in Nat : pend.off = Start(k, s)
  BY <1>2
<1>4. s \in Nat \ {0} /\ GoodQueue(P, rq)
  BY <1>2 DEF Pieces, RecvInv, QueueOK
<1>5. Both(Held, Ids(Drop(d, pend.off)), IdsIn(rq)) /\ Below(Ids(Drop(d, pend.off)), IdsIn(rq))
  <2>1. TurnIds = {}
    BY <1>1, BetweenTurns DEF Reading
  <2>2. PendIds = Ids(Drop(d, pend.off))
    BY <1>1 DEF PendIds
  <2>3. Below(PendIds, QueueIds)
    BY DEF RecvInv, Ordered
  <2> QED
    BY <2>1, <2>2, <2>3, QueueIdsAre DEF Held, Both
<1> HIDE DEF d, s
<1>6. /\ Start(k, s) < Len(d) /\ TakeSegments(d, Start(k, s), s, rq)
      /\ Both(Held, Ids(Drop(d, Start(k, s))), IdsIn(rq)) /\ Below(Ids(Drop(d, Start(k, s))), IdsIn(rq))
  BY <1>1, <1>2, <1>3, <1>5
<1> QED
  BY <1>1, <1>2, <1>4, <1>6, SegmentsTaken

(* GRO is tried again.                                                     *)
LEMMA GroAgain ==
    ASSUME RecvInv, Rearm
    PROVE  RecvInv'
<1>1. /\ Reading /\ ~gro /\ rearm_in = 1 /\ rearm_in' = 0 /\ gro' = TRUE /\ udp_gro' = TRUE
      /\ no_coalesce' = 0 /\ rearm_gap' = (IF rearm_gap < RearmMax THEN 2 * rearm_gap ELSE rearm_gap)
      /\ rq' = rq /\ pend' = pend /\ UNCHANGED <<pc, turn>> /\ settled' = settled /\ glued' = glued
  BY DEF Rearm
<1>2. /\ mode' = mode /\ seq' = seq /\ has_client' = has_client /\ pc' = pc
  BY <1>1 DEF Reading
<1>3. pend = NoPend
  BY <1>1 DEF RecvInv, GroOK
<1>4. rearm_gap' \in RearmMin..2 * RearmMax
  <2>1. rearm_gap \in RearmMin..2 * RearmMax /\ RearmMin \in Nat /\ RearmMax \in Nat
    BY BatchAssumption DEF RecvInv, Numbers
  <2> QED
    BY <1>1, <2>1
<1>5. Numbers'
  <2>1. rearm_in' \in 0..2 * RearmMax /\ no_coalesce' \in 0..NoCoalesce
    BY <1>1, BatchAssumption
  <2> QED
    BY <1>1, <1>2, <1>4, <2>1 DEF RecvInv, Numbers
<1>6. GoodQueue(Met(mode), rq') /\ GoodRest(Met(mode), pend')
  BY <1>1 DEF RecvInv, QueueOK, PendOK
<1>7. GroOK'
  <2>1. HasGro /\ HasGro' = HasGro
    BY <1>1, <1>2 DEF RecvInv, GroOK, HasGro
  <2> QED
    BY <1>1, <2>1 DEF GroOK
<1>8. TurnIds = {} /\ PendIds = {} /\ PendIds' = {}
  <2>1. TurnIds = {}
    BY <1>1, BetweenTurns DEF Reading
  <2>2. PendIds' = {}
    BY <1>1, <1>3, NothingYet DEF PendIds, NoPend
  <2> QED
    BY <1>1, <2>1, <2>2 DEF PendIds
<1>9. Held = IdsIn(rq')
  BY <1>1, <1>8, QueueIdsAre DEF Held
<1>10. Below(PendIds', IdsIn(rq'))
  BY <1>8 DEF Below
<1>11. settled \cap Held = {} /\ glued' \subseteq 1..Arrivals
  BY <1>1 DEF RecvInv, NonePassedOver, Numbers
<1>12. /\ settled' \cap (IdsIn(rq') \cup PendIds') = {}
       /\ settled' \cup IdsIn(rq') \cup PendIds' = settled \cup Held
  BY <1>1, <1>8, <1>9, <1>11
<1> QED
  BY <1>1, <1>5, <1>6, <1>7, <1>10, <1>11, <1>12, NoTurn

(* What one buffer of the queue becomes: a packet, whole or cut to the     *)
(* packet buffer, or packets that were joined when GRO was given up.       *)
LEMMA CutSound ==
    ASSUME NEW P, P \subseteq Packet, NEW b, NEW G, b \in Buffer(P), Pieces(P, b.bytes, SegOf(b)),
           Coalesced(b) => Ids(b.bytes) \subseteq G
    PROVE  LET c == Cut(b.bytes, BufSize) IN Whole(c) \/ c[1].len > BufSize \/ Ids(c) \subseteq G
<1> DEFINE d == b.bytes
           c == Cut(d, BufSize)
<1> SUFFICES Whole(c) \/ c[1].len > BufSize \/ Ids(c) \subseteq G
  OBVIOUS
<1>1. d \in Seq(P) /\ d # <<>> /\ BufSize \in Nat \ {0}
  BY BatchAssumption DEF Pieces
<1>2. CASE Coalesced(b)
  <2>1. Ids(d) \subseteq G
    BY <1>2
  <2> HIDE DEF d
  <2>2. Both(Ids(d), Ids(c), Ids(Drop(d, BufSize)))
    BY <1>1, IdsSplit
  <2> QED
    BY <2>1, <2>2 DEF Both
<1>3. CASE ~Coalesced(b)
  <2>1. Pieces(P, d, Len(d))
    BY <1>3 DEF SegOf
  <2> HIDE DEF d
  <2>2. Whole(d) /\ Len(d) \in Nat \ {0}
    BY <2>1, SingleIs
  <2>3. d[1] \in Packet
    <3>1. 1 \in 1..Len(d)
      BY <2>2
    <3> QED
      BY <1>1, <3>1, ElementOfSeq
  <2>4. Len(d) = d[1].len
    <3> DEFINE p == d[1]
    <3> HIDE DEF p
    <3>1. d = Bytes(p) /\ p \in Packet
      BY <2>2, <2>3 DEF Whole, p
    <3>2. p.len \in Nat \ {0}
      BY <3>1, BatchAssumption DEF Packet
    <3>3. Len(Bytes(p)) = p.len
      BY <3>1, <3>2, BytesIs
    <3> QED
      BY <3>1, <3>3 DEF p
  <2> HIDE DEF c
  <2>5. Len(c) = (IF BufSize <= Len(d) THEN BufSize ELSE Len(d)) /\ \A x \in 1..Len(c) : c[x] = d[x]
    BY <1>1, CutIs DEF c
  <2>6. CASE Len(d) <= BufSize
    <3>1. Min({BufSize, Len(d)}) = Len(d)
      BY <1>1, <2>2, <2>6, MinOfTwo
    <3>2. c = d
      <4>1. SubSeq(d, 1, Len(d)) = d
        BY <1>1
      <4> QED
        BY <3>1, <4>1 DEF c, Cut
    <3> QED
      BY <2>2, <3>2
  <2>7. CASE ~(Len(d) <= BufSize)
    <3>1. BufSize < Len(d)
      BY <1>1, <2>2, <2>7
    <3>2. 1 \in 1..Len(c)
      BY <1>1, <2>2, <2>5, <3>1
    <3>3. c[1] = d[1]
      BY <2>5, <3>2
    <3> QED
      BY <1>1, <2>2, <2>4, <3>1, <3>3
  <2> QED
    BY <2>6, <2>7
<1> QED
  BY <1>2, <1>3

(* recvmmsg.                                                               *)
LEMMA MmsgRead ==
    ASSUME RecvInv, RecvMmsg
    PROVE  RecvInv'
<1> DEFINE P == Met(mode)
           got == Cut(rq, Batch)
           row == [j \in DOMAIN got |-> Cut(got[j].bytes, BufSize)]
           rest == [j \in DOMAIN got |-> Drop(got[j].bytes, BufSize)]
<1>1. /\ Reading /\ ~gro /\ StartTurn(row) /\ rq' = Drop(rq, Batch)
      /\ glued' = UNION {Ids(b.bytes) : b \in {c \in Range(got) : c.stuck}}
      /\ settled' = settled \cup (AllIds(rest) \ AllIds(row))
      /\ rearm_in' = (IF rearm_in > 0 THEN rearm_in - 1 ELSE 0)
      /\ udp_gro' = udp_gro /\ gro' = gro /\ pend' = pend /\ no_coalesce' = no_coalesce
      /\ rearm_gap' = rearm_gap
  BY DEF RecvMmsg, Settle
<1>2. /\ mode' = mode /\ seq' = seq /\ has_client' = has_client /\ pc' = "walk" /\ bufs' = row /\ C2s' = C2s
      /\ HasGro' = HasGro
  BY <1>1 DEF Reading, StartTurn, C2s, HasGro
<1>3. Batch \in Nat \ {0} /\ BufSize \in Nat \ {0}
  BY BatchAssumption
<1>4. GoodQueue(P, rq) /\ rq \in Seq(Buffer(P)) /\ Marked(rq)
  BY <1>1 DEF RecvInv, QueueOK, GoodQueue, GroOK
<1>5. /\ GoodQueue(P, got) /\ Both(IdsIn(rq), IdsIn(got), IdsIn(rq'))
      /\ Below(IdsIn(got), IdsIn(rq')) /\ GoodQueue(P, rq') /\ Marked(rq')
  BY <1>1, <1>3, <1>4, QueueCut, QueueDrop, MarkedDrop
<1>6. /\ Len(got) \in Nat /\ Len(got) <= Batch /\ got \in Seq(Buffer(P)) /\ DOMAIN got = 1..Len(got)
      /\ \A x \in 1..Len(got) : x \in 1..Len(rq) /\ got[x] = rq[x]
  <2>1. /\ got \in Seq(Buffer(P)) /\ Len(got) = (IF Batch <= Len(rq) THEN Batch ELSE Len(rq))
        /\ \A x \in 1..Len(got) : x \in 1..Len(rq) /\ got[x] = rq[x]
    BY <1>3, <1>4, CutIs
  <2>2. Len(got) \in Nat /\ DOMAIN got = 1..Len(got)
    BY <2>1
  <2>3. Len(rq) \in Nat
    BY <1>4
  <2>4. Len(got) <= Batch
    BY <1>3, <2>1, <2>3
  <2> QED
    BY <2>1, <2>2, <2>4
<1> HIDE DEF got
<1>7. /\ GoodRow(P, row) /\ Len(row) = Len(got) /\ Both(IdsIn(got), AllIds(row), AllIds(rest))
  BY <1>3, <1>5, RowOfQueue
<1>8. ASSUME NEW j \in 1..Len(got)
      PROVE  row[j] = Cut(got[j].bytes, BufSize) /\ got[j] \in Buffer(P) /\ got[j] \in Range(got)
  BY <1>6, ElementOfSeq DEF Range
<1>9. P \subseteq Packet
  BY DEF Met
<1>10. glued' \subseteq 1..Arrivals
  <2>1. ASSUME NEW b \in Range(got) PROVE Ids(b.bytes) \subseteq 1..Arrivals
    <3>1. b \in Buffer(P)
      BY <1>6, <1>8 DEF Range
    <3>2. b.bytes \in Seq(P)
      BY <3>1 DEF Buffer
    <3> QED
      BY <3>2, IdsMet
  <2> QED
    BY <1>1, <2>1
<1>11. \A j \in 1..Len(got) : Coalesced(got[j]) => Ids(got[j].bytes) \subseteq glued'
  <2> SUFFICES ASSUME NEW j \in 1..Len(got), Coalesced(got[j]) PROVE Ids(got[j].bytes) \subseteq glued'
    OBVIOUS
  <2>1. got[j].stuck
    BY <1>4, <1>6 DEF Marked
  <2>2. got[j] \in {c \in Range(got) : c.stuck}
    BY <1>8, <2>1
  <2> QED
    BY <1>1, <2>2
<1>12. AllSound'
  <2> SUFFICES ASSUME NEW j \in 1..Len(got)
               PROVE  Whole(row[j]) \/ row[j][1].len > BufSize \/ Ids(row[j]) \subseteq glued'
    BY <1>2, <1>7 DEF AllSound, Sound
  <2> DEFINE b == got[j]
             G == glued'
  <2>1. b \in Buffer(P) /\ Pieces(P, b.bytes, SegOf(b)) /\ (Coalesced(b) => Ids(b.bytes) \subseteq G)
    BY <1>5, <1>8, <1>11 DEF GoodQueue
  <2>2. row[j] = Cut(b.bytes, BufSize)
    BY <1>8
  <2> HIDE DEF b, row, G
  <2>3. Whole(Cut(b.bytes, BufSize)) \/ Cut(b.bytes, BufSize)[1].len > BufSize \/ Ids(Cut(b.bytes, BufSize)) \subseteq G
    BY <1>9, <2>1, CutSound
  <2> QED
    BY <2>2, <2>3 DEF G
<1> HIDE DEF row, rest
<1>13. PendIds = {} /\ PendIds' = {}
  BY <1>1 DEF PendIds
<1>14. Held = IdsIn(rq)
  <2>1. TurnIds = {}
    BY <1>1, BetweenTurns DEF Reading
  <2> QED
    BY <1>13, <2>1, QueueIdsAre DEF Held
<1>15. rearm_in \in 0..2 * RearmMax /\ (pend # NoPend => C2s /\ rearm_in = 0) /\ (~HasGro => rearm_in = 0)
  BY <1>1 DEF RecvInv, GroOK, Numbers
<1>16. rearm_in' \in 0..2 * RearmMax /\ (rearm_in = 0 => rearm_in' = 0)
  BY <1>1, <1>15, BatchAssumption
<1>17. Numbers'
  BY <1>1, <1>2, <1>10, <1>16 DEF RecvInv, Numbers
<1>18. GroOK'
  <2>1. udp_gro' = gro' /\ gro' \in BOOLEAN
    BY <1>1 DEF RecvInv, GroOK
  <2> QED
    BY <1>1, <1>2, <1>5, <1>15, <1>16, <2>1 DEF GroOK
<1>19. GoodRest(P, pend')
  BY <1>1 DEF RecvInv, PendOK
<1>20. InStep'
  BY <1>1, <1>2, <1>6, <1>7, <1>15 DEF InStep
<1>21. settled \cup Held = 1..seq /\ settled \cap Held = {}
  BY DEF RecvInv, NonePassedOver
<1>22. IdsIn(got) \cap IdsIn(rq') = {}
  <2>1. IdsIn(got) \subseteq Nat
    <3>1. IdsIn(got) \subseteq 1..seq /\ seq \in Nat
      BY <1>5, <1>14, <1>21 DEF Both, RecvInv, Numbers
    <3> QED
      BY <3>1
  <2> QED
    BY <1>5, <2>1, Apart
<1>23. Below(PendIds', IdsIn(rq')) /\ Below(AllIds(row), IdsIn(rq')) /\ Below(AllIds(row), PendIds')
  BY <1>5, <1>7, <1>13 DEF Below, Both
<1>24. settled' \cap (IdsIn(rq') \cup PendIds' \cup AllIds(row)) = {}
  BY <1>1, <1>5, <1>7, <1>13, <1>14, <1>21, <1>22 DEF Both
<1>25. settled' \cup IdsIn(rq') \cup PendIds' \cup AllIds(row) = settled \cup Held
  BY <1>1, <1>5, <1>7, <1>13, <1>14 DEF Both
<1> QED
  BY <1>1, <1>5, <1>7, <1>12, <1>17, <1>18, <1>19, <1>20, <1>23, <1>24, <1>25, TurnBegins

(* A reconnect: the queue is lost, what is left of a read is not.          *)
LEMMA DialsAgain ==
    ASSUME RecvInv, Reconnect
    PROVE  RecvInv'
<1>1. /\ pc = "recv" /\ ~C2s /\ rq' = <<>> /\ settled' = settled \cup QueueIds
      /\ gro' = HasGro /\ udp_gro' = HasGro /\ has_client' \in BOOLEAN
      /\ UNCHANGED <<mode, seq, pend, no_coalesce, rearm_in, rearm_gap, pc, bufs, i, iov, glued>>
  BY DEF Reconnect, Settle, QueueIds, turn, send, RecvInv, Numbers
<1>2. C2s' = C2s /\ HasGro' = HasGro /\ HasGro \in BOOLEAN
  BY <1>1 DEF C2s, HasGro
<1>3. bufs = <<>> /\ i = 1 /\ TurnIds = {} /\ AllIds(bufs) = {}
  BY <1>1, BetweenTurns, IdsOfNone
<1>4. Numbers'
  BY <1>1 DEF RecvInv, Numbers
<1>5. QueueOK' /\ PendOK' /\ Marked(rq')
  BY <1>1, NothingYet DEF RecvInv, QueueOK, PendOK
<1>6. pend # NoPend => gro /\ HasGro
  <2>1. pend # NoPend => gro
    BY <1>1 DEF RecvInv, GroOK
  <2> QED
    BY <2>1 DEF RecvInv, GroOK
<1>7. GroOK'
  <2>1. ~HasGro => rearm_in = 0
    BY DEF RecvInv, GroOK
  <2> QED
    BY <1>1, <1>2, <1>5, <1>6, <2>1 DEF GroOK
<1>8. TurnOK'
  BY <1>1 DEF RecvInv, TurnOK, AllSound, Sound
<1>9. RoomOK'
  BY <1>1 DEF RecvInv, RoomOK
<1>10. InStep'
  <2>1. i' > Len(bufs') /\ pc' = "recv"
    BY <1>1, <1>3
  <2> QED
    BY <2>1 DEF InStep
<1>11. PendIds' = PendIds
  <2>1. CASE pend = NoPend
    BY <1>1, <2>1, NothingYet DEF PendIds, NoPend
  <2>2. CASE pend # NoPend
    BY <1>1, <1>6, <2>2 DEF PendIds
  <2> QED
    BY <2>1, <2>2
<1>12. QueueIds' = {} /\ TurnIds' = {} /\ AllIds(bufs') = {}
  BY <1>1, <1>3, QueueIdsAre, IdsOfNone DEF TurnIds
<1>13. Ordered'
  BY <1>12 DEF Ordered, Below
<1>14. NonePassedOver'
  <2>1. settled \cup Held = 1..seq /\ settled \cap Held = {} /\ Held = QueueIds \cup PendIds
    BY <1>3 DEF RecvInv, NonePassedOver, Held
  <2>2. PendIds \subseteq Nat
    <3>1. PendIds \subseteq 1..seq /\ seq \in Nat
      BY <2>1 DEF RecvInv, Numbers
    <3> QED
      BY <3>1
  <2>3. PendIds \cap QueueIds = {}
    BY <2>2, Apart DEF RecvInv, Ordered
  <2>4. Held' = PendIds
    BY <1>11, <1>12 DEF Held
  <2> QED
    BY <1>1, <2>1, <2>3, <2>4 DEF NonePassedOver
<1> QED
  BY <1>4, <1>5, <1>7, <1>8, <1>9, <1>10, <1>13, <1>14 DEF RecvInv

(* Every step of the thread, the kernel and the other direction keeps it.  *)
LEMMA RecvInvNext == RecvInv /\ [Next]_vars => RecvInv'
<1> SUFFICES ASSUME RecvInv, [Next]_vars PROVE RecvInv'
  OBVIOUS
<1>1. CASE UNCHANGED vars
  BY <1>1, RecvStays DEF vars, world, turn, send, ghost, RecvInv, Numbers
<1>2. ASSUME NEW k \in Kinds, NEW n \in Lens \cup {HsLen}, NEW d \in Dests, Arrive(k, n, d)
      PROVE  RecvInv'
  BY <1>2, Arrives
<1>3. CASE ClientSeen
  <2>1. /\ UNCHANGED <<mode, seq, rq, recv, bufs, i, settled, glued>> /\ has_client' = TRUE
        /\ pc' = pc /\ iov' = iov
    BY <1>3 DEF ClientSeen, turn, send, ghost
  <2> QED
    BY <2>1, RecvStays
<1>4. CASE OtherGsoOff
  <2>1. /\ UNCHANGED <<mode, seq, rq, recv, bufs, i, settled, glued>> /\ has_client' = has_client
        /\ pc' = pc /\ iov' = iov
    BY <1>4 DEF OtherGsoOff, world, turn, ghost
  <2>2. has_client' \in BOOLEAN
    BY <2>1 DEF RecvInv, Numbers
  <2> QED
    BY <2>1, <2>2, RecvStays
<1>5. CASE RecvGro
  BY <1>5, GroRead
<1>6. CASE DrainPend
  BY <1>6, PendRead
<1>7. CASE Rearm
  BY <1>7, GroAgain
<1>8. CASE RecvMmsg
  BY <1>8, MmsgRead
<1>24. CASE Reconnect
  BY <1>24, DialsAgain
<1>9. CASE NoSocket
  BY <1>9, TurnDropped
<1>10. ASSUME Packets PROVE /\ pc = "walk" /\ i <= Len(bufs) /\ ~AtEnd
                            /\ UNCHANGED <<mode, rq, gro, seq, has_client, udp_gro, no_coalesce>>
                            /\ UNCHANGED <<rearm_in, rearm_gap, glued>>
  <2>1. pc = "walk" /\ ~AtEnd /\ ~(i > Len(bufs))
    BY <1>10 DEF Packets, Walk, AtEnd
  <2>2. i \in Nat /\ Len(bufs) \in Nat
    BY DEF RecvInv, TurnOK, GoodRow
  <2> QED
    BY <1>10, <2>1, <2>2 DEF Packets, Walk, world
<1>11. ASSUME Packets, NEW at \in Nat, Enqueue(at) PROVE RecvInv'
  <2>1. StepOf /\ pc' = pc /\ Settle(Ids(bufs[i]))
    BY <1>10, <1>11 DEF Enqueue, StepOf
  <2> DEFINE e == [at |-> at, len |-> Len(bufs[i]), to |-> To]
  <2>2. e \in [at : Nat, len : Nat, to : Dests]
    <3>1. bufs[i] \in Seq(Met(mode)) /\ bufs[i] # <<>>
      <4>1. GoodRow(Met(mode), bufs) /\ i \in 1..Len(bufs)
        BY <1>10, <1>11 DEF RecvInv, TurnOK
      <4>2. bufs \in Seq(Seq(Met(mode)))
        BY <4>1 DEF GoodRow
      <4> QED
        BY <4>1, <4>2, ElementOfSeq DEF GoodRow
    <3>2. Len(bufs[i]) \in Nat /\ 1 \in 1..Len(bufs[i])
      BY <3>1
    <3>3. bufs[i][1] \in Met(mode)
      BY <3>1, <3>2, ElementOfSeq
    <3>4. To \in Dests
      BY <3>3, PacketIs DEF To
    <3> QED
      BY <3>2, <3>4
  <2>3. iov' = Append(iov, e)
    BY <1>11 DEF Enqueue
  <2> HIDE DEF e
  <2>4. \E x \in [at : Nat, len : Nat, to : Dests] : iov' = Append(iov, x)
    BY <2>2, <2>3
  <2> QED
    BY <1>10, <1>11, <2>1, <2>4, PacketTaken
<1>12. CASE Transport
  <2>1. Packets /\ Enqueue(i) /\ i \in Nat
    BY <1>12 DEF Transport, RecvInv, TurnOK
  <2> QED
    BY <1>11, <2>1
<1>13. CASE Flush
  <2>1. Packets /\ StartSend /\ pend' = pend /\ iov' = iov /\ settled' = settled
    BY <1>13 DEF Flush
  <2>2. /\ UNCHANGED <<mode, seq, rq, recv, bufs, i, settled, glued>> /\ has_client' = has_client
        /\ pc # "recv" /\ pc' = "send" /\ iov' = iov
    BY <1>10, <2>1 DEF StartSend, turn, recv
  <2>3. has_client' \in BOOLEAN
    BY <2>2 DEF RecvInv, Numbers
  <2> QED
    BY <2>2, <2>3, RecvStays
<1>14. CASE Handshake
  <2>1. Packets /\ (Enqueue(0) \/ Enqueue(i)) /\ i \in Nat /\ 0 \in Nat
    BY <1>14 DEF Handshake, RecvInv, TurnOK
  <2> QED
    BY <1>11, <2>1
<1>15. ASSUME Packets, Advance, Settle(Ids(bufs[i])), UNCHANGED <<pc, bufs, iov>> PROVE RecvInv'
  <2>1. StepOf
    BY <1>10, <1>15 DEF StepOf
  <2> QED
    BY <1>10, <1>15, <2>1, PacketTaken
<1>16. CASE SendInit
  BY <1>15, <1>16 DEF SendInit
<1>17. CASE Discard
  BY <1>15, <1>17 DEF Discard
<1>18. CASE EndTurn
  <2>1. /\ UNCHANGED <<mode, seq, rq, recv, has_client, settled, glued>> /\ iov' = iov /\ AtEnd
        /\ pc = "walk" /\ IF iov = <<>> THEN Recv ELSE StartSend
    BY <1>18 DEF EndTurn, Walk, world, recv
  <2>2. CASE iov = <<>>
    BY <2>1, <2>2, TurnOver
  <2>3. CASE iov # <<>>
    <3>1. bufs' = bufs /\ i' = i /\ pc' = "send" /\ pc # "recv"
      BY <2>1, <2>3 DEF StartSend, turn
    <3>2. has_client' \in BOOLEAN
      BY <2>1 DEF RecvInv, Numbers
    <3> QED
      BY <2>1, <3>1, <3>2, RecvStays
  <2> QED
    BY <2>2, <2>3
<1>19. ASSUME Sending PROVE RecvInv'
  <2>1. /\ UNCHANGED <<mode, seq, rq, recv, bufs, i, settled, glued>> /\ has_client' = has_client
        /\ pc' = pc /\ iov' = iov
    BY <1>19 DEF Sending, world, turn
  <2>2. has_client' \in BOOLEAN
    BY <2>1 DEF RecvInv, Numbers
  <2> QED
    BY <2>1, <2>2, RecvStays
<1>20. CASE GsoSend
  BY <1>19, <1>20 DEF GsoSend
<1>21. CASE GsoRefused
  BY <1>19, <1>21 DEF GsoRefused
<1>22. CASE MmsgSend
  BY <1>19, <1>22 DEF MmsgSend
<1>23. CASE SendDone
  <2>1. /\ UNCHANGED <<mode, seq, rq, recv, has_client, settled, glued>> /\ iov' = <<>>
        /\ pc = "send" /\ IF AtEnd THEN Recv ELSE pc' = "walk" /\ UNCHANGED turn
    BY <1>23 DEF SendDone, world, ghost
  <2>2. CASE AtEnd
    BY <2>1, <2>2, TurnOver
  <2>3. CASE ~AtEnd
    <3>1. bufs' = bufs /\ i' = i /\ pc' = "walk" /\ pc # "recv"
      BY <2>1, <2>3 DEF turn
    <3>2. has_client' \in BOOLEAN
      BY <2>1 DEF RecvInv, Numbers
    <3> QED
      BY <2>1, <3>1, <3>2, RecvStays
  <2> QED
    BY <2>2, <2>3
<1> QED
  BY <1>1, <1>2, <1>3, <1>4, <1>5, <1>6, <1>7, <1>8, <1>9, <1>12, <1>13, <1>14, <1>16, <1>17, <1>18,
     <1>20, <1>21, <1>22, <1>23, <1>24 DEF Next, Thread

(* What the receive queue, gro_pend, the packet buffers and the send batch *)
(* hold fits together in every loop, whatever the order in which packets   *)
(* arrive, reads are split, GRO is given up and tried again, batches fill  *)
(* and sends fail.                                                         *)
THEOREM RecvInvariant == Spec => []RecvInv
<1>1. Init => RecvInv
  BY RecvInvInit
<1>2. RecvInv /\ [Next]_vars => RecvInv'
  BY RecvInvNext
<1> QED
  BY <1>1, <1>2, PTL DEF Spec

(* No packet disappears between the socket and the send batch, and none is *)
(* in two places: a batch that fills in the middle of a coalesced read     *)
(* (gro_pend), GRO given up with joined buffers still queued, recvmmsg's   *)
(* cut and a turn that finds no socket all leave each packet held once or  *)
(* accounted for once.                                                     *)
THEOREM NonePassedOverAlways == Spec => []NonePassedOver
<1>1. RecvInv => NonePassedOver
  BY DEF RecvInv
<1> QED
  BY <1>1, RecvInvariant, PTL

-----------------------------------------------------------------------------
(* A segmented send: what is joined is cut at the same places again.       *)

(* Packets of one length, the last one possibly shorter.                   *)
Even(ss, s) ==
    /\ \A j \in 1..Len(ss) : Len(ss[j]) \in 1..s
    /\ \A j \in 1..Len(ss) : j < Len(ss) => Len(ss[j]) = s

(* The first n of them, joined.                                            *)
Joint(ss, s, n) ==
    [x \in 1..Start(n - 1, s) + Len(ss[n]) |->
        ss[Up(x, s)][x - Start(Up(x, s) - 1, s)]]

LEMMA UpAt ==
    ASSUME NEW s \in Nat \ {0}, NEW m \in Nat, NEW b \in 1..s
    PROVE  Up(Start(m, s) + b, s) = m + 1
<1> DEFINE a == Start(m, s) + b
<1>1. Start(m, s) \in Nat
  BY StartIs
<1>2. a \in Nat \ {0} /\ Start(m, s) < a /\ a <= Start(m, s) + s
  BY <1>1
<1> HIDE DEF a
<1>3. Up(a, s) \in Nat \ {0} /\ a <= Start(Up(a, s), s) /\ \A j \in Nat : j < Up(a, s) => Start(j, s) < a
  BY <1>2, UpIs
<1> DEFINE u == Up(a, s)
<1>4. u \in Nat \ {0} /\ a <= Start(u, s) /\ \A j \in Nat : j < u => Start(j, s) < a
  BY <1>3
<1> HIDE DEF u
<1>5. Start(u, s) \in Nat
  BY <1>4, StartIs
<1>6. Start(m + 1, s) = Start(m, s) + s
  BY StartNext
<1>7. ~(u < m + 1)
  <2> SUFFICES ASSUME u < m + 1 PROVE FALSE
    OBVIOUS
  <2>1. u = m \/ u < m
    BY <1>4
  <2>2. CASE u = m
    BY <1>1, <1>2, <1>4, <2>2
  <2>3. CASE u < m
    <3>1. Start(u, s) + s <= Start(m, s)
      BY <1>4, <2>3, StartsGrow
    <3> QED
      BY <1>1, <1>2, <1>4, <1>5, <3>1
  <2> QED
    BY <2>1, <2>2, <2>3
<1>8. ~(m + 1 < u)
  <2> SUFFICES ASSUME m + 1 < u PROVE FALSE
    OBVIOUS
  <2>1. Start(m + 1, s) < a
    BY <1>4
  <2> QED
    BY <1>1, <1>2, <1>6, <2>1
<1>9. u = m + 1
  BY <1>4, <1>7, <1>8
<1> QED
  BY <1>9 DEF u, a

(* Where the joined bytes come from.                                       *)
LEMMA JointIs ==
    ASSUME NEW S, NEW ss \in Seq(Seq(S)), NEW s \in Nat \ {0}, Even(ss, s), NEW n \in 1..Len(ss)
    PROVE  /\ Joint(ss, s, n) \in Seq(S) /\ Len(Joint(ss, s, n)) = Start(n - 1, s) + Len(ss[n])
           /\ \A m \in Nat, b \in 1..s : m < n /\ b <= Len(ss[m + 1]) =>
                Joint(ss, s, n)[Start(m, s) + b] = ss[m + 1][b]
<1> DEFINE L == Start(n - 1, s) + Len(ss[n])
           J == Joint(ss, s, n)
<1>1. /\ Len(ss) \in Nat /\ n - 1 \in Nat /\ Start(n - 1, s) \in Nat
      /\ \A j \in 1..Len(ss) : ss[j] \in Seq(S) /\ Len(ss[j]) \in 1..s /\ (j < Len(ss) => Len(ss[j]) = s)
  <2>1. Len(ss) \in Nat /\ n - 1 \in Nat
    OBVIOUS
  <2>2. Start(n - 1, s) \in Nat
    BY <2>1, StartIs
  <2>3. \A j \in 1..Len(ss) : ss[j] \in Seq(S)
    BY ElementOfSeq
  <2> QED
    BY <2>1, <2>2, <2>3 DEF Even
<1>2. L \in Nat /\ DOMAIN J = 1..L /\ L <= Start(n - 1, s) + s
  BY <1>1 DEF Joint
<1>3. ASSUME NEW m \in Nat, NEW b \in 1..s, m < n, b <= Len(ss[m + 1])
      PROVE  /\ Start(m, s) + b \in 1..L /\ J[Start(m, s) + b] = ss[m + 1][b]
  <2>1. Start(m, s) \in Nat
    BY StartIs
  <2>2. Start(m, s) + b \in 1..L
    <3>1. CASE m = n - 1
      <4>1. Start(m, s) = Start(n - 1, s) /\ m + 1 = n
        BY <3>1
      <4>2. b <= Len(ss[n]) /\ Len(ss[n]) \in Nat
        BY <1>1, <1>3, <4>1
      <4> DEFINE e == Len(ss[n])
                 z == Start(n - 1, s)
      <4>3. b <= e /\ e \in Nat /\ z \in Nat /\ Start(m, s) = z /\ L = z + e
        BY <1>1, <4>1, <4>2
      <4> HIDE DEF e, z, L
      <4>4. z + b \in 1..L
        BY <4>3
      <4> QED
        BY <4>3, <4>4
    <3>2. CASE m # n - 1
      <4>1. m < n - 1
        BY <1>1, <1>3, <3>2
      <4>2. Start(m, s) + s <= Start(n - 1, s)
        BY <1>1, <4>1, StartsGrow
      <4> DEFINE e == Len(ss[n])
                 z == Start(n - 1, s)
                 y == Start(m, s)
      <4>3. e \in Nat /\ z \in Nat /\ y \in Nat /\ y + s <= z /\ L = z + e
        BY <1>1, <2>1, <4>2
      <4> HIDE DEF e, z, y, L
      <4>4. y + b \in 1..L
        BY <4>3
      <4> QED
        BY <4>4 DEF y
    <3> QED
      BY <3>1, <3>2
  <2>3. Up(Start(m, s) + b, s) = m + 1
    BY UpAt
  <2>4. (m + 1) - 1 = m /\ (Start(m, s) + b) - Start(m, s) = b
    BY <2>1
  <2> HIDE DEF L
  <2> DEFINE x == Start(m, s) + b
  <2>5. x \in 1..L /\ Up(x, s) = m + 1 /\ x - Start((m + 1) - 1, s) = b
    BY <2>2, <2>3, <2>4
  <2> HIDE DEF x
  <2>6. J[x] = ss[Up(x, s)][x - Start(Up(x, s) - 1, s)]
    BY <2>5 DEF Joint, L
  <2>7. J[x] = ss[m + 1][b]
    BY <2>5, <2>6
  <2> QED
    BY <2>2, <2>7 DEF x
<1>4. ASSUME NEW x \in 1..L PROVE J[x] \in S
  <2>1. x \in Nat \ {0}
    BY <1>2
  <2>2. PICK m \in Nat, b \in 1..s : x = Start(m, s) + b
    BY <2>1, Place
  <2>3. Start(m, s) \in Nat
    BY StartIs
  <2>4. m < n
    <3> SUFFICES ASSUME ~(m < n) PROVE FALSE
      OBVIOUS
    <3>1. n - 1 < m
      BY <1>1
    <3>2. Start(n - 1, s) + s <= Start(m, s)
      BY <1>1, <3>1, StartsGrow
    <3> QED
      BY <1>1, <1>2, <2>2, <2>3, <3>2
  <2>5. m + 1 \in 1..Len(ss) /\ ss[m + 1] \in Seq(S) /\ Len(ss[m + 1]) \in 1..s
    BY <1>1, <2>4
  <2>6. b <= Len(ss[m + 1])
    <3>1. CASE m = n - 1
      <4>1. m + 1 = n
        BY <3>1
      <4> QED
        BY <1>1, <2>2, <2>3, <3>1, <4>1
    <3>2. CASE m # n - 1
      <4>1. m + 1 < Len(ss)
        BY <1>1, <2>4, <3>2
      <4> QED
        BY <1>1, <2>5, <4>1
    <3> QED
      BY <3>1, <3>2
  <2>7. J[x] = ss[m + 1][b]
    BY <1>3, <2>2, <2>4, <2>6
  <2>8. b \in 1..Len(ss[m + 1])
    BY <2>5, <2>6
  <2> QED
    BY <2>5, <2>7, <2>8, ElementOfSeq
<1>5. J = [x \in 1..L |-> J[x]]
  BY DEF Joint
<1> HIDE DEF L, J
<1>6. J \in Seq(S) /\ Len(J) = L
  <2>1. J \in [1..L -> S]
    BY <1>4, <1>5
  <2> QED
    BY <1>2, <2>1
<1> QED
  BY <1>3, <1>6 DEF L, J

LEMMA JointNext ==
    ASSUME NEW S, NEW ss \in Seq(Seq(S)), NEW s \in Nat \ {0}, Even(ss, s), NEW n \in 1..Len(ss)
    PROVE  Joint(ss, s, n) = IF n = 1 THEN ss[n] ELSE Joint(ss, s, n - 1) \o ss[n]
<1>1. Len(ss) \in Nat /\ ss[n] \in Seq(S) /\ Len(ss[n]) \in 1..s /\ n \in Nat
  BY ElementOfSeq DEF Even
<1> DEFINE J == Joint(ss, s, n)
<1>2. /\ J \in Seq(S) /\ Len(J) = Start(n - 1, s) + Len(ss[n])
      /\ \A m \in Nat, b \in 1..s : m < n /\ b <= Len(ss[m + 1]) => J[Start(m, s) + b] = ss[m + 1][b]
  BY JointIs
<1> HIDE DEF J
<1>3. CASE n = 1
  <2>1. Start(0, s) = 0 /\ 0 \in Nat /\ 0 + 1 = n /\ n - 1 = 0 /\ 0 < n
    BY <1>3, StartFirst
  <2>2. Len(J) = Len(ss[n])
    BY <1>1, <1>2, <2>1
  <2>3. ASSUME NEW b \in 1..Len(ss[n]) PROVE J[b] = ss[n][b]
    <3>1. b \in 1..s /\ b <= Len(ss[0 + 1])
      BY <1>1, <2>1
    <3>2. J[Start(0, s) + b] = ss[0 + 1][b]
      BY <1>2, <2>1, <3>1
    <3>3. Start(0, s) + b = b
      BY <2>1
    <3> QED
      BY <2>1, <3>2, <3>3
  <2>4. J = ss[n]
    BY <1>1, <1>2, <2>2, <2>3, SeqEqual
  <2> QED
    BY <1>3, <2>4 DEF J
<1>4. CASE n # 1
  <2> DEFINE K == Joint(ss, s, n - 1)
             t == ss[n]
  <2>1. n - 1 \in 1..Len(ss) /\ (n - 1) - 1 \in Nat /\ n - 1 \in Nat /\ n - 1 > 0
    BY <1>1, <1>4
  <2>2. /\ K \in Seq(S) /\ Len(K) = Start((n - 1) - 1, s) + Len(ss[n - 1])
        /\ \A m \in Nat, b \in 1..s : m < n - 1 /\ b <= Len(ss[m + 1]) => K[Start(m, s) + b] = ss[m + 1][b]
    <3> DEFINE k == n - 1
    <3>1. k \in 1..Len(ss)
      BY <2>1
    <3> HIDE DEF k
    <3>2. /\ Joint(ss, s, k) \in Seq(S) /\ Len(Joint(ss, s, k)) = Start(k - 1, s) + Len(ss[k])
          /\ \A m \in Nat, b \in 1..s : m < k /\ b <= Len(ss[m + 1]) => Joint(ss, s, k)[Start(m, s) + b] = ss[m + 1][b]
      BY <1>1, <3>1, JointIs, SMTT(60)
    <3> QED
      BY <3>2 DEF k
  <2> HIDE DEF K, t
  <2>3. Len(K) = Start(n - 1, s)
    <3>1. Len(ss[n - 1]) = s
      BY <1>1, <2>1 DEF Even
    <3>2. Start((n - 1) - 1, s) + s = Start(n - 1, s)
      BY <2>1, StartNext
    <3> QED
      BY <2>2, <3>1, <3>2
  <2>4. t \in Seq(S) /\ Len(t) \in 1..s /\ Len(J) = Len(K) + Len(t)
    BY <1>1, <1>2, <2>3 DEF t
  <2>5. /\ K \o t \in Seq(S) /\ Len(K \o t) = Len(K) + Len(t)
        /\ \A x \in 1..Len(K) + Len(t) : (K \o t)[x] = IF x <= Len(K) THEN K[x] ELSE t[x - Len(K)]
    <3>1. K \in Seq(S)
      BY <2>2
    <3>2. t \in Seq(S)
      BY <2>4
    <3> QED
      BY <3>1, <3>2, ConcatProperties
  <2>6. ASSUME NEW x \in 1..Len(J) PROVE J[x] = (K \o t)[x]
    <3>0. Len(K) \in Nat
      <4>1. K \in Seq(S)
        BY <2>2
      <4> QED
        BY <4>1
    <3>1. x \in Nat \ {0} /\ Len(K) \in Nat /\ Len(t) \in Nat
      BY <2>4, <3>0
    <3>2. PICK m \in Nat, b \in 1..s : x = Start(m, s) + b
      BY <3>1, Place
    <3>3. Start(m, s) \in Nat /\ Start(n - 1, s) \in Nat
      BY <2>1, StartIs
    <3>4. m < n
      <4> SUFFICES ASSUME ~(m < n) PROVE FALSE
        OBVIOUS
      <4>1. n - 1 < m
        BY <1>1
      <4>2. Start(n - 1, s) + s <= Start(m, s)
        BY <2>1, <4>1, StartsGrow
      <4> QED
        BY <2>3, <2>4, <3>2, <3>3, <4>2
    <3>5. CASE m = n - 1
      <4>1. Start(m, s) = Start(n - 1, s) /\ m + 1 = n
        BY <1>1, <3>5
      <4>2. b = x - Len(K) /\ ~(x <= Len(K)) /\ b <= Len(t)
        BY <2>3, <2>4, <3>1, <3>2, <3>3, <4>1
      <4>3. (K \o t)[x] = t[b]
        BY <2>4, <2>5, <4>2
      <4>4. J[x] = ss[m + 1][b]
        BY <1>2, <3>2, <3>4, <4>1, <4>2 DEF t
      <4> QED
        BY <4>1, <4>3, <4>4 DEF t
    <3>6. CASE m # n - 1
      <4>1. m < n - 1 /\ m + 1 \in 1..Len(ss) /\ m + 1 < Len(ss)
        BY <1>1, <3>4, <3>6
      <4>2. Len(ss[m + 1]) = s /\ b <= s
        BY <4>1 DEF Even
      <4>3. Start(m, s) + s <= Start(n - 1, s)
        BY <2>1, <4>1, StartsGrow
      <4>4. x <= Len(K)
        BY <2>3, <3>2, <3>3, <4>3
      <4>5. (K \o t)[x] = K[x]
        BY <2>4, <2>5, <4>4
      <4>6. J[x] = ss[m + 1][b]
        <5>1. J[Start(m, s) + b] = ss[m + 1][b]
          BY <1>2, <3>4, <4>2
        <5> QED
          BY <3>2, <5>1
      <4>7. K[x] = ss[m + 1][b]
        <5>1. K[Start(m, s) + b] = ss[m + 1][b]
          BY <2>2, <4>1, <4>2
        <5> QED
          BY <3>2, <5>1
      <4> QED
        BY <4>5, <4>6, <4>7
    <3> QED
      BY <3>5, <3>6
  <2>7. J = K \o t
    BY <1>2, <2>4, <2>5, <2>6, SeqEqual
  <2> QED
    BY <1>4, <2>7 DEF J, K, t
<1> QED
  BY <1>3, <1>4

(* FlattenSeq, which is a recursive function, is Joint.                    *)
LEMMA FlattenIs ==
    ASSUME NEW S, NEW ss \in Seq(Seq(S)), ss # <<>>, NEW s \in Nat \ {0}, Even(ss, s)
    PROVE  FlattenSeq(ss) = Joint(ss, s, Len(ss))
<1> DEFINE D == 1..Len(ss)
           Eqn(f) == f = [n \in D |-> IF n = 1 THEN ss[n] ELSE f[n - 1] \o ss[n]]
           g == [n \in D |-> Joint(ss, s, n)]
           h == CHOOSE f : Eqn(f)
<1>1. Len(ss) \in Nat /\ Len(ss) # 0 /\ Len(ss) \in D
  OBVIOUS
<1>2. \A n \in D : Joint(ss, s, n) = IF n = 1 THEN ss[n] ELSE Joint(ss, s, n - 1) \o ss[n]
  BY JointNext
<1>3. Eqn(g)
  <2>1. ASSUME NEW n \in D PROVE g[n] = IF n = 1 THEN ss[n] ELSE g[n - 1] \o ss[n]
    <3>1. CASE n = 1
      BY <1>2, <3>1
    <3>2. CASE n # 1
      <4>1. n - 1 \in D
        BY <1>1, <3>2
      <4>2. g[n] = Joint(ss, s, n) /\ g[n - 1] = Joint(ss, s, n - 1)
        BY <4>1
      <4>3. Joint(ss, s, n) = Joint(ss, s, n - 1) \o ss[n]
        BY <1>2, <3>2
      <4> QED
        BY <3>2, <4>2, <4>3
    <3> QED
      BY <3>1, <3>2
  <2>2. g = [n \in D |-> g[n]]
    OBVIOUS
  <2> QED
    BY <2>1, <2>2
<1>4. Eqn(h)
  <2> HIDE DEF Eqn, g
  <2> QED
    BY <1>3
<1>5. \A n \in D : h[n] = IF n = 1 THEN ss[n] ELSE h[n - 1] \o ss[n]
  <2> HIDE DEF h
  <2> QED
    BY <1>4
<1>6. FlattenSeq(ss) = h[Len(ss)]
  BY <1>1, Zenon DEF FlattenSeq
<1> HIDE DEF h
<1>7. \A n \in D : h[n] = Joint(ss, s, n)
  <2> DEFINE T == {n \in D : h[n] # Joint(ss, s, n)}
  <2> SUFFICES ASSUME T # {} PROVE FALSE
    OBVIOUS
  <2>1. T \subseteq Nat
    OBVIOUS
  <2>2. PICK n \in T : \A y \in T : n <= y
    <3> HIDE DEF T
    <3> QED
      BY <2>1, LeastNat
  <2>3. n \in D /\ h[n] # Joint(ss, s, n) /\ n # 1
    BY <1>2, <1>5, <2>2
  <2>4. n - 1 \in D /\ ~(n <= n - 1)
    BY <1>1, <2>3
  <2>5. h[n - 1] = Joint(ss, s, n - 1)
    BY <2>2, <2>4
  <2> QED
    BY <1>2, <1>5, <2>3, <2>5
<1> QED
  BY <1>1, <1>6, <1>7

LEMMA StartAtLeast ==
    ASSUME NEW m \in Nat, NEW s \in Nat \ {0}
    PROVE  m <= Start(m, s)
<1>1. PICK k \in Nat : s = 1 + k
  <2>1. s - 1 \in Nat /\ s = 1 + (s - 1)
    OBVIOUS
  <2> QED
    BY <2>1
<1>2. m * (1 + k) = m + m * k /\ m * k \in Nat
  OBVIOUS
<1> QED
  BY <1>1, <1>2 DEF Start

(* The kernel cuts what send_gso joined where it was joined.               *)
LEMMA CutAgain ==
    ASSUME NEW S, NEW ss \in Seq(Seq(S)), ss # <<>>, NEW s \in Nat \ {0}, Even(ss, s), NEW all,
           all = FlattenSeq(ss)
    PROVE  Segments(all, 0, s, Len(all)) = ss
<1> DEFINE n == Len(ss)
           e == Len(ss[n])
           L == Len(all)
<1>1. n \in Nat \ {0} /\ n \in 1..n /\ e \in 1..s /\ n - 1 \in Nat
  <2>1. n \in Nat \ {0} /\ n \in 1..n /\ n - 1 \in Nat
    OBVIOUS
  <2> QED
    BY <2>1 DEF Even
<1>2. /\ all \in Seq(S) /\ L = Start(n - 1, s) + e
      /\ \A m \in Nat, b \in 1..s : m < n /\ b <= Len(ss[m + 1]) => all[Start(m, s) + b] = ss[m + 1][b]
  <2>1. all = Joint(ss, s, n)
    BY FlattenIs
  <2>2. n \in 1..Len(ss)
    BY <1>1
  <2> HIDE DEF n
  <2> QED
    BY <2>1, <2>2, JointIs DEF n
<1>3. \A j \in 1..n : ss[j] \in Seq(S) /\ Len(ss[j]) \in 1..s /\ (j < n => Len(ss[j]) = s)
  BY ElementOfSeq DEF Even
<1> HIDE DEF n, e, L
<1>4. Start(n - 1, s) \in Nat /\ n - 1 <= Start(n - 1, s)
  BY <1>1, StartIs, StartAtLeast
<1>5. L \in Nat \ {0} /\ n <= L
  BY <1>1, <1>2, <1>4
<1>6. Up(L - 0, s) = n
  <2>1. Up(Start(n - 1, s) + e, s) = (n - 1) + 1
    BY <1>1, UpAt
  <2>2. L - 0 = Start(n - 1, s) + e /\ (n - 1) + 1 = n
    BY <1>1, <1>2, <1>4
  <2> QED
    BY <2>1, <2>2
<1>7. Min({L, Up(L - 0, s)}) = n
  <2>1. Min({L, n}) = n
    BY <1>1, <1>5, MinOfTwo
  <2> QED
    BY <1>6, <2>1
<1> DEFINE cs == Segments(all, 0, s, L)
<1>8. cs = [j \in 1..n |-> SubSeq(all, 0 + (j - 1) * s + 1, Min({0 + j * s, L}))]
  BY <1>7 DEF Segments, L
<1>9. ASSUME NEW j \in 1..n PROVE cs[j] = ss[j]
  <2> DEFINE a == Start(j - 1, s)
             f == Len(ss[j])
             z == Min({0 + j * s, L})
  <2>1. j \in Nat /\ j > 0 /\ j - 1 \in Nat /\ j <= n
    BY <1>1
  <2>2. a \in Nat /\ Start(j, s) = a + s /\ Start(j, s) \in Nat
    BY <2>1, StartIs, StartNext
  <2>3. 0 + (j - 1) * s + 1 = a + 1 /\ 0 + j * s = Start(j, s)
    <3>1. (j - 1) * s = a /\ j * s = Start(j, s)
      BY DEF Start
    <3> HIDE DEF a
    <3>2. 0 + a + 1 = a + 1 /\ 0 + Start(j, s) = Start(j, s)
      BY <2>2
    <3> QED
      BY <3>1, <3>2
  <2>4. ss[j] \in Seq(S) /\ f \in 1..s
    BY <1>3
  <2>5. z = a + f
    <3>1. z = IF Start(j, s) <= L THEN Start(j, s) ELSE L
      BY <1>5, <2>2, <2>3, MinOfTwo
    <3> HIDE DEF z
    <3>2. CASE j = n
      <4>1. a = Start(n - 1, s) /\ f = e
        BY <3>2 DEF e, n
      <4> HIDE DEF a, f
      <4> QED
        BY <1>1, <1>2, <2>2, <3>1, <4>1
    <3>3. CASE j # n
      <4>1. j < n /\ j <= n - 1
        BY <1>1, <2>1, <3>3
      <4>2. f = s
        BY <1>3, <4>1
      <4>3. Start(j, s) <= Start(n - 1, s)
        <5>1. CASE j = n - 1
          BY <1>4, <5>1
        <5>2. CASE j # n - 1
          <6>1. Start(j, s) + s <= Start(n - 1, s)
            BY <1>1, <2>1, <4>1, <5>2, StartsGrow
          <6> QED
            BY <1>4, <2>2, <6>1
        <5> QED
          BY <5>1, <5>2
      <4> HIDE DEF a, f
      <4>4. Start(j, s) <= L
        BY <1>1, <1>2, <1>4, <2>2, <4>3
      <4> QED
        BY <2>2, <3>1, <4>2, <4>4
    <3> QED
      BY <3>2, <3>3
  <2>6. cs[j] = SubSeq(all, a + 1, z)
    BY <1>8, <2>3
  <2>7. a + f <= L
    <3>1. z <= L
      <4>1. z = IF Start(j, s) <= L THEN Start(j, s) ELSE L
        BY <1>5, <2>2, <2>3, MinOfTwo
      <4> HIDE DEF z
      <4> QED
        BY <1>5, <2>2, <4>1
    <3> QED
      BY <2>5, <3>1
  <2> HIDE DEF a, f, z, cs
  <2>8. /\ SubSeq(all, a + 1, a + f) \in Seq(S)
        /\ Len(SubSeq(all, a + 1, a + f)) = f
        /\ \A x \in 1..f : SubSeq(all, a + 1, a + f)[x] = all[a + x]
    <3>1. \A x \in a + 1..a + f : all[x] \in S
      <4>1. \A x \in a + 1..a + f : x \in 1..L
        BY <1>5, <2>2, <2>4, <2>7
      <4> QED
        BY <1>2, <4>1, ElementOfSeq DEF L
    <3>2. a + 1 \in Int /\ a + f \in Int
      BY <2>2, <2>4
    <3>3. /\ SubSeq(all, a + 1, a + f) \in Seq(S)
          /\ Len(SubSeq(all, a + 1, a + f)) = IF a + 1 <= a + f THEN (a + f) - (a + 1) + 1 ELSE 0
          /\ \A x \in 1..(a + f) - (a + 1) + 1 : SubSeq(all, a + 1, a + f)[x] = all[a + 1 + x - 1]
      BY <3>1, <3>2, SubSeqProperties
    <3>4. (a + f) - (a + 1) + 1 = f /\ a + 1 <= a + f /\ \A x \in Int : a + 1 + x - 1 = a + x
      BY <2>2, <2>4
    <3>5. Len(SubSeq(all, a + 1, a + f)) = f
      BY <3>3, <3>4
    <3>6. \A x \in 1..f : SubSeq(all, a + 1, a + f)[x] = all[a + x]
      <4>1. \A x \in 1..f : x \in Int /\ x \in 1..(a + f) - (a + 1) + 1
        BY <3>4
      <4> QED
        BY <3>3, <3>4, <4>1
    <3> QED
      BY <3>3, <3>5, <3>6
  <2>9. ASSUME NEW x \in 1..f PROVE all[a + x] = ss[j][x]
    <3>1. (j - 1) + 1 = j /\ j - 1 < n /\ x \in 1..s /\ x <= f
      BY <1>1, <2>1, <2>4
    <3>2. x <= Len(ss[(j - 1) + 1])
      BY <3>1 DEF f
    <3>3. all[Start(j - 1, s) + x] = ss[(j - 1) + 1][x]
      BY <1>2, <2>1, <3>1, <3>2
    <3> QED
      BY <3>1, <3>3 DEF a
  <2>10. SubSeq(all, a + 1, a + f) = ss[j]
    <3> DEFINE u == SubSeq(all, a + 1, a + f)
               w == ss[j]
    <3>1. u \in Seq(S) /\ w \in Seq(S) /\ Len(u) = f /\ Len(w) = f /\ \A x \in 1..f : u[x] = w[x]
      BY <2>4, <2>8, <2>9 DEF f
    <3> HIDE DEF u, w
    <3>2. u = w
      BY <3>1, SeqEqual
    <3> QED
      BY <3>2 DEF u, w
  <2> QED
    BY <2>5, <2>6, <2>10
<1>10. ss = [j \in 1..n |-> ss[j]]
  BY DEF n
<1>11. cs = [j \in 1..n |-> cs[j]]
  BY <1>8
<1> HIDE DEF cs
<1>12. cs = ss
  BY <1>9, <1>10, <1>11
<1> QED
  BY <1>12 DEF cs, L

(* What the kernel makes of a run is what sendmmsg would have sent.        *)
LEMMA SlicedIsPlain ==
    ASSUME NEW S, NEW E, NEW v \in Seq(E), v # <<>>, NEW s \in Nat \ {0}, v[1].len = s,
           \A j \in 1..Len(v) : Content(v[j]) \in Seq(S) /\ v[j].to = v[1].to,
           Even([j \in 1..Len(v) |-> Content(v[j])], s)
    PROVE  Sliced(v) = Plain(v)
<1> DEFINE ss == [j \in 1..Len(v) |-> Content(v[j])]
           all == FlattenSeq(ss)
           cut == Segments(all, 0, v[1].len, Len(all))
<1>1. Len(v) \in Nat \ {0} /\ DOMAIN v = 1..Len(v)
  OBVIOUS
<1>2. ss \in Seq(Seq(S)) /\ ss # <<>> /\ DOMAIN ss = 1..Len(v)
  <2> DEFINE T == Seq(S)
  <2>1. ss \in [1..Len(v) -> T]
    OBVIOUS
  <2> HIDE DEF ss, T
  <2>2. ss \in Seq(T) /\ Len(ss) = Len(v) /\ DOMAIN ss = 1..Len(v)
    BY <1>1, <2>1, SMTT(60)
  <2>3. ss # <<>>
    BY <1>1, <2>2
  <2> QED
    BY <2>2, <2>3 DEF T
<1>3. Sliced(v) = [j \in DOMAIN cut |-> [bytes |-> cut[j], to |-> v[1].to]]
  BY DEF Sliced
<1>4. cut = ss
  <2> HIDE DEF ss
  <2>1. Segments(all, 0, s, Len(all)) = ss
    <3> DEFINE a == all
    <3>1. a = FlattenSeq(ss)
      OBVIOUS
    <3> HIDE DEF a
    <3>2. Even(ss, s)
      BY DEF ss
    <3>3. Segments(a, 0, s, Len(a)) = ss
      BY <1>2, <3>1, <3>2, CutAgain
    <3> QED
      BY <3>3 DEF a
  <2> QED
    BY <2>1
<1> HIDE DEF cut
<1>5. Sliced(v) = [j \in 1..Len(v) |-> [bytes |-> ss[j], to |-> v[1].to]]
  <2> HIDE DEF ss
  <2> QED
    BY <1>2, <1>3, <1>4
<1>6. \A j \in 1..Len(v) : ss[j] = Content(v[j]) /\ v[1].to = v[j].to
  OBVIOUS
<1> HIDE DEF ss
<1>7. Plain(v) = [j \in 1..Len(v) |-> [bytes |-> Content(v[j]), to |-> v[j].to]]
  BY <1>1 DEF Plain
<1> QED
  BY <1>5, <1>6, <1>7

-----------------------------------------------------------------------------
(* The inductive invariant of the sending side.                            *)

Entries == [at : Nat, len : Nat, to : Dests]

(* An entry whose handshake another one was written over is lost; its      *)
(* place is taken by that one.                                             *)
Kept(e) == Flushes \/ Content(e)[1].id \notin clobbered
Due(e)  == IF Kept(e) THEN Ids(Content(e)) ELSE {}

(* An entry of the send batch names a packet of this turn, of the length   *)
(* it had when it was put there and, unless it is lost, for the peer it    *)
(* was meant for.                                                          *)
EntryOK(e) ==
    /\ Content(e) \in Seq(Met(mode)) /\ Content(e) # <<>> /\ Sound(Content(e))
    /\ Ids(Content(e)) \subseteq 1..seq /\ e.len = Len(Content(e))
    /\ Kept(e) => e.to = Content(e)[1].to
    /\ e.at = 0 /\ ~HasGro => e.len = HsLen

BatchOK == \A k \in 1..Len(iov) : EntryOK(iov[k])

HsOK == hs_buf \in Seq(Met(mode)) /\ clobbered \subseteq 1..seq

(* What has left came before what is to leave, and that before what is     *)
(* still to be processed.                                                  *)
OrderOK ==
    /\ \A k, l \in 1..Len(iov) : k < l => Below(Due(iov[k]), Due(iov[l]))
    /\ \A k \in 1..Len(iov) : Below(Due(iov[k]), Held)
    /\ \A k \in 1..Len(iov) : sent < k => Below({top}, Due(iov[k]))
    /\ Below({top}, Held)

FlushOK ==
    /\ sent \in 0..Len(iov) /\ flushed \in 0..Batch /\ top \in 0..seq
    /\ err \in BOOLEAN /\ gso_ok \in BOOLEAN
    /\ pc = "send" => flushed = sent /\ (err => sent < Len(iov))
    /\ pc # "send" => sent = 0 /\ ~err
    /\ pc = "recv" => iov = <<>>

StatsOK == tx \in 0..Batch /\ drop \in 0..Batch /\ noted \in BOOLEAN

OutOK ==
    /\ out \in Seq([bytes : Seq(Met(mode)), to : Dests])
    /\ \A j \in 1..Len(out) :
          /\ out[j].bytes # <<>> /\ Sound(out[j].bytes)
          /\ out[j].to = out[j].bytes[1].to \/ Overwritten(out[j])

SendInv == BatchOK /\ HsOK /\ OrderOK /\ FlushOK /\ StatsOK /\ OutOK

(* The two loops without GRO never read what the kernel joined.            *)
Unjoined == ~HasGro => glued = {} /\ \A j \in 1..Len(rq) : ~rq[j].stuck

-----------------------------------------------------------------------------
(* Runs.                                                                   *)

LEMMA EqualRunIs ==
    ASSUME NEW E, NEW v \in Seq(E), v # <<>>
    PROVE  /\ EqualRun(v) \in 1..Len(v)
           /\ \A j \in 1..EqualRun(v) : v[j].len = v[1].len /\ Joinable(v[j], v[1])
<1> DEFINE T == {r \in 1..Min({Len(v), MaxSegs}) :
                    r = 1 \/ (r * v[1].len <= MaxBytes /\ \A j \in 2..r : v[j].len = v[1].len /\ Joinable(v[j], v[1]))}
           m == Min({Len(v), MaxSegs})
<1>1. Len(v) \in Nat \ {0} /\ MaxSegs \in Nat \ {0}
  BY BatchAssumption
<1>2. m = IF Len(v) <= MaxSegs THEN Len(v) ELSE MaxSegs
  BY <1>1, MinOfTwo
<1> HIDE DEF m
<1>3. m \in Nat \ {0} /\ m <= Len(v)
  BY <1>1, <1>2
<1>4. \A r \in T : r \in 1..m
  BY DEF m
<1>5. 1 \in T
  BY <1>3 DEF m
<1>6. \A r \in T : r = 1 \/ \A j \in 2..r : v[j].len = v[1].len /\ Joinable(v[j], v[1])
  OBVIOUS
<1>7. EqualRun(v) = Max(T)
  BY DEF EqualRun
<1> HIDE DEF T
<1>8. Max(T) \in T
  <2>1. T \subseteq Nat /\ T # {} /\ \A y \in T : y <= m
    BY <1>3, <1>4, <1>5
  <2> QED
    BY <1>3, <2>1, MaxIs
<1> DEFINE r == Max(T)
<1>9. r \in 1..m /\ (r = 1 \/ \A j \in 2..r : v[j].len = v[1].len /\ Joinable(v[j], v[1]))
  BY <1>4, <1>6, <1>8
<1> HIDE DEF r
<1>10. ASSUME NEW j \in 1..r PROVE v[j].len = v[1].len /\ Joinable(v[j], v[1])
  <2>1. j = 1 \/ (j \in 2..r /\ r # 1)
    BY <1>3, <1>9
  <2>2. Joinable(v[1], v[1])
    BY DEF Joinable
  <2> QED
    BY <1>9, <2>1, <2>2
<1>11. r \in 1..Len(v)
  BY <1>1, <1>3, <1>9
<1> QED
  BY <1>7, <1>10, <1>11 DEF r

(* gso_run_len: what may be joined can be cut apart again.                 *)
LEMMA RunIs ==
    ASSUME NEW v \in Seq(Entries), GsoRunLen(v) > 1
    PROVE  /\ GsoRunLen(v) \in 1..Len(v)
           /\ \A j \in 1..GsoRunLen(v) :
                 /\ Joinable(v[j], v[1]) /\ v[j].len <= v[1].len
                 /\ j < GsoRunLen(v) => v[j].len = v[1].len
<1> DEFINE r == EqualRun(v)
           tail == /\ r < Len(v) /\ r < MaxSegs /\ v[r + 1].len < v[1].len
                   /\ r * v[1].len + v[r + 1].len <= MaxBytes /\ Joinable(v[r + 1], v[1])
           run == IF tail THEN r + 1 ELSE r
           n == GsoRunLen(v)
<1>1. /\ n = IF Len(v) <= 1 \/ v[1].len > MaxBytes THEN 0 ELSE IF run > 1 THEN run ELSE 0
  BY DEF GsoRunLen
<1>2. n > 1
  OBVIOUS
<1> HIDE DEF n
<1>3. n = run /\ ~(Len(v) <= 1)
  <2> HIDE DEF run
  <2>1. ~(0 > 1)
    OBVIOUS
  <2> QED
    BY <1>1, <1>2, <2>1
<1>4. Len(v) \in Nat \ {0} /\ v # <<>> /\ \A j \in 1..Len(v) : v[j].len \in Nat
  <2>1. Len(v) \in Nat \ {0} /\ v # <<>>
    BY <1>3
  <2>2. \A j \in 1..Len(v) : v[j] \in Entries
    BY ElementOfSeq
  <2> QED
    BY <2>1, <2>2 DEF Entries
<1>5. r \in 1..Len(v) /\ \A j \in 1..r : v[j].len = v[1].len /\ Joinable(v[j], v[1])
  BY <1>4, EqualRunIs
<1> HIDE DEF r
<1>6. CASE tail
  <2>1. n = r + 1
    BY <1>3, <1>6
  <2>2. r < Len(v) /\ v[r + 1].len < v[1].len /\ Joinable(v[r + 1], v[1])
    BY <1>6
  <2> HIDE DEF run, tail
  <2>3. n \in 1..Len(v)
    BY <1>4, <1>5, <2>1, <2>2
  <2>4. \A j \in 1..n : j \in 1..r \/ j = r + 1
    BY <1>5, <2>1
  <2>5. \A j \in 1..n : j < n => j \in 1..r
    BY <1>5, <2>1
  <2>6. v[1].len \in Nat /\ v[r + 1].len \in Nat
    <3>1. 1 \in 1..Len(v) /\ r + 1 \in 1..Len(v)
      BY <1>4, <1>5, <2>2
    <3> QED
      BY <1>4, <3>1
  <2>7. v[r + 1].len <= v[1].len /\ v[1].len <= v[1].len
    BY <2>2, <2>6
  <2>8. ASSUME NEW j \in 1..n
        PROVE  Joinable(v[j], v[1]) /\ v[j].len <= v[1].len /\ (j < n => v[j].len = v[1].len)
    BY <1>5, <2>2, <2>4, <2>5, <2>7
  <2> QED
    BY <2>3, <2>8 DEF n
<1>7. CASE ~tail
  <2>1. n = r
    BY <1>3, <1>7
  <2> HIDE DEF run, tail
  <2>2. v[1].len \in Nat
    <3>1. 1 \in 1..Len(v)
      BY <1>4
    <3> QED
      BY <1>4, <3>1
  <2>3. v[1].len <= v[1].len
    BY <2>2
  <2>4. ASSUME NEW j \in 1..n
        PROVE  Joinable(v[j], v[1]) /\ v[j].len <= v[1].len /\ (j < n => v[j].len = v[1].len)
    BY <1>5, <2>1, <2>3
  <2> QED
    BY <1>5, <2>1, <2>4 DEF n
<1> QED
  BY <1>6, <1>7

(* What is left to send.                                                   *)
LEMMA RestIs ==
    ASSUME RecvInv, SendInv
    PROVE  /\ iov \in Seq(Entries) /\ Rest \in Seq(Entries) /\ Len(Rest) = Len(iov) - sent
           /\ sent \in Nat /\ sent <= Len(iov) /\ Len(iov) \in Nat /\ Len(iov) <= Batch
           /\ \A x \in 1..Len(Rest) : Rest[x] = iov[sent + x] /\ sent + x \in 1..Len(iov)
<1>1. iov \in Seq(Entries) /\ Len(iov) \in Nat /\ Len(iov) <= Batch
  BY DEF RecvInv, RoomOK, Entries
<1>2. sent \in Nat /\ sent <= Len(iov)
  BY <1>1 DEF SendInv, FlushOK
<1>3. /\ Rest \in Seq(Entries) /\ Len(Rest) = (IF sent <= Len(iov) THEN Len(iov) - sent ELSE 0)
      /\ \A x \in 1..Len(iov) - sent : Rest[x] = iov[sent + x]
  BY <1>1, <1>2, DropIs DEF Rest
<1>4. Len(Rest) = Len(iov) - sent
  BY <1>2, <1>3
<1>5. \A x \in 1..Len(Rest) : Rest[x] = iov[sent + x] /\ sent + x \in 1..Len(iov)
  BY <1>1, <1>2, <1>3, <1>4
<1> QED
  BY <1>1, <1>2, <1>3, <1>4, <1>5

LEMMA WantIs ==
    ASSUME RecvInv, SendInv, sent < Len(iov)
    PROVE  Want \in 1..Len(Rest)
<1>1. Len(Rest) \in Nat \ {0}
  <2>1. Len(Rest) = Len(iov) - sent /\ sent \in Nat /\ Len(iov) \in Nat
    BY RestIs
  <2> QED
    BY <2>1
<1>2. CASE ~gso_ok
  BY <1>1, <1>2 DEF Want
<1>3. CASE gso_ok
  <2> DEFINE T == {k \in 1..Len(Rest) : k = Len(Rest) \/ GsoRunLen(Drop(Rest, k)) > 0}
  <2>1. Want = Min(T)
    BY <1>3 DEF Want
  <2>2. T \subseteq 1..Len(Rest) /\ Len(Rest) \in T
    BY <1>1
  <2> HIDE DEF T
  <2>3. T \subseteq Nat /\ T # {}
    BY <2>2
  <2>4. Min(T) \in T
    BY <2>3, MinIs
  <2> QED
    BY <2>1, <2>2, <2>4
<1> QED
  BY <1>2, <1>3

(* The entries a send is given.                                            *)
LEMMA RowLeaves ==
    ASSUME RecvInv, SendInv, NEW r \in 1..Len(Rest)
    PROVE  /\ Cut(Rest, r) \in Seq(Entries) /\ Len(Cut(Rest, r)) = r
           /\ \A x \in 1..r : /\ Cut(Rest, r)[x] = iov[sent + x]
                              /\ sent + x \in 1..Len(iov) /\ EntryOK(Cut(Rest, r)[x])
<1>1. /\ Rest \in Seq(Entries) /\ Len(Rest) = Len(iov) - sent
      /\ \A x \in 1..Len(Rest) : Rest[x] = iov[sent + x] /\ sent + x \in 1..Len(iov)
  BY RestIs
<1> DEFINE v == Rest
<1> HIDE DEF v
<1>2. v \in Seq(Entries) /\ Len(v) \in Nat /\ r \in Nat /\ r <= Len(v)
  BY <1>1 DEF v
<1>3. /\ Cut(v, r) \in Seq(Entries) /\ Len(Cut(v, r)) = (IF r <= Len(v) THEN r ELSE Len(v))
      /\ \A x \in 1..Len(Cut(v, r)) : x \in 1..Len(v) /\ Cut(v, r)[x] = v[x]
  BY <1>2, CutIs
<1>4. Len(Cut(v, r)) = r
  BY <1>2, <1>3
<1>5. \A x \in 1..r : x \in 1..Len(Rest) /\ Cut(v, r)[x] = Rest[x]
  BY <1>3, <1>4 DEF v
<1>6. \A k \in 1..Len(iov) : EntryOK(iov[k])
  BY DEF SendInv, BatchOK
<1> QED
  BY <1>1, <1>3, <1>4, <1>5, <1>6 DEF v

LEMMA PlainIs ==
    ASSUME RecvInv, SendInv, NEW r \in 1..Len(Rest)
    PROVE  /\ Plain(Cut(Rest, r)) \in Seq([bytes : Seq(Met(mode)), to : Dests])
           /\ Len(Plain(Cut(Rest, r))) = r
           /\ \A x \in 1..r : /\ Plain(Cut(Rest, r))[x].bytes = Content(iov[sent + x])
                              /\ Plain(Cut(Rest, r))[x].to = iov[sent + x].to
<1> DEFINE c == Cut(Rest, r)
           W == [bytes : Seq(Met(mode)), to : Dests]
           ws == Plain(c)
<1>1. /\ c \in Seq(Entries) /\ Len(c) = r
      /\ \A x \in 1..r : c[x] = iov[sent + x] /\ EntryOK(c[x])
  BY RowLeaves
<1>2. r \in Nat
  OBVIOUS
<1> HIDE DEF c
<1>3. ws = [x \in 1..r |-> [bytes |-> Content(c[x]), to |-> c[x].to]]
  BY <1>1 DEF Plain
<1>4. \A x \in 1..r : Content(c[x]) \in Seq(Met(mode)) /\ c[x].to \in Dests
  <2>1. \A x \in 1..r : c[x] \in Entries
    BY <1>1, ElementOfSeq
  <2> QED
    BY <1>1, <2>1 DEF EntryOK, Entries
<1>5. ws \in [1..r -> W]
  BY <1>3, <1>4
<1>6. \A x \in 1..r : ws[x].bytes = Content(c[x]) /\ ws[x].to = c[x].to
  BY <1>3
<1> HIDE DEF ws, W
<1>7. ws \in Seq(W) /\ Len(ws) = r
  BY <1>2, <1>5
<1> QED
  BY <1>1, <1>6, <1>7 DEF ws, W, c

(* UDP_SEGMENT cuts where send_gso joined.                                 *)
LEMMA RunSliced ==
    ASSUME RecvInv, SendInv, Run > 1
    PROVE  Run \in 1..Len(Rest) /\ Sliced(Cut(Rest, Run)) = Plain(Cut(Rest, Run))
<1>1. Run = GsoRunLen(Rest) /\ GsoRunLen(Rest) > 1
  <2>1. ~(0 > 1)
    OBVIOUS
  <2> QED
    BY <2>1 DEF Run
<1>2. Rest \in Seq(Entries)
  BY RestIs
<1> DEFINE v == Rest
           r == Run
<1>3. /\ r \in 1..Len(v) /\ r > 1
      /\ \A j \in 1..r : /\ Joinable(v[j], v[1]) /\ v[j].len <= v[1].len
                         /\ j < r => v[j].len = v[1].len
  <2> HIDE DEF v
  <2>1. v \in Seq(Entries) /\ GsoRunLen(v) > 1 /\ r = GsoRunLen(v)
    BY <1>1, <1>2 DEF v
  <2> QED
    BY <2>1, RunIs
<1> HIDE DEF r
<1> DEFINE c == Cut(Rest, r)
<1>4. /\ c \in Seq(Entries) /\ Len(c) = r
      /\ \A x \in 1..r : c[x] = iov[sent + x] /\ EntryOK(c[x])
  BY <1>3, RowLeaves
<1>5. \A x \in 1..r : x \in 1..Len(Rest) /\ c[x] = Rest[x]
  <2>1. \A x \in 1..Len(Rest) : Rest[x] = iov[sent + x]
    BY RestIs
  <2>2. Len(Rest) \in Nat
    BY <1>2
  <2>3. \A x \in 1..r : x \in 1..Len(Rest)
    BY <1>3, <2>2
  <2> QED
    BY <1>4, <2>1, <2>3
<1>6. 1 \in 1..r /\ c # <<>>
  BY <1>3, <1>4
<1> HIDE DEF c
<1>7. \A x \in 1..r : /\ Joinable(c[x], c[1]) /\ c[x].len <= c[1].len
                      /\ x < r => c[x].len = c[1].len
  BY <1>3, <1>5, <1>6
<1> DEFINE s == c[1].len
           ss == [j \in 1..Len(c) |-> Content(c[j])]
<1>8. \A x \in 1..r : /\ Content(c[x]) \in Seq(Met(mode)) /\ Content(c[x]) # <<>>
                      /\ c[x].len = Len(Content(c[x])) /\ (Flushes => c[x].to = Content(c[x])[1].to)
                      /\ c[x].len \in Nat \ {0}
  <2> SUFFICES ASSUME NEW x \in 1..r
               PROVE  /\ Content(c[x]) \in Seq(Met(mode)) /\ Content(c[x]) # <<>>
                      /\ c[x].len = Len(Content(c[x])) /\ (Flushes => c[x].to = Content(c[x])[1].to)
                      /\ c[x].len \in Nat \ {0}
    OBVIOUS
  <2>1. EntryOK(c[x])
    BY <1>4
  <2>2. /\ Content(c[x]) \in Seq(Met(mode)) /\ Content(c[x]) # <<>>
        /\ c[x].len = Len(Content(c[x])) /\ (Flushes => c[x].to = Content(c[x])[1].to)
    BY <2>1 DEF EntryOK, Kept
  <2> DEFINE d == Content(c[x])
  <2>3. Len(d) \in Nat \ {0}
    <3> HIDE DEF d
    <3>1. d \in Seq(Met(mode)) /\ d # <<>>
      BY <2>2 DEF d
    <3> QED
      BY <3>1
  <2> QED
    BY <2>2, <2>3
<1>9. \A x \in 1..r : c[x].to = c[1].to
  <2> SUFFICES ASSUME NEW x \in 1..r PROVE c[x].to = c[1].to
    OBVIOUS
  <2>1. CASE Addrs
    BY <1>7, <2>1 DEF Joinable
  <2>2. CASE ~Addrs
    <3>1. mode # "s2c_server" /\ Flushes
      BY <2>2 DEF Addrs, Flushes, C2s
    <3>2. ASSUME NEW y \in 1..r PROVE c[y].to = OneDest
      <4> DEFINE d == Content(c[y])
      <4>1. d \in Seq(Met(mode)) /\ d # <<>> /\ c[y].to = d[1].to
        BY <1>8, <3>1
      <4> HIDE DEF d
      <4>2. 1 \in 1..Len(d)
        BY <4>1
      <4>3. d[1] \in Met(mode)
        BY <4>1, <4>2, ElementOfSeq
      <4> QED
        BY <3>1, <4>1, <4>3 DEF Met
    <3> QED
      BY <1>6, <3>2
  <2> QED
    BY <2>1, <2>2
<1>10. Even(ss, s) /\ s \in Nat \ {0}
  <2>1. Len(ss) = r /\ \A j \in 1..r : ss[j] = Content(c[j])
    BY <1>3, <1>4
  <2>2. s \in Nat \ {0}
    BY <1>6, <1>8
  <2> HIDE DEF ss, s
  <2>3. \A j \in 1..r : Len(ss[j]) = c[j].len /\ c[j].len \in Nat \ {0}
    BY <1>8, <2>1
  <2>4. \A j \in 1..r : c[j].len <= s /\ (j < r => c[j].len = s)
    BY <1>7 DEF s
  <2>5. \A j \in 1..r : Len(ss[j]) \in 1..s /\ (j < r => Len(ss[j]) = s)
    BY <2>2, <2>3, <2>4
  <2> QED
    BY <2>1, <2>2, <2>5 DEF Even
<1>11. \A j \in 1..Len(c) : Content(c[j]) \in Seq(Met(mode)) /\ c[j].to = c[1].to
  BY <1>4, <1>8, <1>9
<1>12. c[1].len = s
  OBVIOUS
<1>13. Even([j \in 1..Len(c) |-> Content(c[j])], s)
  BY <1>10
<1>14. c \in Seq(Entries) /\ c # <<>> /\ s \in Nat \ {0}
  BY <1>4, <1>6, <1>10
<1> HIDE DEF s, ss
<1>15. Sliced(c) = Plain(c)
  BY <1>11, <1>12, <1>13, <1>14, SlicedIsPlain
<1> QED
  BY <1>3, <1>15 DEF c, r

LEMMA LastIs ==
    ASSUME NEW S, NEW d \in Seq(S), d # <<>>
    PROVE  /\ Last(d) = d[Len(d)] /\ Len(d) \in 1..Len(d) /\ 1 \in 1..Len(d)
           /\ Last(d).id \in Ids(d) /\ d[1].id \in Ids(d) /\ d[1] \in S
<1>1. Len(d) \in 1..Len(d) /\ 1 \in 1..Len(d)
  OBVIOUS
<1>2. Last(d) = d[Len(d)]
  BY DEF Last
<1>3. d[1] \in S
  BY <1>1, ElementOfSeq
<1>4. Last(d).id \in Ids(d) /\ d[1].id \in Ids(d)
  BY <1>1, <1>2, IdsIs
<1> QED
  BY <1>1, <1>2, <1>3, <1>4

-----------------------------------------------------------------------------
(* Steps that leave the send batch as it is.                               *)

LEMMA HeldSame ==
    ASSUME UNCHANGED <<rq, gro, pend, bufs, i>>
    PROVE  Held' = Held
BY DEF Held, QueueIds, PendIds, TurnIds

LEMMA BatchKept ==
    ASSUME SendInv, UNCHANGED <<mode, seq, iov, bufs, hs, glued>>
    PROVE  /\ BatchOK' /\ HsOK'
           /\ \A k \in 1..Len(iov) : (Content(iov[k]))' = Content(iov[k]) /\ (Due(iov[k]))' = Due(iov[k])
<1>1. /\ mode' = mode /\ seq' = seq /\ iov' = iov /\ bufs' = bufs /\ hs_buf' = hs_buf /\ glued' = glued
      /\ clobbered' = clobbered /\ Flushes' = Flushes /\ HasGro' = HasGro
  BY DEF hs, Flushes, C2s, HasGro
<1>2. \A k \in 1..Len(iov) : (Content(iov[k]))' = Content(iov[k])
  BY <1>1 DEF Content
<1>3. \A k \in 1..Len(iov) : (Kept(iov[k]))' <=> Kept(iov[k])
  BY <1>1, <1>2 DEF Kept
<1>4. ASSUME NEW k \in 1..Len(iov) PROVE (EntryOK(iov[k]))'
  <2>1. EntryOK(iov[k]) /\ (Content(iov[k]))' = Content(iov[k]) /\ ((Kept(iov[k]))' <=> Kept(iov[k]))
    BY <1>2, <1>3 DEF SendInv, BatchOK
  <2> QED
    BY <1>1, <2>1 DEF EntryOK, Sound
<1>5. BatchOK'
  BY <1>1, <1>4 DEF BatchOK
<1>6. HsOK'
  BY <1>1 DEF SendInv, HsOK
<1>7. \A k \in 1..Len(iov) : (Due(iov[k]))' = Due(iov[k])
  BY <1>1, <1>2, <1>3 DEF Due
<1> QED
  BY <1>2, <1>5, <1>6, <1>7

-----------------------------------------------------------------------------
(* A send, of a run or of a part of a row.                                 *)

LEMMA SendStep ==
    ASSUME RecvInv, SendInv, Sending, NEW r \in 1..Len(Rest), SendsBatch(Plain(Cut(Rest, r))),
           sent' = sent + r, err' = FALSE, gso_ok' \in BOOLEAN
    PROVE  SendInv' /\ InOrder(out', top)
<1> DEFINE ws == Plain(Cut(Rest, r))
           z == sent + r
           P == Met(mode)
           W == [bytes : Seq(Met(mode)), to : Dests]
<1>1. /\ pc = "send" /\ pc' = pc /\ sent < Len(iov)
      /\ mode' = mode /\ seq' = seq /\ rq' = rq /\ gro' = gro /\ pend' = pend /\ bufs' = bufs /\ i' = i
      /\ hs' = hs /\ clobbered' = clobbered /\ iov' = iov /\ glued' = glued
      /\ tx' = tx /\ drop' = drop /\ noted' = noted
  BY DEF Sending, world, recv, turn, hs, stats
<1>2. BatchOK' /\ HsOK' /\ \A k \in 1..Len(iov) : (Due(iov[k]))' = Due(iov[k])
  BY <1>1, BatchKept
<1>3. Held' = Held
  BY <1>1, HeldSame
<1>4. /\ Len(Rest) = Len(iov) - sent /\ sent \in Nat /\ Len(iov) \in Nat /\ Len(iov) <= Batch
      /\ \A x \in 1..Len(Rest) : sent + x \in 1..Len(iov)
  BY RestIs
<1>5. /\ r \in Nat \ {0} /\ z \in 1..Len(iov) /\ r \in 1..r /\ sent' = z /\ z <= Batch
      /\ \A x \in 1..r : x \in Nat /\ sent + x \in 1..Len(iov) /\ sent < sent + x /\ sent + x <= z
  <2>1. r \in Nat \ {0} /\ r \in 1..r /\ z \in 1..Len(iov) /\ sent' = z
    BY <1>4
  <2>2. Batch \in Nat
    BY BatchAssumption
  <2>3. z <= Batch
    BY <1>4, <2>1, <2>2
  <2>4. \A x \in 1..r : x \in Nat /\ sent < sent + x /\ sent + x <= z
    BY <1>4
  <2>5. \A x \in 1..r : sent + x \in 1..Len(iov)
    BY <1>4, <2>1
  <2> QED
    BY <2>1, <2>3, <2>4, <2>5
<1>6. /\ ws \in Seq(W) /\ Len(ws) = r
      /\ \A x \in 1..r : ws[x].bytes = Content(iov[sent + x]) /\ ws[x].to = iov[sent + x].to
  BY PlainIs
<1>7. out' = ws /\ flushed' = flushed + r
  BY <1>6 DEF SendsBatch, Sends
<1> DEFINE T == {top} \cup {Last(w.bytes).id : w \in {x \in Range(ws) : InTurn(x)}}
<1>8. top' = Max(T)
  BY DEF SendsBatch, Sends
<1> HIDE DEF ws, z
<1>9. ASSUME NEW k \in 1..Len(iov)
      PROVE  /\ Content(iov[k]) \in Seq(P) /\ Content(iov[k]) # <<>> /\ Sound(Content(iov[k]))
             /\ Ids(Content(iov[k])) \subseteq 1..seq
             /\ Kept(iov[k]) => iov[k].to = Content(iov[k])[1].to
  BY DEF SendInv, BatchOK, EntryOK
<1>10. ASSUME NEW k \in 1..Len(iov)
       PROVE  Content(iov[k])[1].id \in Ids(Content(iov[k])) /\ Last(Content(iov[k])).id \in Ids(Content(iov[k]))
  <2> DEFINE d == Content(iov[k])
  <2>1. d \in Seq(P) /\ d # <<>>
    BY <1>9
  <2> HIDE DEF d
  <2>2. d[1].id \in Ids(d) /\ Last(d).id \in Ids(d)
    BY <2>1, LastIs
  <2> QED
    BY <2>2 DEF d
<1>11. ASSUME NEW x \in 1..r
       PROVE  /\ Kept(iov[sent + x]) <=> ~Overwritten(ws[x])
              /\ InTurn(ws[x]) => /\ ws[x].bytes[1].id \in Due(iov[sent + x])
                                  /\ Last(ws[x].bytes).id \in Due(iov[sent + x])
  <2>1. ws[x].bytes = Content(iov[sent + x]) /\ sent + x \in 1..Len(iov)
    BY <1>5, <1>6
  <2>2. Kept(iov[sent + x]) <=> ~Overwritten(ws[x])
    BY <2>1 DEF Kept, Overwritten
  <2>3. InTurn(ws[x]) => Due(iov[sent + x]) = Ids(Content(iov[sent + x]))
    BY <2>2 DEF Due, InTurn
  <2>4. /\ Content(iov[sent + x])[1].id \in Ids(Content(iov[sent + x]))
        /\ Last(Content(iov[sent + x])).id \in Ids(Content(iov[sent + x]))
    BY <1>10, <2>1
  <2> QED
    BY <2>1, <2>2, <2>3, <2>4
<1>12. DOMAIN ws = 1..r /\ Range(ws) = {ws[x] : x \in 1..r}
  <2>1. DOMAIN ws = 1..r
    BY <1>5, <1>6
  <2> QED
    BY <2>1 DEF Range
<1>13. \A k \in 1..Len(iov) : Due(iov[k]) \subseteq 1..seq
  BY <1>9 DEF Due
<1>21. \A y \in T : y = top \/ \E x \in 1..r : y \in Due(iov[sent + x])
  BY <1>11, <1>12
<1>22. top \in 0..seq /\ seq \in Nat
  BY DEF SendInv, FlushOK, RecvInv, Numbers
<1>23. \A y \in T : y \in Nat /\ y <= seq
  <2> SUFFICES ASSUME NEW y \in T PROVE y \in Nat /\ y <= seq
    OBVIOUS
  <2>1. CASE y = top
    BY <1>22, <2>1
  <2>2. CASE \E x \in 1..r : y \in Due(iov[sent + x])
    <3>1. y \in 1..seq
      BY <1>5, <1>13, <2>2
    <3> QED
      BY <1>22, <3>1
  <2> QED
    BY <1>21, <2>1, <2>2
<1>24. T # {}
  OBVIOUS
<1> HIDE DEF T
<1>14. (top' = top \/ \E x \in 1..r : top' \in Due(iov[sent + x])) /\ top' \in 0..seq
  <2>1. top' \in T
    BY <1>8, <1>22, <1>23, <1>24, MaxIs
  <2> QED
    BY <1>21, <1>22, <1>23, <2>1
<1>15. /\ \A k, l \in 1..Len(iov) : k < l => Below(Due(iov[k]), Due(iov[l]))
       /\ \A k \in 1..Len(iov) : Below(Due(iov[k]), Held)
       /\ \A k \in 1..Len(iov) : sent < k => Below({top}, Due(iov[k]))
       /\ Below({top}, Held)
  BY DEF SendInv, OrderOK
<1>16. OrderOK'
  <2>1. ASSUME NEW k \in 1..Len(iov), sent' < k PROVE Below({top'}, Due(iov[k]))
    <3>1. CASE top' = top
      <4>1. sent < k
        BY <1>4, <1>5, <2>1
      <4> QED
        BY <1>15, <3>1, <4>1
    <3>2. ASSUME NEW x \in 1..r, top' \in Due(iov[sent + x]) PROVE Below({top'}, Due(iov[k]))
      <4>1. sent + x < k /\ sent + x \in 1..Len(iov)
        BY <1>4, <1>5, <2>1
      <4>2. Below(Due(iov[sent + x]), Due(iov[k]))
        BY <1>15, <4>1
      <4> QED
        BY <3>2, <4>2 DEF Below
    <3> QED
      BY <1>14, <3>1, <3>2
  <2>2. Below({top'}, Held)
    <3>1. ASSUME NEW x \in 1..r, top' \in Due(iov[sent + x]) PROVE Below({top'}, Held)
      <4>1. Below(Due(iov[sent + x]), Held)
        BY <1>5, <1>15
      <4> QED
        BY <3>1, <4>1 DEF Below
    <3> QED
      BY <1>14, <1>15, <3>1
  <2> QED
    BY <1>1, <1>2, <1>3, <1>15, <2>1, <2>2 DEF OrderOK
<1>17. FlushOK'
  <2>1. flushed = sent
    BY <1>1 DEF SendInv, FlushOK
  <2>2. flushed' = z
    BY <1>7, <2>1 DEF z
  <2>3. flushed' \in 0..Batch /\ sent' \in 0..Len(iov')
    BY <1>1, <1>4, <1>5, <2>2
  <2> QED
    BY <1>1, <1>5, <1>14, <2>2, <2>3 DEF FlushOK
<1>18. StatsOK'
  BY <1>1 DEF SendInv, StatsOK
<1>19. OutOK'
  <2>1. out' \in Seq([bytes : Seq(Met(mode')), to : Dests])
    BY <1>1, <1>6, <1>7 DEF W
  <2>2. \A j \in 1..Len(out') : /\ out'[j].bytes # <<>> /\ (Sound(out[j].bytes))'
                                /\ out'[j].to = out'[j].bytes[1].to \/ (Overwritten(out[j]))'
    <3> SUFFICES ASSUME NEW j \in 1..r
                 PROVE  /\ ws[j].bytes # <<>> /\ Sound(ws[j].bytes)
                        /\ ws[j].to = ws[j].bytes[1].to \/ Overwritten(ws[j])
      BY <1>1, <1>6, <1>7 DEF Sound, Overwritten, Flushes, C2s
    <3>1. ws[j].bytes = Content(iov[sent + j]) /\ ws[j].to = iov[sent + j].to /\ sent + j \in 1..Len(iov)
      BY <1>5, <1>6
    <3>2. Kept(iov[sent + j]) <=> ~Overwritten(ws[j])
      BY <1>11
    <3> QED
      BY <1>9, <3>1, <3>2
  <2> QED
    BY <2>1, <2>2 DEF OutOK
<1>20. InOrder(out', top)
  <2>1. ASSUME NEW b \in 1..r, InTurn(ws[b])
        PROVE  /\ top < ws[b].bytes[1].id
               /\ \A a \in 1..b - 1 : InTurn(ws[a]) => Last(ws[a].bytes).id < ws[b].bytes[1].id
    <3>1. sent + b \in 1..Len(iov) /\ sent < sent + b /\ ws[b].bytes[1].id \in Due(iov[sent + b])
      BY <1>5, <1>11, <2>1
    <3>2. top < ws[b].bytes[1].id
      BY <1>15, <3>1 DEF Below
    <3>3. ASSUME NEW a \in 1..b - 1, InTurn(ws[a]) PROVE Last(ws[a].bytes).id < ws[b].bytes[1].id
      <4>1. a \in 1..r /\ sent + a < sent + b
        BY <1>4, <1>5
      <4>2. sent + a \in 1..Len(iov) /\ Last(ws[a].bytes).id \in Due(iov[sent + a])
        BY <1>5, <1>11, <3>3, <4>1
      <4>3. Below(Due(iov[sent + a]), Due(iov[sent + b]))
        BY <1>15, <3>1, <4>1, <4>2
      <4> QED
        BY <3>1, <4>2, <4>3 DEF Below
    <3> QED
      BY <3>2, <3>3
  <2> QED
    BY <1>7, <1>12, <2>1 DEF InOrder
<1> QED
  BY <1>2, <1>16, <1>17, <1>18, <1>19, <1>20 DEF SendInv

(* Nothing leaves: a state function of what leaves and of what it leaves   *)
(* behind.                                                                 *)
LEMMA NothingLeaves == out' = <<>> => OutOK' /\ InOrder(out', top)
<1> SUFFICES ASSUME out' = <<>> PROVE OutOK' /\ InOrder(out', top)
  OBVIOUS
<1>1. Len(<<>>) = 0 /\ 1..0 = {} /\ DOMAIN <<>> = {}
  OBVIOUS
<1>2. InOrder(out', top)
  BY <1>1 DEF InOrder
<1>3. OutOK'
  BY <1>1 DEF OutOK
<1> QED
  BY <1>2, <1>3

(* Steps that leave the send batch and what is still held as they are.     *)
LEMMA BatchStays ==
    ASSUME RecvInv, SendInv, UNCHANGED <<mode, seq, rq, gro, pend, bufs, i, hs, iov, glued>>,
           UNCHANGED <<tx, drop, noted, top>>, out' = <<>>,
           gso_ok' \in BOOLEAN, err' \in BOOLEAN, (sent' = sent \/ (sent' = 0 /\ pc = "walk")),
           flushed' \in {flushed, 0},
           pc' = "send" => flushed' = sent' /\ (err' => sent' < Len(iov)),
           pc' # "send" => sent' = 0 /\ ~err',
           pc' = "recv" => pc = "recv"
    PROVE  SendInv' /\ InOrder(out', top)
<1>1. OutOK' /\ InOrder(out', top)
  BY NothingLeaves
<1>2. BatchOK' /\ HsOK' /\ \A k \in 1..Len(iov) : (Due(iov[k]))' = Due(iov[k])
  BY BatchKept
<1>3. Held' = Held
  BY HeldSame
<1>4. sent' = sent
  BY DEF SendInv, FlushOK
<1>5. OrderOK'
  BY <1>2, <1>3, <1>4, ZenonT(60) DEF SendInv, OrderOK
<1>6. FlushOK'
  <2>1. flushed' \in 0..Batch
    BY BatchAssumption DEF SendInv, FlushOK
  <2> QED
    BY <1>4, <2>1 DEF SendInv, FlushOK
<1>7. StatsOK'
  BY DEF SendInv, StatsOK
<1> QED
  BY <1>1, <1>2, <1>5, <1>6, <1>7 DEF SendInv

(* Steps after which the send batch is empty.                              *)
LEMMA BatchEmpty ==
    ASSUME RecvInv, SendInv, RecvInv', iov' = <<>>, sent' = 0, err' = FALSE, pc' # "send",
           UNCHANGED <<mode, top>>, out' = <<>>, flushed' \in 0..Batch,
           hs_buf' \in {hs_buf, <<>>}, clobbered' \in {clobbered, {}},
           gso_ok' \in BOOLEAN, StatsOK', settled \subseteq settled',
           seq' = seq \/ (seq' = seq + 1 /\ settled' = settled)
    PROVE  SendInv' /\ InOrder(out', top)
<1>1. OutOK' /\ InOrder(out', top)
  BY NothingLeaves
<1>2. Len(iov') = 0 /\ 1..0 = {} /\ 0 \in 0..0
  OBVIOUS
<1>3. HsOK'
  <2> DEFINE P == Met(mode)
  <2>1. hs_buf \in Seq(P) /\ clobbered \subseteq 1..seq
    BY DEF SendInv, HsOK
  <2> HIDE DEF P
  <2>2. <<>> \in Seq(P)
    OBVIOUS
  <2>3. seq \in Nat
    BY DEF RecvInv, Numbers
  <2>4. 1..seq \subseteq 1..seq'
    BY <2>3
  <2>5. hs_buf' \in Seq(P) /\ clobbered' \subseteq 1..seq'
    BY <2>1, <2>2, <2>4
  <2> QED
    BY <2>5 DEF P, HsOK
<1>4. BatchOK'
  BY <1>2 DEF BatchOK
<1>5. seq \in Nat /\ top \in 0..seq
  BY DEF RecvInv, Numbers, SendInv, FlushOK
<1>6. Below({top'}, Held')
  <2> SUFFICES ASSUME NEW x \in Held' PROVE top < x
    BY DEF Below
  <2>1. x \in 1..seq' /\ x \notin settled'
    BY DEF RecvInv, NonePassedOver
  <2>2. CASE x \in 1..seq
    <3>1. x \in Held
      BY <2>1, <2>2 DEF RecvInv, NonePassedOver
    <3> QED
      BY <3>1 DEF SendInv, OrderOK, Below
  <2>3. CASE x \notin 1..seq
    <3>1. x = seq + 1
      BY <1>5, <2>1, <2>3
    <3> QED
      BY <1>5, <3>1
  <2> QED
    BY <2>2, <2>3
<1>7. OrderOK'
  BY <1>2, <1>6 DEF OrderOK
<1>8. FlushOK'
  <2>1. top' \in 0..seq'
    BY <1>5
  <2> QED
    BY <1>2, <2>1 DEF FlushOK
<1> QED
  BY <1>1, <1>3, <1>4, <1>7, <1>8 DEF SendInv

-----------------------------------------------------------------------------
(* A loop that never has GRO gets every datagram by itself.                *)

LEMMA UnjoinedInit == Init => Unjoined
<1> SUFFICES ASSUME Init PROVE glued = {} /\ \A j \in 1..Len(rq) : ~rq[j].stuck
  BY DEF Unjoined
<1>1. glued = {} /\ rq = <<>> /\ Len(<<>>) = 0 /\ 1..0 = {}
  BY DEF Init
<1> QED
  BY <1>1

LEMMA UnjoinedNext ==
    ASSUME RecvInv, Unjoined, [Next]_vars
    PROVE  Unjoined'
<1> SUFFICES ASSUME ~HasGro' PROVE glued' = {} /\ \A j \in 1..Len(rq') : ~rq'[j].stuck
  BY DEF Unjoined
<1>1. mode' = mode
  BY DEF Next, Thread, vars, Arrive, ClientSeen, OtherGsoOff, Reading, RecvGro, DrainPend, Rearm, RecvMmsg,
         Reconnect, Walk, Packets, NoSocket, Transport, Flush, Handshake, SendInit, Discard, EndTurn,
         Sending, GsoSend, GsoRefused, MmsgSend, SendDone
<1>2. ~gro /\ udp_gro = FALSE /\ rearm_in = 0 /\ rq \in Seq(Buffer(Met(mode)))
  BY <1>1 DEF HasGro, RecvInv, GroOK, QueueOK, GoodQueue
<1>3. glued = {} /\ \A j \in 1..Len(rq) : ~rq[j].stuck
  BY <1>1 DEF HasGro, Unjoined
<1>4. CASE rq' = rq /\ glued' = glued
  BY <1>3, <1>4
<1>5. ASSUME NEW k \in Kinds, NEW n \in Lens \cup {HsLen}, NEW d \in Dests, Arrive(k, n, d)
      PROVE  glued' = {} /\ \A j \in 1..Len(rq') : ~rq'[j].stuck
  <2> DEFINE b == [bytes |-> Bytes([id |-> seq', kind |-> k, len |-> n, to |-> d]), seg |-> 0, stuck |-> FALSE]
  <2>1. rq' = Append(rq, b) /\ glued' = glued
    BY <1>2, <1>5 DEF Arrive, ghost
  <2>2. b.stuck = FALSE
    OBVIOUS
  <2> HIDE DEF b
  <2>3. /\ Len(rq) \in Nat /\ Len(rq') = Len(rq) + 1
        /\ \A j \in 1..Len(rq') : rq'[j] = IF j <= Len(rq) THEN rq[j] ELSE b
    BY <1>2, <2>1
  <2>4. ASSUME NEW j \in 1..Len(rq') PROVE ~rq'[j].stuck
    <3>1. CASE j <= Len(rq)
      BY <1>3, <2>3, <3>1
    <3>2. CASE ~(j <= Len(rq))
      BY <2>2, <2>3, <3>2
    <3> QED
      BY <3>1, <3>2
  <2> QED
    BY <1>3, <2>1, <2>4
<1>6. CASE RecvMmsg
  <2> DEFINE got == Cut(rq, Batch)
  <2>1. /\ rq' = Drop(rq, Batch)
        /\ glued' = UNION {Ids(b.bytes) : b \in {c \in Range(got) : c.stuck}}
    BY <1>6 DEF RecvMmsg
  <2>2. Batch \in Nat
    BY BatchAssumption
  <2>3. Len(rq) \in Nat /\ Len(got) \in Nat /\ DOMAIN got = 1..Len(got)
    BY <1>2, <2>2, CutIs
  <2>4. \A x \in 1..Len(got) : x \in 1..Len(rq) /\ got[x] = rq[x]
    BY <1>2, <2>2, CutIs
  <2> HIDE DEF got
  <2>5. \A c \in Range(got) : ~c.stuck
    BY <1>3, <2>3, <2>4 DEF Range
  <2>6. glued' = {}
    BY <2>1, <2>5
  <2>7. /\ Len(rq') = IF Batch <= Len(rq) THEN Len(rq) - Batch ELSE 0
        /\ \A x \in 1..Len(rq) - Batch : rq'[x] = rq[Batch + x]
    BY <1>2, <2>1, <2>2, DropIs
  <2>8. \A x \in 1..Len(rq') : rq'[x] = rq[Batch + x] /\ Batch + x \in 1..Len(rq)
    BY <2>2, <2>3, <2>7
  <2> QED
    BY <1>3, <2>6, <2>8
<1>7. CASE Reconnect
  <2>1. rq' = <<>> /\ glued' = glued /\ Len(<<>>) = 0 /\ 1..0 = {}
    BY <1>7 DEF Reconnect
  <2> QED
    BY <1>3, <2>1
<1>8. ~RecvGro /\ ~DrainPend /\ ~Rearm
  BY <1>2 DEF RecvGro, DrainPend, Rearm
<1>9. CASE ClientSeen \/ OtherGsoOff
  <2>1. rq' = rq /\ glued' = glued
    BY <1>9 DEF ClientSeen, OtherGsoOff, world, ghost
  <2> QED
    BY <1>4, <2>1
<1>10. CASE Walk
  <2>1. rq' = rq /\ glued' = glued
    BY <1>10 DEF Walk, world
  <2> QED
    BY <1>4, <2>1
<1>11. CASE Sending \/ SendDone
  <2>1. rq' = rq /\ glued' = glued
    BY <1>11 DEF Sending, SendDone, world, ghost
  <2> QED
    BY <1>4, <2>1
<1>12. CASE UNCHANGED vars
  <2>1. rq' = rq /\ glued' = glued
    BY <1>12 DEF vars, world, ghost
  <2> QED
    BY <1>4, <2>1
<1> QED
  BY <1>5, <1>6, <1>7, <1>8, <1>9, <1>10, <1>11, <1>12
  DEF Next, Thread, Packets, NoSocket, Transport, Flush, Handshake, SendInit, Discard, EndTurn, GsoSend,
      GsoRefused, MmsgSend

-----------------------------------------------------------------------------
(* Steps that process a packet.                                            *)

(* The packet that is processed next.                                      *)
LEMMA NextPacket ==
    ASSUME RecvInv, SendInv, Packets
    PROVE  /\ pc = "walk" /\ i \in 1..Len(bufs) /\ ~AtEnd
           /\ bufs[i] \in Seq(Met(mode)) /\ bufs[i] # <<>> /\ Sound(bufs[i])
           /\ bufs[i][1] \in Met(mode) /\ To = bufs[i][1].to /\ Kind = bufs[i][1].kind
           /\ UNCHANGED <<mode, seq, has_client, rq, gro, gso_ok, glued>>
<1>1. pc = "walk" /\ ~AtEnd /\ ~(i > Len(bufs))
  BY DEF Packets, Walk, AtEnd
<1>2. GoodRow(Met(mode), bufs) /\ i \in 1..Len(bufs) + 1 /\ AllSound
  BY DEF RecvInv, TurnOK
<1>3. bufs \in Seq(Seq(Met(mode))) /\ Len(bufs) \in Nat
  BY <1>2 DEF GoodRow
<1>4. i \in 1..Len(bufs)
  BY <1>1, <1>2, <1>3
<1>5. bufs[i] \in Seq(Met(mode)) /\ bufs[i] # <<>>
  BY <1>2, <1>3, <1>4, ElementOfSeq DEF GoodRow
<1> DEFINE d == bufs[i]
<1>6. d[1] \in Met(mode)
  <2>1. d \in Seq(Met(mode)) /\ d # <<>>
    BY <1>5
  <2> HIDE DEF d
  <2> QED
    BY <2>1, LastIs
<1>7. UNCHANGED <<mode, seq, has_client, rq, gro, gso_ok, glued>>
  BY DEF Packets, Walk, world
<1> QED
  BY <1>1, <1>2, <1>4, <1>5, <1>6, <1>7 DEF AllSound, To, Kind

(* What is held before and after the step that processes it.               *)
LEMMA NextHeld ==
    ASSUME RecvInv, SendInv, Packets, Advance, bufs' = bufs
    PROVE  /\ Both(Held, Ids(bufs[i]), Held') /\ Below(Ids(bufs[i]), Held')
           /\ Ids(bufs[i]) \subseteq Held /\ Held' \subseteq Held /\ Held \subseteq 1..seq
<1>1. pc = "walk" /\ i \in 1..Len(bufs) /\ mode' = mode /\ rq' = rq /\ gro' = gro
  BY NextPacket
<1>2. i <= Len(bufs)
  BY <1>1
<1>3. Both(Held, Ids(bufs[i]), Held') /\ Below(Ids(bufs[i]), Held')
  BY <1>1, <1>2, StepHeld DEF StepOf
<1>4. Ids(bufs[i]) \subseteq Held /\ Held' \subseteq Held
  BY <1>3 DEF Both
<1>5. Held \subseteq 1..seq
  BY DEF RecvInv, NonePassedOver
<1> QED
  BY <1>3, <1>4, <1>5

(* In a loop without GRO every handshake is as long as the others.         *)
LEMMA HsWhole ==
    ASSUME RecvInv, Unjoined, SendInv, Packets, Kind # "data", ~HasGro
    PROVE  Len(bufs[i]) = HsLen
<1> DEFINE d == bufs[i]
<1>1. d \in Seq(Met(mode)) /\ d # <<>> /\ Sound(d) /\ d[1] \in Met(mode) /\ Kind = d[1].kind
  BY NextPacket
<1> HIDE DEF d
<1>2. d[1].len = HsLen
  BY <1>1 DEF Met
<1>3. d[1].id \in Ids(d)
  BY <1>1, LastIs
<1>4. glued = {}
  BY DEF Unjoined
<1>5. ~(Ids(d) \subseteq glued)
  BY <1>3, <1>4
<1>6. ~(d[1].len > BufSize) /\ HsLen \in Nat \ {0}
  BY <1>2, BatchAssumption
<1>7. d = Bytes(d[1])
  BY <1>1, <1>5, <1>6 DEF Sound, Whole
<1>8. Len(Bytes(d[1])) = d[1].len
  BY <1>1, <1>2, <1>6, BytesIs
<1>9. Len(d) = HsLen
  BY <1>2, <1>7, <1>8
<1> QED
  BY <1>9 DEF d

(* hs_buf takes the handshake that is processed or stays as it was.        *)
HsStep == UNCHANGED hs \/ (Copied /\ Flushed /\ Kind # "data")

LEMMA HsStays ==
    ASSUME RecvInv, SendInv, Packets, Advance, bufs' = bufs, HsStep
    PROVE  HsOK' /\ clobbered \subseteq clobbered' /\ clobbered' \subseteq clobbered \cup Ids(bufs[i])
<1>1. bufs[i] \in Seq(Met(mode)) /\ mode' = mode /\ seq' = seq
  BY NextPacket
<1>2. Ids(bufs[i]) \subseteq 1..seq
  BY NextHeld
<1>3. hs_buf \in Seq(Met(mode)) /\ clobbered \subseteq 1..seq
  BY DEF SendInv, HsOK
<1>4. CASE UNCHANGED hs
  <2>1. hs_buf' = hs_buf /\ clobbered' = clobbered
    BY <1>4 DEF hs
  <2> QED
    BY <1>1, <1>3, <2>1 DEF HsOK
<1>5. CASE Copied
  <2>1. hs_buf' = bufs[i] /\ (clobbered' = clobbered \/ clobbered' = clobbered \cup Ids(bufs[i]))
    BY <1>5 DEF Copied
  <2> QED
    BY <1>1, <1>2, <1>3, <2>1 DEF HsOK
<1> QED
  BY <1>4, <1>5 DEF HsStep

(* An entry of the batch is what it was, or it is lost with its place.     *)
LEMMA EntryStays ==
    ASSUME RecvInv, Unjoined, SendInv, Packets, Advance, bufs' = bufs, HsStep,
           NEW k \in 1..Len(iov), iov'[k] = iov[k]
    PROVE  (EntryOK(iov[k]))' /\ (Due(iov[k]))' \subseteq Due(iov[k])
<1> DEFINE d == bufs[i]
<1>1. /\ mode' = mode /\ seq' = seq /\ glued' = glued /\ Flushes' = Flushes /\ HasGro' = HasGro
      /\ d \in Seq(Met(mode)) /\ d # <<>> /\ Sound(d)
  BY NextPacket DEF Flushes, C2s, HasGro
<1>2. Ids(d) \subseteq 1..seq
  BY NextHeld
<1>3. d[1].id \in Ids(d)
  <2> HIDE DEF d
  <2> QED
    BY <1>1, LastIs
<1> HIDE DEF d
<1>4. EntryOK(iov[k])
  BY DEF SendInv, BatchOK
<1>5. clobbered \subseteq clobbered'
  BY HsStays
<1>6. CASE (Content(iov[k]))' = Content(iov[k])
  <2>1. (Kept(iov[k]))' => Kept(iov[k])
    BY <1>1, <1>5, <1>6 DEF Kept
  <2>2. (EntryOK(iov[k]))'
    BY <1>1, <1>4, <1>6, <2>1 DEF EntryOK, Sound
  <2>3. (Due(iov[k]))' \subseteq Due(iov[k])
    BY <1>6, <2>1 DEF Due
  <2> QED
    BY <2>2, <2>3
<1>7. CASE UNCHANGED hs \/ iov[k].at # 0
  <2>1. (Content(iov[k]))' = Content(iov[k])
    BY <1>7 DEF Content, hs
  <2> QED
    BY <1>6, <2>1
<1>8. CASE Copied /\ Flushed /\ Kind # "data" /\ iov[k].at = 0
  <2>1. ~Flushes
    <3> SUFFICES ASSUME iov = <<>> PROVE FALSE
      BY <1>8 DEF Flushed
    <3>1. Len(iov) = 0 /\ 1..0 = {}
      OBVIOUS
    <3> QED
      BY <3>1
  <2>2. ~HasGro
    BY <1>8, <2>1, BatchAssumption DEF Copied, Flushes, C2s, HasGro
  <2>3. (Content(iov[k]))' = d
    BY <1>8 DEF Copied, Content, d
  <2>4. iov \in Seq(Entries)
    BY RestIs
  <2>5. iov[k] \in Range(iov)
    BY <2>4 DEF Range
  <2>6. clobbered' = clobbered \cup Ids(d)
    BY <1>8, <2>5 DEF Copied, d
  <2>7. ~(Kept(iov[k]))'
    BY <1>1, <1>3, <2>1, <2>3, <2>6 DEF Kept
  <2>8. Len(d) = HsLen
    BY <1>8, <2>2, HsWhole DEF d
  <2>9. iov[k].len = HsLen
    BY <1>4, <1>8, <2>2 DEF EntryOK
  <2>10. (EntryOK(iov[k]))'
    BY <1>1, <1>2, <2>3, <2>7, <2>8, <2>9 DEF EntryOK, Sound
  <2>11. (Due(iov[k]))' = {}
    BY <2>7 DEF Due
  <2> QED
    BY <2>10, <2>11
<1> QED
  BY <1>7, <1>8 DEF HsStep

(* Nothing leaves when sendmmsg or sendto fails.                           *)
LEMMA NoneSent ==
    ASSUME RecvInv, SendInv, Sends(<<>>)
    PROVE  out' = <<>> /\ top' = top
<1> DEFINE T == {top} \cup {Last(w.bytes).id : w \in {x \in Range(<<>>) : InTurn(x)}}
<1>1. out' = <<>> /\ top' = Max(T)
  BY DEF Sends
<1>2. T = {top}
  BY DEF Range
<1>3. top \in Nat
  BY DEF SendInv, FlushOK
<1>4. Max({top}) = top
  BY <1>3 DEF Max
<1> QED
  BY <1>1, <1>2, <1>4

(* Putting a packet into the send batch.                                   *)
LEMMA PacketBatched ==
    ASSUME RecvInv, Unjoined, SendInv, Packets, NEW at \in Nat, Enqueue(at),
           \/ at = i /\ UNCHANGED hs
           \/ at = 0 /\ Copied /\ Flushed /\ Kind # "data"
    PROVE  SendInv' /\ InOrder(out', top)
<1> DEFINE e == [at |-> at, len |-> Len(bufs[i]), to |-> To]
           d == bufs[i]
<1>1. /\ pc = "walk" /\ i \in 1..Len(bufs)
      /\ d \in Seq(Met(mode)) /\ d # <<>> /\ Sound(d) /\ To = d[1].to /\ Kind = d[1].kind
      /\ mode' = mode /\ seq' = seq /\ rq' = rq /\ gro' = gro /\ gso_ok' = gso_ok /\ glued' = glued
  BY NextPacket
<1>2. /\ iov' = Append(iov, e) /\ Advance /\ out' = <<>> /\ pc' = pc /\ bufs' = bufs /\ sent' = sent
      /\ err' = err /\ tx' = tx /\ drop' = drop /\ noted' = noted /\ flushed' = flushed /\ top' = top
  BY DEF Enqueue, stats
<1>3. OutOK' /\ InOrder(out', top)
  BY <1>2, NothingLeaves
<1>4. /\ Below(Ids(d), Held') /\ Ids(d) \subseteq Held /\ Held' \subseteq Held /\ Held \subseteq 1..seq
  BY <1>2, NextHeld
<1>16. HsStep /\ HsOK'
  <2>1. HsStep
    BY DEF HsStep
  <2> QED
    BY <1>2, <2>1, HsStays
<1>17. at = 0 /\ ~HasGro => Len(d) = HsLen
  <2> SUFFICES ASSUME at = 0, ~HasGro PROVE Len(d) = HsLen
    OBVIOUS
  <2>1. at # i
    BY <1>1
  <2>2. Kind # "data"
    BY <2>1
  <2> QED
    BY <2>2, HsWhole
<1> HIDE DEF d, e
<1>5. iov \in Seq(Entries) /\ Len(iov) \in Nat
  BY RestIs
<1> PICK n \in Nat : n = Len(iov)
  BY <1>5
<1>6. /\ Len(iov') = n + 1 /\ iov'[n + 1] = e
      /\ \A k \in 1..n : iov'[k] = iov[k]
      /\ \A k \in 1..n + 1 : k \in 1..n \/ k = n + 1
  <2>1. e \in Entries
    <3>1. d[1] \in Met(mode)
      BY NextPacket DEF d
    <3>2. d[1].to \in Dests
      BY <3>1, PacketIs
    <3> QED
      BY <1>1, <3>2 DEF e, d, Entries
  <2>2. /\ Len(Append(iov, e)) = Len(iov) + 1 /\ Append(iov, e)[Len(iov) + 1] = e
        /\ \A k \in 1..Len(iov) : Append(iov, e)[k] = iov[k]
    BY <1>5, <2>1, AppendProperties
  <2>3. \A k \in 1..n + 1 : k \in 1..n \/ k = n + 1
    OBVIOUS
  <2> QED
    BY <1>2, <2>2, <2>3
<1>7. e.at = at /\ e.len = Len(d) /\ e.to = d[1].to
  BY <1>1 DEF e, d
<1>8. ASSUME NEW k \in 1..n PROVE (EntryOK(iov[k]))' /\ (Due(iov[k]))' \subseteq Due(iov[k])
  BY <1>2, <1>6, <1>16, EntryStays
<1>9. (Content(iov[n + 1]))' = d
  <2>1. (Content(iov[n + 1]))' = IF e.at = 0 THEN hs_buf' ELSE bufs'[e.at]
    BY <1>6 DEF Content
  <2>2. CASE at = i
    BY <1>1, <1>2, <1>7, <2>1, <2>2 DEF d
  <2>3. CASE at = 0 /\ Copied
    BY <1>7, <2>1, <2>3 DEF Copied, d
  <2> QED
    BY <2>2, <2>3
<1>11. BatchOK'
  <2>2. (EntryOK(iov[n + 1]))'
    <3>1. Ids(d) \subseteq 1..seq
      BY <1>4
    <3>2. d \in Seq(Met(mode')) /\ (Whole(d) \/ d[1].len > BufSize \/ Ids(d) \subseteq glued')
      BY <1>1 DEF Sound
    <3>3. e.at = 0 /\ ~HasGro' => e.len = HsLen
      BY <1>1, <1>7, <1>17 DEF HasGro
    <3> QED
      BY <1>1, <1>6, <1>7, <1>9, <3>1, <3>2, <3>3 DEF EntryOK, Sound
  <2>3. \A k \in 1..n + 1 : (EntryOK(iov[k]))'
    BY <1>6, <1>8, <2>2
  <2> QED
    BY <1>6, <2>3 DEF BatchOK
<1>12. /\ \A k, l \in 1..n : k < l => Below(Due(iov[k]), Due(iov[l]))
       /\ \A k \in 1..n : Below(Due(iov[k]), Held)
       /\ \A k \in 1..n : sent < k => Below({top}, Due(iov[k]))
       /\ Below({top}, Held)
  BY DEF SendInv, OrderOK
<1>13. OrderOK'
  <2> DEFINE D(k) == IF k = n + 1 THEN Ids(d) ELSE Due(iov[k])
  <2>2. D(n + 1) = Ids(d) /\ \A k \in 1..n : D(k) = Due(iov[k])
    <3>1. \A k \in 1..n : k # n + 1
      OBVIOUS
    <3> QED
      BY <3>1
  <2> HIDE DEF D
  <2>1. \A k \in 1..n + 1 : (Due(iov[k]))' \subseteq D(k)
    <3>1. (Due(iov[n + 1]))' \subseteq D(n + 1)
      BY <1>9, <2>2 DEF Due
    <3>2. \A k \in 1..n : (Due(iov[k]))' \subseteq D(k)
      BY <1>8, <2>2
    <3> QED
      BY <1>6, <3>1, <3>2
  <2>3. ASSUME NEW k \in 1..n + 1, NEW l \in 1..n + 1, k < l PROVE Below(D(k), D(l))
    <3>1. k \in 1..n
      BY <2>3
    <3>2. CASE l \in 1..n
      BY <1>12, <2>2, <2>3, <3>1, <3>2
    <3>3. CASE l = n + 1
      BY <1>4, <1>12, <2>2, <3>1, <3>3 DEF Below
    <3> QED
      BY <1>6, <3>2, <3>3
  <2>4. ASSUME NEW k \in 1..n + 1 PROVE Below(D(k), Held')
    <3>1. CASE k \in 1..n
      BY <1>4, <1>12, <2>2, <3>1 DEF Below
    <3>2. CASE k = n + 1
      BY <1>4, <2>2, <3>2
    <3> QED
      BY <1>6, <3>1, <3>2
  <2>5. ASSUME NEW k \in 1..n + 1, sent < k PROVE Below({top}, D(k))
    <3>1. CASE k \in 1..n
      BY <1>12, <2>2, <2>5, <3>1
    <3>2. CASE k = n + 1
      BY <1>4, <1>12, <2>2, <3>2 DEF Below
    <3> QED
      BY <1>6, <3>1, <3>2
  <2>6. Below({top}, Held')
    BY <1>4, <1>12 DEF Below
  <2>7. \A k, l \in 1..Len(iov') : k < l => Below((Due(iov[k]))', (Due(iov[l]))')
    <3> SUFFICES ASSUME NEW k \in 1..n + 1, NEW l \in 1..n + 1, k < l
                 PROVE  Below((Due(iov[k]))', (Due(iov[l]))')
      BY <1>6
    <3>1. Below(D(k), D(l)) /\ (Due(iov[k]))' \subseteq D(k) /\ (Due(iov[l]))' \subseteq D(l)
      BY <2>1, <2>3
    <3> QED
      BY <3>1 DEF Below
  <2>8. \A k \in 1..Len(iov') : Below((Due(iov[k]))', Held')
    BY <1>6, <2>1, <2>4 DEF Below
  <2>9. \A k \in 1..Len(iov') : sent' < k => Below({top'}, (Due(iov[k]))')
    BY <1>2, <1>6, <2>1, <2>5 DEF Below
  <2> QED
    BY <1>2, <2>6, <2>7, <2>8, <2>9 DEF OrderOK
<1>14. FlushOK'
  <2>1. sent = 0 /\ ~err /\ err \in BOOLEAN /\ gso_ok \in BOOLEAN /\ flushed \in 0..Batch /\ top \in 0..seq
    BY <1>1 DEF SendInv, FlushOK
  <2>2. sent' \in 0..Len(iov')
    BY <1>2, <1>6, <2>1
  <2>3. pc' = "walk"
    BY <1>1, <1>2
  <2> QED
    BY <1>1, <1>2, <2>1, <2>2, <2>3 DEF FlushOK
<1>15. StatsOK'
  BY <1>2 DEF SendInv, StatsOK
<1> QED
  BY <1>3, <1>11, <1>13, <1>14, <1>15, <1>16 DEF SendInv

(* A packet that goes around the batch, or nowhere.                        *)
LEMMA PacketGone ==
    ASSUME RecvInv, Unjoined, SendInv, Packets, Advance, HsStep,
           UNCHANGED <<pc, bufs, iov, sent, err, stats, flushed>>,
           \/ out' = <<>> /\ top' = top
           \/ /\ Sends(<<[bytes |-> bufs[i], to |-> To]>>)
              /\ iov = <<>> \/ (~Flushes /\ Direct /\ Kind = "init")
    PROVE  SendInv' /\ InOrder(out', top)
<1> DEFINE d == bufs[i]
           w == [bytes |-> d, to |-> To]
<1>1. /\ pc = "walk" /\ i \in 1..Len(bufs)
      /\ d \in Seq(Met(mode)) /\ d # <<>> /\ Sound(d) /\ To = d[1].to /\ Kind = d[1].kind
      /\ d[1] \in Met(mode)
      /\ mode' = mode /\ seq' = seq /\ rq' = rq /\ gro' = gro /\ gso_ok' = gso_ok /\ glued' = glued
  BY NextPacket
<1>2. /\ pc' = pc /\ bufs' = bufs /\ iov' = iov /\ sent' = sent /\ err' = err /\ tx' = tx /\ drop' = drop
      /\ noted' = noted /\ flushed' = flushed
  BY DEF stats
<1>4. Last(d).id \in Ids(d) /\ d[1].id \in Ids(d)
  <2> HIDE DEF d
  <2> QED
    BY <1>1, LastIs
<1>5. To \in Dests
  BY <1>1, PacketIs
<1>6. Below(Ids(d), Held') /\ Ids(d) \subseteq Held /\ Held' \subseteq Held /\ Held \subseteq 1..seq
  BY <1>2, NextHeld
<1>10. HsOK' /\ StatsOK'
  BY <1>2, HsStays DEF SendInv, StatsOK
<1> HIDE DEF d
<1>7. /\ \A k, l \in 1..Len(iov) : k < l => Below(Due(iov[k]), Due(iov[l]))
      /\ \A k \in 1..Len(iov) : Below(Due(iov[k]), Held)
      /\ \A k \in 1..Len(iov) : sent < k => Below({top}, Due(iov[k]))
      /\ Below({top}, Held)
  BY DEF SendInv, OrderOK
<1>8. ASSUME NEW k \in 1..Len(iov) PROVE (EntryOK(iov[k]))' /\ (Due(iov[k]))' \subseteq Due(iov[k])
  BY <1>2, EntryStays
<1>9. BatchOK'
  BY <1>2, <1>8 DEF BatchOK
<1>11. top' = top => OrderOK' /\ FlushOK'
  <2> SUFFICES ASSUME top' = top PROVE OrderOK' /\ FlushOK'
    OBVIOUS
  <2>1. \A k, l \in 1..Len(iov) : k < l => Below((Due(iov[k]))', (Due(iov[l]))')
    BY <1>7, <1>8 DEF Below
  <2>2. \A k \in 1..Len(iov) : Below((Due(iov[k]))', Held')
    BY <1>6, <1>7, <1>8 DEF Below
  <2>3. \A k \in 1..Len(iov) : sent < k => Below({top}, (Due(iov[k]))')
    BY <1>7, <1>8 DEF Below
  <2>4. Below({top}, Held')
    BY <1>6, <1>7 DEF Below
  <2>5. OrderOK'
    BY <1>2, <2>1, <2>2, <2>3, <2>4 DEF OrderOK
  <2>6. FlushOK'
    BY <1>1, <1>2 DEF SendInv, FlushOK
  <2> QED
    BY <2>5, <2>6
<1>12. CASE out' = <<>> /\ top' = top
  BY <1>9, <1>10, <1>11, <1>12, NothingLeaves DEF SendInv
<1>13. CASE Sends(<<w>>) /\ (iov = <<>> \/ (~Flushes /\ Direct /\ Kind = "init"))
  <2>1. /\ out' = <<w>> /\ Len(<<w>>) = 1 /\ <<w>>[1] = w /\ <<w>> # <<>> /\ DOMAIN <<w>> = 1..1
        /\ Range(<<w>>) = {w} /\ \A j \in 1..1 : j = 1
    BY <1>13 DEF Sends, Range
  <2>2. w.bytes = d /\ w.to = d[1].to /\ w \in [bytes : Seq(Met(mode)), to : Dests]
    BY <1>1, <1>5 DEF w
  <2> HIDE DEF w
  <2>3. top' = top \/ (InTurn(w) /\ top' \in Ids(d))
    <3> DEFINE T == {top} \cup {Last(x.bytes).id : x \in {y \in {w} : InTurn(y)}}
    <3>1. top' = Max(T)
      BY <1>13, <2>1 DEF Sends
    <3>2. \A y \in T : y = top \/ (InTurn(w) /\ y \in Ids(d))
      BY <1>4, <2>2
    <3>3. top \in 0..seq /\ seq \in Nat
      BY DEF SendInv, FlushOK, RecvInv, Numbers
    <3>5. T # {}
      OBVIOUS
    <3> HIDE DEF T
    <3>4. ASSUME NEW y \in T PROVE y \in Nat /\ y <= seq
      <4>1. CASE y = top
        BY <3>3, <4>1
      <4>2. CASE y \in Ids(d)
        <5>1. y \in 1..seq
          BY <1>6, <4>2
        <5> QED
          BY <3>3, <5>1
      <4> QED
        BY <3>2, <4>1, <4>2
    <3>6. top' \in T
      BY <3>1, <3>3, <3>4, <3>5, MaxIs
    <3> QED
      BY <3>2, <3>6
  <2>4. OutOK'
    <3>1. out' \in Seq([bytes : Seq(Met(mode')), to : Dests])
      BY <1>1, <2>1, <2>2
    <3>2. Len(out') = 1 /\ out'[1] = w
      BY <2>1
    <3>3. Whole(d) \/ d[1].len > BufSize \/ Ids(d) \subseteq glued'
      BY <1>1 DEF Sound
    <3> QED
      BY <1>1, <2>1, <2>2, <3>1, <3>2, <3>3 DEF OutOK, Sound
  <2>5. InOrder(out', top)
    <3>1. top < d[1].id
      BY <1>4, <1>6, <1>7 DEF Below
    <3>2. 1..1 - 1 = {}
      OBVIOUS
    <3> QED
      BY <2>1, <2>2, <3>1, <3>2 DEF InOrder
  <2>6. OrderOK' /\ FlushOK'
    <3>1. CASE top' = top
      BY <1>11, <3>1
    <3>2. CASE InTurn(w) /\ top' \in Ids(d)
      <4>1. iov = <<>> /\ Len(iov) = 0 /\ 1..0 = {}
        BY <1>1, <1>13, <2>2, <3>2 DEF InTurn, Overtakes
      <4>3. Below({top'}, Held')
        BY <1>6, <3>2 DEF Below
      <4>4. OrderOK'
        BY <1>2, <4>1, <4>3 DEF OrderOK
      <4>5. top' \in 0..seq
        <5>1. top' \in 1..seq
          BY <1>6, <3>2
        <5>2. \A y \in 1..seq : y \in 0..seq
          OBVIOUS
        <5> QED
          BY <5>1, <5>2
      <4>6. FlushOK'
        BY <1>1, <1>2, <4>5 DEF SendInv, FlushOK
      <4> QED
        BY <4>4, <4>6
    <3> QED
      BY <2>3, <3>1, <3>2
  <2> QED
    BY <1>9, <1>10, <2>4, <2>5, <2>6 DEF SendInv
<1> QED
  BY <1>12, <1>13 DEF w, d

-----------------------------------------------------------------------------
(* The sending half, step by step.                                         *)

LEMMA SendInvInit == Init => SendInv
<1> SUFFICES ASSUME Init PROVE SendInv
  OBVIOUS
<1>1. /\ seq = 0 /\ pc = "recv" /\ hs_buf = <<>> /\ iov = <<>> /\ sent = 0 /\ err = FALSE /\ gso_ok = TRUE
      /\ tx = 0 /\ drop = 0 /\ noted = FALSE /\ out = <<>> /\ flushed = 0 /\ top = 0
      /\ rq = <<>> /\ pend = NoPend /\ bufs = <<>> /\ i = 1 /\ clobbered = {}
  BY DEF Init
<1>2. Len(<<>>) = 0 /\ 1..0 = {} /\ 0 \in 0..0 /\ 0 \in 0..Batch
  BY BatchAssumption
<1>3. Held = {}
  <2>1. PendIds = {} /\ TurnIds = {}
    BY <1>1, NothingYet DEF PendIds, TurnIds, NoPend
  <2> QED
    BY <1>1, <2>1, IdsOfNone, QueueIdsAre DEF Held
<1>4. BatchOK
  BY <1>1, <1>2 DEF BatchOK
<1>5. OrderOK
  BY <1>1, <1>2, <1>3 DEF OrderOK, Below
<1>6. FlushOK
  BY <1>1, <1>2 DEF FlushOK
<1>7. StatsOK
  BY <1>1, <1>2 DEF StatsOK
<1>8. OutOK
  BY <1>1, <1>2 DEF OutOK
<1>9. HsOK
  BY <1>1 DEF HsOK
<1> QED
  BY <1>4, <1>5, <1>6, <1>7, <1>8, <1>9 DEF SendInv

(* A read fills the packet buffers and touches nothing of the send batch.  *)
LEMMA ReadStep ==
    ASSUME RecvGro \/ DrainPend \/ Rearm \/ RecvMmsg
    PROVE  Reading /\ pc' \in {"recv", "walk"} /\ UNCHANGED hs /\ settled \subseteq settled'
<1>1. Reading
  BY DEF RecvGro, DrainPend, Rearm, RecvMmsg
<1>2. pc = "recv"
  BY <1>1 DEF Reading
<1>3. ASSUME NEW row, StartTurn(row) PROVE pc' = "walk" /\ UNCHANGED hs
  BY <1>3 DEF StartTurn
<1>4. ASSUME NEW ids, Settle(ids) PROVE settled \subseteq settled'
  BY <1>4 DEF Settle
<1>5. ASSUME NEW d, NEW a, NEW s, NEW q, TakeSegments(d, a, s, q)
      PROVE  pc' \in {"recv", "walk"} /\ UNCHANGED hs /\ settled \subseteq settled'
  <2>1. CASE C2s /\ Min({s, Len(d) - a}) > BufSize
    <3>1. Settle(Ids(Drop(d, a))) /\ UNCHANGED <<pc, turn>>
      BY <1>5, <2>1 DEF TakeSegments
    <3> QED
      BY <1>2, <1>4, <3>1 DEF turn
  <2>2. CASE ~(C2s /\ Min({s, Len(d) - a}) > BufSize)
    <3>1. /\ StartTurn(Segments(d, a, s, IF C2s THEN Batch ELSE Len(d)))
          /\ settled' = settled
      BY <1>5, <2>2 DEF TakeSegments
    <3> QED
      BY <1>3, <3>1
  <2> QED
    BY <2>1, <2>2
<1>6. ASSUME NEW d, NEW q, TakeSingle(d, q)
      PROVE  pc' \in {"recv", "walk"} /\ UNCHANGED hs /\ settled \subseteq settled'
  BY <1>2, <1>3, <1>4, <1>6 DEF TakeSingle, turn
<1>7. CASE RecvGro
  BY <1>1, <1>5, <1>6, <1>7 DEF RecvGro
<1>8. CASE DrainPend
  BY <1>1, <1>5, <1>8 DEF DrainPend
<1>9. CASE Rearm
  BY <1>1, <1>2, <1>9 DEF Rearm, turn
<1>10. CASE RecvMmsg
  BY <1>1, <1>3, <1>4, <1>10 DEF RecvMmsg
<1> QED
  BY <1>7, <1>8, <1>9, <1>10

(* A send that fails gives up what is left of the batch.                   *)
LEMMA SendFails ==
    ASSUME RecvInv, SendInv, Sending, SendsBatch(<<>>), err' = TRUE, sent' = sent, gso_ok' \in BOOLEAN
    PROVE  SendInv' /\ InOrder(out', top)
<1>1. /\ pc = "send" /\ pc' = pc /\ sent < Len(iov)
      /\ UNCHANGED <<mode, seq, rq, gro, pend, bufs, i, hs, iov, glued>> /\ UNCHANGED <<tx, drop, noted>>
  BY DEF Sending, world, recv, turn, stats
<1>2. out' = <<>> /\ top' = top /\ flushed' = flushed
  <2>1. Len(<<>>) = 0 /\ flushed \in Nat
    BY DEF SendInv, FlushOK
  <2>2. Sends(<<>>) /\ flushed' = flushed + Len(<<>>)
    BY DEF SendsBatch
  <2>3. out' = <<>> /\ top' = top
    BY <2>2, NoneSent
  <2> QED
    BY <2>1, <2>2, <2>3
<1>3. flushed = sent
  BY <1>1 DEF SendInv, FlushOK
<1>4. /\ err' \in BOOLEAN /\ flushed' \in {flushed, 0} /\ (sent' = sent \/ (sent' = 0 /\ pc = "walk"))
      /\ pc' = "send" => flushed' = sent' /\ (err' => sent' < Len(iov))
      /\ pc' # "send" => sent' = 0 /\ ~err'
      /\ pc' = "recv" => pc = "recv"
  BY <1>1, <1>2, <1>3
<1> QED
  BY <1>1, <1>2, <1>4, BatchStays

(* The sending side.                                                       *)
LEMMA SendInvNext ==
    ASSUME RecvInv, RecvInv', Unjoined, SendInv, [Next]_vars
    PROVE  SendInv' /\ [InOrder(out', top)]_vars
<1>1. CASE UNCHANGED vars
  <2>1. /\ UNCHANGED <<mode, seq, iov, bufs, hs, glued>> /\ UNCHANGED <<rq, gro, pend, bufs, i>>
        /\ UNCHANGED <<sent, err, gso_ok, tx, drop, noted, flushed, top, pc, out>>
    BY <1>1 DEF vars, world, recv, turn, send, stats, ghost
  <2>2. BatchOK' /\ HsOK' /\ \A k \in 1..Len(iov) : (Due(iov[k]))' = Due(iov[k])
    BY <2>1, BatchKept
  <2>3. Held' = Held
    BY <2>1, HeldSame
  <2>4. OrderOK'
    BY <2>1, <2>2, <2>3, ZenonT(60) DEF SendInv, OrderOK
  <2>5. FlushOK' /\ StatsOK'
    BY <2>1 DEF SendInv, FlushOK, StatsOK
  <2>6. OutOK'
    BY <2>1 DEF SendInv, OutOK, Sound, Overwritten, Flushes, C2s, hs
  <2> QED
    BY <1>1, <2>2, <2>4, <2>5, <2>6 DEF SendInv
<1>0. /\ pc # "send" => sent = 0 /\ err = FALSE
      /\ pc = "recv" => iov = <<>>
      /\ err \in BOOLEAN /\ gso_ok \in BOOLEAN /\ flushed \in 0..Batch /\ sent \in 0..Len(iov)
      /\ pc = "send" => flushed = sent /\ (err => sent < Len(iov))
  BY DEF SendInv, FlushOK
<1>00. StatsOK /\ 0 \in 0..Batch
  BY BatchAssumption DEF SendInv
<1>2. ASSUME NEW k \in Kinds, NEW n \in Lens \cup {HsLen}, NEW d \in Dests, Arrive(k, n, d)
      PROVE  SendInv' /\ InOrder(out', top)
  <2>1. /\ pc = "recv" /\ pc' = pc /\ seq' = seq + 1 /\ out' = <<>> /\ UNCHANGED <<mode, top>>
        /\ UNCHANGED <<hs_buf, clobbered, iov, sent, err, gso_ok, tx, drop, noted, flushed, settled>>
    BY <1>2 DEF Arrive, turn, hs, send, stats, ghost
  <2>2. StatsOK'
    BY <1>00, <2>1 DEF StatsOK
  <2> QED
    BY <1>0, <2>1, <2>2, BatchEmpty
<1>3. CASE ClientSeen
  <2>1. /\ UNCHANGED <<mode, seq, rq, gro, pend, bufs, i, hs, iov, glued>> /\ UNCHANGED <<tx, drop, noted, top>>
        /\ out' = <<>> /\ UNCHANGED <<pc, sent, err, gso_ok, flushed>>
    BY <1>3 DEF ClientSeen, recv, turn, send, stats, ghost
  <2>2. /\ err' \in BOOLEAN /\ gso_ok' \in BOOLEAN /\ flushed' \in {flushed, 0}
        /\ (sent' = sent \/ (sent' = 0 /\ pc = "walk"))
        /\ pc' = "send" => flushed' = sent' /\ (err' => sent' < Len(iov))
        /\ pc' # "send" => sent' = 0 /\ ~err'
        /\ pc' = "recv" => pc = "recv"
    BY <1>0, <2>1
  <2> QED
    BY <2>1, <2>2, BatchStays
<1>4. CASE OtherGsoOff
  <2>1. /\ UNCHANGED <<mode, seq, rq, gro, pend, bufs, i, hs, iov, glued>> /\ UNCHANGED <<tx, drop, noted, top>>
        /\ out' = <<>> /\ UNCHANGED <<pc, sent, err, flushed>> /\ gso_ok' = FALSE
    BY <1>4 DEF OtherGsoOff, world, recv, turn, stats, ghost
  <2>2. /\ err' \in BOOLEAN /\ gso_ok' \in BOOLEAN /\ flushed' \in {flushed, 0}
        /\ (sent' = sent \/ (sent' = 0 /\ pc = "walk"))
        /\ pc' = "send" => flushed' = sent' /\ (err' => sent' < Len(iov))
        /\ pc' # "send" => sent' = 0 /\ ~err'
        /\ pc' = "recv" => pc = "recv"
    BY <1>0, <2>1
  <2> QED
    BY <2>1, <2>2, BatchStays
<1>5. CASE RecvGro \/ DrainPend \/ Rearm \/ RecvMmsg
  <2>1. Reading /\ pc' \in {"recv", "walk"} /\ hs_buf' = hs_buf /\ clobbered' = clobbered /\ settled \subseteq settled'
    BY <1>5, ReadStep DEF hs
  <2>2. /\ pc = "recv" /\ out' = <<>> /\ flushed' = 0 /\ tx' = 0 /\ drop' = 0 /\ noted' = FALSE
        /\ UNCHANGED <<mode, top>> /\ seq' = seq /\ UNCHANGED <<iov, sent, err, gso_ok>>
    BY <2>1 DEF Reading, send
  <2>3. StatsOK'
    BY <1>00, <2>2 DEF StatsOK
  <2> QED
    BY <1>0, <1>00, <2>1, <2>2, <2>3, BatchEmpty
<1>20. CASE Reconnect
  <2>1. /\ pc = "recv" /\ pc' = pc /\ out' = <<>> /\ settled \subseteq settled' /\ UNCHANGED <<mode, top>> /\ seq' = seq
        /\ UNCHANGED <<hs_buf, clobbered, iov, sent, err, gso_ok, tx, drop, noted, flushed>>
    BY <1>20 DEF Reconnect, Settle, turn, hs, send, stats
  <2>2. StatsOK'
    BY <1>00, <2>1 DEF StatsOK
  <2> QED
    BY <1>0, <2>1, <2>2, BatchEmpty
<1>6. CASE NoSocket
  <2>1. /\ pc = "walk" /\ pc' = "recv" /\ i = 1 /\ out' = <<>> /\ settled \subseteq settled' /\ hs_buf' = <<>>
        /\ clobbered' = {}
        /\ UNCHANGED <<mode, top>> /\ seq' = seq
        /\ UNCHANGED <<iov, sent, err, gso_ok, tx, drop, noted, flushed>>
    BY <1>6 DEF NoSocket, Walk, world, Recv, Settle, stats
  <2>2. iov' = <<>>
    <3>1. iov \in Seq(Entries) /\ Len(iov) < 1
      BY <2>1, RestIs DEF RecvInv, RoomOK
    <3>2. iov = <<>>
      BY <3>1
    <3> QED
      BY <2>1, <3>2
  <2>3. StatsOK'
    BY <1>00, <2>1 DEF StatsOK
  <2> QED
    BY <1>0, <2>1, <2>2, <2>3, BatchEmpty
<1>7. ASSUME Packets, UNCHANGED hs, Enqueue(i) PROVE SendInv' /\ InOrder(out', top)
  <2>1. PICK at \in Nat : at = i
    <3>1. i \in 1..Len(bufs)
      BY <1>7, NextPacket
    <3> QED
      BY <3>1
  <2>2. Enqueue(at)
    BY <1>7, <2>1
  <2> QED
    BY <1>7, <2>1, <2>2, PacketBatched
<1>10. CASE Transport
  BY <1>7, <1>10 DEF Transport
<1>8. ASSUME StartSend, Walk, UNCHANGED <<pend, iov, stats, top>>, out' = <<>>
      PROVE  SendInv' /\ InOrder(out', top)
  <2>1. /\ pc = "walk" /\ pc' = "send" /\ sent' = 0 /\ err' = FALSE /\ flushed' = 0 /\ gso_ok' = gso_ok
        /\ UNCHANGED <<mode, seq, rq, gro, pend, bufs, i, hs, iov, glued>> /\ UNCHANGED <<tx, drop, noted, top>>
    BY <1>8 DEF StartSend, Walk, world, turn, stats
  <2> QED
    BY <1>0, <1>8, <2>1, BatchStays
<1>9. CASE Flush
  BY <1>8, <1>9 DEF Flush, Packets
<1>11. CASE Handshake
  <2>1. Packets /\ Kind # "data" /\ Flushed
    BY <1>11 DEF Handshake
  <2>2. CASE Copied /\ Enqueue(0)
    <3>1. PICK at \in Nat : at = 0
      OBVIOUS
    <3>2. Enqueue(at)
      BY <2>2, <3>1
    <3> QED
      BY <2>1, <2>2, <3>1, <3>2, PacketBatched
  <2>3. CASE UNCHANGED hs /\ Enqueue(i)
    BY <1>7, <2>1, <2>3
  <2> QED
    BY <1>11, <2>2, <2>3 DEF Handshake
<1>12. CASE SendInit
  <2>1. /\ Packets /\ Kind = "init" /\ Flushed /\ Advance
        /\ UNCHANGED <<pc, bufs, iov, sent, err, stats, flushed>>
        /\ Copied \/ UNCHANGED hs
        /\ Sends(<<[bytes |-> bufs[i], to |-> To]>>) \/ Sends(<<>>)
    BY <1>12 DEF SendInit
  <2>2. HsStep
    BY <2>1 DEF HsStep
  <2>3. iov = <<>> \/ (~Flushes /\ Direct /\ Kind = "init")
    <3>1. bufs[i][1] \in Met(mode) /\ Kind = bufs[i][1].kind
      BY <2>1, NextPacket
    <3>2. mode \in {"c2s_normal", "s2c_server"}
      BY <2>1, <3>1 DEF Met
    <3> QED
      BY <2>1, <3>2 DEF Flushed, Direct
  <2>4. Sends(<<>>) => out' = <<>> /\ top' = top
    BY NoneSent
  <2> QED
    BY <2>1, <2>2, <2>3, <2>4, PacketGone
<1>13. CASE Discard
  BY <1>13, PacketGone DEF Discard, HsStep
<1>14. CASE EndTurn
  <2>1. /\ Walk /\ out' = <<>> /\ UNCHANGED <<pend, iov, stats, top>> /\ settled' = settled
        /\ IF iov = <<>> THEN Recv /\ UNCHANGED <<sent, err, flushed>> ELSE StartSend
    BY <1>14 DEF EndTurn
  <2>2. CASE iov = <<>>
    <3>1. /\ pc = "walk" /\ pc' = "recv" /\ hs_buf' = <<>> /\ clobbered' = {} /\ UNCHANGED <<mode, top>>
          /\ seq' = seq /\ UNCHANGED <<iov, sent, err, gso_ok, tx, drop, noted, flushed>>
      BY <2>1, <2>2 DEF Walk, world, Recv, stats
    <3>2. StatsOK'
      BY <1>00, <3>1 DEF StatsOK
    <3> QED
      BY <1>0, <2>1, <2>2, <3>1, <3>2, BatchEmpty
  <2>3. CASE iov # <<>>
    BY <1>8, <2>1, <2>3
  <2> QED
    BY <2>2, <2>3
<1>15. ASSUME Sending, gso_ok' \in BOOLEAN, NEW want \in 1..Len(Rest), Mmsg(want)
       PROVE  SendInv' /\ InOrder(out', top)
  <2>1. ASSUME NEW r \in 1..want, SendsBatch(Plain(Cut(Rest, r))), sent' = sent + r, err' = FALSE
        PROVE  SendInv' /\ InOrder(out', top)
    <3>1. Len(Rest) \in Nat
      BY RestIs
    <3>2. r \in 1..Len(Rest)
      BY <3>1
    <3> QED
      BY <1>15, <2>1, <3>2, SendStep
  <2>2. ASSUME SendsBatch(<<>>), err' = TRUE, sent' = sent
        PROVE  SendInv' /\ InOrder(out', top)
    BY <1>15, <2>2, SendFails
  <2> QED
    BY <1>15, <2>1, <2>2 DEF Mmsg
<1>16. CASE GsoSend
  <2>1. Sending /\ Run > 1 /\ SendsBatch(Sliced(Cut(Rest, Run))) /\ sent' = sent + Run /\ err' = FALSE /\ gso_ok' = gso_ok
    BY <1>16 DEF GsoSend
  <2>2. Run \in 1..Len(Rest) /\ Sliced(Cut(Rest, Run)) = Plain(Cut(Rest, Run))
    BY <2>1, RunSliced
  <2>3. PICK r \in 1..Len(Rest) : r = Run
    BY <2>2
  <2>4. SendsBatch(Plain(Cut(Rest, r))) /\ sent' = sent + r
    BY <2>1, <2>2, <2>3
  <2> QED
    BY <1>0, <2>1, <2>4, SendStep
<1>17. CASE GsoRefused
  <2>1. Sending /\ Run > 1 /\ gso_ok' \in BOOLEAN /\ Mmsg(Run)
    BY <1>17 DEF GsoRefused
  <2>2. PICK want \in 1..Len(Rest) : want = Run
    BY <2>1, RunSliced
  <2>3. Mmsg(want)
    BY <2>1, <2>2
  <2> QED
    BY <1>15, <2>1, <2>3
<1>18. CASE MmsgSend
  <2>1. Sending /\ Mmsg(Want) /\ gso_ok' = gso_ok /\ sent < Len(iov)
    BY <1>18 DEF MmsgSend, Sending
  <2>2. PICK want \in 1..Len(Rest) : want = Want
    BY <2>1, WantIs
  <2>3. Mmsg(want)
    BY <2>1, <2>2
  <2> QED
    BY <1>0, <1>15, <2>1, <2>3
<1>19. CASE SendDone
  <2>1. /\ pc = "send" /\ pc' \in {"recv", "walk"} /\ hs_buf' \in {hs_buf, <<>>} /\ clobbered' \in {clobbered, {}}
        /\ out' = <<>> /\ UNCHANGED <<mode, top>>
        /\ seq' = seq /\ settled' = settled /\ iov' = <<>> /\ sent' = 0 /\ err' = FALSE
        /\ tx' = sent /\ drop' = Len(iov) - sent /\ noted' = (err /\ C2s) /\ UNCHANGED <<gso_ok, flushed>>
    BY <1>19 DEF SendDone, world, ghost, turn, hs, Recv
  <2>2. StatsOK'
    <3>1. Len(iov) \in Nat /\ Len(iov) <= Batch /\ sent \in Nat /\ sent <= Len(iov) /\ Batch \in Nat
      BY RestIs, BatchAssumption
    <3>2. tx' \in 0..Batch /\ drop' \in 0..Batch
      BY <2>1, <3>1
    <3>3. noted' \in BOOLEAN
      BY <2>1
    <3> QED
      BY <3>2, <3>3 DEF StatsOK
  <2> QED
    BY <1>0, <2>1, <2>2, BatchEmpty
<1> QED
  BY <1>1, <1>2, <1>3, <1>4, <1>5, <1>6, <1>9, <1>10, <1>11, <1>12, <1>13, <1>14, <1>16, <1>17, <1>18, <1>19, <1>20
  DEF Next, Thread

LEMMA BatchTypes == RecvInv /\ SendInv => TypeOK
<1> SUFFICES ASSUME RecvInv, SendInv PROVE TypeOK
  OBVIOUS
<1>1. Met(mode) \subseteq Packet
  BY DEF Met
<1>2. ASSUME NEW d \in Seq(Met(mode)) PROVE d \in Datagram
  BY <1>1 DEF Datagram
<1>3. mode \in Modes /\ seq \in 0..Arrivals
  BY DEF RecvInv, Numbers
<1>4. rq \in Seq([bytes : Datagram, seg : Nat, stuck : BOOLEAN])
  <2> DEFINE S == Buffer(Met(mode))
             T == [bytes : Datagram, seg : Nat, stuck : BOOLEAN]
  <2>1. rq \in Seq(S)
    BY DEF RecvInv, QueueOK, GoodQueue
  <2>2. \A b \in S : b \in T
    BY <1>2 DEF Buffer
  <2> HIDE DEF S, T
  <2>3. rq \in Seq(T)
    BY <2>1, <2>2
  <2> QED
    BY <2>3 DEF T
<1>5. udp_gro \in BOOLEAN /\ gro \in BOOLEAN
  BY DEF RecvInv, GroOK
<1>6. pend \in [bytes : Datagram, off : Nat, seg : Nat]
  <2>1. pend \in [bytes : Seq(Met(mode)), off : Nat, seg : Nat]
    BY DEF RecvInv, PendOK, GoodRest
  <2>2. pend.bytes \in Datagram
    BY <1>2, <2>1
  <2> QED
    BY <2>1, <2>2
<1>7. /\ no_coalesce \in 0..NoCoalesce /\ rearm_in \in 0..2 * RearmMax /\ rearm_gap \in RearmMin..2 * RearmMax
      /\ has_client \in BOOLEAN /\ pc \in {"recv", "walk", "send"} /\ glued \subseteq 1..Arrivals
  BY DEF RecvInv, Numbers
<1>8. bufs \in Seq(Datagram) /\ i \in 1..Len(bufs) + 1
  <2> DEFINE S == Seq(Met(mode))
             T == Datagram
  <2>1. bufs \in Seq(S) /\ i \in 1..Len(bufs) + 1
    BY DEF RecvInv, TurnOK, GoodRow
  <2>2. \A d \in S : d \in T
    BY <1>2
  <2> HIDE DEF S, T
  <2>3. bufs \in Seq(T)
    BY <2>1, <2>2
  <2> QED
    BY <2>1, <2>3 DEF T
<1>9. hs_buf \in Datagram
  BY <1>2 DEF SendInv, HsOK
<1>10. iov \in Seq([at : Nat, len : Nat, to : Dests]) /\ Len(iov) <= Batch
  BY DEF RecvInv, RoomOK
<1>11. /\ sent \in 0..Len(iov) /\ err \in BOOLEAN /\ gso_ok \in BOOLEAN /\ flushed \in 0..Batch
       /\ tx \in 0..Batch /\ drop \in 0..Batch /\ noted \in BOOLEAN
  BY DEF SendInv, FlushOK, StatsOK
<1>12. out \in Seq([bytes : Datagram, to : Dests])
  <2> DEFINE S == [bytes : Seq(Met(mode)), to : Dests]
             T == [bytes : Datagram, to : Dests]
  <2>1. out \in Seq(S)
    BY DEF SendInv, OutOK
  <2>2. \A w \in S : w \in T
    BY <1>2
  <2> HIDE DEF S, T
  <2>3. out \in Seq(T)
    BY <2>1, <2>2
  <2> QED
    BY <2>3 DEF T
<1>13. top \in 0..Arrivals /\ settled \subseteq 1..Arrivals /\ clobbered \subseteq 1..Arrivals
  <2>1. top \in 0..seq /\ settled \subseteq 1..seq /\ clobbered \subseteq 1..seq
    BY DEF SendInv, FlushOK, HsOK, RecvInv, NonePassedOver
  <2>2. seq \in Nat /\ seq <= Arrivals /\ Arrivals \in Nat
    BY <1>3, BatchAssumption
  <2>3. \A y \in 1..seq : y \in 1..Arrivals
    BY <2>2
  <2>4. top \in 0..Arrivals
    BY <2>1, <2>2
  <2> QED
    BY <2>1, <2>3, <2>4
<1> QED
  BY <1>3, <1>4, <1>5, <1>6, <1>7, <1>8, <1>9, <1>10, <1>11, <1>12, <1>13 DEF TypeOK

LEMMA LeavesIntact == RecvInv /\ SendInv => Intact
<1> SUFFICES ASSUME RecvInv, SendInv PROVE Intact
  OBVIOUS
<1>1. TypeOK
  BY BatchTypes
<1>2. ASSUME NEW w \in Range(out), ~Overwritten(w)
      PROVE  /\ w.bytes = Bytes(w.bytes[1]) \/ w.bytes[1].len > BufSize \/ Ids(w.bytes) \subseteq glued
             /\ w.to = w.bytes[1].to
  <2>1. out \in Seq([bytes : Seq(Met(mode)), to : Dests])
    BY DEF SendInv, OutOK
  <2>2. PICK j \in 1..Len(out) : w = out[j]
    BY <2>1, SMTT(60) DEF Range
  <2>3. Sound(w.bytes) /\ w.to = w.bytes[1].to
    BY <1>2, <2>2 DEF SendInv, OutOK
  <2> QED
    BY <2>3 DEF Sound, Whole
<1> QED
  BY <1>1, <1>2 DEF Intact

(* Both halves together are inductive: what recv_gro and recvmmsg leave in *)
(* the buffers is what the entries of the batch refer to, and what         *)
(* send_batch_gso has sent of it is its beginning.                         *)
THEOREM BatchInvariant == Spec => [](RecvInv /\ Unjoined /\ SendInv)
<1>1. Init => RecvInv /\ Unjoined /\ SendInv
  BY RecvInvInit, UnjoinedInit, SendInvInit
<1>2. RecvInv /\ Unjoined /\ SendInv /\ [Next]_vars => (RecvInv /\ Unjoined /\ SendInv)'
  BY RecvInvNext, UnjoinedNext, SendInvNext
<1> QED
  BY <1>1, <1>2, PTL DEF Spec

(* Every datagram that leaves is one packet that arrived, whole, and goes  *)
(* to the peer it was meant for: gso_run_len joins only what UDP_SEGMENT   *)
(* cuts apart again at the same places, and a run that was refused is sent *)
(* again as the same datagrams.  Said of all but the packets recvmmsg cut  *)
(* or the kernel had joined before GRO was given up, and, in the loop that *)
(* does not flush (s2c_server), of all but a handshake written to hs_buf   *)
(* over another one of its batch (transform.c:300).                        *)
THEOREM IntactAlways == Spec => []Intact
<1>1. RecvInv /\ SendInv => Intact
  BY LeavesIntact
<1> QED
  BY <1>1, BatchInvariant, PTL

(* Packets leave in the order they came and none leaves twice, whatever a  *)
(* batch, a run or a row holds and wherever sendmmsg stops.  In the loop   *)
(* that does not flush (s2c_server) this is not said of an init, which     *)
(* goes around its batch, nor of a handshake written to hs_buf over        *)
(* another one of its batch: that one leaves again in place of the other.  *)
THEOREM InOrderOnceAlways == Spec => InOrderOnce
<1>1. (RecvInv /\ Unjoined /\ SendInv) /\ RecvInv' /\ [Next]_vars => [InOrder(out', top)]_vars
  BY SendInvNext
<1> QED
  BY <1>1, BatchInvariant, PTL DEF Spec, InOrderOnce

LEMMA FlushTold ==
    RecvInv /\ SendInv /\ [Next]_vars =>
      [pc = "send" /\ pc' # "send" =>
          /\ tx' = flushed /\ drop' = Len(iov) - flushed
          /\ noted' <=> (C2s /\ flushed < Len(iov))]_vars
<1> SUFFICES ASSUME RecvInv, SendInv, Next, pc = "send", pc' # "send"
             PROVE  /\ tx' = flushed /\ drop' = Len(iov) - flushed
                    /\ noted' <=> (C2s /\ flushed < Len(iov))
  OBVIOUS
<1>1. SendDone
  <2>1. ~Reading
    BY DEF Reading
  <2>2. ~Walk
    BY DEF Walk
  <2>3. ~Sending
    BY DEF Sending
  <2>4. ~(\E k \in Kinds, n \in Lens \cup {HsLen}, d \in Dests : Arrive(k, n, d)) /\ ~Reconnect
    BY DEF Arrive, Reconnect
  <2>5. ~ClientSeen /\ ~OtherGsoOff
    BY DEF ClientSeen, OtherGsoOff
  <2> QED
    BY <2>1, <2>2, <2>3, <2>4, <2>5
    DEF Next, Thread, RecvGro, DrainPend, Rearm, RecvMmsg, NoSocket, Packets, Transport, Flush,
        Handshake, SendInit, Discard, EndTurn, GsoSend, GsoRefused, MmsgSend
<1>2. /\ sent = Len(iov) \/ err
      /\ tx' = sent /\ drop' = Len(iov) - sent /\ noted' = (err /\ C2s)
  BY <1>1 DEF SendDone
<1>3. flushed = sent /\ (err => sent < Len(iov)) /\ err \in BOOLEAN
  BY DEF SendInv, FlushOK
<1>4. Len(iov) \in Nat /\ sent \in Nat
  BY RestIs
<1>5. err <=> flushed < Len(iov)
  BY <1>2, <1>3, <1>4
<1>6. noted' <=> (C2s /\ flushed < Len(iov))
  BY <1>2, <1>5
<1> QED
  BY <1>2, <1>3, <1>6

(* What a flush reports is what happened: stats_add_tx is given the        *)
(* datagrams that left and the rest, and note_remote_send_err is called    *)
(* exactly when something was lost on its way to the remote.               *)
THEOREM FlushReportedAlways == Spec => FlushReported
<1>1. (RecvInv /\ SendInv) /\ [Next]_vars =>
        [pc = "send" /\ pc' # "send" =>
            /\ tx' = flushed /\ drop' = Len(iov) - flushed
            /\ noted' <=> (C2s /\ flushed < Len(iov))]_vars
  BY FlushTold
<1> QED
  BY <1>1, BatchInvariant, PTL DEF Spec, FlushReported
=============================================================================
