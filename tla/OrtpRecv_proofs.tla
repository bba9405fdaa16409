-------------------------- MODULE OrtpRecv_proofs ---------------------------
(***************************************************************************)
(* The receiving side of an oRTP session for every stream of less than     *)
(* half the sequence numbers and whatever the network loses, repeats and   *)
(* reorders.  The loop over the socket is a recursive function, about      *)
(* which is proved by induction that each datagram it reads keeps the      *)
(* invariant.                                                              *)
(***************************************************************************)
EXTENDS OrtpRecv, SequenceTheorems, FiniteSetTheorems, WellFoundedInduction, TLAPS

PayTypes == {"none", "known", "unknown", "tev"}
Circle == 0 .. TsMod - 1

(* The values of the receive state. *)
Rs == [rq : Seq(Packets), tev : Seq(Packets), part : SUBSET Packets, sync : BOOLEAN,
       pt : PayTypes, hwPt : PayTypes, comp : Nat, jitt : Nat,
       diff : Circle, hwDiff : Circle, last : Circle,
       hi : Nat, lo : 0 .. SnMod - 1, since : Nat, atSR : Nat, cum : Nat, lastReport : Nat,
       recv : Nat, bad : Nat, discarded : Nat, outoftime : Nat, skipped : Nat,
       twice : Nat, freed : Nat, kept : Nat, base : Nat, sinceBase : Nat,
       runts : Nat, resets : BOOLEAN, fresh : BOOLEAN, missed : BOOLEAN]

(* The place of a packet in the stream, and the timestamp of a place. *)
Pos(n) == ((n - 1) \div PerFrame) * TsStep
StreamTs(x) == (FirstTs + x) % TsMod

Sorted(q) == \A i, j \in 1 .. Len(q) : i < j => q[i] < q[j]
Before(g, q) == \A i \in 1 .. Len(g), j \in 1 .. Len(q) : g[i] < q[j]

(* The queues: sorted, of bounded length, behind what was handed over; the *)
(* telephone events have their own.  mp is the packet a call has taken out *)
(* and not yet handed over, a sequence of at most one.                     *)
QueuesOK(r, g, mp) ==
  /\ Sorted(r.rq) /\ Sorted(r.tev) /\ Sorted(g)
  /\ Before(g, r.rq) /\ Before(g, mp) /\ Before(mp, r.rq)
  /\ Len(r.rq) + Len(mp) <= MaxRq + Cardinality(r.part) /\ Len(r.tev) <= MaxRq
  /\ r.part \subseteq (ToSet(r.rq) \cup ToSet(mp)) \cap Long
  /\ ToSet(r.rq) \cap Tev = {} /\ ToSet(mp) \cap Tev = {} /\ ToSet(r.tev) \subseteq Tev

(* The application has come to place x of the stream, in c calls: what it  *)
(* has got is not newer, and rcv_last_ts is the timestamp of that place.   *)
(* Before the first packet nothing was handed over.                        *)
PlaceOK(r, g, c, x) ==
  /\ x \in Nat /\ x <= N * TsStep + c * TsStep
  /\ r.comp = r.jitt
  /\ r.sync => g = <<>>
  /\ ~r.sync => /\ r.hwDiff = (r.diff + r.jitt) % TsMod
                /\ r.last = StreamTs(x)
                /\ \A i \in 1 .. Len(g) : Pos(g[i]) <= x

(* The application's timestamp is that of its place. *)
ClockOK(r, u, x) == ~r.sync => (u.ts + r.diff) % TsMod = StreamTs(x)

(* The packets in the queues and those in a statistic. *)
Total(r) == Len(r.rq) + Len(r.tev) + r.bad + r.discarded + r.outoftime + r.skipped
            + r.twice + r.freed

Accounted(r, k) == r.recv + r.runts + r.kept = Total(r) + k

(* What was handed over, as far as the order goes: once an old packet has  *)
(* got past the test nothing is known.                                     *)
History == IF rs.missed THEN <<>> ELSE given

OrderIInv ==
  /\ rs \in Rs /\ sock \in Seq(Packets \cup {Runt}) /\ given \in Seq(Packets)
  /\ user \in [ts : Circle, calls : 0 .. MaxCalls]
  /\ QueuesOK(rs, History, <<>>) /\ Accounted(rs, Len(given))
  /\ \E x \in 0 .. N * TsStep + user.calls * TsStep :
        PlaceOK(rs, History, user.calls, x) /\ ClockOK(rs, user, x)

-----------------------------------------------------------------------------
(* The report.  A sender that sends a packet with another version number   *)
(* goes on with that version.                                              *)
BadFromThenOn == \A b \in Bad, n \in Packets : b <= n => n \in Bad

(* No packet with another version number has come, and none from before    *)
(* the end of the range after one from behind it.                          *)
Clean == net.calm /\ (net.inOrder \/ (BadFromThenOn /\ net.top \notin Bad))

(* What the network does next after its highest packet was t. *)
Follows(t, n, u) ==
  IF n = Runt THEN u = t
  ELSE /\ u = IF n > t THEN n ELSE t
       /\ n <= t + MaxGap /\ t <= n + MaxGap
       /\ net.calm /\ n < t => SnOf(n) < SnOf(t)
       /\ net.inOrder => n > t
       /\ Clean => n \notin Bad

Ext(r) == r.hi * SnMod + r.lo

(* The extended sequence number is that of packet t; 0 is no packet yet. *)
ExtOK(r, t) == Ext(r) = IF t = 0 THEN 0 ELSE FirstSeq + t

(* The packets lost since the first report are those of the reports and    *)
(* those since the last one.                                               *)
LossOK(r) ==
  /\ r.atSR = 0 => r.cum = 0
  /\ r.atSR # 0 => /\ r.since + r.atSR <= Ext(r)
                   /\ r.cum + r.sinceBase - r.since = r.atSR - r.base

(* The network's highest packets after each of those in the socket. *)
Tops(T) ==
  /\ T \in [0 .. Len(sock) -> 0 .. N] /\ T[Len(sock)] = net.top
  /\ \A k \in 1 .. Len(sock) : Follows(T[k - 1], sock[k], T[k])

ReportIInv ==
  /\ net \in [arrivals : Nat, top : 0 .. N, inOrder : BOOLEAN, calm : BOOLEAN]
  /\ net.inOrder => net.calm
  /\ \E T \in [0 .. Len(sock) -> 0 .. N] :
       /\ Tops(T)
       /\ Clean => ExtOK(rs, T[0])
  /\ net.inOrder => LossOK(rs)

-----------------------------------------------------------------------------
(* Arithmetic and sequences. *)
(* Every set of naturals that is not empty has a least element. *)
LEMMA LeastElement ==
  ASSUME NEW S \in SUBSET Nat, S # {}
  PROVE  \E i \in S : \A j \in S : i <= j
<1>1. PICK R : R = OpToRel(<, Nat)
  OBVIOUS
<1>2. PICK x \in S : \A y \in S : ~(<<y, x>> \in R)
  BY <1>1, NatLessThanWellFounded, WFMin, Zenon
<1>3. \A y, z \in Nat : y < z => <<y, z>> \in R
  BY <1>1 DEF OpToRel
<1>4. ASSUME NEW y \in S PROVE x <= y
  <2>1. x \in Nat /\ y \in Nat /\ ~(y < x)
    BY <1>2, <1>3, Zenon
  <2> QED BY <2>1
<1> QED BY <1>4

(* A remainder is in the range of its divisor. *)
LEMMA ModRange == \A a \in Int, b \in Nat \ {0} : a % b \in 0 .. b - 1
OBVIOUS

(* A number is a multiple of the divisor and its remainder. *)
LEMMA ModQuotient ==
  ASSUME NEW a \in Int, NEW m \in Nat \ {0} PROVE \E q \in Int : a = m * q + (a % m)
<1>1. m \in Int /\ m > 0
  OBVIOUS
<1>2. a \div m \in Int /\ a = m * (a \div m) + (a % m)
  BY <1>1
<1> QED BY <1>2

(* There is only one remainder. *)
LEMMA ModUnique ==
  ASSUME NEW a \in Int, NEW m \in Nat \ {0}, NEW q \in Int, NEW r \in 0 .. m - 1, a = m * q + r
  PROVE  a % m = r
OBVIOUS

(* A value on the circle is its own remainder. *)
LEMMA ModSmall == ASSUME NEW m \in Nat \ {0}, NEW a \in 0 .. m - 1 PROVE a % m = a
OBVIOUS

(* A multiple of the divisor does not matter. *)
LEMMA ModShift ==
  ASSUME NEW a \in Int, NEW m \in Nat \ {0}, NEW k \in Int PROVE (a + m * k) % m = a % m
<1>1. PICK q \in Int : a = m * q + (a % m)
  BY ModQuotient
<1>2. PICK r \in 0 .. m - 1 : r = a % m
  BY ModRange
<1>3. a + m * k = m * (q + k) + r
  BY <1>1, <1>2
<1>4. a + m * k \in Int /\ q + k \in Int
  OBVIOUS
<1>5. (a + m * k) % m = r
  BY <1>2, <1>3, <1>4, ModUnique
<1> QED BY <1>2, <1>5

(* Sums and differences of values on the circle. *)
LEMMA ModSums ==
  ASSUME NEW a \in Int, NEW b \in Int, NEW m \in Nat \ {0}
  PROVE  /\ (b + (a % m)) % m = (b + a) % m
         /\ (b - (a % m)) % m = (b - a) % m
         /\ ((b % m) - (a % m)) % m = (b - a) % m
<1>1. PICK q \in Int : a = m * q + (a % m)
  BY ModQuotient
<1>2. PICK p \in Int : b = m * p + (b % m)
  BY ModQuotient
<1>3. PICK r \in Int : r = a % m
  BY ModRange
<1>4. PICK t \in Int : t = b % m
  BY ModRange
<1>5. a = m * q + r /\ b = m * p + t
  BY <1>1, <1>2, <1>3, <1>4
<1>6. (b + r) % m = (b + a) % m
  <2>1. b + a = (b + r) + m * q /\ b + r \in Int
    BY <1>5
  <2>2. ((b + r) + m * q) % m = (b + r) % m
    BY <2>1, ModShift
  <2> QED BY <2>1, <2>2
<1>7. (b - r) % m = (b - a) % m
  <2>1. b - r = (b - a) + m * q /\ b - a \in Int
    BY <1>5
  <2>2. ((b - a) + m * q) % m = (b - a) % m
    BY <2>1, ModShift
  <2> QED BY <2>1, <2>2
<1>8. (t - r) % m = (b - r) % m
  <2>1. b - r = (t - r) + m * p /\ t - r \in Int
    BY <1>5
  <2>2. ((t - r) + m * p) % m = (t - r) % m
    BY <2>1, ModShift
  <2> QED BY <2>1, <2>2
<1> QED BY <1>3, <1>4, <1>6, <1>7, <1>8

(* rtp_recv reads one by one: h[k] is the state after k datagrams. *)
ReadsOn(h, r, m) ==
  /\ h[0] = [r EXCEPT !.fresh = FALSE] /\ rtp_recv(r, m) = h[m]
  /\ \A k \in 1 .. m : h[k] = ReadOne(h[k - 1], sock[k])

LEMMA ReadIs ==
  ASSUME NEW r, NEW m \in Nat
  PROVE  \E h : ReadsOn(h, r, m)
<1>a. PICK b : b = [r EXCEPT !.fresh = FALSE]
  OBVIOUS
<1> DEFINE Reads(h, n) == h = [k \in 0 .. n |-> IF k = 0 THEN b ELSE ReadOne(h[k - 1], sock[k])]
<1>0. m \in Nat
  OBVIOUS
<1>1. \A n \in 0 .. m : \E h : Reads(h, n)
  <2> DEFINE S == {n \in 0 .. m : ~ \E h : Reads(h, n)}
  <2>1. SUFFICES ASSUME S # {} PROVE FALSE
    OBVIOUS
  <2>2. S \in SUBSET Nat
    BY <1>0
  <2>3. PICK n \in S : \A j \in S : n <= j
    BY <2>1, <2>2, LeastElement
  <2>4. n # 0
    <3>1. Reads([k \in 0 .. 0 |-> b], 0)
      OBVIOUS
    <3> QED BY <3>1, <2>3
  <2>5. n - 1 \in 0 .. m /\ n - 1 \notin S /\ n \in Nat
    <3>1. n \in 0 .. m /\ \A j \in S : j \in Int
      OBVIOUS
    <3> HIDE DEF S
    <3> QED BY <1>0, <2>3, <2>4, <3>1
  <2>6. PICK g : Reads(g, n - 1)
    BY <2>5
  <2>7. Reads([k \in 0 .. n |-> IF k = n THEN ReadOne(g[n - 1], sock[n]) ELSE g[k]], n)
    <3> DEFINE h == [k \in 0 .. n |-> IF k = n THEN ReadOne(g[n - 1], sock[n]) ELSE g[k]]
    <3>1. ASSUME NEW k \in 0 .. n
          PROVE  h[k] = IF k = 0 THEN b ELSE ReadOne(h[k - 1], sock[k])
      <4>1. CASE k = n
        BY <4>1, <2>4, <2>5
      <4>2. CASE k # n
        <5>1. k \in 0 .. n - 1 /\ (k # 0 => k - 1 \in 0 .. n /\ k - 1 # n)
          BY <4>2, <2>5
        <5>2. g[k] = IF k = 0 THEN b ELSE ReadOne(g[k - 1], sock[k])
          BY <5>1, <2>6
        <5>3. h[k] = g[k] /\ (k # 0 => h[k - 1] = g[k - 1])
          BY <5>1, <4>2
        <5> QED BY <5>2, <5>3
      <4> QED BY <4>1, <4>2
    <3> HIDE DEF h
    <3>2. h = [k \in 0 .. n |-> h[k]]
      BY DEF h
    <3>3. Reads(h, n)
      BY <3>1, <3>2
    <3> QED BY <3>3 DEF h
  <2> QED BY <2>3, <2>7
<1>2. \E h : Reads(h, m)
  BY <1>0, <1>1
<1>3. PICK h : h = CHOOSE g : Reads(g, m)
  OBVIOUS
<1>4. Reads(h, m)
  BY <1>2, <1>3
<1>5. rtp_recv(r, m) = h[m]
  BY <1>3, <1>a DEF rtp_recv
<1>6. ASSUME NEW k \in 0 .. m
      PROVE  h[k] = IF k = 0 THEN b ELSE ReadOne(h[k - 1], sock[k])
  BY ONLY <1>4, k \in 0 .. m
<1>7. h[0] = b
  <2>1. 0 \in 0 .. m
    BY <1>0
  <2> QED BY ONLY <1>6, <2>1
<1>8. ASSUME NEW k \in 1 .. m PROVE h[k] = ReadOne(h[k - 1], sock[k])
  BY ONLY <1>0, <1>6, k \in 1 .. m
<1>9. h[0] = [r EXCEPT !.fresh = FALSE]
  BY ONLY <1>7, <1>a, Zenon
<1>10. ReadsOn(h, r, m)
  BY ONLY <1>5, <1>8, <1>9, Zenon DEF ReadsOn
<1> QED BY ONLY <1>10, Zenon

(* Two numbers less than half a circle apart compare on the circle as they *)
(* do without it.                                                          *)
LEMMA CircleOrder ==
  ASSUME NEW a \in Int, NEW b \in Int, NEW m \in Nat \ {0}, 2 * (a - b) < m, 2 * (b - a) < m
  PROVE  /\ 2 * (((a % m) - (b % m)) % m) < m <=> a >= b
         /\ a % m = b % m <=> a = b
<1>1. PICK d \in Int : d = a - b
  OBVIOUS
<1>2. ((a % m) - (b % m)) % m = d % m
  BY <1>1, ModSums
<1>3. d >= 0 => d % m = d
  BY <1>1
<1>4. d < 0 => d % m = d + m
  <2> SUFFICES ASSUME d < 0 PROVE d % m = d + m
    OBVIOUS
  <2>1. d + m \in 0 .. m - 1 /\ d = m * (-1) + (d + m)
    BY <1>1
  <2> QED BY <2>1, ModUnique
<1>5. 2 * (d % m) < m <=> a >= b
  BY <1>1, <1>3, <1>4
<1>6. a % m = b % m => a = b
  <2>1. SUFFICES ASSUME a % m = b % m PROVE a = b
    OBVIOUS
  <2>2. PICK r \in Int : r = a % m
    BY ModRange
  <2>3. (r - r) % m = d % m
    BY <1>2, <2>1, <2>2
  <2>4. r - r = 0 /\ 0 % m = 0
    OBVIOUS
  <2> QED BY <1>1, <1>3, <1>4, <2>3, <2>4
<1> QED BY <1>2, <1>5, <1>6

(* Products grow with their factors. *)
LEMMA ProductGrows ==
  ASSUME NEW a \in Nat, NEW b \in Nat, NEW c \in Nat, a <= b
  PROVE  a * c <= b * c /\ a * c \in Nat /\ b * c \in Nat
OBVIOUS

(* The numbers of the stream. *)
LEMMA Numbers ==
  /\ N \in Nat \ {0} /\ SnMod \in Nat \ {0} /\ ExtMod \in Nat \ {0} /\ TsMod \in Nat \ {0}
  /\ WrapWindow \in Nat \ {0} /\ TsStep \in Nat \ {0} /\ PerFrame \in Nat \ {0}
  /\ MaxRq \in Nat \ {0} /\ SockSize \in Nat \ {0}
  /\ FirstSeq \in Nat /\ FirstTs \in Nat /\ MaxGap \in Nat /\ MaxCalls \in Nat
  /\ Interval \in Nat /\ MaxArrivals \in Nat
  /\ 2 * N < SnMod /\ 2 * (N * TsStep + MaxCalls * TsStep) < TsMod
  /\ N * TsStep \in Nat /\ MaxCalls * TsStep \in Nat
<1>1. /\ N \in Nat \ {0} /\ SnMod \in Nat \ {0} /\ ExtMod \in Nat \ {0} /\ TsMod \in Nat \ {0}
      /\ WrapWindow \in Nat \ {0} /\ TsStep \in Nat \ {0} /\ PerFrame \in Nat \ {0}
      /\ MaxRq \in Nat \ {0} /\ SockSize \in Nat \ {0}
  BY RecvConstants
<1>2. /\ FirstSeq \in Nat /\ FirstTs \in Nat /\ MaxGap \in Nat /\ MaxCalls \in Nat
      /\ Interval \in Nat /\ MaxArrivals \in Nat
  BY RecvConstants
<1>3. 2 * N < SnMod /\ 2 * (N * TsStep + MaxCalls * TsStep) < TsMod
  BY RecvConstants
<1>4. N * TsStep \in Nat /\ MaxCalls * TsStep \in Nat
  BY <1>1, <1>2
<1> QED BY <1>1, <1>2, <1>3, <1>4

(* Sequence numbers compare as the sender's numbers. *)
LEMMA SeqOrder ==
  ASSUME NEW a \in Packets, NEW b \in Packets
  PROVE  /\ SeqGreater(SnOf(a), SnOf(b)) <=> a >= b
         /\ SnOf(a) = SnOf(b) <=> a = b
         /\ SnOf(a) \in 0 .. SnMod - 1
<1>1. a \in 1 .. N /\ b \in 1 .. N
  BY DEF Packets
<1>2. /\ FirstSeq + a \in Int /\ FirstSeq + b \in Int
      /\ 2 * ((FirstSeq + a) - (FirstSeq + b)) < SnMod /\ 2 * ((FirstSeq + b) - (FirstSeq + a)) < SnMod
  BY <1>1, Numbers
<1>3. /\ 2 * ((((FirstSeq + a) % SnMod) - ((FirstSeq + b) % SnMod)) % SnMod) < SnMod
             <=> FirstSeq + a >= FirstSeq + b
      /\ (FirstSeq + a) % SnMod = (FirstSeq + b) % SnMod <=> FirstSeq + a = FirstSeq + b
  BY <1>2, Numbers, CircleOrder
<1>4. FirstSeq + a >= FirstSeq + b <=> a >= b
  BY <1>1, Numbers
<1>5. FirstSeq + a = FirstSeq + b <=> a = b
  BY <1>1, Numbers
<1> QED BY <1>2, <1>3, <1>4, <1>5, ModRange, Numbers DEF SeqGreater, SnOf

(* A later packet is not at an earlier place of the stream. *)
LEMMA Places ==
  ASSUME NEW a \in Packets
  PROVE  /\ Pos(a) \in 0 .. N * TsStep /\ TsOf(a) = StreamTs(Pos(a))
         /\ \A b \in Packets : a <= b => Pos(a) <= Pos(b)
<1>1. a \in 1 .. N
  BY DEF Packets
<1>2. ASSUME NEW b \in Packets, a <= b
      PROVE  /\ (a - 1) \div PerFrame \in Nat /\ (b - 1) \div PerFrame \in Nat
             /\ (a - 1) \div PerFrame <= (b - 1) \div PerFrame /\ (b - 1) \div PerFrame <= N
  <2>1. b \in 1 .. N
    BY DEF Packets
  <2>2. PICK x \in Nat, y \in Nat : x = a - 1 /\ y = b - 1
    BY <1>1, <2>1
  <2>3. x <= y /\ y <= N
    BY <1>2, <2>1, <2>2, Numbers
  <2>4. x \div PerFrame \in Nat /\ y \div PerFrame \in Nat
        /\ x \div PerFrame <= y \div PerFrame /\ y \div PerFrame <= y
    BY <2>3, Numbers
  <2> QED BY <2>2, <2>3, <2>4, Numbers
<1>3. Pos(a) \in 0 .. N * TsStep
  <2>1. (a - 1) \div PerFrame \in Nat /\ (a - 1) \div PerFrame <= N
    BY <1>1, <1>2
  <2>2. PICK x \in Nat : x = (a - 1) \div PerFrame /\ x <= N
    BY <2>1
  <2>3. x * TsStep <= N * TsStep /\ x * TsStep \in Nat
    BY <2>2, Numbers, ProductGrows
  <2> QED BY <2>2, <2>3, Numbers DEF Pos
<1>4. ASSUME NEW b \in Packets, a <= b PROVE Pos(a) <= Pos(b)
  BY <1>2, <1>4, Numbers, ProductGrows DEF Pos
<1> QED BY <1>3, <1>4 DEF TsOf, StreamTs, Pos

(* Timestamps compare as places of the stream. *)
LEMMA TsOrder ==
  ASSUME NEW n \in Packets, NEW x \in Nat, x <= N * TsStep + MaxCalls * TsStep
  PROVE  TsNewer(StreamTs(x), TsOf(n)) <=> x >= Pos(n)
<1>1. Pos(n) \in Nat /\ Pos(n) <= N * TsStep /\ TsOf(n) = StreamTs(Pos(n))
  BY Places, Numbers
<1>2. PICK a \in Int, b \in Int : a = FirstTs + x /\ b = FirstTs + Pos(n)
  BY <1>1, Numbers
<1>3. 2 * (a - b) < TsMod /\ 2 * (b - a) < TsMod
  BY <1>1, <1>2, Numbers
<1>4. 2 * (((a % TsMod) - (b % TsMod)) % TsMod) < TsMod <=> a >= b
  BY <1>3, Numbers, CircleOrder
<1>5. a >= b <=> x >= Pos(n)
  BY <1>1, <1>2, Numbers
<1> QED BY <1>1, <1>2, <1>4, <1>5 DEF TsNewer, StreamTs

(* A part of a sequence. *)
LEMMA Slice ==
  ASSUME NEW S, NEW q \in Seq(S), NEW i \in Nat, NEW j \in Nat, 1 <= i, i <= j + 1, j <= Len(q)
  PROVE  /\ SubSeq(q, i, j) \in Seq(S) /\ Len(SubSeq(q, i, j)) = j + 1 - i
         /\ \A k \in 1 .. j + 1 - i : SubSeq(q, i, j)[k] = q[k + i - 1]
<1>1. Len(q) \in Nat /\ \A k \in 1 .. Len(q) : q[k] \in S
  BY LenProperties
<1>2. \A k \in i .. j : q[k] \in S
  BY <1>1
<1>3. /\ SubSeq(q, i, j) \in Seq(S)
      /\ Len(SubSeq(q, i, j)) = IF i <= j THEN j - i + 1 ELSE 0
      /\ \A k \in 1 .. j - i + 1 : SubSeq(q, i, j)[k] = q[i + k - 1]
  BY <1>1, <1>2, SubSeqProperties
<1> QED BY <1>1, <1>3

(* insq: p is q with e at place k; the elements from there on have moved   *)
(* down by one.                                                            *)
Inserted(p, q, k, e) ==
  /\ p \in Seq(Packets) /\ Len(p) = Len(q) + 1 /\ Len(q) \in Nat
  /\ p[k] = e
  /\ \A i \in 1 .. k - 1 : p[i] = q[i]
  /\ \A i \in k + 1 .. Len(q) + 1 : p[i] = q[i - 1]

(* That is what InsertAt does. *)
LEMMA InsertAtIs ==
  ASSUME NEW q \in Seq(Packets), NEW e \in Packets, NEW k \in 1 .. Len(q) + 1
  PROVE  Inserted(InsertAt(q, k, e), q, k, e)
<1> DEFINE p == InsertAt(q, k, e)
<1>1. Len(q) \in Nat /\ k \in Nat /\ k - 1 \in Nat
  BY LenProperties
<1>2. PICK a : a = SubSeq(q, 1, k - 1)
  OBVIOUS
<1>3. PICK c : c = SubSeq(q, k, Len(q))
  OBVIOUS
<1>4. a \in Seq(Packets) /\ Len(a) = k - 1 /\ \A i \in 1 .. k - 1 : a[i] = q[i]
  <2>1. /\ SubSeq(q, 1, k - 1) \in Seq(Packets) /\ Len(SubSeq(q, 1, k - 1)) = (k - 1) + 1 - 1
        /\ \A i \in 1 .. (k - 1) + 1 - 1 : SubSeq(q, 1, k - 1)[i] = q[i + 1 - 1]
    BY <1>1, Slice
  <2> QED BY <1>1, <1>2, <2>1
<1>5. c \in Seq(Packets) /\ Len(c) = Len(q) + 1 - k /\ \A i \in 1 .. Len(q) + 1 - k : c[i] = q[i + k - 1]
  <2>1. /\ SubSeq(q, k, Len(q)) \in Seq(Packets) /\ Len(SubSeq(q, k, Len(q))) = Len(q) + 1 - k
        /\ \A i \in 1 .. Len(q) + 1 - k : SubSeq(q, k, Len(q))[i] = q[i + k - 1]
    BY <1>1, Slice
  <2> QED BY <1>3, <2>1
<1>6. PICK b : b = a \o <<e>>
  OBVIOUS
<1>7. /\ b \in Seq(Packets) /\ Len(b) = k /\ b[k] = e
      /\ \A i \in 1 .. k - 1 : b[i] = q[i]
  <2>1. <<e>> \in Seq(Packets) /\ Len(<<e>>) = 1 /\ <<e>>[1] = e
    OBVIOUS
  <2>2. /\ a \o <<e>> \in Seq(Packets) /\ Len(a \o <<e>>) = Len(a) + Len(<<e>>)
        /\ \A i \in 1 .. Len(a) + Len(<<e>>) :
              (a \o <<e>>)[i] = IF i <= Len(a) THEN a[i] ELSE <<e>>[i - Len(a)]
    BY ONLY <1>4, <2>1, ConcatProperties, Zenon
  <2> QED BY <1>1, <1>4, <1>6, <2>1, <2>2, SMTT(30)
<1>8. /\ b \o c \in Seq(Packets) /\ Len(b \o c) = Len(b) + Len(c)
      /\ \A i \in 1 .. Len(b) + Len(c) : (b \o c)[i] = IF i <= Len(b) THEN b[i] ELSE c[i - Len(b)]
  BY ONLY <1>5, <1>7, ConcatProperties, Zenon
<1>9. p = b \o c
  BY <1>2, <1>3, <1>6 DEF InsertAt
<1> HIDE DEF p
<1>10. p \in Seq(Packets) /\ Len(p) = Len(q) + 1
  BY <1>1, <1>5, <1>7, <1>8, <1>9
<1>11. p[k] = e /\ \A i \in 1 .. k - 1 : p[i] = q[i]
  BY <1>1, <1>5, <1>7, <1>8, <1>9
<1>12. ASSUME NEW i \in k + 1 .. Len(q) + 1 PROVE p[i] = q[i - 1]
  <2>1. i - k \in 1 .. Len(q) + 1 - k /\ (i - k) + k - 1 = i - 1
    BY <1>1
  <2>2. p[i] = c[i - k]
    BY <1>1, <1>5, <1>7, <1>8, <1>9
  <2> QED BY <1>5, <2>1, <2>2
<1>13. Inserted(p, q, k, e)
  BY <1>1, <1>10, <1>11, <1>12 DEF Inserted
<1> QED BY <1>13 DEF p

(* Where rtp_putq puts a packet that is not there: in front of those with  *)
(* a greater number.                                                       *)
LEMMA PutqPlace ==
  ASSUME NEW q \in Seq(Packets), Sorted(q), NEW n \in Packets, n \notin ToSet(q)
  PROVE  \E k \in 1 .. Len(q) + 1 :
            /\ Putq(q, n) = InsertAt(q, k, n)
            /\ \A i \in 1 .. Len(q) : q[i] < n <=> i < k
<1>1. Len(q) \in Nat /\ DOMAIN q = 1 .. Len(q) /\ \A i \in 1 .. Len(q) : q[i] \in Packets
  BY LenProperties
<1>2. n \in Nat /\ \A i \in 1 .. Len(q) : q[i] \in Nat
  BY <1>1 DEF Packets
<1>3. \A i \in 1 .. Len(q) : q[i] # n
  BY <1>1 DEF ToSet
<1>4. ~ \E i \in DOMAIN q : SnOf(q[i]) = SnOf(n)
  BY <1>1, <1>3, SeqOrder
<1>5. PICK smaller : smaller = {i \in DOMAIN q : SeqGreater(SnOf(n), SnOf(q[i]))}
  OBVIOUS
<1>6. \A i \in 1 .. Len(q) : i \in smaller <=> q[i] < n
  <2>1. \A i \in 1 .. Len(q) : i \in smaller <=> n >= q[i]
    BY <1>1, <1>5, SeqOrder
  <2> QED BY <1>2, <1>3, <2>1
<1>7. smaller \subseteq 1 .. Len(q)
  BY <1>1, <1>5
<1>8. PICK m : m = CHOOSE i \in smaller : \A j \in smaller : j <= i
  OBVIOUS
<1>. DEFINE k == IF smaller = {} THEN 1 ELSE 1 + m
<1>9. Putq(q, n) = InsertAt(q, k, n)
  BY <1>4, <1>5, <1>8 DEF Putq
<1>10. CASE smaller = {}
  <2>1. k = 1 /\ k \in 1 .. Len(q) + 1
    BY <1>1, <1>10
  <2>2. \A i \in 1 .. Len(q) : q[i] < n <=> i < k
    BY <1>6, <1>10, <2>1
  <2> QED BY <1>9, <2>1, <2>2
<1>11. CASE smaller # {}
  <2>1. \E i \in smaller : \A j \in smaller : j <= i
    <3> DEFINE rest == {Len(q) - j : j \in smaller}
    <3>1. rest \in SUBSET Nat /\ rest # {}
      <4>1. \A j \in smaller : Len(q) - j \in Nat
        BY <1>1, <1>7
      <4> QED BY <1>11, <4>1
    <3>2. PICK d \in rest : \A e \in rest : d <= e
      BY <3>1, LeastElement
    <3>3. PICK i \in smaller : d = Len(q) - i
      BY <3>2
    <3>4. \A j \in smaller : Len(q) - i <= Len(q) - j
      BY <3>2, <3>3
    <3>5. \A j \in smaller : j <= i
      BY <1>1, <1>7, <3>4
    <3> QED BY <3>5
  <2>2. m \in smaller /\ \A j \in smaller : j <= m
    BY <1>8, <2>1
  <2>3. k = 1 + m
    BY <1>11
  <2> HIDE DEF k
  <2>4. m \in 1 .. Len(q) /\ q[m] < n
    BY <1>6, <1>7, <2>2
  <2>5. ASSUME NEW i \in 1 .. Len(q) PROVE q[i] < n <=> i < k
    <3>1. q[i] < n => i <= m
      BY <1>6, <2>2
    <3>2. i < m => q[i] < q[m]
      BY <2>4 DEF Sorted
    <3>3. i \in Nat /\ m \in Nat /\ q[i] \in Nat /\ q[m] \in Nat
      BY <1>2, <2>4
    <3>4. i = m => q[i] < n
      BY <2>4
    <3> QED BY <1>2, <2>3, <2>4, <3>1, <3>2, <3>3, <3>4
  <2>6. k \in 1 .. Len(q) + 1
    BY <1>1, <2>3, <2>4
  <2> QED BY <1>9, <2>5, <2>6
<1> QED BY <1>10, <1>11

(* A sorted sequence of numbers with one more at its place. *)
LEMMA SortedInsert ==
  ASSUME NEW q \in Seq(Nat), Sorted(q), NEW n \in Nat, NEW k \in 1 .. Len(q) + 1,
         \A i \in 1 .. Len(q) : q[i] < n <=> i < k,
         \A i \in 1 .. Len(q) : q[i] # n,
         NEW p \in Seq(Nat), Len(p) = Len(q) + 1, p[k] = n,
         \A i \in 1 .. k - 1 : p[i] = q[i],
         \A i \in k + 1 .. Len(q) + 1 : p[i] = q[i - 1]
  PROVE  Sorted(p)
<1>1. Len(q) \in Nat /\ \A i \in 1 .. Len(q) : q[i] \in Nat
  BY LenProperties
<1>2. \A i \in 1 .. Len(q) + 1 : p[i] \in Nat
  BY LenProperties
<1> SUFFICES ASSUME NEW i \in 1 .. Len(q) + 1, NEW j \in 1 .. Len(q) + 1, i < j PROVE p[i] < p[j]
  BY DEF Sorted
<1>3. CASE j < k
  <2>1. i \in 1 .. k - 1 /\ j \in 1 .. k - 1 /\ i \in 1 .. Len(q) /\ j \in 1 .. Len(q)
    BY <1>1, <1>3
  <2> QED BY <2>1 DEF Sorted
<1>4. CASE j = k
  <2>1. i \in 1 .. k - 1 /\ i \in 1 .. Len(q) /\ i < k
    BY <1>1, <1>4
  <2> QED BY <1>4, <2>1
<1>5. CASE j > k
  <2>1. j \in k + 1 .. Len(q) + 1 /\ j - 1 \in 1 .. Len(q) /\ ~(j - 1 < k)
    BY <1>1, <1>5
  <2>2. p[j] = q[j - 1] /\ q[j - 1] \in Nat /\ ~(q[j - 1] < n) /\ q[j - 1] # n
    BY <1>1, <2>1
  <2>3. n < p[j]
    BY <2>2, SMTT(30)
  <2>4. CASE i = k
    BY <2>3, <2>4
  <2>5. CASE i < k
    <3>1. i \in 1 .. k - 1 /\ i \in 1 .. Len(q)
      BY <1>1, <2>5
    <3>2. p[i] < n
      BY <2>5, <3>1
    <3> QED BY <1>2, <2>3, <3>2
  <2>6. CASE i > k
    <3>1. i \in k + 1 .. Len(q) + 1 /\ i - 1 \in 1 .. Len(q) /\ i - 1 < j - 1
      BY <1>1, <2>6
    <3>2. p[i] = q[i - 1]
      BY <3>1
    <3> QED BY <2>1, <2>2, <3>1, <3>2 DEF Sorted
  <2> QED BY <2>4, <2>5, <2>6
<1> QED BY <1>3, <1>4, <1>5

(* rtp_putq keeps the queue sorted; a packet that is there is dropped.     *)
LEMMA PutqIs ==
  ASSUME NEW q \in Seq(Packets), Sorted(q), NEW n \in Packets, NEW p, p = Putq(q, n)
  PROVE  /\ p \in Seq(Packets) /\ Sorted(p) /\ Len(p) \in Nat /\ Len(q) \in Nat
         /\ ToSet(p) = ToSet(q) \cup {n}
         /\ IF n \in ToSet(q) THEN p = q ELSE Len(p) = Len(q) + 1
<1>1. Len(q) \in Nat /\ DOMAIN q = 1 .. Len(q) /\ \A i \in 1 .. Len(q) : q[i] \in Packets
  BY LenProperties
<1>2. Packets \subseteq Nat
  BY DEF Packets
<1>3. CASE n \in ToSet(q)
  <2>1. \E i \in DOMAIN q : SnOf(q[i]) = SnOf(n)
    BY <1>1, <1>3 DEF ToSet
  <2>2. p = q
    BY <2>1 DEF Putq
  <2> QED BY <1>1, <1>3, <2>2
<1>4. CASE n \notin ToSet(q)
  <2>1. PICK k \in 1 .. Len(q) + 1 :
           /\ p = InsertAt(q, k, n)
           /\ \A i \in 1 .. Len(q) : q[i] < n <=> i < k
    BY <1>4, PutqPlace
  <2>2. /\ p \in Seq(Packets) /\ Len(p) = Len(q) + 1 /\ p[k] = n
        /\ \A i \in 1 .. k - 1 : p[i] = q[i]
        /\ \A i \in k + 1 .. Len(q) + 1 : p[i] = q[i - 1]
    BY <2>1, InsertAtIs, SMTT(30) DEF Inserted
  <2>3. \A i \in 1 .. Len(q) : q[i] # n
    BY <1>1, <1>4 DEF ToSet
  <2>4. q \in Seq(Nat) /\ p \in Seq(Nat) /\ n \in Nat
    BY <1>2, <2>2, SeqMonotonic
  <2>5. Sorted(p)
    BY <2>1, <2>2, <2>3, <2>4, SortedInsert
  <2>6. DOMAIN p = 1 .. Len(q) + 1
    BY <2>2, LenProperties
  <2>7. ASSUME NEW i \in 1 .. Len(q) PROVE \E j \in 1 .. Len(q) + 1 : p[j] = q[i]
    <3>1. CASE i < k
      <4>1. i \in 1 .. k - 1 /\ i \in 1 .. Len(q) + 1
        BY <1>1, <3>1
      <4> QED BY <2>2, <4>1
    <3>2. CASE ~(i < k)
      <4>1. i + 1 \in k + 1 .. Len(q) + 1 /\ (i + 1) - 1 = i /\ i + 1 \in 1 .. Len(q) + 1
        BY <1>1, <3>2
      <4> QED BY <2>2, <4>1
    <3> QED BY <3>1, <3>2
  <2>8. ASSUME NEW j \in 1 .. Len(q) + 1 PROVE p[j] = n \/ \E i \in 1 .. Len(q) : p[j] = q[i]
    <3>1. CASE j < k
      <4>1. j \in 1 .. k - 1 /\ j \in 1 .. Len(q)
        BY <1>1, <3>1
      <4> QED BY <2>2, <4>1
    <3>2. CASE j = k
      BY <2>2, <3>2
    <3>3. CASE j > k
      <4>1. j \in k + 1 .. Len(q) + 1 /\ j - 1 \in 1 .. Len(q)
        BY <1>1, <3>3
      <4> QED BY <2>2, <4>1
    <3> QED BY <3>1, <3>2, <3>3
  <2>9. ToSet(p) = ToSet(q) \cup {n}
    <3>1. k \in DOMAIN p /\ p[k] = n
      BY <2>2, <2>6
    <3>2. \A e \in ToSet(p) : e \in ToSet(q) \cup {n}
      BY <1>1, <2>6, <2>8 DEF ToSet
    <3>3. \A e \in ToSet(q) : e \in ToSet(p)
      BY <1>1, <2>6, <2>7 DEF ToSet
    <3>4. n \in ToSet(p)
      BY <3>1 DEF ToSet
    <3> QED BY <3>2, <3>3, <3>4
  <2> QED BY <1>1, <1>4, <2>2, <2>5, <2>9
<1> QED BY <1>3, <1>4

(* A queue without its first k packets, and those. *)
Cut(q, k, t, h) == t = SubSeq(q, k + 1, Len(q)) /\ h = SubSeq(q, 1, k)

Parts(q, k, t, h) ==
  /\ t \in Seq(Packets) /\ Sorted(t) /\ Len(t) = Len(q) - k /\ Len(q) \in Nat
  /\ h \in Seq(Packets) /\ Len(h) = k
  /\ \A i \in 1 .. Len(t) : t[i] = q[i + k]
  /\ \A i \in 1 .. k : h[i] = q[i]
  /\ ToSet(t) \subseteq ToSet(q) /\ ToSet(h) \subseteq ToSet(q)
  /\ ToSet(q) \subseteq ToSet(t) \cup ToSet(h)

(* They are the two parts of a sorted queue. *)
LEMMA Rest ==
  ASSUME NEW q \in Seq(Packets), Sorted(q), NEW k \in Nat, k <= Len(q),
         NEW t, NEW h, Cut(q, k, t, h)
  PROVE  Parts(q, k, t, h)
<1>1. Len(q) \in Nat /\ DOMAIN q = 1 .. Len(q)
  BY LenProperties
<1>2. /\ t \in Seq(Packets) /\ Len(t) = Len(q) - k
      /\ \A i \in 1 .. Len(t) : t[i] = q[i + k]
  <2>1. k + 1 \in Nat /\ 1 <= k + 1 /\ k + 1 <= Len(q) + 1 /\ Len(q) <= Len(q)
    BY <1>1
  <2>2. /\ t \in Seq(Packets) /\ Len(t) = Len(q) + 1 - (k + 1)
        /\ \A i \in 1 .. Len(q) + 1 - (k + 1) : t[i] = q[i + (k + 1) - 1]
    BY <1>1, <2>1, Slice DEF Cut
  <2>3. Len(q) + 1 - (k + 1) = Len(q) - k
    <3>1. PICK l \in Nat : l = Len(q)
      BY <1>1
    <3>2. l + 1 - (k + 1) = l - k
      BY ONLY l \in Nat, k \in Nat
    <3> QED BY ONLY <3>1, <3>2
  <2>4. ASSUME NEW i \in 1 .. Len(q) - k PROVE t[i] = q[i + k]
    <3>1. i + (k + 1) - 1 = i + k
      BY <1>1
    <3> QED BY ONLY <2>2, <2>3, <2>4, <3>1
  <2> QED BY ONLY <2>2, <2>3, <2>4
<1>3. h \in Seq(Packets) /\ Len(h) = k /\ \A i \in 1 .. k : h[i] = q[i]
  <2>1. /\ h \in Seq(Packets) /\ Len(h) = k + 1 - 1
        /\ \A i \in 1 .. k + 1 - 1 : h[i] = q[i + 1 - 1]
    BY <1>1, Slice DEF Cut
  <2> QED BY <2>1
<1>4. DOMAIN t = 1 .. Len(t) /\ DOMAIN h = 1 .. k
  BY <1>2, <1>3, LenProperties
<1>5. Sorted(t)
  <2> SUFFICES ASSUME NEW i \in 1 .. Len(t), NEW j \in 1 .. Len(t), i < j PROVE t[i] < t[j]
    BY DEF Sorted
  <2>1. i + k \in 1 .. Len(q) /\ j + k \in 1 .. Len(q) /\ i + k < j + k
    BY <1>1, <1>2
  <2> QED BY <1>2, <2>1 DEF Sorted
<1>6. \A i \in 1 .. Len(t) : i + k \in 1 .. Len(q)
  BY <1>1, <1>2
<1>7. ToSet(t) \subseteq ToSet(q)
  BY <1>1, <1>2, <1>4, <1>6 DEF ToSet
<1>8. ToSet(h) \subseteq ToSet(q)
  <2>1. \A i \in 1 .. k : i \in 1 .. Len(q)
    BY <1>1
  <2> QED BY <1>1, <1>3, <1>4, <2>1 DEF ToSet
<1>9. ToSet(q) \subseteq ToSet(t) \cup ToSet(h)
  <2> SUFFICES ASSUME NEW i \in 1 .. Len(q) PROVE q[i] \in ToSet(t) \cup ToSet(h)
    BY <1>1 DEF ToSet
  <2>1. CASE i <= k
    <3>1. i \in 1 .. k
      BY <2>1
    <3> QED BY <1>3, <1>4, <3>1 DEF ToSet
  <2>2. CASE i > k
    <3>1. i - k \in 1 .. Len(t) /\ (i - k) + k = i
      BY <1>1, <1>2, <2>2
    <3>2. t[i - k] = q[i]
      BY <1>2, <3>1
    <3> QED BY <1>4, <3>1, <3>2 DEF ToSet
  <2> QED BY <2>1, <2>2
<1> QED BY <1>1, <1>2, <1>3, <1>5, <1>7, <1>8, <1>9 DEF Parts

(* split_and_queue: what the queue keeps of an insertion, and how many     *)
(* packets leave it.                                                       *)
LEMMA Trimmed ==
  ASSUME NEW q \in Seq(Packets), Sorted(q), NEW n \in Packets, NEW p, p = Putq(q, n),
         NEW x, x = Excess(p), NEW t, NEW h, Cut(p, x, t, h)
  PROVE  /\ t \in Seq(Packets) /\ Sorted(t) /\ Len(t) <= MaxRq /\ x \in Nat /\ Len(t) \in Nat
         /\ Len(t) + x + (IF p = q THEN 1 ELSE 0) = Len(q) + 1
         /\ ToSet(t) \subseteq ToSet(q) \cup {n} /\ ToSet(h) \subseteq ToSet(q) \cup {n}
         /\ ToSet(q) \subseteq ToSet(t) \cup ToSet(h)
<1>1. /\ p \in Seq(Packets) /\ Sorted(p) /\ Len(p) \in Nat /\ Len(q) \in Nat
      /\ ToSet(p) = ToSet(q) \cup {n}
      /\ IF n \in ToSet(q) THEN p = q ELSE Len(p) = Len(q) + 1
  BY PutqIs
<1>2. x \in Nat /\ x <= Len(p) /\ Len(p) - x <= MaxRq
  BY <1>1, Numbers DEF Excess
<1>3. /\ t \in Seq(Packets) /\ Sorted(t) /\ Len(t) = Len(p) - x
      /\ ToSet(t) \subseteq ToSet(p) /\ ToSet(h) \subseteq ToSet(p)
      /\ ToSet(p) \subseteq ToSet(t) \cup ToSet(h)
  BY <1>1, <1>2, Rest DEF Parts
<1>4. Len(p) + (IF p = q THEN 1 ELSE 0) = Len(q) + 1
  BY <1>1
<1> QED BY <1>1, <1>2, <1>3, <1>4

-----------------------------------------------------------------------------
(* What a step leaves alone of the jitter buffer's clock and of the report. *)
SameClock(r, e) ==
  /\ e.sync = r.sync /\ e.comp = r.comp /\ e.jitt = r.jitt
  /\ e.diff = r.diff /\ e.hwDiff = r.hwDiff /\ e.last = r.last

SameReport(r, e) ==
  /\ e.hi = r.hi /\ e.lo = r.lo /\ e.since = r.since /\ e.atSR = r.atSR
  /\ e.cum = r.cum /\ e.lastReport = r.lastReport
  /\ e.base = r.base /\ e.sinceBase = r.sinceBase

(* Of the counts of what was read, and of what is only for the properties. *)
SameMark(r, e) ==
  /\ e.recv = r.recv /\ e.kept = r.kept /\ e.runts = r.runts
  /\ e.resets = r.resets /\ e.fresh = r.fresh /\ e.missed = r.missed

(* The types of the fields that the steps compute with. *)
LEMMA RsFields ==
  ASSUME NEW r \in Rs
  PROVE  /\ r.rq \in Seq(Packets) /\ r.tev \in Seq(Packets) /\ r.part \in SUBSET Packets
         /\ r.sync \in BOOLEAN /\ r.comp \in Nat /\ r.jitt \in Nat
         /\ r.diff \in Circle /\ r.hwDiff \in Circle /\ r.last \in Circle
         /\ r.recv \in Nat /\ r.bad \in Nat /\ r.discarded \in Nat /\ r.outoftime \in Nat
         /\ r.skipped \in Nat /\ r.twice \in Nat /\ r.freed \in Nat /\ r.kept \in Nat
         /\ r.runts \in Nat /\ r.resets \in BOOLEAN /\ r.fresh \in BOOLEAN /\ r.missed \in BOOLEAN
         /\ Len(r.rq) \in Nat /\ Len(r.tev) \in Nat
<1>1. r.rq \in Seq(Packets) /\ r.tev \in Seq(Packets)
  BY DEF Rs
<1> QED BY <1>1, LenProperties DEF Rs

(* The packets are counted by a number. *)
LEMMA TotalNat == ASSUME NEW r \in Rs PROVE Total(r) \in Nat
<1>1. PICK l1 \in Nat, l2 \in Nat, c1 \in Nat, c2 \in Nat, c3 \in Nat, c4 \in Nat, c5 \in Nat, c6 \in Nat :
         /\ Len(r.rq) = l1 /\ Len(r.tev) = l2 /\ r.bad = c1 /\ r.discarded = c2
         /\ r.outoftime = c3 /\ r.skipped = c4 /\ r.twice = c5 /\ r.freed = c6
  BY RsFields
<1> QED BY ONLY <1>1 DEF Total

(* A set of packets is finite, and loses at most one by one. *)
LEMMA PartCard ==
  ASSUME NEW P \in SUBSET Packets
  PROVE  /\ Cardinality(P) \in Nat
         /\ \A n \in Packets : /\ Cardinality(P \ {n}) + 1 >= Cardinality(P)
                               /\ n \notin P => Cardinality(P \cup {n}) = Cardinality(P) + 1
                               /\ Cardinality(P \ {n}) \in Nat
<1>1. IsFiniteSet(P)
  <2>1. IsFiniteSet(1 .. N)
    BY FS_Interval, Numbers
  <2> QED BY <2>1, FS_Subset DEF Packets
<1>2. Cardinality(P) \in Nat
  BY <1>1, FS_CardinalityType
<1>3. ASSUME NEW n \in Packets
      PROVE  /\ Cardinality(P \ {n}) + 1 >= Cardinality(P)
             /\ n \notin P => Cardinality(P \cup {n}) = Cardinality(P) + 1
             /\ Cardinality(P \ {n}) \in Nat
  <2>1. IsFiniteSet(P \ {n}) /\ Cardinality(P \ {n}) = IF n \in P THEN Cardinality(P) - 1 ELSE Cardinality(P)
    BY <1>1, FS_RemoveElement
  <2>2. Cardinality(P \cup {n}) = IF n \in P THEN Cardinality(P) ELSE Cardinality(P) + 1
    BY <1>1, FS_AddElement
  <2>3. Cardinality(P \ {n}) \in Nat
    BY <2>1, FS_CardinalityType
  <2> QED BY <1>2, <2>1, <2>2, <2>3
<1> QED BY <1>2, <1>3

(* A packet of the media queue is in one place afterwards: in the queue,   *)
(* for another one that leaves it, or in a statistic.                      *)
LEMMA QueueMedia ==
  ASSUME NEW r \in Rs, NEW n \in Packets \ Tev, NEW g \in Seq(Packets), QueuesOK(r, g, <<>>),
         \A i \in 1 .. Len(g) : g[i] < n, NEW e, e = SplitAndQueue(r, "rq", n)
  PROVE  /\ e \in Rs /\ SameClock(r, e) /\ SameReport(r, e) /\ QueuesOK(e, g, <<>>)
         /\ Total(e) = Total(r) + 1 /\ SameMark(r, e)
<1>f. /\ r.part \in SUBSET Packets
      /\ r.recv \in Nat /\ r.bad \in Nat /\ r.discarded \in Nat /\ r.outoftime \in Nat
      /\ r.skipped \in Nat /\ r.twice \in Nat /\ r.freed \in Nat /\ r.kept \in Nat
      /\ Len(r.rq) \in Nat /\ Len(r.tev) \in Nat
  BY RsFields
<1>g. PICK l1 \in Nat, l2 \in Nat, c1 \in Nat, c2 \in Nat, c3 \in Nat, c4 \in Nat, c5 \in Nat, c6 \in Nat :
         /\ Len(r.rq) = l1 /\ Len(r.tev) = l2 /\ r.bad = c1 /\ r.discarded = c2
         /\ r.outoftime = c3 /\ r.skipped = c4 /\ r.twice = c5 /\ r.freed = c6
  BY <1>f
<1>0. PICK p : p = Putq(r.rq, n)
  OBVIOUS
<1>1. PICK x : x = Excess(p)
  OBVIOUS
<1>2. PICK t : t = SubSeq(p, x + 1, Len(p))
  OBVIOUS
<1>3. PICK h : h = SubSeq(p, 1, x)
  OBVIOUS
<1>4. Cut(p, x, t, h)
  BY <1>2, <1>3 DEF Cut
<1>5. CASE n \in Empty
  <2>1. e = [r EXCEPT !.discarded = @ + 1]
    BY <1>5 DEF SplitAndQueue
  <2>2. e \in Rs
    <3>1. r.discarded + 1 \in Nat
      BY <1>f
    <3> QED BY <2>1, <3>1, ZenonT(30) DEF Rs
  <2>3. /\ SameClock(r, e) /\ SameReport(r, e) /\ SameMark(r, e)
        /\ e.rq = r.rq /\ e.tev = r.tev /\ e.part = r.part
        /\ e.bad = r.bad /\ e.discarded = r.discarded + 1 /\ e.outoftime = r.outoftime
        /\ e.skipped = r.skipped /\ e.twice = r.twice /\ e.freed = r.freed
    BY <2>1, ZenonT(30) DEF Rs, SameClock, SameReport, SameMark
  <2>4. Total(e) = Total(r) + 1
    <3>1. /\ Len(e.rq) = l1 /\ Len(e.tev) = l2 /\ e.bad = c1 /\ e.discarded = c2 + 1
          /\ e.outoftime = c3 /\ e.skipped = c4 /\ e.twice = c5 /\ e.freed = c6
      BY <1>g, <2>3
    <3> QED BY ONLY <1>g, <3>1 DEF Total
  <2> QED BY <2>2, <2>3, <2>4 DEF QueuesOK
<1>6. CASE n \notin Empty
  <2>0. Sorted(r.rq) /\ r.rq \in Seq(Packets)
    BY RsFields DEF QueuesOK
  <2>1. /\ t \in Seq(Packets) /\ Sorted(t) /\ Len(t) <= MaxRq /\ x \in Nat /\ Len(t) \in Nat
        /\ Len(t) + x + (IF p = r.rq THEN 1 ELSE 0) = Len(r.rq) + 1
        /\ ToSet(t) \subseteq ToSet(r.rq) \cup {n} /\ ToSet(h) \subseteq ToSet(r.rq) \cup {n}
        /\ ToSet(r.rq) \subseteq ToSet(t) \cup ToSet(h)
    BY <1>0, <1>1, <1>4, <2>0, Trimmed
  <2>a. PICK y \in Nat, z \in Nat, X \in Nat : y = Len(t) /\ X = x /\ y + X + z = l1 + 1
                                         /\ z = IF p = r.rq THEN 1 ELSE 0
    BY <1>g, <2>1
  <2>b. PICK d \in Nat, w \in Nat : d = c2 + X /\ w = c5 + z
    OBVIOUS
  <2>c. PICK P \in SUBSET Packets : P = r.part \ ToSet(h)
    BY <1>f
  <2>2. e = [r EXCEPT !.rq = t, !.discarded = d, !.part = P, !.twice = w]
    BY <1>0, <1>1, <1>2, <1>3, <1>6, <1>g, <2>a, <2>b, <2>c DEF SplitAndQueue
  <2>3. e \in Rs
    <3>1. r \in Rs /\ t \in Seq(Packets)
      BY <2>1
    <3> QED BY ONLY <2>2, <3>1, d \in Nat, w \in Nat, P \in SUBSET Packets DEF Rs
  <2>4. /\ SameClock(r, e) /\ SameReport(r, e) /\ SameMark(r, e)
        /\ e.rq = t /\ e.tev = r.tev /\ e.part = P
        /\ e.bad = r.bad /\ e.discarded = d /\ e.outoftime = r.outoftime
        /\ e.skipped = r.skipped /\ e.twice = w /\ e.freed = r.freed
    BY <2>2, ZenonT(30) DEF Rs, SameClock, SameReport, SameMark
  <2>5. Total(e) = Total(r) + 1
    <3>1. /\ Len(e.rq) = y /\ Len(e.tev) = l2 /\ e.bad = c1 /\ e.discarded = c2 + X
          /\ e.outoftime = c3 /\ e.skipped = c4 /\ e.twice = c5 + z /\ e.freed = c6
      BY <1>g, <2>4, <2>a, <2>b
    <3> QED BY ONLY <1>g, <2>a, <3>1, SMTT(30) DEF Total
  <2>6. Before(g, t)
    <3>1. DOMAIN t = 1 .. Len(t) /\ DOMAIN r.rq = 1 .. Len(r.rq)
      BY <2>0, <2>1, LenProperties
    <3>2. ASSUME NEW i \in 1 .. Len(g), NEW j \in 1 .. Len(t) PROVE g[i] < t[j]
      <4>1. t[j] \in ToSet(r.rq) \cup {n}
        BY <2>1, <3>1 DEF ToSet
      <4>2. \A m \in 1 .. Len(r.rq) : g[i] < r.rq[m]
        BY DEF QueuesOK, Before
      <4> QED BY <3>1, <4>1, <4>2 DEF ToSet
    <3> QED BY <3>2 DEF Before
  <2>7. Cardinality(e.part) \in Nat
    BY <2>3, RsFields, PartCard
  <2>8. Len(e.rq) + Len(<<>>) <= MaxRq + Cardinality(e.part)
    BY <2>1, <2>4, <2>7, Numbers
  <2>9. e.part \subseteq (ToSet(e.rq) \cup ToSet(<<>>)) \cap Long
    BY <2>1, <2>4, <2>c DEF QueuesOK, ToSet
  <2>10. ToSet(e.rq) \cap Tev = {} /\ ToSet(e.tev) \subseteq Tev
    BY <2>1, <2>4 DEF QueuesOK
  <2>11. QueuesOK(e, g, <<>>)
    BY <2>1, <2>4, <2>6, <2>8, <2>9, <2>10 DEF QueuesOK, Before
  <2> QED BY <2>3, <2>4, <2>5, <2>11
<1> QED BY <1>5, <1>6

(* The same for a telephone event; the media queue stays as it is. *)
LEMMA QueueTev ==
  ASSUME NEW r \in Rs, NEW n \in Packets \cap Tev, NEW g \in Seq(Packets), QueuesOK(r, g, <<>>),
         NEW e, e = SplitAndQueue(r, "tev", n)
  PROVE  /\ e \in Rs /\ SameClock(r, e) /\ SameReport(r, e) /\ QueuesOK(e, g, <<>>)
         /\ Total(e) = Total(r) + 1 /\ SameMark(r, e)
<1>f. /\ r.part \in SUBSET Packets
      /\ r.recv \in Nat /\ r.bad \in Nat /\ r.discarded \in Nat /\ r.outoftime \in Nat
      /\ r.skipped \in Nat /\ r.twice \in Nat /\ r.freed \in Nat /\ r.kept \in Nat
      /\ Len(r.rq) \in Nat /\ Len(r.tev) \in Nat
  BY RsFields
<1>g. PICK l1 \in Nat, l2 \in Nat, c1 \in Nat, c2 \in Nat, c3 \in Nat, c4 \in Nat, c5 \in Nat, c6 \in Nat :
         /\ Len(r.rq) = l1 /\ Len(r.tev) = l2 /\ r.bad = c1 /\ r.discarded = c2
         /\ r.outoftime = c3 /\ r.skipped = c4 /\ r.twice = c5 /\ r.freed = c6
  BY <1>f
<1>0. PICK p : p = Putq(r.tev, n)
  OBVIOUS
<1>1. PICK x : x = Excess(p)
  OBVIOUS
<1>2. PICK t : t = SubSeq(p, x + 1, Len(p))
  OBVIOUS
<1>3. PICK h : h = SubSeq(p, 1, x)
  OBVIOUS
<1>4. Cut(p, x, t, h)
  BY <1>2, <1>3 DEF Cut
<1>5. CASE n \in Empty
  <2>1. e = [r EXCEPT !.discarded = @ + 1]
    BY <1>5 DEF SplitAndQueue
  <2>2. e \in Rs
    <3>1. r.discarded + 1 \in Nat
      BY <1>f
    <3> QED BY <2>1, <3>1, ZenonT(30) DEF Rs
  <2>3. /\ SameClock(r, e) /\ SameReport(r, e) /\ SameMark(r, e)
        /\ e.rq = r.rq /\ e.tev = r.tev /\ e.part = r.part
        /\ e.bad = r.bad /\ e.discarded = r.discarded + 1 /\ e.outoftime = r.outoftime
        /\ e.skipped = r.skipped /\ e.twice = r.twice /\ e.freed = r.freed
    BY <2>1, ZenonT(30) DEF Rs, SameClock, SameReport, SameMark
  <2>4. Total(e) = Total(r) + 1
    <3>1. /\ Len(e.rq) = l1 /\ Len(e.tev) = l2 /\ e.bad = c1 /\ e.discarded = c2 + 1
          /\ e.outoftime = c3 /\ e.skipped = c4 /\ e.twice = c5 /\ e.freed = c6
      BY <1>g, <2>3
    <3> QED BY ONLY <1>g, <3>1 DEF Total
  <2> QED BY <2>2, <2>3, <2>4 DEF QueuesOK
<1>6. CASE n \notin Empty
  <2>0. Sorted(r.tev) /\ r.tev \in Seq(Packets)
    BY RsFields DEF QueuesOK
  <2>1. /\ t \in Seq(Packets) /\ Sorted(t) /\ Len(t) <= MaxRq /\ x \in Nat /\ Len(t) \in Nat
        /\ Len(t) + x + (IF p = r.tev THEN 1 ELSE 0) = Len(r.tev) + 1
        /\ ToSet(t) \subseteq ToSet(r.tev) \cup {n} /\ ToSet(h) \subseteq ToSet(r.tev) \cup {n}
        /\ ToSet(r.tev) \subseteq ToSet(t) \cup ToSet(h)
    BY <1>0, <1>1, <1>4, <2>0, Trimmed
  <2>a. PICK y \in Nat, z \in Nat, X \in Nat : y = Len(t) /\ X = x /\ y + X + z = l2 + 1
                                         /\ z = IF p = r.tev THEN 1 ELSE 0
    BY <1>g, <2>1
  <2>b. PICK d \in Nat, w \in Nat : d = c2 + X /\ w = c5 + z
    OBVIOUS
  <2>c. PICK P \in SUBSET Packets : P = r.part \ ToSet(h)
    BY <1>f
  <2>2. e = [r EXCEPT !.tev = t, !.discarded = d, !.part = P, !.twice = w]
    BY <1>0, <1>1, <1>2, <1>3, <1>6, <1>g, <2>a, <2>b, <2>c DEF SplitAndQueue
  <2>3. e \in Rs
    <3>1. r \in Rs /\ t \in Seq(Packets)
      BY <2>1
    <3> QED BY ONLY <2>2, <3>1, d \in Nat, w \in Nat, P \in SUBSET Packets DEF Rs
  <2>4. /\ SameClock(r, e) /\ SameReport(r, e) /\ SameMark(r, e)
        /\ e.rq = r.rq /\ e.tev = t /\ e.part = P
        /\ e.bad = r.bad /\ e.discarded = d /\ e.outoftime = r.outoftime
        /\ e.skipped = r.skipped /\ e.twice = w /\ e.freed = r.freed
    BY <2>2, ZenonT(30) DEF Rs, SameClock, SameReport, SameMark
  <2>5. Total(e) = Total(r) + 1
    <3>1. /\ Len(e.rq) = l1 /\ Len(e.tev) = y /\ e.bad = c1 /\ e.discarded = c2 + X
          /\ e.outoftime = c3 /\ e.skipped = c4 /\ e.twice = c5 + z /\ e.freed = c6
      BY <1>g, <2>4, <2>a, <2>b
    <3> QED BY ONLY <1>g, <2>a, <3>1, SMTT(30) DEF Total
  <2>6. P = r.part
    <3>1. r.part \cap Tev = {}
      BY DEF QueuesOK, ToSet
    <3>2. ToSet(h) \subseteq Tev
      BY <2>1 DEF QueuesOK
    <3> QED BY <2>c, <3>1, <3>2
  <2>7. ToSet(e.tev) \subseteq Tev
    BY <2>1, <2>4 DEF QueuesOK
  <2>8. QueuesOK(e, g, <<>>)
    BY <2>1, <2>4, <2>6, <2>7 DEF QueuesOK
  <2> QED BY <2>3, <2>4, <2>5, <2>8
<1> QED BY <1>5, <1>6

(* The queues and statistics that reading a packet's header leaves alone. *)
SameStore(r, e) ==
  /\ e.rq = r.rq /\ e.tev = r.tev /\ e.part = r.part
  /\ e.bad = r.bad /\ e.discarded = r.discarded /\ e.outoftime = r.outoftime
  /\ e.skipped = r.skipped /\ e.twice = r.twice /\ e.freed = r.freed /\ e.kept = r.kept
  /\ e.runts = r.runts /\ e.resets = r.resets /\ e.fresh = r.fresh /\ e.missed = r.missed

(* What a packet does to the report. *)
ReportStep(r, n, e) ==
  /\ e.since = r.since + 1 /\ e.sinceBase = r.sinceBase + 1
  /\ e.atSR = r.atSR /\ e.cum = r.cum /\ e.base = r.base /\ e.lastReport = r.lastReport
  /\ IF n \in Bad THEN e.hi = r.hi /\ e.lo = r.lo
     ELSE e.hi = ExtSeq(r, n).hi /\ e.lo = ExtSeq(r, n).lo

(* rtp_parse up to the queue: r has the counters, e the extended number,   *)
(* u the payload type and j the delay.                                     *)
Reading(r0, n, r, e, u, j) ==
  /\ r = [r0 EXCEPT !.recv = @ + 1, !.since = @ + 1, !.sinceBase = @ + 1]
  /\ e = ExtSeq(r, n) /\ u = UpdatePayloadType(e, PayType(n))
  /\ j = IF u.sync THEN u ELSE [u EXCEPT !.diff = (u.hwDiff - u.jitt) % TsMod]

Header(r0, n, r, e, j) ==
  /\ r \in Rs /\ SameStore(r0, r) /\ SameClock(r0, r) /\ r.recv = r0.recv + 1
  /\ e \in Rs /\ SameStore(r0, e) /\ SameClock(r0, e) /\ e.recv = r0.recv + 1
  /\ j \in Rs /\ SameStore(r0, j) /\ SameClock(r0, j) /\ j.recv = r0.recv + 1
  /\ r.hi = r0.hi /\ r.lo = r0.lo /\ r.since = r0.since + 1 /\ r.sinceBase = r0.sinceBase + 1
  /\ r.atSR = r0.atSR /\ r.cum = r0.cum /\ r.base = r0.base /\ r.lastReport = r0.lastReport
  /\ (n \notin Bad => ReportStep(r0, n, e)) /\ SameReport(e, j)

(* It leaves the queues and the clock of the jitter buffer alone. *)
LEMMA HeaderIs ==
  ASSUME NEW r0 \in Rs, NEW n \in Packets, r0.comp = r0.jitt,
         ~r0.sync => r0.hwDiff = (r0.diff + r0.jitt) % TsMod,
         NEW r, NEW e, NEW u, NEW j, Reading(r0, n, r, e, u, j)
  PROVE  Header(r0, n, r, e, j)
<1>0. /\ r = [r0 EXCEPT !.recv = @ + 1, !.since = @ + 1, !.sinceBase = @ + 1]
      /\ e = ExtSeq(r, n) /\ u = UpdatePayloadType(e, PayType(n))
      /\ j = IF u.sync THEN u ELSE [u EXCEPT !.diff = (u.hwDiff - u.jitt) % TsMod]
  BY DEF Reading
<1>1. PICK a \in Nat, b \in Nat, c \in Nat :
         a = r0.recv + 1 /\ b = r0.since + 1 /\ c = r0.sinceBase + 1
  <2>1. PICK a \in Nat, b \in Nat, c \in Nat : r0.recv = a /\ r0.since = b /\ r0.sinceBase = c
    BY DEF Rs
  <2>2. a + 1 \in Nat /\ b + 1 \in Nat /\ c + 1 \in Nat
    OBVIOUS
  <2> QED BY <2>1, <2>2
<1>2. r = [r0 EXCEPT !.recv = a, !.since = b, !.sinceBase = c]
  BY <1>0, <1>1
<1>3. r \in Rs
  BY ONLY <1>2, r0 \in Rs, a \in Nat, b \in Nat, c \in Nat DEF Rs
<1>4. /\ SameStore(r0, r) /\ SameClock(r0, r) /\ r.recv = r0.recv + 1
      /\ r.hi = r0.hi /\ r.lo = r0.lo /\ r.since = r0.since + 1 /\ r.sinceBase = r0.sinceBase + 1
      /\ r.atSR = r0.atSR /\ r.cum = r0.cum /\ r.base = r0.base /\ r.lastReport = r0.lastReport
  BY <1>1, <1>2 DEF Rs, SameStore, SameClock
<1>5. PICK s \in 0 .. SnMod - 1 : s = SnOf(n)
  BY SeqOrder
<1>6. PICK h \in Nat, l \in 0 .. SnMod - 1 :
         /\ e = [r EXCEPT !.lo = l, !.hi = h]
         /\ h = ExtSeq(r0, n).hi /\ l = ExtSeq(r0, n).lo
  <2>1. r.hi \in Nat /\ r.lo \in 0 .. SnMod - 1 /\ r0.hi \in Nat /\ r0.lo \in 0 .. SnMod - 1
    BY <1>3 DEF Rs
  <2>2. PICK k \in Nat : k = r.hi + 1
    BY <2>1
  <2>3. CASE s > r.lo
    <3>1. e = [r EXCEPT !.lo = s, !.hi = r.hi]
      BY <1>0, <1>3, <1>5, <2>3 DEF ExtSeq, Rs
    <3>2. ExtSeq(r0, n) = [r0 EXCEPT !.lo = s]
      BY <1>0, <1>4, <1>5, <2>3 DEF ExtSeq
    <3>3. ExtSeq(r0, n).hi = r.hi /\ ExtSeq(r0, n).lo = s
      BY <1>4, <3>2 DEF Rs
    <3> QED BY <2>1, <3>1, <3>3
  <2>4. CASE ~(s > r.lo) /\ s < WrapWindow /\ r.lo > SnMod - WrapWindow
    <3>1. e = [r EXCEPT !.lo = s, !.hi = k]
      BY <1>0, <1>3, <1>5, <2>2, <2>4 DEF ExtSeq, Rs
    <3>2. ExtSeq(r0, n) = [r0 EXCEPT !.lo = s, !.hi = k]
      BY <1>0, <1>4, <1>5, <2>2, <2>4 DEF ExtSeq
    <3>3. ExtSeq(r0, n).hi = k /\ ExtSeq(r0, n).lo = s
      BY <3>2 DEF Rs
    <3> QED BY <3>1, <3>3
  <2>5. CASE ~(s > r.lo) /\ ~(s < WrapWindow /\ r.lo > SnMod - WrapWindow)
    <3>1. e = r /\ e = [r EXCEPT !.lo = r.lo, !.hi = r.hi]
      BY <1>0, <1>3, <1>5, <2>5 DEF ExtSeq, Rs
    <3>2. ExtSeq(r0, n) = r0
      BY <1>0, <1>4, <1>5, <2>5 DEF ExtSeq
    <3> QED BY <1>4, <2>1, <3>1, <3>2
  <2> QED BY <2>3, <2>4, <2>5
<1>7. e \in Rs
  BY ONLY <1>3, <1>6, h \in Nat, l \in 0 .. SnMod - 1 DEF Rs
<1>8. /\ SameStore(r, e) /\ SameClock(r, e) /\ e.recv = r.recv /\ e.hi = h /\ e.lo = l
      /\ e.since = r.since /\ e.sinceBase = r.sinceBase
      /\ e.atSR = r.atSR /\ e.cum = r.cum /\ e.base = r.base /\ e.lastReport = r.lastReport
  BY <1>3, <1>6 DEF Rs, SameStore, SameClock
<1>9. n \notin Bad => ReportStep(r0, n, e)
  BY <1>4, <1>6, <1>8 DEF ReportStep
<1>10. SameStore(r0, e) /\ SameClock(r0, e) /\ e.recv = r0.recv + 1
  BY <1>4, <1>8 DEF SameStore, SameClock
<1>11. PICK pt \in PayTypes : u = [e EXCEPT !.hwPt = pt]
  <2>1. PayType(n) \in PayTypes /\ e.hwPt \in PayTypes
    BY <1>7 DEF PayType, PayTypes, Rs
  <2>2. e.comp = e.jitt
    BY <1>10 DEF SameClock
  <2>3. CASE e.hwPt = PayType(n)
    <3>1. u = e /\ e = [e EXCEPT !.hwPt = e.hwPt]
      BY <1>0, <1>7, <2>3 DEF UpdatePayloadType, Rs
    <3> QED BY <2>1, <3>1
  <2>4. CASE e.hwPt # PayType(n)
    <3>1. u = [e EXCEPT !.hwPt = PayType(n), !.jitt = e.jitt]
      BY <1>0, <2>2, <2>4 DEF UpdatePayloadType
    <3>2. [e EXCEPT !.hwPt = PayType(n), !.jitt = e.jitt] = [e EXCEPT !.hwPt = PayType(n)]
      BY <1>7 DEF Rs
    <3> QED BY <2>1, <3>1, <3>2
  <2> QED BY <2>3, <2>4
<1>12. u \in Rs
  BY ONLY <1>7, <1>11, pt \in PayTypes DEF Rs
<1>13. SameStore(e, u) /\ SameClock(e, u) /\ SameReport(e, u) /\ u.recv = e.recv
  BY <1>7, <1>11 DEF Rs, SameStore, SameClock, SameReport
<1>14. j = u
  <2>1. CASE u.sync
    BY <1>0, <2>1
  <2>2. CASE ~u.sync
    <3>1. PICK d \in Nat, k \in Nat : d = u.diff /\ k = u.jitt /\ d \in 0 .. TsMod - 1
      <4>1. u.diff \in 0 .. TsMod - 1 /\ u.jitt \in Nat
        BY <1>12 DEF Rs, Circle
      <4>2. u.diff \in Nat
        BY <4>1, Numbers
      <4> QED BY <4>1, <4>2
    <3>2. u.hwDiff = (k + d) % TsMod
      <4>1. ~r0.sync /\ r0.diff = d /\ r0.jitt = k /\ u.hwDiff = r0.hwDiff
        BY <1>10, <1>13, <2>2, <3>1 DEF SameClock
      <4>2. u.hwDiff = (d + k) % TsMod
        BY <4>1
      <4>3. d + k = k + d
        OBVIOUS
      <4> QED BY <4>2, <4>3
    <3>3. (u.hwDiff - u.jitt) % TsMod = d
      <4>1. PICK w \in Int : w = (k + d) % TsMod
        BY ModRange, Numbers
      <4>2. PICK m \in Int, v \in Int : m = -k /\ v = k + d
        OBVIOUS
      <4>3. (m + (v % TsMod)) % TsMod = (m + v) % TsMod
        BY ModSums, Numbers
      <4>4. m + v = d /\ m + w = w - k /\ v % TsMod = w
        BY <4>1, <4>2
      <4>5. d % TsMod = d
        BY <3>1, ModSmall, Numbers
      <4> QED BY <3>1, <3>2, <4>1, <4>2, <4>3, <4>4, <4>5
    <3>4. j = [u EXCEPT !.diff = u.diff]
      BY <1>0, <2>2, <3>1, <3>3
    <3> QED BY <1>12, <3>4 DEF Rs
  <2> QED BY <2>1, <2>2
<1>15. j \in Rs /\ SameStore(r0, j) /\ SameClock(r0, j) /\ j.recv = r0.recv + 1 /\ SameReport(e, j)
  BY <1>10, <1>12, <1>13, <1>14 DEF SameStore, SameClock
<1> QED BY <1>3, <1>4, <1>7, <1>9, <1>10, <1>15 DEF Header

(* A packet that is only counted. *)
LEMMA CountsOne ==
  ASSUME NEW r \in Rs, NEW e,
         e \in {[r EXCEPT !.bad = @ + 1], [r EXCEPT !.outoftime = @ + 1], [r EXCEPT !.freed = @ + 1]}
  PROVE  /\ e \in Rs /\ SameClock(r, e) /\ SameReport(r, e) /\ Total(e) = Total(r) + 1
         /\ e.rq = r.rq /\ e.tev = r.tev /\ e.part = r.part
         /\ SameMark(r, e)
<1>1. PICK l1 \in Nat, l2 \in Nat, c1 \in Nat, c2 \in Nat, c3 \in Nat, c4 \in Nat, c5 \in Nat, c6 \in Nat :
         /\ Len(r.rq) = l1 /\ Len(r.tev) = l2 /\ r.bad = c1 /\ r.discarded = c2
         /\ r.outoftime = c3 /\ r.skipped = c4 /\ r.twice = c5 /\ r.freed = c6
  BY RsFields
<1>2. PICK d1 \in Nat, d3 \in Nat, d6 \in Nat : /\ e = [r EXCEPT !.bad = d1, !.outoftime = d3, !.freed = d6]
                                              /\ d1 + d3 + d6 = c1 + c3 + c6 + 1
  <2>1. r.bad = c1 /\ r.outoftime = c3 /\ r.freed = c6
    BY <1>1
  <2>2. CASE e = [r EXCEPT !.bad = @ + 1]
    <3>1. e = [r EXCEPT !.bad = c1 + 1, !.outoftime = c3, !.freed = c6]
      BY <2>1, <2>2 DEF Rs
    <3>2. c1 + 1 \in Nat /\ (c1 + 1) + c3 + c6 = c1 + c3 + c6 + 1
      OBVIOUS
    <3> QED BY <3>1, <3>2, Zenon
  <2>3. CASE e = [r EXCEPT !.outoftime = @ + 1]
    <3>1. e = [r EXCEPT !.bad = c1, !.outoftime = c3 + 1, !.freed = c6]
      BY <2>1, <2>3 DEF Rs
    <3>2. c3 + 1 \in Nat /\ c1 + (c3 + 1) + c6 = c1 + c3 + c6 + 1
      OBVIOUS
    <3> QED BY <3>1, <3>2, Zenon
  <2>4. CASE e = [r EXCEPT !.freed = @ + 1]
    <3>1. e = [r EXCEPT !.bad = c1, !.outoftime = c3, !.freed = c6 + 1]
      BY <2>1, <2>4 DEF Rs
    <3>2. c6 + 1 \in Nat /\ c1 + c3 + (c6 + 1) = c1 + c3 + c6 + 1
      OBVIOUS
    <3> QED BY <3>1, <3>2, Zenon
  <2> QED BY <2>2, <2>3, <2>4
<1>3. e \in Rs
  BY ONLY r \in Rs, <1>2, d1 \in Nat, d3 \in Nat, d6 \in Nat DEF Rs
<1>4. /\ SameClock(r, e) /\ SameReport(r, e)
      /\ e.rq = r.rq /\ e.tev = r.tev /\ e.part = r.part
      /\ SameMark(r, e)
      /\ e.bad = d1 /\ e.discarded = r.discarded /\ e.outoftime = d3
      /\ e.skipped = r.skipped /\ e.twice = r.twice /\ e.freed = d6
  BY <1>2 DEF Rs, SameClock, SameReport, SameMark
<1>5. Total(e) = Total(r) + 1
  <2>1. /\ Len(e.rq) = l1 /\ Len(e.tev) = l2 /\ e.bad = d1 /\ e.discarded = c2
        /\ e.outoftime = d3 /\ e.skipped = c4 /\ e.twice = c5 /\ e.freed = d6
    BY <1>1, <1>4
  <2>2. d1 + d3 + d6 = c1 + c3 + c6 + 1
    BY <1>2
  <2> QED BY ONLY <1>1, <2>1, <2>2 DEF Total
<1> QED BY <1>3, <1>4, <1>5

(* The place depends on the clock only. *)
LEMMA PlaceSame ==
  ASSUME NEW r, NEW e, NEW g, NEW c, NEW x, SameClock(r, e)
  PROVE  PlaceOK(r, g, c, x) <=> PlaceOK(e, g, c, x)
BY DEF SameClock, PlaceOK

-----------------------------------------------------------------------------
(* Reading the socket.  A reset within it starts the history anew (fresh). *)
Eff(r, g) == IF r.fresh \/ r.missed THEN <<>> ELSE g
Held(r, k) == IF r.fresh THEN 0 ELSE k

ReadOK(r, g, k, c, u, x) ==
  /\ r \in Rs /\ QueuesOK(r, Eff(r, g), <<>>) /\ Accounted(r, Held(r, k))
  /\ PlaceOK(r, Eff(r, g), c, x) /\ ClockOK(r, u, x)

(* Nothing has to be known of what was handed over. *)
LEMMA Forgotten ==
  ASSUME NEW r, NEW g, NEW mp
  PROVE  /\ QueuesOK(r, g, mp) => QueuesOK(r, <<>>, mp)
         /\ \A c, x : PlaceOK(r, g, c, x) => PlaceOK(r, <<>>, c, x)
<1>1. Len(<<>>) = 0
  OBVIOUS
<1> QED BY <1>1 DEF QueuesOK, PlaceOK, Sorted, Before

(* A packet that passes the test for old ones is behind all that were      *)
(* handed over.                                                            *)
LEMMA NewerThanAll ==
  ASSUME NEW r, NEW n \in Packets, NEW g \in Seq(Packets), NEW c \in 0 .. MaxCalls, NEW x,
         PlaceOK(r, g, c, x), ~(~r.sync /\ OutOfTime(r, n)), NEW i \in 1 .. Len(g)
  PROVE  g[i] < n
<1>1. g[i] \in Packets /\ g[i] \in Nat /\ n \in Nat
  <2>1. g[i] \in Packets
    BY ElementOfSeq
  <2> QED BY <2>1 DEF Packets
<1>2. ~r.sync
  <2>1. Len(<<>>) = 0
    OBVIOUS
  <2> QED BY <2>1 DEF PlaceOK
<1>3. ~TsNewer(r.last, TsOf(n)) /\ r.last = StreamTs(x) /\ x \in Nat /\ Pos(g[i]) <= x
  BY <1>2 DEF OutOfTime, PlaceOK
<1>4. x <= N * TsStep + MaxCalls * TsStep
  <2>1. c * TsStep <= MaxCalls * TsStep /\ c * TsStep \in Nat /\ c \in Nat
    BY ProductGrows, Numbers
  <2>2. x <= N * TsStep + c * TsStep
    BY DEF PlaceOK
  <2> QED BY <1>3, <2>1, <2>2, Numbers
<1>5. ~(x >= Pos(n))
  BY <1>3, <1>4, TsOrder
<1>6. Pos(n) \in Nat /\ Pos(g[i]) \in Nat /\ (n <= g[i] => Pos(n) <= Pos(g[i]))
  BY <1>1, Places, Numbers
<1> QED BY <1>1, <1>3, <1>5, <1>6

(* rtp_session_reset: an empty queue, and nothing in the statistics but    *)
(* the telephone events that stay and x packets of the caller.             *)
Emptied(r, x, e) ==
  /\ e \in Rs /\ e.rq = <<>> /\ e.tev = r.tev /\ e.part = {} /\ e.sync
  /\ e.comp = r.comp /\ e.jitt = r.jitt
  /\ e.resets = r.resets /\ e.fresh = r.fresh /\ ~e.missed
  /\ e.recv + e.runts + e.kept = Total(e) + x
  /\ \A g : QueuesOK(r, g, <<>>) => QueuesOK(e, <<>>, <<>>)

LEMMA ResetIs ==
  ASSUME NEW r \in Rs, NEW x \in Nat
  PROVE  Emptied(r, x, Reset(r, x))
<1>0. PICK e : e = Reset(r, x)
  OBVIOUS
<1>1. PICK k \in Nat, w \in Nat : k = Len(r.tev) /\ w = k + x
  BY RsFields
<1>2. e = [r EXCEPT !.rq = <<>>, !.sync = TRUE, !.part = {}, !.diff = 0, !.last = 0,
                    !.hi = 0, !.lo = 0, !.since = 0, !.cum = 0,
                    !.recv = 0, !.kept = w, !.bad = 0, !.discarded = 0, !.outoftime = 0,
                    !.skipped = 0, !.twice = 0, !.freed = 0, !.runts = 0, !.missed = FALSE]
  BY <1>0, <1>1 DEF Reset
<1>3. /\ 0 \in Nat /\ 0 \in Circle /\ 0 \in 0 .. SnMod - 1 /\ <<>> \in Seq(Packets)
      /\ {} \in SUBSET Packets /\ TRUE \in BOOLEAN /\ FALSE \in BOOLEAN
  BY Numbers DEF Circle
<1>4. e \in Rs
  BY ONLY r \in Rs, <1>2, <1>3, w \in Nat, ZenonT(30) DEF Rs
<1>5. /\ e.rq = <<>> /\ e.tev = r.tev /\ e.part = {} /\ e.sync
      /\ e.comp = r.comp /\ e.jitt = r.jitt
      /\ e.resets = r.resets /\ e.fresh = r.fresh /\ ~e.missed
      /\ e.recv = 0 /\ e.kept = w /\ e.runts = 0
      /\ e.bad = 0 /\ e.discarded = 0 /\ e.outoftime = 0 /\ e.skipped = 0
      /\ e.twice = 0 /\ e.freed = 0
  BY <1>2 DEF Rs
<1>6. Len(<<>>) = 0 /\ ToSet(<<>>) = {} /\ Cardinality({}) = 0
  BY FS_EmptySet DEF ToSet
<1>7. e.recv + e.runts + e.kept = Total(e) + x
  <2>1. Total(e) = k
    BY ONLY <1>1, <1>5, <1>6 DEF Total
  <2> QED BY <1>1, <1>5, <2>1
<1>8. ASSUME NEW g, QueuesOK(r, g, <<>>) PROVE QueuesOK(e, <<>>, <<>>)
  BY <1>5, <1>6, <1>8, Numbers DEF QueuesOK, Sorted, Before
<1>9. Emptied(r, x, e)
  BY <1>4, <1>5, <1>7, <1>8 DEF Emptied
<1> QED BY <1>0, <1>9

(* Reading gets no old packet past the test when the limit is far. *)
Caught(r, o) == JumpFar /\ o.missed => r.missed

(* A packet of the far future is no old one, when the limit is far. *)
LEMMA JumpIsNew ==
  ASSUME NEW r, NEW n \in Packets, NEW g, NEW c \in 0 .. MaxCalls, NEW x,
         PlaceOK(r, g, c, x), ~r.sync, OutOfTime(r, n), JumpFar
  PROVE  ~Jump(r, n)
<1>1. TsNewer(r.last, TsOf(n)) /\ r.last = StreamTs(x) /\ x \in Nat
  BY DEF OutOfTime, PlaceOK
<1>2. x <= N * TsStep + MaxCalls * TsStep
  <2>1. c * TsStep <= MaxCalls * TsStep /\ c * TsStep \in Nat /\ c \in Nat
    BY ProductGrows, Numbers
  <2>2. x <= N * TsStep + c * TsStep
    BY DEF PlaceOK
  <2> QED BY <1>1, <2>1, <2>2, Numbers
<1>3. x >= Pos(n) /\ Pos(n) \in Nat /\ TsOf(n) = StreamTs(Pos(n))
  BY <1>1, <1>2, TsOrder, Places
<1>4. PICK a \in Int, b \in Int, J \in Nat : a = FirstTs + Pos(n) /\ b = FirstTs + x /\ J = JumpLimit
  BY <1>1, <1>3, Numbers, RecvConstants
<1>5. PICK d \in Nat : d = (b + J) - a /\ d # 0 /\ 2 * d <= TsMod
  <2>1. J # 0 /\ 2 * (N * TsStep + MaxCalls * TsStep + J) <= TsMod
    BY <1>4 DEF JumpFar
  <2>2. (b + J) - a = (x - Pos(n)) + J
    BY <1>1, <1>3, <1>4, Numbers
  <2>3. (x - Pos(n)) + J \in Nat /\ (x - Pos(n)) + J # 0
        /\ (x - Pos(n)) + J <= N * TsStep + MaxCalls * TsStep + J
    BY <1>1, <1>2, <1>3, <2>1, Numbers
  <2> QED BY <2>1, <2>2, <2>3, Numbers
<1>6. ((a % TsMod) - (((b % TsMod) + J) % TsMod)) % TsMod = TsMod - d
  <2>1. TsMod \in Nat \ {0} /\ b + J \in Int /\ J \in Int
    BY Numbers
  <2>2. ((b % TsMod) + J) % TsMod = (b + J) % TsMod
    <3>1. (J + (b % TsMod)) % TsMod = (J + b) % TsMod
      BY <2>1, ModSums
    <3>2. b % TsMod \in Int
      BY <2>1, ModRange
    <3>3. J + (b % TsMod) = (b % TsMod) + J /\ J + b = b + J
      BY <2>1, <3>2
    <3> QED BY <3>1, <3>3
  <2>3. ((a % TsMod) - ((b + J) % TsMod)) % TsMod = (a - (b + J)) % TsMod
    BY <2>1, ModSums
  <2>4. a - (b + J) \in Int /\ a - (b + J) = TsMod * (-1) + (TsMod - d) /\ TsMod - d \in 0 .. TsMod - 1
    BY <1>5, <2>1
  <2>5. (a - (b + J)) % TsMod = TsMod - d
    BY <2>1, <2>4, ModUnique
  <2> QED BY <2>2, <2>3, <2>5
<1>7. ~(2 * (TsMod - d) < TsMod)
  BY <1>5, Numbers
<1>8. Jump(r, n) = TsNewer(a % TsMod, ((b % TsMod) + J) % TsMod)
  BY <1>1, <1>3, <1>4 DEF Jump, TsJump, StreamTs, JumpFar
<1> QED BY <1>6, <1>7, <1>8 DEF TsNewer

(* rtp_parse keeps the order of the queues, loses no packet and leaves the *)
(* clock of the jitter buffer alone, unless its timestamp makes the        *)
(* application reset the session.                                          *)
LEMMA ParseKeeps ==
  ASSUME NEW r0, NEW n \in Packets, NEW g \in Seq(Packets), NEW c \in 0 .. MaxCalls, NEW x,
         NEW k \in Nat, NEW us, ReadOK(r0, g, k, c, us, x), NEW o, o = rtp_parse(r0, n)
  PROVE  /\ ReadOK(o, g, k, c, us, x) /\ (r0.fresh => o.fresh) /\ Caught(r0, o)
         /\ o.fresh \/ ReportStep(r0, n, o)
<1>0. PICK g0 \in Seq(Packets), k0 \in Nat : g0 = Eff(r0, g) /\ k0 = Held(r0, k)
  <2>1. Eff(r0, g) \in Seq(Packets) /\ Held(r0, k) \in Nat
    BY DEF Eff, Held
  <2> QED BY <2>1
<1>a. /\ r0 \in Rs /\ QueuesOK(r0, g0, <<>>) /\ Accounted(r0, k0)
      /\ PlaceOK(r0, g0, c, x) /\ ClockOK(r0, us, x)
  BY <1>0 DEF ReadOK
<1>1. PICK r : r = [r0 EXCEPT !.recv = @ + 1, !.since = @ + 1, !.sinceBase = @ + 1]
  OBVIOUS
<1>2. PICK e : e = ExtSeq(r, n)
  OBVIOUS
<1>3. PICK u : u = UpdatePayloadType(e, PayType(n))
  OBVIOUS
<1>4. PICK j : j = IF u.sync THEN u ELSE [u EXCEPT !.diff = (u.hwDiff - u.jitt) % TsMod]
  OBVIOUS
<1>5. o = IF n \in Bad THEN [r EXCEPT !.bad = @ + 1]
          ELSE IF n \in Tev THEN SplitAndQueue(e, "tev", n)
          ELSE IF ~j.sync /\ Jump(j, n) THEN SplitAndQueue(OnJump(j, n), "rq", n)
          ELSE IF ~j.sync /\ OutOfTime(j, n) THEN [j EXCEPT !.outoftime = @ + 1]
          ELSE SplitAndQueue(j, "rq", n)
  BY <1>1, <1>2, <1>3, <1>4 DEF rtp_parse
<1>6. /\ r \in Rs /\ SameStore(r0, r) /\ SameClock(r0, r) /\ r.recv = r0.recv + 1
      /\ e \in Rs /\ SameStore(r0, e) /\ SameClock(r0, e) /\ e.recv = r0.recv + 1
      /\ j \in Rs /\ SameStore(r0, j) /\ SameClock(r0, j) /\ j.recv = r0.recv + 1
      /\ r.hi = r0.hi /\ r.lo = r0.lo /\ r.since = r0.since + 1 /\ r.sinceBase = r0.sinceBase + 1
      /\ r.atSR = r0.atSR /\ r.cum = r0.cum /\ r.base = r0.base /\ r.lastReport = r0.lastReport
      /\ (n \notin Bad => ReportStep(r0, n, e)) /\ SameReport(e, j)
  <2>1. r0.comp = r0.jitt /\ (~r0.sync => r0.hwDiff = (r0.diff + r0.jitt) % TsMod)
    BY <1>a DEF PlaceOK
  <2>2. Reading(r0, n, r, e, u, j)
    BY <1>1, <1>2, <1>3, <1>4 DEF Reading
  <2>3. Header(r0, n, r, e, j)
    BY <1>a, <2>1, <2>2, HeaderIs
  <2> QED BY <2>3 DEF Header
<1>7. PICK t \in Int, a \in Nat, b \in Nat, w \in Nat :
         Total(r0) = t /\ r0.recv = a /\ r0.kept = b /\ r0.runts = w /\ a + w + b = t + k0
  <2>1. Total(r0) \in Int
    BY <1>a, TotalNat
  <2> QED BY <1>a, <2>1, RsFields DEF Accounted
<1>8. ASSUME NEW s, SameStore(r0, s), s.recv = r0.recv + 1, Total(o) = Total(s) + 1,
             SameMark(s, o)
      PROVE  Accounted(o, k0) /\ o.fresh = r0.fresh /\ o.missed = r0.missed
  <2>1. Total(s) = t
    BY <1>7, <1>8 DEF SameStore, Total
  <2>2. o.recv = a + 1 /\ o.kept = b /\ o.runts = w /\ Total(o) = t + 1
    BY <1>7, <1>8, <2>1 DEF SameStore, SameMark
  <2>3. Accounted(o, k0)
    BY <1>7, <2>2 DEF Accounted
  <2>4. o.fresh = r0.fresh /\ o.missed = r0.missed
    BY <1>8, Zenon DEF SameStore, SameMark
  <2> QED BY <2>3, <2>4
<1>9. ASSUME NEW s, SameStore(r0, s) PROVE QueuesOK(s, g0, <<>>)
  BY <1>a, <1>9 DEF SameStore, QueuesOK
<1>b. ASSUME o \in Rs, QueuesOK(o, g0, <<>>), SameClock(r0, o), Accounted(o, k0),
             o.fresh = r0.fresh, o.missed = r0.missed, ReportStep(r0, n, o)
      PROVE  ReadOK(o, g, k, c, us, x) /\ (r0.fresh => o.fresh) /\ Caught(r0, o) /\ ReportStep(r0, n, o)
  <2>1. Eff(o, g) = g0 /\ Held(o, k) = k0
    BY <1>0, <1>b DEF Eff, Held
  <2>2. PlaceOK(o, g0, c, x) /\ ClockOK(o, us, x)
    BY <1>a, <1>b, PlaceSame DEF SameClock, ClockOK
  <2> QED BY <1>b, <2>1, <2>2 DEF ReadOK, Caught
<1>10. CASE n \in Bad
  <2>1. o \in {[r EXCEPT !.bad = @ + 1], [r EXCEPT !.outoftime = @ + 1], [r EXCEPT !.freed = @ + 1]}
    BY <1>5, <1>10
  <2>2. /\ o \in Rs /\ SameClock(r, o) /\ SameReport(r, o) /\ Total(o) = Total(r) + 1
        /\ o.rq = r.rq /\ o.tev = r.tev /\ o.part = r.part /\ SameMark(r, o)
    BY <1>6, <2>1, CountsOne
  <2>3. QueuesOK(r, g0, <<>>)
    BY <1>6, <1>9
  <2>4. QueuesOK(o, g0, <<>>)
    BY <2>2, <2>3 DEF QueuesOK
  <2>5. ReportStep(r0, n, o)
    BY <1>6, <1>10, <2>2 DEF SameReport, ReportStep
  <2>6. Accounted(o, k0) /\ o.fresh = r0.fresh /\ o.missed = r0.missed
    BY <1>6, <1>8, <2>2
  <2>7. SameClock(r0, o)
    BY <1>6, <2>2 DEF SameClock
  <2> QED BY <1>b, <2>2, <2>4, <2>5, <2>6, <2>7
<1>11. CASE n \notin Bad /\ n \in Tev
  <2>1. o = SplitAndQueue(e, "tev", n)
    BY <1>5, <1>11
  <2>2. QueuesOK(e, g0, <<>>)
    BY <1>6, <1>9
  <2>3. /\ o \in Rs /\ SameClock(e, o) /\ SameReport(e, o) /\ QueuesOK(o, g0, <<>>)
        /\ Total(o) = Total(e) + 1 /\ SameMark(e, o)
    BY <1>6, <1>11, <2>1, <2>2, QueueTev
  <2>4. ReportStep(r0, n, o)
    BY <1>6, <1>11, <2>3 DEF SameReport, ReportStep
  <2>5. Accounted(o, k0) /\ o.fresh = r0.fresh /\ o.missed = r0.missed
    BY <1>6, <1>8, <2>3
  <2>6. SameClock(r0, o)
    BY <1>6, <2>3 DEF SameClock
  <2> QED BY <1>b, <2>3, <2>4, <2>5, <2>6
<1>12. CASE n \notin Bad /\ n \notin Tev /\ ~(~j.sync /\ Jump(j, n)) /\ ~j.sync /\ OutOfTime(j, n)
  <2>1. o \in {[j EXCEPT !.bad = @ + 1], [j EXCEPT !.outoftime = @ + 1], [j EXCEPT !.freed = @ + 1]}
    BY <1>5, <1>12
  <2>2. /\ o \in Rs /\ SameClock(j, o) /\ SameReport(j, o) /\ Total(o) = Total(j) + 1
        /\ o.rq = j.rq /\ o.tev = j.tev /\ o.part = j.part /\ SameMark(j, o)
    BY <1>6, <2>1, CountsOne
  <2>3. QueuesOK(j, g0, <<>>)
    BY <1>6, <1>9
  <2>4. QueuesOK(o, g0, <<>>)
    BY <2>2, <2>3 DEF QueuesOK
  <2>5. ReportStep(r0, n, o)
    BY <1>6, <1>12, <2>2 DEF SameReport, ReportStep
  <2>6. Accounted(o, k0) /\ o.fresh = r0.fresh /\ o.missed = r0.missed
    BY <1>6, <1>8, <2>2
  <2>7. SameClock(r0, o)
    BY <1>6, <2>2 DEF SameClock
  <2> QED BY <1>b, <2>2, <2>4, <2>5, <2>6, <2>7
<1>13. ASSUME n \notin Bad, n \notin Tev, ~(~j.sync /\ OutOfTime(j, n)), o = SplitAndQueue(j, "rq", n)
       PROVE  ReadOK(o, g, k, c, us, x) /\ (r0.fresh => o.fresh) /\ Caught(r0, o) /\ ReportStep(r0, n, o)
  <2>1. QueuesOK(j, g0, <<>>) /\ PlaceOK(j, g0, c, x)
    BY <1>a, <1>6, <1>9, PlaceSame
  <2>2. \A i \in 1 .. Len(g0) : g0[i] < n
    BY <1>13, <2>1, NewerThanAll
  <2>3. /\ o \in Rs /\ SameClock(j, o) /\ SameReport(j, o) /\ QueuesOK(o, g0, <<>>)
        /\ Total(o) = Total(j) + 1 /\ SameMark(j, o)
    BY <1>6, <1>13, <2>1, <2>2, QueueMedia
  <2>4. ReportStep(r0, n, o)
    BY <1>6, <1>13, <2>3 DEF SameReport, ReportStep
  <2>5. Accounted(o, k0) /\ o.fresh = r0.fresh /\ o.missed = r0.missed
    BY <1>6, <1>8, <2>3
  <2>6. SameClock(r0, o)
    BY <1>6, <2>3 DEF SameClock
  <2> QED BY <1>b, <2>3, <2>4, <2>5, <2>6
<1>14. CASE n \notin Bad /\ n \notin Tev /\ ~(~j.sync /\ Jump(j, n)) /\ ~(~j.sync /\ OutOfTime(j, n))
  BY <1>5, <1>13, <1>14
<1>c. Len(<<>>) = 0 /\ <<>> \in Seq(Packets) /\ \A i \in 1 .. Len(<<>>) : <<>>[i] < n
  OBVIOUS
<1>15. CASE n \notin Bad /\ n \notin Tev /\ ~j.sync /\ Jump(j, n) /\ j.resets
  <2>a. PICK one \in Nat : one = 1
    OBVIOUS
  <2>1. PICK f : f = Reset(j, one)
    OBVIOUS
  <2>2. /\ f \in Rs /\ f.rq = <<>> /\ f.tev = j.tev /\ f.part = {} /\ f.sync
        /\ f.comp = j.comp /\ f.jitt = j.jitt
        /\ f.recv + f.runts + f.kept = Total(f) + 1 /\ ~f.missed
        /\ QueuesOK(f, <<>>, <<>>)
    <3>1. QueuesOK(j, g0, <<>>)
      BY <1>6, <1>9
    <3>2. Emptied(j, one, f)
      <4>1. j \in Rs
        BY <1>6
      <4> QED BY <2>1, <4>1, ResetIs
    <3> QED BY <2>a, <3>1, <3>2 DEF Emptied
  <2>3. PICK d : d = [f EXCEPT !.fresh = TRUE]
    OBVIOUS
  <2>4. d \in Rs
    BY ONLY <2>2, <2>3, TRUE \in BOOLEAN DEF Rs
  <2>5. /\ SameClock(f, d) /\ d.rq = f.rq /\ d.tev = f.tev /\ d.part = f.part /\ d.fresh /\ d.missed = f.missed
        /\ d.recv = f.recv /\ d.runts = f.runts /\ d.kept = f.kept /\ Total(d) = Total(f)
    BY <2>2, <2>3 DEF Rs, SameClock, Total
  <2>6. QueuesOK(d, <<>>, <<>>)
    BY <2>2, <2>5 DEF QueuesOK
  <2>7. o = SplitAndQueue(d, "rq", n)
    BY <1>5, <1>15, <2>a, <2>1, <2>3 DEF OnJump
  <2>8. /\ o \in Rs /\ SameClock(d, o) /\ QueuesOK(o, <<>>, <<>>)
        /\ Total(o) = Total(d) + 1 /\ SameMark(d, o)
    BY <1>c, <1>15, <2>4, <2>6, <2>7, QueueMedia
  <2>9. o.fresh /\ Eff(o, g) = <<>> /\ Held(o, k) = 0
    BY <2>5, <2>8 DEF SameMark, Eff, Held
  <2>12. Caught(r0, o)
    BY <2>2, <2>5, <2>8 DEF SameMark, Caught
  <2>10. Accounted(o, 0)
    <3>1. PICK q \in Nat : Total(f) = q
      BY <2>2, TotalNat
    <3>2. o.recv + o.runts + o.kept = q + 1 /\ Total(o) = q + 1
      BY <2>2, <2>5, <2>8, <3>1 DEF SameMark
    <3> QED BY <3>2 DEF Accounted
  <2>11. PlaceOK(o, <<>>, c, x) /\ ClockOK(o, us, x)
    <3>1. o.sync /\ o.comp = o.jitt
      BY <1>a, <1>6, <2>2, <2>5, <2>8 DEF SameClock, PlaceOK
    <3> QED BY <1>a, <3>1 DEF PlaceOK, ClockOK
  <2> QED BY <2>8, <2>9, <2>10, <2>11, <2>12 DEF ReadOK
<1>16. CASE n \notin Bad /\ n \notin Tev /\ ~j.sync /\ Jump(j, n) /\ ~j.resets
  <2>1. PICK B \in BOOLEAN : B = (j.missed \/ OutOfTime(j, n))
    BY DEF OutOfTime, TsNewer
  <2>2. PICK d : d = [j EXCEPT !.missed = B]
    OBVIOUS
  <2>3. o = SplitAndQueue(d, "rq", n)
    BY <1>5, <1>16, <2>1, <2>2 DEF OnJump
  <2>4. CASE ~B
    <3>1. ~OutOfTime(j, n) /\ j.missed = FALSE /\ B = FALSE
      BY <1>6, <2>1, <2>4, RsFields
    <3>2. d = j
      BY <1>6, <2>2, <3>1 DEF Rs
    <3> QED BY <1>13, <1>16, <2>3, <3>1, <3>2
  <2>5. CASE B
    <3>1. d \in Rs
      BY ONLY <1>6, <2>2, B \in BOOLEAN DEF Rs
    <3>2. /\ SameClock(j, d) /\ SameReport(j, d) /\ d.rq = j.rq /\ d.tev = j.tev /\ d.part = j.part
          /\ d.missed /\ d.fresh = j.fresh
          /\ d.recv = j.recv /\ d.runts = j.runts /\ d.kept = j.kept /\ Total(d) = Total(j)
      BY <1>6, <2>2, <2>5 DEF Rs, SameClock, SameReport, Total
    <3>3. QueuesOK(j, g0, <<>>)
      BY <1>6, <1>9
    <3>4. QueuesOK(d, <<>>, <<>>)
      <4>1. QueuesOK(j, <<>>, <<>>)
        BY <3>3, Forgotten
      <4> QED BY <3>2, <4>1 DEF QueuesOK
    <3>5. /\ o \in Rs /\ SameClock(d, o) /\ SameReport(d, o) /\ QueuesOK(o, <<>>, <<>>)
          /\ Total(o) = Total(d) + 1 /\ SameMark(d, o)
      BY <1>c, <1>16, <2>3, <3>1, <3>4, QueueMedia
    <3>6. o.fresh = r0.fresh /\ Eff(o, g) = <<>> /\ Held(o, k) = k0
      BY <1>0, <1>6, <3>2, <3>5 DEF SameMark, SameStore, Eff, Held
    <3>7. Accounted(o, k0)
      <4>1. Total(j) = t
        BY <1>6, <1>7 DEF SameStore, Total
      <4>2. o.recv = a + 1 /\ o.kept = b /\ o.runts = w /\ Total(o) = t + 1
        BY <1>6, <1>7, <3>2, <3>5, <4>1 DEF SameStore, SameMark
      <4> QED BY <1>7, <4>2 DEF Accounted
    <3>8. SameClock(r0, o)
      BY <1>6, <3>2, <3>5 DEF SameClock
    <3>9. PlaceOK(o, <<>>, c, x) /\ ClockOK(o, us, x)
      <4>1. PlaceOK(o, g0, c, x)
        BY <1>a, <3>8, PlaceSame
      <4>2. ClockOK(o, us, x)
        BY <1>a, <3>8 DEF SameClock, ClockOK
      <4> QED BY <4>1, <4>2, Forgotten
    <3>10. ReportStep(r0, n, o)
      BY <1>6, <1>16, <3>2, <3>5 DEF SameReport, ReportStep
    <3>11. Caught(r0, o)
      <4>1. j.missed => r0.missed
        BY <1>6 DEF SameStore
      <4>2. JumpFar => ~OutOfTime(j, n)
        <5>1. PlaceOK(j, g0, c, x)
          BY <1>a, <1>6, PlaceSame
        <5> QED BY <1>16, <5>1, JumpIsNew
      <4> QED BY <2>1, <2>5, <4>1, <4>2 DEF Caught
    <3> QED BY <3>5, <3>6, <3>7, <3>9, <3>10, <3>11 DEF ReadOK
  <2> QED BY <2>4, <2>5
<1> QED BY <1>10, <1>11, <1>12, <1>14, <1>15, <1>16

(* A set of numbers that has 0 and with each number the next has them all. *)
LEMMA UpTo ==
  ASSUME NEW m \in Nat, NEW S, 0 \in S, \A k \in 1 .. m : k - 1 \in S => k \in S
  PROVE  m \in S
<1> SUFFICES ASSUME m \notin S PROVE FALSE
  OBVIOUS
<1> DEFINE M == {k \in 0 .. m : k \notin S}
<1>1. M \in SUBSET Nat /\ m \in M
  OBVIOUS
<1>2. PICK i \in M : \A j \in M : i <= j
  BY <1>1, LeastElement
<1>3. i \in 1 .. m /\ i - 1 \in 0 .. m
  BY <1>2
<1>4. i - 1 \notin M
  BY <1>2, <1>3
<1>5. i - 1 \in S
  BY <1>3, <1>4
<1> QED BY <1>2, <1>3, <1>5

(* What a datagram does to the report. *)
ReadStep(r, y, e) == IF y = Runt THEN SameReport(r, e) ELSE ReportStep(r, y, e)

(* A datagram that is too short is counted twice, as bad and as a runt. *)
LEMMA ReadOneKeeps ==
  ASSUME NEW r, NEW y \in Packets \cup {Runt}, NEW g \in Seq(Packets), NEW c \in 0 .. MaxCalls, NEW x,
         NEW k \in Nat, NEW us, ReadOK(r, g, k, c, us, x), NEW o, o = ReadOne(r, y)
  PROVE  /\ ReadOK(o, g, k, c, us, x) /\ (r.fresh => o.fresh) /\ Caught(r, o)
         /\ o.fresh \/ ReadStep(r, y, o)
<1>0. Runt \notin Packets
  BY DEF Runt, Packets
<1>1. CASE y # Runt
  <2>1. o = rtp_parse(r, y) /\ y \in Packets
    BY <1>1 DEF ReadOne
  <2>2. ReadOK(o, g, k, c, us, x) /\ (r.fresh => o.fresh) /\ Caught(r, o) /\ (o.fresh \/ ReportStep(r, y, o))
    BY <2>1, ParseKeeps
  <2> QED BY <1>1, <2>2 DEF ReadStep
<1>2. CASE y = Runt
  <2>1. r \in Rs
    BY DEF ReadOK
  <2>2. PICK b \in Nat, w \in Nat : b = r.bad + 1 /\ w = r.runts + 1
    <3>1. r.bad \in Nat /\ r.runts \in Nat
      BY <2>1, RsFields
    <3>2. r.bad + 1 \in Nat /\ r.runts + 1 \in Nat
      BY <3>1
    <3> QED BY <3>2
  <2>3. o = [r EXCEPT !.bad = b, !.runts = w]
    BY <1>2, <2>2 DEF ReadOne
  <2>4. o \in Rs
    BY ONLY <2>1, <2>3, b \in Nat, w \in Nat DEF Rs
  <2>5. /\ SameClock(r, o) /\ SameReport(r, o) /\ o.rq = r.rq /\ o.tev = r.tev /\ o.part = r.part
        /\ o.fresh = r.fresh /\ o.missed = r.missed
        /\ o.recv = r.recv /\ o.kept = r.kept /\ o.runts = w
        /\ o.bad = b /\ o.discarded = r.discarded /\ o.outoftime = r.outoftime
        /\ o.skipped = r.skipped /\ o.twice = r.twice /\ o.freed = r.freed
    BY <2>1, <2>3 DEF Rs, SameClock, SameReport
  <2>6. Eff(o, g) = Eff(r, g) /\ Held(o, k) = Held(r, k)
    BY <2>5 DEF Eff, Held
  <2>7. QueuesOK(o, Eff(o, g), <<>>)
    BY <2>5, <2>6 DEF ReadOK, QueuesOK
  <2>8. PlaceOK(o, Eff(o, g), c, x) /\ ClockOK(o, us, x)
    BY <2>5, <2>6, PlaceSame DEF ReadOK, SameClock, ClockOK
  <2>9. Accounted(o, Held(o, k))
    <3>1. PICK l1 \in Nat, l2 \in Nat, c1 \in Nat, c2 \in Nat, c3 \in Nat, c4 \in Nat, c5 \in Nat, c6 \in Nat :
             /\ Len(r.rq) = l1 /\ Len(r.tev) = l2 /\ r.bad = c1 /\ r.discarded = c2
             /\ r.outoftime = c3 /\ r.skipped = c4 /\ r.twice = c5 /\ r.freed = c6
      BY <2>1, RsFields
    <3>2. /\ Len(o.rq) = l1 /\ Len(o.tev) = l2 /\ o.bad = c1 + 1 /\ o.discarded = c2
          /\ o.outoftime = c3 /\ o.skipped = c4 /\ o.twice = c5 /\ o.freed = c6
      BY <2>2, <2>5, <3>1
    <3>3. Total(o) = Total(r) + 1
      BY ONLY <3>1, <3>2 DEF Total
    <3>4. PICK t \in Nat, a \in Nat, d \in Nat, v \in Nat, q \in Nat :
             Total(r) = t /\ r.recv = a /\ r.kept = d /\ r.runts = v /\ Held(r, k) = q
      BY <2>1, TotalNat, RsFields DEF Held
    <3>5. a + v + d = t + q
      BY <3>4 DEF ReadOK, Accounted
    <3>6. o.recv = a /\ o.kept = d /\ o.runts = v + 1 /\ Total(o) = t + 1 /\ Held(o, k) = q
      BY <2>2, <2>5, <2>6, <3>3, <3>4
    <3> QED BY <3>5, <3>6 DEF Accounted
  <2> QED BY <1>2, <2>4, <2>5, <2>7, <2>8, <2>9 DEF ReadOK, ReadStep, Caught
<1> QED BY <1>1, <1>2

(* The states rtp_recv goes through: each datagram keeps the order, loses  *)
(* nothing and takes its step of the report, until the application resets  *)
(* the session.                                                            *)
ReadSteps(h, r, m, g, n, c, us, x) ==
  /\ h[0] = [r EXCEPT !.fresh = FALSE] /\ rtp_recv(r, m) = h[m]
  /\ \A k \in 0 .. m : ReadOK(h[k], g, n, c, us, x)
  /\ \A k \in 1 .. m : /\ h[k - 1].fresh => h[k].fresh
                       /\ Caught(h[k - 1], h[k])
                       /\ h[k].fresh \/ ReadStep(h[k - 1], sock[k], h[k])

(* There are such states, by induction over the socket. *)
LEMMA ReadKeeps ==
  ASSUME sock \in Seq(Packets \cup {Runt}), NEW r \in Rs, NEW m \in 0 .. Len(sock),
         NEW g \in Seq(Packets), NEW c \in 0 .. MaxCalls, NEW x, NEW n \in Nat, NEW us,
         QueuesOK(r, IF r.missed THEN <<>> ELSE g, <<>>), Accounted(r, n),
         PlaceOK(r, IF r.missed THEN <<>> ELSE g, c, x), ClockOK(r, us, x)
  PROVE  \E h : ReadSteps(h, r, m, g, n, c, us, x)
<1>2. Len(sock) \in Nat /\ m \in Nat
  BY LenProperties
<1>a. PICK h : ReadsOn(h, r, m)
  BY <1>2, ReadIs, Zenon
<1>0. PICK b : b = [r EXCEPT !.fresh = FALSE]
  OBVIOUS
<1>1. /\ h[0] = b /\ rtp_recv(r, m) = h[m]
      /\ \A k \in 1 .. m : h[k] = ReadOne(h[k - 1], sock[k])
  BY ONLY <1>0, <1>a, Zenon DEF ReadsOn
<1> DEFINE Kept(k) == ReadOK(h[k], g, n, c, us, x)
           S == {k \in 0 .. m : Kept(k)}
<1>3. Kept(0)
  <2>1. b \in Rs
    BY ONLY <1>0, r \in Rs, FALSE \in BOOLEAN DEF Rs
  <2>2. /\ SameClock(r, b) /\ b.rq = r.rq /\ b.tev = r.tev /\ b.part = r.part
        /\ b.fresh = FALSE /\ b.missed = r.missed
        /\ b.recv = r.recv /\ b.kept = r.kept /\ b.runts = r.runts /\ Total(b) = Total(r)
    BY <1>0 DEF Rs, SameClock, Total
  <2>3. Eff(b, g) = (IF r.missed THEN <<>> ELSE g) /\ Held(b, n) = n
    BY <2>2 DEF Eff, Held
  <2>4. QueuesOK(b, Eff(b, g), <<>>)
    BY <2>2, <2>3 DEF QueuesOK
  <2>5. Accounted(b, Held(b, n))
    BY <2>2, <2>3 DEF Accounted
  <2>6. PlaceOK(b, Eff(b, g), c, x) /\ ClockOK(b, us, x)
    BY <2>2, <2>3, PlaceSame DEF SameClock, ClockOK
  <2> QED BY <1>1, <2>1, <2>4, <2>5, <2>6 DEF ReadOK
<1>4. ASSUME NEW k \in 1 .. m, Kept(k - 1)
      PROVE  /\ Kept(k) /\ (h[k - 1].fresh => h[k].fresh) /\ Caught(h[k - 1], h[k])
             /\ h[k].fresh \/ ReadStep(h[k - 1], sock[k], h[k])
  <2>1. ReadOK(h[k - 1], g, n, c, us, x)
    BY <1>4
  <2>2. k \in 1 .. Len(sock)
    BY <1>2
  <2>3. sock[k] \in Packets \cup {Runt}
    BY <2>2, ElementOfSeq
  <2>4. h[k] = ReadOne(h[k - 1], sock[k])
    BY <1>1
  <2> QED BY <2>1, <2>3, <2>4, ReadOneKeeps
<1>5. ASSUME NEW k \in 0 .. m PROVE Kept(k)
  <2>1. ASSUME NEW i \in 1 .. k, i - 1 \in S PROVE i \in S
    <3>1. i \in 1 .. m /\ i \in 0 .. m /\ Kept(i - 1)
      BY <1>2, <2>1
    <3>2. Kept(i)
      BY <1>4, <3>1
    <3> QED BY <3>1, <3>2
  <2>2. k \in Nat /\ 0 \in S
    BY <1>2, <1>3
  <2>3. k \in S
    <3> HIDE DEF S
    <3> QED BY <2>1, <2>2, UpTo
  <2> QED BY <2>3
<1>6. ASSUME NEW k \in 1 .. m
      PROVE  /\ h[k - 1].fresh => h[k].fresh
             /\ Caught(h[k - 1], h[k])
             /\ h[k].fresh \/ ReadStep(h[k - 1], sock[k], h[k])
  <2>1. k - 1 \in 0 .. m
    BY <1>2
  <2>2. Kept(k - 1)
    BY <1>5, <2>1
  <2> QED BY <1>4, <2>2
<1>7. ReadSteps(h, r, m, g, n, c, us, x)
  BY <1>0, <1>1, <1>5, <1>6 DEF ReadSteps
<1> QED BY <1>7

(* The telephone event that is reported leaves its queue. *)
LEMMA TakeTevKeeps ==
  ASSUME NEW r \in Rs, NEW g \in Seq(Packets), QueuesOK(r, g, <<>>), NEW e, e = TakeTev(r)
  PROVE  /\ e \in Rs /\ SameClock(r, e) /\ SameReport(r, e) /\ QueuesOK(e, g, <<>>)
         /\ Total(e) = Total(r) /\ SameMark(r, e)
<1>1. CASE r.tev = <<>>
  <2>1. e = r
    BY <1>1 DEF TakeTev
  <2> QED BY <2>1 DEF SameClock, SameReport, SameMark
<1>2. CASE r.tev # <<>>
  <2>1. PICK l1 \in Nat, l2 \in Nat, c1 \in Nat, c2 \in Nat, c3 \in Nat, c4 \in Nat, c5 \in Nat, c6 \in Nat :
           /\ Len(r.rq) = l1 /\ Len(r.tev) = l2 /\ r.bad = c1 /\ r.discarded = c2
           /\ r.outoftime = c3 /\ r.skipped = c4 /\ r.twice = c5 /\ r.freed = c6
    BY RsFields
  <2>2. r.tev \in Seq(Packets) /\ Sorted(r.tev) /\ l2 # 0
    <3>1. r.tev \in Seq(Packets) /\ Sorted(r.tev)
      BY RsFields DEF QueuesOK
    <3>2. Len(r.tev) # 0
      BY <1>2, <3>1, EmptySeq
    <3> QED BY <2>1, <3>1, <3>2
  <2>3. PICK t : t = Tail(r.tev)
    OBVIOUS
  <2>4. PICK h : Cut(r.tev, 1, t, h)
    <3>1. Tail(r.tev) = SubSeq(r.tev, 2, Len(r.tev))
      BY <1>2, <2>2, TailIsSubSeq
    <3>2. 1 + 1 = 2
      OBVIOUS
    <3> QED BY <2>3, <3>1, <3>2 DEF Cut
  <2>5. t \in Seq(Packets) /\ Sorted(t) /\ Len(t) = Len(r.tev) - 1 /\ ToSet(t) \subseteq ToSet(r.tev)
    <3>1. 1 \in Nat /\ 1 <= Len(r.tev)
      BY <2>1, <2>2
    <3> QED BY <2>2, <2>4, <3>1, Rest DEF Parts
  <2>6. PICK d \in Nat : d = c6 + 1
    OBVIOUS
  <2>7. e = [r EXCEPT !.tev = t, !.freed = d]
    BY <1>2, <2>1, <2>3, <2>6 DEF TakeTev
  <2>8. e \in Rs
    BY ONLY r \in Rs, <2>5, <2>7, d \in Nat DEF Rs
  <2>9. /\ SameClock(r, e) /\ SameReport(r, e) /\ e.rq = r.rq /\ e.tev = t /\ e.part = r.part
        /\ SameMark(r, e)
        /\ e.bad = r.bad /\ e.discarded = r.discarded /\ e.outoftime = r.outoftime
        /\ e.skipped = r.skipped /\ e.twice = r.twice /\ e.freed = d
    BY <2>7 DEF Rs, SameClock, SameReport, SameMark
  <2>10. Total(e) = Total(r)
    <3>1. PICK y \in Nat : Len(t) = y /\ y + 1 = l2
      BY <2>1, <2>2, <2>5
    <3>2. /\ Len(e.rq) = l1 /\ Len(e.tev) = y /\ e.bad = c1 /\ e.discarded = c2
          /\ e.outoftime = c3 /\ e.skipped = c4 /\ e.twice = c5 /\ e.freed = c6 + 1
      BY <2>1, <2>6, <2>9, <3>1
    <3>3. y + 1 = l2
      BY <3>1
    <3> QED BY ONLY <2>1, <3>2, <3>3 DEF Total
  <2>11. Len(t) <= MaxRq
    BY <2>1, <2>2, <2>5, Numbers DEF QueuesOK
  <2>12. QueuesOK(e, g, <<>>)
    BY <2>5, <2>9, <2>11 DEF QueuesOK
  <2> QED BY <2>8, <2>9, <2>10, <2>12
<1> QED BY <1>1, <1>2

(* rtp_getq stops at the first packet it does not go on at. *)
LEMMA TakenIs ==
  ASSUME NEW q \in Seq(Packets), NEW ts, NEW k, k = Taken(q, ts)
  PROVE  k \in 0 .. Len(q) /\ \A i \in 1 .. k : GetqGoesOn(q, ts, i)
<1>1. Len(q) \in Nat
  BY LenProperties
<1> DEFINE S == {j \in 0 .. Len(q) : j = Len(q) \/ ~GetqGoesOn(q, ts, j + 1)}
<1>2. S \in SUBSET Nat /\ Len(q) \in S
  BY <1>1
<1>3. PICK m \in S : \A j \in S : m <= j
  BY <1>2, LeastElement
<1>4. m \in 0 .. Len(q) /\ (m < Len(q) => ~GetqGoesOn(q, ts, m + 1))
  BY <1>1, <1>3
<1>5. ASSUME NEW i \in 1 .. m PROVE GetqGoesOn(q, ts, i)
  <2>1. i - 1 \in 0 .. Len(q) /\ ~(m <= i - 1) /\ (i - 1) + 1 = i
    BY <1>1, <1>4
  <2>2. i - 1 \notin S
    BY <1>3, <2>1
  <2> QED BY <2>1, <2>2
<1> HIDE DEF S
<1> DEFINE Stops(j) == /\ \A i \in 1 .. j : GetqGoesOn(q, ts, i)
                       /\ j < Len(q) => ~GetqGoesOn(q, ts, j + 1)
<1>6. Stops(m)
  BY <1>4, <1>5
<1>7. Taken(q, ts) = CHOOSE j \in 0 .. Len(q) : Stops(j)
  BY DEF Taken
<1>8. k \in 0 .. Len(q) /\ Stops(k)
  <2> HIDE DEF Stops
  <2> QED BY <1>4, <1>6, <1>7
<1> QED BY <1>8

(* A set loses at most as many elements as a sequence has. *)
LEMMA CutCard ==
  ASSUME NEW P \in SUBSET Packets, NEW h \in Seq(Packets)
  PROVE  Cardinality(P \ ToSet(h)) + Len(h) >= Cardinality(P) /\ Cardinality(P \ ToSet(h)) \in Nat
<1>1. Len(h) \in Nat /\ DOMAIN h = 1 .. Len(h) /\ h \in [1 .. Len(h) -> ToSet(h)]
  <2>1. Len(h) \in Nat /\ DOMAIN h = 1 .. Len(h) /\ h \in [1 .. Len(h) -> Packets]
    BY LenProperties
  <2> QED BY <2>1 DEF ToSet
<1>2. IsFiniteSet(1 .. Len(h)) /\ Cardinality(1 .. Len(h)) = Len(h)
  <2>1. IsFiniteSet(1 .. Len(h)) /\ Cardinality(1 .. Len(h)) = IF 1 > Len(h) THEN 0 ELSE Len(h) - 1 + 1
    BY <1>1, FS_Interval
  <2> QED BY <1>1, <2>1
<1>3. h \in Surjection(1 .. Len(h), ToSet(h))
  BY <1>1 DEF Surjection, ToSet
<1>4. IsFiniteSet(ToSet(h)) /\ Cardinality(ToSet(h)) <= Len(h) /\ Cardinality(ToSet(h)) \in Nat
  BY <1>2, <1>3, FS_Surjection, FS_CardinalityType
<1>5. IsFiniteSet(P) /\ Cardinality(P) \in Nat
  <2>1. IsFiniteSet(1 .. N)
    BY FS_Interval, Numbers
  <2> QED BY <2>1, FS_Subset, FS_CardinalityType DEF Packets
<1>6. IsFiniteSet(P \ ToSet(h)) /\ Cardinality(P \ ToSet(h)) = Cardinality(P) - Cardinality(P \cap ToSet(h))
  BY <1>5, FS_Difference
<1>7. IsFiniteSet(ToSet(h) \cap P) /\ Cardinality(P \cap ToSet(h)) <= Cardinality(ToSet(h))
  BY <1>4, FS_Intersection
<1>8. Cardinality(P \ ToSet(h)) \in Nat /\ Cardinality(P \cap ToSet(h)) \in Nat
  BY <1>4, <1>6, FS_CardinalityType, FS_Intersection
<1> QED BY <1>1, <1>4, <1>5, <1>6, <1>7, <1>8

(* Packet k of the queue is handed over, those in front of it are skipped. *)
LEMMA TakeKeeps ==
  ASSUME NEW r \in Rs, NEW g \in Seq(Packets), QueuesOK(r, g, <<>>), NEW k \in 1 .. Len(r.rq),
         NEW t, NEW h, Cut(r.rq, k, t, h), NEW t1, NEW h1, Cut(r.rq, k - 1, t1, h1),
         NEW e \in Rs, e.rq = t, e.part = r.part \ ToSet(h1), e.tev = r.tev
  PROVE  QueuesOK(e, g, <<r.rq[k]>>) /\ r.rq[k] \in Packets /\ Len(t) = Len(r.rq) - k
<1> DEFINE q == r.rq
           n == q[k]
<1>1. q \in Seq(Packets) /\ Sorted(q) /\ Len(q) \in Nat /\ r.part \in SUBSET Packets
  BY RsFields DEF QueuesOK
<1>2. n \in Packets
  BY <1>1, ElementOfSeq
<1>3. k \in Nat /\ k - 1 \in Nat /\ k <= Len(q) /\ k - 1 <= Len(q)
  BY <1>1
<1>4. /\ t \in Seq(Packets) /\ Sorted(t) /\ Len(t) = Len(q) - k
      /\ \A i \in 1 .. Len(t) : t[i] = q[i + k]
      /\ ToSet(t) \subseteq ToSet(q)
  <2>1. Parts(q, k, t, h)
    BY <1>1, <1>3, Rest
  <2> QED BY ONLY <2>1 DEF Parts
<1>5. /\ t1 \in Seq(Packets) /\ Len(t1) = Len(q) - (k - 1)
      /\ \A i \in 1 .. Len(t1) : t1[i] = q[i + (k - 1)]
      /\ h1 \in Seq(Packets) /\ Len(h1) = k - 1
      /\ ToSet(q) \subseteq ToSet(t1) \cup ToSet(h1)
  <2>1. Parts(q, k - 1, t1, h1)
    BY <1>1, <1>3, Rest
  <2> QED BY ONLY <2>1 DEF Parts
<1>6. ToSet(t1) \subseteq ToSet(t) \cup {n}
  <2>1. DOMAIN t1 = 1 .. Len(t1) /\ DOMAIN t = 1 .. Len(t)
    BY <1>4, <1>5, LenProperties
  <2> SUFFICES ASSUME NEW i \in 1 .. Len(t1) PROVE t1[i] \in ToSet(t) \cup {n}
    BY <2>1 DEF ToSet
  <2>2. CASE i = 1
    <3>1. t1[i] = q[1 + (k - 1)] /\ 1 + (k - 1) = k
      BY <1>3, <1>5, <2>2
    <3> QED BY <3>1
  <2>3. CASE i # 1
    <3>1. i - 1 \in 1 .. Len(t) /\ (i - 1) + k = i + (k - 1)
      BY <1>1, <1>3, <1>4, <1>5, <2>3
    <3>2. t1[i] = t[i - 1]
      BY <1>4, <1>5, <3>1
    <3> QED BY <2>1, <3>1, <3>2 DEF ToSet
  <2> QED BY <2>2, <2>3
<1> HIDE DEF n
<1>7. Len(<<n>>) = 1 /\ <<n>>[1] = n /\ ToSet(<<n>>) = {n} /\ ToSet(<<>>) = {} /\ Len(<<>>) = 0
  BY DEF ToSet
<1>8. Before(<<n>>, t)
  <2>1. ASSUME NEW j \in 1 .. Len(t) PROVE n < t[j]
    <3>1. j + k \in 1 .. Len(q) /\ k < j + k /\ t[j] = q[j + k]
      BY <1>1, <1>3, <1>4
    <3> QED BY <1>1, <3>1 DEF Sorted, n
  <2> QED BY <1>7, <2>1 DEF Before
<1>9. Before(g, <<n>>) /\ Before(g, t)
  <2>1. ASSUME NEW i \in 1 .. Len(g), NEW j \in 1 .. Len(t) PROVE g[i] < t[j]
    <3>1. j + k \in 1 .. Len(q) /\ k < j + k /\ t[j] = q[j + k]
      BY <1>1, <1>3, <1>4, SMTT(30)
    <3> QED BY <3>1 DEF QueuesOK, Before
  <2>2. ASSUME NEW i \in 1 .. Len(g) PROVE g[i] < n
    BY DEF QueuesOK, Before, n
  <2> QED BY <1>7, <2>1, <2>2 DEF Before
<1>10. Len(e.rq) + Len(<<n>>) <= MaxRq + Cardinality(e.part)
  <2>1. /\ Cardinality(e.part) + Len(h1) >= Cardinality(r.part)
        /\ Cardinality(e.part) \in Nat /\ Cardinality(r.part) \in Nat
    BY <1>1, <1>5, CutCard, PartCard
  <2>2. Len(q) <= MaxRq + Cardinality(r.part)
    BY <1>1, <1>7 DEF QueuesOK
  <2> QED BY <1>1, <1>3, <1>4, <1>5, <1>7, <2>1, <2>2, Numbers, SMTT(30)
<1>11. e.part \subseteq (ToSet(e.rq) \cup ToSet(<<n>>)) \cap Long
  BY <1>5, <1>6, <1>7 DEF QueuesOK
<1>12. n \in ToSet(q)
  <2>1. DOMAIN q = 1 .. Len(q)
    BY <1>1, LenProperties
  <2> QED BY <2>1 DEF ToSet, n
<1>13. ToSet(e.rq) \cap Tev = {} /\ ToSet(<<n>>) \cap Tev = {} /\ ToSet(e.tev) \subseteq Tev
  BY <1>4, <1>7, <1>12 DEF QueuesOK
<1>14. QueuesOK(e, g, <<n>>)
  BY <1>4, <1>8, <1>9, <1>10, <1>11, <1>13 DEF QueuesOK
<1> QED BY <1>2, <1>4, <1>14 DEF n

(* What a call has taken out of the queue, and its place in the stream. *)
Reached(e, g, mp, c, ts) ==
  \E x \in Nat : /\ PlaceOK(e, g, c, x) /\ (~e.sync => (ts + e.diff) % TsMod = StreamTs(x))
                 /\ \A i \in 1 .. Len(mp) : ~e.sync /\ Pos(mp[i]) <= x

GetOK(r, g, c, ts, e, mp) ==
  /\ e \in Rs /\ mp \in Seq(Packets) /\ Len(mp) \in 0 .. 1
  /\ QueuesOK(e, g, mp) /\ SameReport(r, e)
  /\ SameMark(r, e) /\ Total(e) + Len(mp) = Total(r)
  /\ Reached(e, g, mp, c, ts)

(* The total when k packets leave the queue and all but one are skipped. *)
LEMMA TotalTaken ==
  ASSUME NEW r \in Rs, NEW e, NEW k \in 1 .. Len(r.rq), Len(e.rq) = Len(r.rq) - k, e.tev = r.tev,
         e.skipped = r.skipped + (k - 1), e.bad = r.bad, e.discarded = r.discarded,
         e.outoftime = r.outoftime, e.twice = r.twice, e.freed = r.freed
  PROVE  Total(e) + 1 = Total(r)
<1>1. PICK l1 \in Nat, l2 \in Nat, c1 \in Nat, c2 \in Nat, c3 \in Nat, c4 \in Nat, c5 \in Nat, c6 \in Nat :
         /\ Len(r.rq) = l1 /\ Len(r.tev) = l2 /\ r.bad = c1 /\ r.discarded = c2
         /\ r.outoftime = c3 /\ r.skipped = c4 /\ r.twice = c5 /\ r.freed = c6
  BY RsFields
<1>2. PICK j \in Nat : j + 1 = k
  BY <1>1
<1>3. PICK y \in Nat : Len(e.rq) = y /\ y + j + 1 = l1
  BY <1>1, <1>2
<1>4. /\ Len(e.rq) = y /\ Len(e.tev) = l2 /\ e.bad = c1 /\ e.discarded = c2
      /\ e.outoftime = c3 /\ e.skipped = c4 + j /\ e.twice = c5 /\ e.freed = c6
  BY <1>1, <1>2, <1>3
<1>5. y + j + 1 = l1
  BY <1>3
<1> QED BY ONLY <1>1, <1>4, <1>5 DEF Total

(* The timestamps of the packets rtp_getq takes are not newer. *)
LEMMA TakenPlaces ==
  ASSUME NEW q \in Seq(Packets), NEW x \in Nat, x <= N * TsStep + MaxCalls * TsStep,
         NEW t, t = StreamTs(x), NEW k, k = Taken(q, t)
  PROVE  k \in 0 .. Len(q) /\ \A i \in 1 .. k : Pos(q[i]) <= x
<1>1. k \in 0 .. Len(q) /\ (\A i \in 1 .. k : GetqGoesOn(q, t, i)) /\ Len(q) \in Nat
  BY TakenIs, LenProperties
<1>2. ASSUME NEW i \in 1 .. k PROVE Pos(q[i]) <= x
  <2>1. i \in 1 .. Len(q)
    BY <1>1
  <2>2. q[i] \in Packets
    BY <2>1, ElementOfSeq
  <2>3. TsNewer(StreamTs(x), TsOf(q[i]))
    BY <1>1 DEF GetqGoesOn
  <2>4. x >= Pos(q[i])
    BY <2>2, <2>3, TsOrder
  <2>5. Pos(q[i]) \in Nat
    BY <2>2, Places, Numbers
  <2> QED BY <2>4, <2>5
<1> QED BY <1>1, <1>2

(* rtp_session_recvm_with_ts with a running clock. *)
LEMMA NextKeeps ==
  ASSUME NEW r \in Rs, ~r.sync, NEW g \in Seq(Packets), QueuesOK(r, g, <<>>),
         NEW c \in 0 .. MaxCalls, NEW c0, NEW x0 \in Nat, PlaceOK(r, g, c0, x0),
         NEW x \in Nat, x0 <= x, x <= N * TsStep + c * TsStep,
         NEW ts \in Nat, (ts + r.diff) % TsMod = StreamTs(x), NEW o, o = RecvmNext(r, ts)
  PROVE  GetOK(r, g, c, ts, o.r, o.mp)
<1>1. PICK t \in Circle : t = StreamTs(x)
  BY ModRange, Numbers DEF StreamTs, Circle
<1>2. PICK k : k = Taken(r.rq, t)
  OBVIOUS
<1>3. PICK rest : rest = SubSeq(r.rq, k + 1, Len(r.rq))
  OBVIOUS
<1>4. PICK P : P = r.part \ ToSet(SubSeq(r.rq, 1, k - 1))
  OBVIOUS
<1>5. PICK e : e = [r EXCEPT !.last = t, !.rq = rest, !.skipped = @ + Skipped(k), !.part = P]
  OBVIOUS
<1>6. PICK mp : mp = IF k = 0 THEN <<>> ELSE <<r.rq[k]>>
  OBVIOUS
<1>7. o.r = e /\ o.mp = mp
  BY <1>1, <1>2, <1>3, <1>4, <1>5, <1>6 DEF RecvmNext
<1>8. x <= N * TsStep + MaxCalls * TsStep
  <2>1. c * TsStep <= MaxCalls * TsStep /\ c * TsStep \in Nat
    BY ProductGrows, Numbers
  <2> QED BY <2>1, Numbers
<1>9. r.rq \in Seq(Packets) /\ Len(r.rq) \in Nat /\ Sorted(r.rq) /\ r.part \in SUBSET Packets /\ r.skipped \in Nat
  BY RsFields DEF QueuesOK
<1>10. k \in 0 .. Len(r.rq) /\ \A i \in 1 .. k : Pos(r.rq[i]) <= x
  BY <1>1, <1>2, <1>8, <1>9, TakenPlaces
<1>11. PICK h : Cut(r.rq, k, rest, h)
  BY <1>3 DEF Cut
<1>12. Parts(r.rq, k, rest, h)
  BY <1>9, <1>10, <1>11, Rest
<1>13. rest \in Seq(Packets)
  BY <1>12 DEF Parts
<1>14. PICK s \in Nat : s = r.skipped + Skipped(k)
  <2>1. Skipped(k) \in Nat
    BY <1>9, <1>10 DEF Skipped
  <2> QED BY <1>9, <2>1
<1>15. e = [r EXCEPT !.last = t, !.rq = rest, !.skipped = s, !.part = P] /\ P \in SUBSET Packets
  BY <1>4, <1>5, <1>9, <1>14
<1>16. e \in Rs
  BY ONLY r \in Rs, t \in Circle, s \in Nat, <1>13, <1>15 DEF Rs
<1>17. /\ e.rq = rest /\ e.tev = r.tev /\ e.part = P /\ e.sync = r.sync /\ e.comp = r.comp
       /\ e.jitt = r.jitt /\ e.diff = r.diff /\ e.hwDiff = r.hwDiff /\ e.last = t
       /\ SameMark(r, e) /\ SameReport(r, e)
       /\ e.skipped = s /\ e.bad = r.bad /\ e.discarded = r.discarded
       /\ e.outoftime = r.outoftime /\ e.twice = r.twice /\ e.freed = r.freed
  BY <1>15 DEF Rs, SameReport, SameMark
<1>18. PlaceOK(e, g, c, x) /\ (ts + e.diff) % TsMod = StreamTs(x)
  <2>1. ASSUME NEW i \in 1 .. Len(g) PROVE Pos(g[i]) <= x
    <3>1. g[i] \in Packets
      BY ElementOfSeq
    <3>2. Pos(g[i]) \in Nat
      BY <3>1, Places, Numbers
    <3>3. Pos(g[i]) <= x0
      BY DEF PlaceOK
    <3> QED BY <3>2, <3>3
  <2> QED BY <1>1, <1>17, <2>1 DEF PlaceOK
<1>19. CASE k = 0
  <2>1. mp = <<>> /\ Len(mp) = 0 /\ s = r.skipped
    BY <1>6, <1>9, <1>14, <1>19 DEF Skipped
  <2>2. rest = r.rq
    BY <1>3, <1>9, <1>19, SubSeqFull
  <2>3. P = r.part
    <3>1. SubSeq(r.rq, 1, 0 - 1) = <<>>
      BY <1>9, SubSeqEmpty
    <3>2. ToSet(<<>>) = {}
      BY DEF ToSet
    <3> QED BY <1>4, <1>19, <3>1, <3>2
  <2>4. QueuesOK(e, g, mp)
    BY <1>17, <2>1, <2>2, <2>3 DEF QueuesOK
  <2>5. Total(e) = Total(r) /\ Total(e) \in Nat
    BY <1>16, <1>17, <2>1, <2>2, TotalNat DEF Total
  <2>6. Reached(e, g, mp, c, ts)
    BY <1>18, <2>1 DEF Reached
  <2>7. mp \in Seq(Packets)
    BY <2>1
  <2>8. Total(e) + Len(mp) = Total(r) /\ Len(mp) \in 0 .. 1
    BY <2>1, <2>5
  <2> QED BY <1>7, <1>16, <1>17, <2>4, <2>6, <2>7, <2>8 DEF GetOK
<1>20. CASE k # 0
  <2>1. k \in 1 .. Len(r.rq)
    BY <1>9, <1>10, <1>20
  <2>2. mp = <<r.rq[k]>> /\ s = r.skipped + (k - 1)
    BY <1>6, <1>14, <1>20 DEF Skipped
  <2>3. PICK t1, h1 : Cut(r.rq, k - 1, t1, h1)
    BY DEF Cut
  <2>4. e.part = r.part \ ToSet(h1)
    BY <1>4, <1>17, <2>3 DEF Cut
  <2>5. QueuesOK(e, g, <<r.rq[k]>>) /\ r.rq[k] \in Packets /\ Len(rest) = Len(r.rq) - k
    BY <1>11, <1>16, <1>17, <2>1, <2>3, <2>4, TakeKeeps, ZenonT(30)
  <2>6. Total(e) + 1 = Total(r)
    BY <1>17, <2>1, <2>2, <2>5, TotalTaken
  <2>7. Len(mp) = 1 /\ mp \in Seq(Packets) /\ mp[1] = r.rq[k]
    BY <2>2, <2>5
  <2>8. Pos(mp[1]) <= x
    BY <1>10, <2>1, <2>7
  <2>9. Reached(e, g, mp, c, ts)
    <3>1. \A i \in 1 .. Len(mp) : ~e.sync /\ Pos(mp[i]) <= x
      BY <1>17, <2>7, <2>8
    <3> QED BY <1>18, <3>1 DEF Reached
  <2>10. QueuesOK(e, g, mp)
    BY <2>2, <2>5
  <2> QED BY <1>7, <1>16, <1>17, <2>6, <2>7, <2>9, <2>10 DEF GetOK
<1> QED BY <1>19, <1>20

(* rtp_session_recvm_with_ts when the first packet sets the clock. *)
LEMMA FirstKeeps ==
  ASSUME NEW r \in Rs, r.sync, Buffered(r), NEW g, g = <<>>, QueuesOK(r, g, <<>>),
         NEW c \in 0 .. MaxCalls, r.comp = r.jitt, NEW ts \in Nat, NEW o, o = RecvmFirst(r, ts)
  PROVE  GetOK(r, g, c, ts, o.r, o.mp)
<1>1. /\ r.rq \in Seq(Packets) /\ Len(r.rq) \in Nat /\ Sorted(r.rq) /\ r.jitt \in Nat
      /\ r.rq # <<>> /\ r.skipped \in Nat
  BY RsFields DEF QueuesOK, Buffered
<1>2. 1 \in 1 .. Len(r.rq) /\ Head(r.rq) = r.rq[1]
  BY <1>1, HeadTailProperties, EmptySeq
<1>3. PICK n \in Packets : n = r.rq[1]
  BY <1>1, <1>2, ElementOfSeq
<1>4. PICK x \in Nat : x = Pos(n) /\ x <= N * TsStep /\ TsOf(n) = StreamTs(x)
  BY Places, Numbers
<1>5. PICK t \in Circle : t = StreamTs(x)
  <2>1. FirstTs + x \in Int
    BY Numbers
  <2>2. (FirstTs + x) % TsMod \in 0 .. TsMod - 1
    BY <2>1, ModRange, Numbers
  <2> QED BY <2>2 DEF StreamTs, Circle
<1>6. PICK d \in Circle : d = (t - ts) % TsMod
  <2>1. t - ts \in Int
    BY Numbers DEF Circle
  <2> QED BY <2>1, ModRange, Numbers DEF Circle
<1>7. PICK w \in Circle : w = (d + r.jitt) % TsMod
  <2>1. d + r.jitt \in Int
    BY <1>1, Numbers DEF Circle
  <2> QED BY <2>1, ModRange, Numbers DEF Circle
<1>8. PICK rest : rest = Tail(r.rq)
  OBVIOUS
<1>9. PICK e : e = [r EXCEPT !.rq = rest, !.sync = FALSE, !.diff = d, !.hwDiff = w, !.last = t]
  OBVIOUS
<1>10. o.r = e /\ o.mp = <<n>>
  BY <1>2, <1>3, <1>4, <1>5, <1>6, <1>7, <1>8, <1>9 DEF RecvmFirst
<1>11. PICK h : Cut(r.rq, 1, rest, h)
  <2>1. Tail(r.rq) = SubSeq(r.rq, 2, Len(r.rq))
    BY <1>1, TailIsSubSeq
  <2>2. 1 + 1 = 2
    OBVIOUS
  <2> QED BY <1>8, <2>1, <2>2 DEF Cut
<1>12. rest \in Seq(Packets)
  BY <1>1, <1>8, HeadTailProperties
<1>13. e \in Rs
  BY ONLY r \in Rs, <1>9, <1>12, d \in Circle, w \in Circle, t \in Circle DEF Rs
<1>14. /\ e.rq = rest /\ e.tev = r.tev /\ e.part = r.part /\ ~e.sync /\ e.comp = r.comp
       /\ e.jitt = r.jitt /\ e.diff = d /\ e.hwDiff = w /\ e.last = t
       /\ SameMark(r, e) /\ SameReport(r, e)
       /\ e.skipped = r.skipped /\ e.bad = r.bad /\ e.discarded = r.discarded
       /\ e.outoftime = r.outoftime /\ e.twice = r.twice /\ e.freed = r.freed
  BY <1>9 DEF Rs, SameReport, SameMark
<1>15. PICK t1, h1 : Cut(r.rq, 1 - 1, t1, h1)
  BY DEF Cut
<1>16. e.part = r.part \ ToSet(h1)
  <2>1. h1 = <<>>
    BY <1>1, <1>15, SubSeqEmpty DEF Cut
  <2>2. ToSet(<<>>) = {}
    BY DEF ToSet
  <2> QED BY <1>14, <2>1, <2>2
<1>17. g \in Seq(Packets)
  OBVIOUS
<1>18. QueuesOK(e, g, <<r.rq[1]>>) /\ Len(rest) = Len(r.rq) - 1
  BY <1>2, <1>11, <1>13, <1>14, <1>15, <1>16, <1>17, TakeKeeps
<1>19. Total(e) + 1 = Total(r)
  <2>1. e.skipped = r.skipped + (1 - 1)
    BY <1>1, <1>14
  <2> QED BY <1>2, <1>14, <1>18, <2>1, TotalTaken
<1>20. (ts + d) % TsMod = t
  <2>1. PICK a \in Int : a = t - ts
    BY Numbers DEF Circle
  <2>2. (ts + (a % TsMod)) % TsMod = (ts + a) % TsMod
    <3>1. ts \in Int /\ a \in Int
      OBVIOUS
    <3> QED BY ONLY <3>1, ModSums, Numbers
  <2>3. ts + a = t
    BY <2>1, Numbers DEF Circle
  <2>4. t % TsMod = t
    BY ModSmall, Numbers DEF Circle
  <2> QED BY <1>6, <2>1, <2>2, <2>3, <2>4
<1>21. x <= N * TsStep + c * TsStep
  <2>1. c * TsStep \in Nat
    BY Numbers
  <2> QED BY <1>4, <2>1, Numbers
<1>22. PlaceOK(e, g, c, x) /\ (ts + e.diff) % TsMod = StreamTs(x)
  <2>1. Len(g) = 0
    OBVIOUS
  <2> QED BY <1>5, <1>7, <1>14, <1>20, <1>21, <2>1 DEF PlaceOK
<1>23. <<n>> \in Seq(Packets) /\ Len(<<n>>) = 1 /\ <<n>>[1] = n
  OBVIOUS
<1>24. Reached(e, g, <<n>>, c, ts)
  <2>1. \A i \in 1 .. Len(<<n>>) : ~e.sync /\ Pos(<<n>>[i]) <= x
    BY <1>4, <1>14, <1>23
  <2> QED BY <1>22, <2>1 DEF Reached
<1> QED BY <1>3, <1>10, <1>13, <1>14, <1>18, <1>19, <1>23, <1>24 DEF GetOK

(* The application's timestamp moves on with its place in the stream. *)
LEMMA ClockMoves ==
  ASSUME NEW a \in Circle, NEW d \in Circle, NEW x \in Nat, (a + d) % TsMod = StreamTs(x),
         NEW ts, ts = (a + TsStep) % TsMod
  PROVE  (ts + d) % TsMod = StreamTs(x + TsStep)
<1>1. a \in Int /\ d \in Int /\ a + d \in Int /\ TsStep \in Int /\ FirstTs + x \in Int /\ a + TsStep \in Int
  BY Numbers DEF Circle
<1>2. PICK b \in Int : b = a + TsStep
  BY <1>1
<1>3. (d + (b % TsMod)) % TsMod = (d + b) % TsMod
  BY <1>1, ModSums, Numbers, ZenonT(30)
<1>4. PICK s \in Int : s = a + d
  BY <1>1
<1>5. (TsStep + (s % TsMod)) % TsMod = (TsStep + s) % TsMod
  BY <1>1, ModSums, Numbers, ZenonT(30)
<1>6. PICK f \in Int : f = FirstTs + x
  BY <1>1
<1>7. (TsStep + (f % TsMod)) % TsMod = (TsStep + f) % TsMod
  BY <1>1, ModSums, Numbers, ZenonT(30)
<1>8. s % TsMod = f % TsMod
  BY <1>4, <1>6 DEF StreamTs
<1>9. d + b = TsStep + s /\ TsStep + f = FirstTs + (x + TsStep)
  BY <1>1, <1>2, <1>4, <1>6, Numbers
<1>10. ts \in Int /\ ts = b % TsMod /\ ts + d = d + ts
  BY <1>1, <1>2, ModRange, Numbers
<1> QED BY <1>3, <1>5, <1>7, <1>8, <1>9, <1>10 DEF StreamTs

(* rtp_session_recvm_with_ts up to the packet it returns. *)
LEMMA GetKeeps ==
  ASSUME NEW r \in Rs, NEW g \in Seq(Packets), QueuesOK(r, g, <<>>),
         NEW c0 \in Nat, NEW c \in 0 .. MaxCalls, c = c0 + 1,
         NEW x0 \in Nat, PlaceOK(r, g, c0, x0), NEW a \in Circle,
         ~r.sync => (a + r.diff) % TsMod = StreamTs(x0),
         NEW ts \in {a, (a + TsStep) % TsMod}, NEW o, o = RecvmGet(r, ts)
  PROVE  GetOK(r, g, c, ts, o.r, o.mp)
<1>1. ts \in Nat
  <2>1. a \in Nat /\ (a + TsStep) % TsMod \in Nat
    BY ModRange, Numbers DEF Circle
  <2> QED BY <2>1
<1>2. PICK B \in Nat, C \in Nat : B = c0 * TsStep /\ C = c * TsStep /\ C = B + TsStep
  <2>1. c0 * TsStep \in Nat /\ (c0 + 1) * TsStep = c0 * TsStep + TsStep
    BY Numbers
  <2> QED BY <2>1, Numbers
<1>3. x0 <= N * TsStep + B
  BY <1>2 DEF PlaceOK
<1>4. CASE ~r.sync
  <2>1. o = RecvmNext(r, ts)
    BY <1>4 DEF RecvmGet
  <2>2. PICK x \in Nat : x0 <= x /\ x <= N * TsStep + C /\ (ts + r.diff) % TsMod = StreamTs(x)
    <3>1. r.diff \in Circle
      BY RsFields
    <3>2. CASE ts = a
      <4>1. x0 <= x0 /\ x0 <= N * TsStep + C
        BY <1>2, <1>3, Numbers
      <4> QED BY <1>4, <3>2, <4>1
    <3>3. CASE ts = (a + TsStep) % TsMod
      <4>1. (ts + r.diff) % TsMod = StreamTs(x0 + TsStep)
        <5>1. PICK d \in Circle : d = r.diff /\ (a + d) % TsMod = StreamTs(x0)
          BY <1>4, <3>1
        <5>2. (ts + d) % TsMod = StreamTs(x0 + TsStep)
          BY ONLY <3>3, <5>1, a \in Circle, x0 \in Nat, ClockMoves
        <5> QED BY <5>1, <5>2
      <4>2. x0 + TsStep \in Nat /\ x0 <= x0 + TsStep /\ x0 + TsStep <= N * TsStep + C
        BY <1>2, <1>3, Numbers
      <4> QED BY <4>1, <4>2
    <3> QED BY <3>2, <3>3
  <2> QED BY <1>1, <1>2, <1>4, <2>1, <2>2, NextKeeps
<1>5. CASE r.sync /\ Buffered(r)
  <2>1. o = RecvmFirst(r, ts) /\ g = <<>> /\ r.comp = r.jitt
    BY <1>5 DEF RecvmGet, PlaceOK
  <2> QED BY <1>1, <1>5, <2>1, FirstKeeps
<1>6. CASE r.sync /\ ~Buffered(r)
  <2>1. o.r = r /\ o.mp = <<>> /\ Len(<<>>) = 0 /\ <<>> \in Seq(Packets)
    BY <1>6 DEF RecvmGet
  <2>2. x0 <= N * TsStep + C
    BY <1>2, <1>3, Numbers
  <2>3. PlaceOK(r, g, c, x0)
    BY <1>2, <2>2 DEF PlaceOK
  <2>4. Reached(r, g, <<>>, c, ts)
    BY <1>6, <2>1, <2>3 DEF Reached
  <2>5. Total(r) \in Nat
    BY TotalNat
  <2>6. Total(r) + Len(<<>>) = Total(r) /\ Len(<<>>) \in 0 .. 1
    BY <2>1, <2>5
  <2>7. SameReport(r, r) /\ SameMark(r, r)
    BY DEF SameReport, SameMark
  <2> QED BY <2>1, <2>4, <2>6, <2>7 DEF GetOK
<1> QED BY <1>4, <1>5, <1>6

(* What a report changes. *)
RtcpStep(r, ts, e) ==
  /\ e.hi = r.hi /\ e.lo = r.lo /\ e.lastReport = ts /\ e.since = 0 /\ e.atSR = Ext(r)
  /\ e.cum = IF r.atSR # 0 THEN r.cum + Loss(r) ELSE r.cum
  /\ e.base = IF r.atSR # 0 THEN r.base ELSE Ext(r)
  /\ e.sinceBase = IF r.atSR # 0 THEN r.sinceBase ELSE 0

(* The extended number and the losses are numbers. *)
LEMMA ReportNumbers ==
  ASSUME NEW r \in Rs
  PROVE  /\ Ext(r) \in Nat /\ Loss(r) \in Nat /\ r.since \in Nat /\ r.atSR \in Nat /\ r.cum \in Nat
         /\ r.base \in Nat /\ r.sinceBase \in Nat /\ r.hi \in Nat /\ r.lo \in 0 .. SnMod - 1
<1>1. /\ r.since \in Nat /\ r.atSR \in Nat /\ r.cum \in Nat
      /\ r.base \in Nat /\ r.sinceBase \in Nat /\ r.hi \in Nat /\ r.lo \in 0 .. SnMod - 1
  BY DEF Rs
<1>2. r.hi * SnMod \in Nat /\ r.lo \in Nat
  BY <1>1, Numbers
<1>3. PICK x \in Int : x = r.hi * SnMod + r.lo - r.atSR - r.since
  BY <1>1, <1>2
<1>4. x % ExtMod \in Nat
  BY ModRange, Numbers
<1> QED BY <1>1, <1>2, <1>3, <1>4 DEF Ext, Loss

(* rtp_session_rtcp_process touches the report only. *)
LEMMA RtcpKeeps ==
  ASSUME NEW r \in Rs, NEW ts \in Nat, NEW e, e = RtcpProcess(r, ts)
  PROVE  /\ e \in Rs /\ SameClock(r, e) /\ SameStore(r, e) /\ e.recv = r.recv
         /\ SameReport(r, e) \/ RtcpStep(r, ts, e)
<1>1. CASE (ts - r.lastReport) % TsMod > Interval
  <2>1. PICK x \in Nat : x = Ext(r)
    BY ReportNumbers
  <2>2. PICK c \in Nat : c = IF r.atSR # 0 THEN r.cum + Loss(r) ELSE r.cum
    BY ReportNumbers
  <2>3. PICK b \in Nat : b = IF r.atSR # 0 THEN r.base ELSE x
    BY ReportNumbers
  <2>4. PICK s \in Nat : s = IF r.atSR # 0 THEN r.sinceBase ELSE 0
    BY ReportNumbers
  <2>5. e = [r EXCEPT !.lastReport = ts, !.since = 0, !.atSR = x, !.cum = c, !.base = b, !.sinceBase = s]
    BY <1>1, <2>1, <2>2, <2>3, <2>4 DEF RtcpProcess, Ext
  <2>6. e \in Rs
    BY ONLY r \in Rs, ts \in Nat, x \in Nat, c \in Nat, b \in Nat, s \in Nat, 0 \in Nat, <2>5 DEF Rs
  <2>7. SameClock(r, e) /\ SameStore(r, e) /\ e.recv = r.recv
    BY <2>5 DEF Rs, SameClock, SameStore
  <2>8. RtcpStep(r, ts, e)
    BY <2>1, <2>2, <2>3, <2>4, <2>5 DEF Rs, RtcpStep
  <2> QED BY <2>6, <2>7, <2>8
<1>2. CASE ~((ts - r.lastReport) % TsMod > Interval)
  <2>1. e = r
    BY <1>2 DEF RtcpProcess
  <2> QED BY <2>1 DEF SameClock, SameStore, SameReport
<1> QED BY <1>1, <1>2

(* A call of the application, up to the packet it hands over. *)
CallOK(g, k, c, ts, e, mp) ==
  /\ e \in Rs /\ mp \in Seq(Packets) /\ Len(mp) \in 0 .. 1
  /\ QueuesOK(e, g, mp) /\ Accounted(e, k + Len(mp)) /\ Reached(e, g, mp, c, ts)

(* The payload type's change is notified; nothing else happens to the      *)
(* packet.                                                                 *)
LEMMA NotifyKeeps ==
  ASSUME NEW r, NEW ts, NEW o, o = RecvmGet(r, ts), o.r \in Rs, o.mp \in Seq(Packets), NEW p, p = Notify(o)
  PROVE  /\ p.mp = o.mp /\ p.r \in Rs /\ p.r.recv = o.r.recv
         /\ SameClock(o.r, p.r) /\ SameStore(o.r, p.r) /\ SameReport(o.r, p.r)
         /\ p = [r |-> p.r, mp |-> p.mp]
<1>1. o = [r |-> o.r, mp |-> o.mp]
  <2>1. RecvmNext(r, ts) = [r |-> RecvmNext(r, ts).r, mp |-> RecvmNext(r, ts).mp]
    BY DEF RecvmNext
  <2>2. RecvmFirst(r, ts) = [r |-> RecvmFirst(r, ts).r, mp |-> RecvmFirst(r, ts).mp]
    BY DEF RecvmFirst
  <2>3. [r |-> r, mp |-> <<>>] = [r |-> [r |-> r, mp |-> <<>>].r, mp |-> [r |-> r, mp |-> <<>>].mp]
    OBVIOUS
  <2> QED BY <2>1, <2>2, <2>3 DEF RecvmGet
<1>2. CASE o.mp = <<>>
  <2>1. p = o
    BY <1>2 DEF Notify
  <2> QED BY <1>1, <2>1 DEF SameClock, SameStore, SameReport
<1>3. CASE o.mp # <<>>
  <2>1. PICK t \in PayTypes : t = PayType(o.mp[1])
    BY DEF PayType, PayTypes
  <2>2. PICK q : q = [o.r EXCEPT !.pt = t]
    OBVIOUS
  <2>3. p = [r |-> q, mp |-> o.mp]
    BY <1>1, <1>3, <2>1, <2>2 DEF Notify
  <2>4. q \in Rs
    BY ONLY o.r \in Rs, t \in PayTypes, <2>2 DEF Rs
  <2>5. SameClock(o.r, q) /\ SameStore(o.r, q) /\ SameReport(o.r, q) /\ q.recv = o.r.recv
    BY <2>2 DEF Rs, SameClock, SameStore, SameReport
  <2> QED BY <2>3, <2>4, <2>5
<1> QED BY <1>2, <1>3

(* All of rtp_session_recvm_with_ts. *)
LEMMA RecvmKeeps ==
  ASSUME OrderIInv, user.calls < MaxCalls, NEW ts \in {user.ts, NextTs}, NEW m \in 0 .. Len(sock),
         NEW g, g = Eff(Recvm(ts, m).r, given), NEW K, K = Len(Since(Recvm(ts, m).r))
  PROVE  /\ CallOK(g, K, user.calls + 1, ts, Recvm(ts, m).r, Recvm(ts, m).mp)
         /\ g \in Seq(Packets) /\ K \in Nat
         /\ ts \in Circle /\ user.calls + 1 \in 0 .. MaxCalls
         /\ rtp_recv(rs, m) \in Rs /\ Recvm(ts, m).r.fresh = rtp_recv(rs, m).fresh
         /\ Recvm(ts, m).r.missed = rtp_recv(rs, m).missed /\ Caught(rs, rtp_recv(rs, m))
         /\ \E q \in Rs : /\ SameReport(rtp_recv(rs, m), q)
                          /\ SameReport(q, Recvm(ts, m).r) \/ RtcpStep(q, ts, Recvm(ts, m).r)
<1>1. PICK h : h = rtp_recv(rs, m)
  OBVIOUS
<1>2. PICK t : t = TakeTev(h)
  OBVIOUS
<1>3. PICK o : o = RecvmGet(t, ts)
  OBVIOUS
<1>4. PICK p : p = Notify(o)
  OBVIOUS
<1>5. PICK e : e = RtcpProcess(p.r, ts)
  OBVIOUS
<1>6. /\ rs \in Rs /\ sock \in Seq(Packets \cup {Runt}) /\ given \in Seq(Packets) /\ Len(given) \in Nat
      /\ user.ts \in Circle /\ user.calls \in Nat /\ user.calls \in 0 .. MaxCalls
      /\ QueuesOK(rs, History, <<>>) /\ Accounted(rs, Len(given))
  BY LenProperties, Numbers DEF OrderIInv
<1>7. PICK x \in Nat : PlaceOK(rs, History, user.calls, x) /\ ClockOK(rs, user, x)
  BY DEF OrderIInv, PlaceOK
<1>8. ReadOK(h, given, Len(given), user.calls, user, x) /\ Caught(rs, h)
  <2>1. PICK H : ReadSteps(H, rs, m, given, Len(given), user.calls, user, x)
    BY <1>6, <1>7, ReadKeeps DEF History
  <2>2. m \in 0 .. m /\ rtp_recv(rs, m) = H[m]
    BY <1>6, <2>1, LenProperties DEF ReadSteps
  <2>3. Caught(rs, H[m])
    <3> DEFINE S == {k \in 0 .. m : Caught(rs, H[k])}
    <3>1. H[0].missed = rs.missed
      BY <1>6, <2>1 DEF ReadSteps, Rs
    <3>2. 0 \in S /\ m \in Nat
      BY <1>6, <3>1, LenProperties DEF Caught
    <3>3. ASSUME NEW k \in 1 .. m, k - 1 \in S PROVE k \in S
      <4>1. Caught(H[k - 1], H[k]) /\ k \in 0 .. m
        BY <2>1, <3>2 DEF ReadSteps
      <4> QED BY <3>3, <4>1 DEF Caught
    <3>4. m \in S
      <4> HIDE DEF S
      <4> QED BY <3>2, <3>3, UpTo
    <3> QED BY <3>4
  <2> QED BY <1>1, <2>1, <2>2, <2>3 DEF ReadSteps
<1>a. PICK f \in Seq(Packets), L \in Nat : f = Eff(h, given) /\ L = Held(h, Len(given))
  <2>1. Eff(h, given) \in Seq(Packets) /\ Held(h, Len(given)) \in Nat
    BY <1>6 DEF Eff, Held
  <2> QED BY <2>1
<1>b. /\ h \in Rs /\ QueuesOK(h, f, <<>>) /\ Accounted(h, L)
      /\ PlaceOK(h, f, user.calls, x) /\ ClockOK(h, user, x)
  BY <1>8, <1>a DEF ReadOK
<1>9. /\ t \in Rs /\ SameClock(h, t) /\ SameReport(h, t) /\ QueuesOK(t, f, <<>>)
      /\ Total(t) = Total(h) /\ SameMark(h, t)
  BY <1>2, <1>b, TakeTevKeeps
<1>11. PlaceOK(t, f, user.calls, x) /\ (~t.sync => (user.ts + t.diff) % TsMod = StreamTs(x))
  BY <1>9, <1>b, PlaceSame DEF ClockOK, SameClock
<1>12. PICK c \in 0 .. MaxCalls : c = user.calls + 1
  BY <1>6, Numbers
<1>13. GetOK(t, f, c, ts, o.r, o.mp)
  <2>1. ts \in {user.ts, (user.ts + TsStep) % TsMod}
    BY DEF NextTs
  <2> QED BY <1>3, <1>6, <1>9, <1>11, <1>12, <2>1, GetKeeps
<1>14. /\ o.r \in Rs /\ o.mp \in Seq(Packets) /\ Len(o.mp) \in 0 .. 1
       /\ QueuesOK(o.r, f, o.mp) /\ SameReport(t, o.r)
       /\ SameMark(t, o.r) /\ Total(o.r) + Len(o.mp) = Total(t)
       /\ Reached(o.r, f, o.mp, c, ts)
  BY ONLY <1>13 DEF GetOK
<1>15. /\ p.mp = o.mp /\ p.r \in Rs /\ p.r.recv = o.r.recv
       /\ SameClock(o.r, p.r) /\ SameStore(o.r, p.r) /\ SameReport(o.r, p.r)
       /\ p = [r |-> p.r, mp |-> p.mp]
  BY <1>3, <1>4, <1>14, NotifyKeeps
<1>16. Recvm(ts, m) = [p EXCEPT !.r = e]
  BY <1>1, <1>2, <1>3, <1>4, <1>5 DEF Recvm
<1>17. Recvm(ts, m).r = e /\ Recvm(ts, m).mp = o.mp
  <2>1. PICK P, M : P = p.r /\ M = p.mp
    OBVIOUS
  <2>2. p = [r |-> P, mp |-> M] /\ M = o.mp
    BY <1>15, <2>1
  <2>3. Recvm(ts, m) = [[r |-> P, mp |-> M] EXCEPT !.r = e]
    BY <1>16, <2>2
  <2> QED BY ONLY <2>2, <2>3
<1>18. ts \in Circle /\ ts \in Nat
  <2>1. user.ts + TsStep \in Int
    BY <1>6, Numbers DEF Circle
  <2>2. (user.ts + TsStep) % TsMod \in 0 .. TsMod - 1
    BY <2>1, ModRange, Numbers
  <2>3. ts \in 0 .. TsMod - 1
    BY <1>6, <2>2 DEF NextTs, Circle
  <2> QED BY <2>3, Numbers DEF Circle
<1>19. /\ e \in Rs /\ SameClock(p.r, e) /\ SameStore(p.r, e) /\ e.recv = p.r.recv
       /\ SameReport(p.r, e) \/ RtcpStep(p.r, ts, e)
  BY <1>5, <1>15, <1>18, RtcpKeeps
<1>20. SameClock(o.r, e) /\ SameStore(o.r, e) /\ e.recv = o.r.recv
  BY <1>15, <1>19 DEF SameClock, SameStore
<1>21. QueuesOK(e, f, o.mp)
  BY <1>14, <1>20 DEF SameStore, QueuesOK
<1>22. Reached(e, f, o.mp, c, ts)
  <2>1. PICK y \in Nat : /\ PlaceOK(o.r, f, c, y) /\ (~o.r.sync => (ts + o.r.diff) % TsMod = StreamTs(y))
                        /\ \A i \in 1 .. Len(o.mp) : ~o.r.sync /\ Pos(o.mp[i]) <= y
    BY ONLY <1>14 DEF Reached
  <2>2. PlaceOK(e, f, c, y)
    BY <1>20, <2>1, PlaceSame
  <2>3. (~e.sync => (ts + e.diff) % TsMod = StreamTs(y)) /\ \A i \in 1 .. Len(o.mp) : ~e.sync /\ Pos(o.mp[i]) <= y
    BY <1>20, <2>1 DEF SameClock
  <2> QED BY ONLY y \in Nat, <2>2, <2>3 DEF Reached
<1>c. e.fresh = h.fresh /\ e.missed = h.missed /\ e.recv = h.recv /\ e.runts = h.runts /\ e.kept = h.kept
  BY <1>9, <1>14, <1>20 DEF SameMark, SameStore
<1>d. g = f /\ K = L
  <2>1. Len(<<>>) = 0
    OBVIOUS
  <2> QED BY <1>17, <1>a, <1>c, <2>1 DEF Eff, Held, Since
<1>23. Accounted(e, L + Len(o.mp))
  <2>1. Total(e) = Total(o.r)
    BY <1>20 DEF SameStore, Total
  <2>2. PICK a \in Nat, b \in Nat, w \in Nat, v \in Nat, l \in Nat :
           e.recv = a /\ e.kept = b /\ e.runts = w /\ Total(e) = v /\ Len(o.mp) = l
    <3>1. e.recv \in Nat /\ e.kept \in Nat /\ e.runts \in Nat /\ Total(e) \in Nat
      BY <1>19, RsFields, TotalNat
    <3>2. Len(o.mp) \in Nat
      BY <1>14
    <3> QED BY ONLY <3>1, <3>2
  <2>3. h.recv = a /\ h.kept = b /\ h.runts = w /\ Total(h) = v + l
    BY <1>9, <1>14, <1>c, <2>1, <2>2
  <2>4. a + w + b = (v + l) + L
    BY <1>b, <2>3 DEF Accounted
  <2> QED BY <2>2, <2>4 DEF Accounted
<1>24. SameReport(h, p.r)
  BY <1>9, <1>14, <1>15 DEF SameReport
<1>25. CallOK(g, K, user.calls + 1, ts, Recvm(ts, m).r, Recvm(ts, m).mp)
  BY <1>12, <1>14, <1>17, <1>19, <1>21, <1>22, <1>23, <1>d DEF CallOK
<1> QED BY <1>1, <1>8, <1>12, <1>15, <1>17, <1>18, <1>19, <1>24, <1>25, <1>a, <1>b, <1>c, <1>d

(* The state after a call; g is the history and k its length. *)
After(r, g, k, c, ts) ==
  /\ r \in Rs /\ g \in Seq(Packets) /\ QueuesOK(r, g, <<>>) /\ Accounted(r, k)
  /\ \E x \in Nat : PlaceOK(r, g, c, x) /\ (~r.sync => (ts + r.diff) % TsMod = StreamTs(x))

(* A call that returns no packet. *)
LEMMA NothingTaken ==
  ASSUME NEW g \in Seq(Packets), NEW k \in Nat, NEW c, NEW ts, NEW e, CallOK(g, k, c, ts, e, <<>>)
  PROVE  After(e, g, k, c, ts)
<1>1. k + Len(<<>>) = k
  OBVIOUS
<1>2. e \in Rs /\ QueuesOK(e, g, <<>>) /\ Accounted(e, k + Len(<<>>)) /\ Reached(e, g, <<>>, c, ts)
  BY ONLY CallOK(g, k, c, ts, e, <<>>) DEF CallOK
<1>4. Accounted(e, k)
  BY <1>1, <1>2
<1>5. \E x \in Nat : PlaceOK(e, g, c, x) /\ (~e.sync => (ts + e.diff) % TsMod = StreamTs(x))
  BY ONLY <1>2 DEF Reached
<1> QED BY <1>2, <1>4, <1>5 DEF After

(* What is known of the one packet a call has taken out. *)
LEMMA OneTaken ==
  ASSUME NEW g \in Seq(Packets), NEW k \in Nat, NEW c, NEW ts, NEW e, NEW n, CallOK(g, k, c, ts, e, <<n>>)
  PROVE  /\ e \in Rs /\ n \in Packets /\ n \notin Tev
         /\ Sorted(e.rq) /\ Sorted(e.tev) /\ Sorted(g) /\ Before(g, e.rq)
         /\ \A i \in 1 .. Len(g) : g[i] < n
         /\ \A i \in 1 .. Len(e.rq) : n < e.rq[i]
         /\ n \notin ToSet(e.rq) /\ ToSet(e.rq) \cap Tev = {} /\ ToSet(e.tev) \subseteq Tev
         /\ Len(e.rq) + 1 <= MaxRq + Cardinality(e.part) /\ Len(e.tev) <= MaxRq
         /\ e.part \subseteq (ToSet(e.rq) \cup {n}) \cap Long
         /\ e.recv + e.runts + e.kept = Total(e) + k + 1
         /\ \E x \in Nat : /\ PlaceOK(e, g, c, x) /\ (ts + e.diff) % TsMod = StreamTs(x)
                           /\ ~e.sync /\ Pos(n) <= x
<1>1. /\ e \in Rs /\ <<n>> \in Seq(Packets)
      /\ QueuesOK(e, g, <<n>>) /\ Accounted(e, k + Len(<<n>>)) /\ Reached(e, g, <<n>>, c, ts)
  BY ONLY CallOK(g, k, c, ts, e, <<n>>) DEF CallOK
<1>2. Len(<<n>>) = 1 /\ <<n>>[1] = n /\ ToSet(<<n>>) = {n} /\ 1 \in 1 .. 1
  BY DEF ToSet
<1>3. n \in Packets
  <2>1. <<n>>[1] \in Packets
    BY <1>1, <1>2, ElementOfSeq
  <2> QED BY <1>2, <2>1
<1>4. /\ Sorted(e.rq) /\ Sorted(e.tev) /\ Sorted(g) /\ Before(g, e.rq)
      /\ Before(g, <<n>>) /\ Before(<<n>>, e.rq)
      /\ Len(e.rq) + 1 <= MaxRq + Cardinality(e.part) /\ Len(e.tev) <= MaxRq
      /\ e.part \subseteq (ToSet(e.rq) \cup {n}) \cap Long
      /\ ToSet(e.rq) \cap Tev = {} /\ n \notin Tev /\ ToSet(e.tev) \subseteq Tev
  BY <1>1, <1>2 DEF QueuesOK
<1>5. \A i \in 1 .. Len(g) : g[i] < n
  BY <1>2, <1>4 DEF Before
<1>6. \A i \in 1 .. Len(e.rq) : n < e.rq[i]
  BY <1>2, <1>4 DEF Before
<1>7. n \notin ToSet(e.rq)
  <2>1. DOMAIN e.rq = 1 .. Len(e.rq) /\ \A i \in 1 .. Len(e.rq) : e.rq[i] \in Packets
    BY <1>1, RsFields, LenProperties
  <2>2. \A i \in 1 .. Len(e.rq) : e.rq[i] # n
    BY <1>3, <1>6, <2>1 DEF Packets
  <2> QED BY <2>1, <2>2 DEF ToSet
<1>8. e.recv + e.runts + e.kept = Total(e) + k + 1
  <2>1. Total(e) \in Nat /\ Len(g) \in Nat
    BY <1>1, TotalNat, LenProperties
  <2>2. e.recv + e.runts + e.kept = Total(e) + (k + 1)
    BY <1>1, <1>2 DEF Accounted
  <2> QED BY <2>1, <2>2
<1>9. \E x \in Nat : /\ PlaceOK(e, g, c, x) /\ (ts + e.diff) % TsMod = StreamTs(x)
                     /\ ~e.sync /\ Pos(n) <= x
  <2>1. PICK x \in Nat : /\ PlaceOK(e, g, c, x) /\ (~e.sync => (ts + e.diff) % TsMod = StreamTs(x))
                        /\ \A i \in 1 .. Len(<<n>>) : ~e.sync /\ Pos(<<n>>[i]) <= x
    BY ONLY <1>1 DEF Reached
  <2>2. ~e.sync /\ Pos(n) <= x
    BY <1>2, <2>1
  <2> QED BY <2>1, <2>2
<1> QED BY <1>1, <1>3, <1>4, <1>5, <1>6, <1>7, <1>8, <1>9

(* The packet is handed to the application. *)
LEMMA HandedOver ==
  ASSUME NEW g \in Seq(Packets), NEW k \in Nat, NEW c, NEW ts, NEW e, NEW n, CallOK(g, k, c, ts, e, <<n>>),
         NEW r, r = [e EXCEPT !.part = @ \ {n}], NEW q, q = Append(g, n)
  PROVE  After(r, q, k + 1, c, ts) /\ SameMark(e, r)
<1>1. /\ e \in Rs /\ n \in Packets /\ n \notin Tev
      /\ Sorted(e.rq) /\ Sorted(e.tev) /\ Sorted(g) /\ Before(g, e.rq)
      /\ \A i \in 1 .. Len(g) : g[i] < n
      /\ \A i \in 1 .. Len(e.rq) : n < e.rq[i]
      /\ n \notin ToSet(e.rq) /\ ToSet(e.rq) \cap Tev = {} /\ ToSet(e.tev) \subseteq Tev
      /\ Len(e.rq) + 1 <= MaxRq + Cardinality(e.part) /\ Len(e.tev) <= MaxRq
      /\ e.part \subseteq (ToSet(e.rq) \cup {n}) \cap Long
      /\ e.recv + e.runts + e.kept = Total(e) + k + 1
  BY OneTaken
<1>2. PICK x \in Nat : /\ PlaceOK(e, g, c, x) /\ (ts + e.diff) % TsMod = StreamTs(x)
                       /\ ~e.sync /\ Pos(n) <= x
  BY OneTaken
<1>3. PICK P \in SUBSET Packets : P = e.part \ {n}
  BY <1>1, RsFields
<1>4. r = [e EXCEPT !.part = P]
  BY <1>3
<1>5. r \in Rs
  BY ONLY <1>1, <1>4, P \in SUBSET Packets DEF Rs
<1>6. SameClock(e, r) /\ r.rq = e.rq /\ r.tev = e.tev /\ r.part = P /\ SameMark(e, r)
      /\ Total(r) = Total(e)
  BY <1>1, <1>4 DEF Rs, SameClock, Total, SameMark
<1>7. /\ q \in Seq(Packets) /\ Len(q) = Len(g) + 1 /\ Len(g) \in Nat /\ q[Len(g) + 1] = n
      /\ \A i \in 1 .. Len(g) : q[i] = g[i]
  BY <1>1, AppendProperties, LenProperties
<1>8. \A i \in 1 .. Len(q) : i \in 1 .. Len(g) \/ i = Len(g) + 1
  BY <1>7
<1>9. Sorted(q)
  <2> SUFFICES ASSUME NEW i \in 1 .. Len(q), NEW j \in 1 .. Len(q), i < j PROVE q[i] < q[j]
    BY DEF Sorted
  <2>1. i \in 1 .. Len(g)
    BY <1>7
  <2>2. CASE j \in 1 .. Len(g)
    BY <1>1, <1>7, <2>1, <2>2 DEF Sorted
  <2>3. CASE j = Len(g) + 1
    BY <1>1, <1>7, <2>1, <2>3
  <2> QED BY <1>8, <2>2, <2>3
<1>10. Before(q, r.rq)
  BY <1>1, <1>6, <1>7, <1>8 DEF Before
<1>11. Len(<<>>) = 0 /\ ToSet(<<>>) = {} /\ Before(q, <<>>) /\ Before(<<>>, r.rq)
  BY DEF ToSet, Before
<1>12. Len(r.rq) + Len(<<>>) <= MaxRq + Cardinality(r.part)
  <2>1. e.part \in SUBSET Packets /\ Len(e.rq) \in Nat
    BY <1>1, RsFields
  <2>2. /\ Cardinality(P) + 1 >= Cardinality(e.part) /\ Cardinality(e.part) \in Nat
        /\ Cardinality(P) \in Nat
    BY <1>1, <1>3, <2>1, PartCard
  <2>3. PICK l \in Nat, a \in Nat, b \in Nat :
           l = Len(e.rq) /\ a = Cardinality(e.part) /\ b = Cardinality(P)
    BY <2>1, <2>2
  <2>4. l + 1 <= MaxRq + a /\ b + 1 >= a
    BY <1>1, <2>2, <2>3
  <2>5. Len(r.rq) = l /\ Cardinality(r.part) = b /\ Len(<<>>) = 0
    BY <1>6, <1>11, <2>3
  <2> QED BY ONLY <2>4, <2>5, Numbers
<1>13. r.part \subseteq (ToSet(r.rq) \cup ToSet(<<>>)) \cap Long
  BY <1>1, <1>3, <1>6
<1>14. QueuesOK(r, q, <<>>)
  BY <1>1, <1>6, <1>9, <1>10, <1>11, <1>12, <1>13 DEF QueuesOK
<1>15. Accounted(r, k + 1)
  <2>1. Total(e) \in Nat
    BY <1>1, TotalNat
  <2> QED BY <1>1, <1>6, <2>1 DEF Accounted, SameMark
<1>16. PlaceOK(r, q, c, x) /\ (ts + r.diff) % TsMod = StreamTs(x)
  <2>1. \A i \in 1 .. Len(q) : Pos(q[i]) <= x
    BY <1>2, <1>7, <1>8 DEF PlaceOK
  <2> QED BY <1>2, <1>6, <2>1 DEF PlaceOK, SameClock
<1> QED BY <1>5, <1>6, <1>7, <1>14, <1>15, <1>16 DEF After

(* A packet of an unsupported payload type is freed. *)
LEMMA Dropped ==
  ASSUME NEW g \in Seq(Packets), NEW k \in Nat, NEW c, NEW ts, NEW e, NEW n, CallOK(g, k, c, ts, e, <<n>>),
         NEW r, r = [e EXCEPT !.freed = @ + 1, !.part = @ \ {n}]
  PROVE  After(r, g, k, c, ts) /\ SameMark(e, r)
<1>1. /\ e \in Rs /\ n \in Packets /\ n \notin Tev
      /\ Sorted(e.rq) /\ Sorted(e.tev) /\ Sorted(g) /\ Before(g, e.rq)
      /\ ToSet(e.rq) \cap Tev = {} /\ ToSet(e.tev) \subseteq Tev
      /\ Len(e.rq) + 1 <= MaxRq + Cardinality(e.part) /\ Len(e.tev) <= MaxRq
      /\ e.part \subseteq (ToSet(e.rq) \cup {n}) \cap Long
      /\ e.recv + e.runts + e.kept = Total(e) + k + 1
  BY OneTaken
<1>2. PICK x \in Nat : /\ PlaceOK(e, g, c, x) /\ (ts + e.diff) % TsMod = StreamTs(x)
                       /\ ~e.sync /\ Pos(n) <= x
  BY OneTaken
<1>3. PICK f : f = [e EXCEPT !.freed = @ + 1]
  OBVIOUS
<1>4. /\ f \in Rs /\ SameClock(e, f) /\ Total(f) = Total(e) + 1
      /\ f.rq = e.rq /\ f.tev = e.tev /\ f.part = e.part
      /\ SameMark(e, f)
  <2>1. f \in {[e EXCEPT !.bad = @ + 1], [e EXCEPT !.outoftime = @ + 1], [e EXCEPT !.freed = @ + 1]}
    BY <1>3
  <2> QED BY <1>1, <2>1, CountsOne
<1>5. PICK P \in SUBSET Packets : P = e.part \ {n}
  BY <1>1, RsFields
<1>6. r = [f EXCEPT !.part = P]
  BY <1>1, <1>3, <1>5 DEF Rs
<1>7. r \in Rs
  BY ONLY <1>4, <1>6, P \in SUBSET Packets DEF Rs
<1>8. SameClock(f, r) /\ r.rq = f.rq /\ r.tev = f.tev /\ r.part = P /\ SameMark(f, r)
      /\ Total(r) = Total(f)
  BY <1>4, <1>6, ZenonT(30) DEF Rs, SameClock, Total, SameMark
<1>9. Len(<<>>) = 0 /\ ToSet(<<>>) = {} /\ Before(g, <<>>) /\ Before(<<>>, r.rq)
  BY DEF ToSet, Before
<1>10. Len(r.rq) + Len(<<>>) <= MaxRq + Cardinality(r.part)
  <2>1. e.part \in SUBSET Packets /\ Len(e.rq) \in Nat
    BY <1>1, RsFields
  <2>2. /\ Cardinality(P) + 1 >= Cardinality(e.part) /\ Cardinality(e.part) \in Nat
        /\ Cardinality(P) \in Nat
    BY <1>1, <1>5, <2>1, PartCard
  <2>3. PICK l \in Nat, a \in Nat, b \in Nat :
           l = Len(e.rq) /\ a = Cardinality(e.part) /\ b = Cardinality(P)
    BY <2>1, <2>2
  <2>4. l + 1 <= MaxRq + a /\ b + 1 >= a
    BY <1>1, <2>2, <2>3
  <2>5. Len(r.rq) = l /\ Cardinality(r.part) = b /\ Len(<<>>) = 0
    BY <1>4, <1>8, <1>9, <2>3
  <2> QED BY ONLY <2>4, <2>5, Numbers
<1>11. r.part \subseteq (ToSet(r.rq) \cup ToSet(<<>>)) \cap Long
  BY <1>1, <1>4, <1>5, <1>8
<1>12. QueuesOK(r, g, <<>>)
  BY <1>1, <1>4, <1>8, <1>9, <1>10, <1>11 DEF QueuesOK
<1>13. Accounted(r, k)
  <2>1. Total(e) \in Nat /\ Len(g) \in Nat
    BY <1>1, TotalNat, LenProperties
  <2> QED BY <1>1, <1>4, <1>8, <2>1 DEF Accounted, SameMark
<1>14. PlaceOK(r, g, c, x) /\ (ts + r.diff) % TsMod = StreamTs(x)
  <2>1. SameClock(e, r)
    BY <1>4, <1>8 DEF SameClock
  <2> QED BY <1>2, <2>1, PlaceSame DEF SameClock
<1>15. SameMark(e, r)
  BY <1>4, <1>8 DEF SameMark
<1> QED BY <1>7, <1>12, <1>13, <1>14, <1>15 DEF After

(* A long packet is put back at the head of the queue. *)
LEMMA PutBack ==
  ASSUME NEW g \in Seq(Packets), NEW k \in Nat, NEW c, NEW ts, NEW e, NEW n, CallOK(g, k, c, ts, e, <<n>>),
         n \in Long \ e.part,
         NEW r, r = [e EXCEPT !.rq = Putq(@, n), !.part = @ \cup {n}]
  PROVE  After(r, g, k, c, ts) /\ SameMark(e, r)
<1>1. /\ e \in Rs /\ n \in Packets /\ n \notin Tev
      /\ Sorted(e.rq) /\ Sorted(e.tev) /\ Sorted(g) /\ Before(g, e.rq)
      /\ \A i \in 1 .. Len(g) : g[i] < n
      /\ n \notin ToSet(e.rq) /\ ToSet(e.rq) \cap Tev = {} /\ ToSet(e.tev) \subseteq Tev
      /\ Len(e.rq) + 1 <= MaxRq + Cardinality(e.part) /\ Len(e.tev) <= MaxRq
      /\ e.part \subseteq (ToSet(e.rq) \cup {n}) \cap Long
      /\ e.recv + e.runts + e.kept = Total(e) + k + 1
  BY OneTaken
<1>2. PICK x \in Nat : /\ PlaceOK(e, g, c, x) /\ (ts + e.diff) % TsMod = StreamTs(x)
                       /\ ~e.sync /\ Pos(n) <= x
  BY OneTaken
<1>3. PICK P \in SUBSET Packets : P = e.part \cup {n}
  BY <1>1, RsFields
<1>4. PICK p : p = Putq(e.rq, n)
  OBVIOUS
<1>5. e.rq \in Seq(Packets) /\ Len(e.rq) \in Nat
  BY <1>1, RsFields
<1>6. /\ p \in Seq(Packets) /\ Sorted(p) /\ ToSet(p) = ToSet(e.rq) \cup {n} /\ Len(p) = Len(e.rq) + 1
  BY <1>1, <1>4, <1>5, PutqIs
<1>7. r = [e EXCEPT !.rq = p, !.part = P]
  BY <1>3, <1>4
<1>8. r \in Rs
  BY ONLY <1>1, <1>6, <1>7, P \in SUBSET Packets DEF Rs
<1>9. /\ SameClock(e, r) /\ r.rq = p /\ r.tev = e.tev /\ r.part = P /\ SameMark(e, r)
      /\ r.bad = e.bad /\ r.discarded = e.discarded /\ r.outoftime = e.outoftime
      /\ r.skipped = e.skipped /\ r.twice = e.twice /\ r.freed = e.freed
  BY <1>1, <1>7 DEF Rs, SameClock, SameMark
<1>10. Total(r) = Total(e) + 1
  <2>1. PICK l1 \in Nat, l2 \in Nat, c1 \in Nat, c2 \in Nat, c3 \in Nat, c4 \in Nat, c5 \in Nat, c6 \in Nat :
           /\ Len(e.rq) = l1 /\ Len(e.tev) = l2 /\ e.bad = c1 /\ e.discarded = c2
           /\ e.outoftime = c3 /\ e.skipped = c4 /\ e.twice = c5 /\ e.freed = c6
    BY <1>1, RsFields
  <2>2. /\ Len(r.rq) = l1 + 1 /\ Len(r.tev) = l2 /\ r.bad = c1 /\ r.discarded = c2
        /\ r.outoftime = c3 /\ r.skipped = c4 /\ r.twice = c5 /\ r.freed = c6
    BY <1>6, <1>9, <2>1
  <2> QED BY ONLY <2>1, <2>2 DEF Total
<1>11. Before(g, p)
  <2>1. DOMAIN p = 1 .. Len(p) /\ DOMAIN e.rq = 1 .. Len(e.rq)
    BY <1>5, <1>6, LenProperties
  <2>2. ASSUME NEW i \in 1 .. Len(g), NEW j \in 1 .. Len(p) PROVE g[i] < p[j]
    <3>1. p[j] \in ToSet(e.rq) \cup {n}
      BY <1>6, <2>1 DEF ToSet
    <3>2. \A m \in 1 .. Len(e.rq) : g[i] < e.rq[m]
      BY <1>1 DEF Before
    <3> QED BY <1>1, <2>1, <3>1, <3>2 DEF ToSet
  <2> QED BY <2>2 DEF Before
<1>12. Len(<<>>) = 0 /\ ToSet(<<>>) = {} /\ Before(g, <<>>) /\ Before(<<>>, r.rq)
  BY DEF ToSet, Before
<1>13. Len(r.rq) + Len(<<>>) <= MaxRq + Cardinality(r.part)
  <2>1. e.part \in SUBSET Packets
    BY <1>1, RsFields
  <2>2. Cardinality(P) = Cardinality(e.part) + 1 /\ Cardinality(e.part) \in Nat
    BY <1>1, <1>3, <2>1, PartCard
  <2>3. PICK l \in Nat, a \in Nat : l = Len(e.rq) /\ a = Cardinality(e.part)
    BY <1>5, <2>2
  <2>4. l + 1 <= MaxRq + a
    BY <1>1, <2>3
  <2>5. Len(r.rq) = l + 1 /\ Cardinality(r.part) = a + 1 /\ Len(<<>>) = 0
    BY <1>6, <1>9, <1>12, <2>2, <2>3
  <2> QED BY ONLY <2>4, <2>5, Numbers
<1>14. r.part \subseteq (ToSet(r.rq) \cup ToSet(<<>>)) \cap Long
  BY <1>1, <1>3, <1>6, <1>9
<1>15. ToSet(r.rq) \cap Tev = {}
  BY <1>1, <1>6, <1>9
<1>16. QueuesOK(r, g, <<>>)
  BY <1>1, <1>6, <1>9, <1>11, <1>12, <1>13, <1>14, <1>15 DEF QueuesOK
<1>17. Accounted(r, k)
  <2>1. Total(e) \in Nat /\ Len(g) \in Nat
    BY <1>1, TotalNat, LenProperties
  <2> QED BY <1>1, <1>9, <1>10, <2>1 DEF Accounted, SameMark
<1>18. PlaceOK(r, g, c, x) /\ (ts + r.diff) % TsMod = StreamTs(x)
  BY <1>2, <1>9, PlaceSame DEF SameClock
<1> QED BY <1>8, <1>9, <1>16, <1>17, <1>18 DEF After

-----------------------------------------------------------------------------
(* A call that ends well keeps the invariant: what was handed over is the  *)
(* history, as far as it is still known.                                   *)
LEMMA AfterIs ==
  ASSUME NEW c \in 0 .. MaxCalls, NEW ts \in Circle, NEW g, After(rs', g, Len(given'), c, ts),
         ~rs'.missed => g = given', given' \in Seq(Packets),
         user' = [ts |-> ts, calls |-> c], sock' \in Seq(Packets \cup {Runt})
  PROVE  OrderIInv'
<1>1. /\ rs' \in Rs /\ QueuesOK(rs', g, <<>>) /\ Accounted(rs', Len(given'))
  BY DEF After
<1>2. PICK x \in Nat : PlaceOK(rs', g, c, x) /\ (~rs'.sync => (ts + rs'.diff) % TsMod = StreamTs(x))
  BY DEF After
<1>3. user'.ts = ts /\ user'.calls = c /\ user' \in [ts : Circle, calls : 0 .. MaxCalls]
  OBVIOUS
<1>4. x \in 0 .. N * TsStep + c * TsStep
  <2>1. x <= N * TsStep + c * TsStep /\ c * TsStep \in Nat
    BY <1>2, Numbers DEF PlaceOK
  <2> QED BY <2>1, Numbers
<1>5. QueuesOK(rs', History', <<>>) /\ PlaceOK(rs', History', c, x)
  BY <1>1, <1>2, Forgotten DEF History
<1>6. PlaceOK(rs', History', user'.calls, x) /\ ClockOK(rs', user', x)
  BY <1>2, <1>3, <1>5 DEF ClockOK
<1>7. x \in 0 .. N * TsStep + user'.calls * TsStep
  BY <1>3, <1>4
<1> QED BY <1>1, <1>3, <1>5, <1>6, <1>7 DEF OrderIInv

(* The sequence a call returns is empty or has one packet. *)
LEMMA AtMostOne ==
  ASSUME NEW mp \in Seq(Packets), Len(mp) \in 0 .. 1
  PROVE  mp = <<>> \/ (mp # <<>> /\ mp = <<mp[1]>>)
<1>1. CASE Len(mp) = 0
  BY <1>1, EmptySeq
<1>2. CASE Len(mp) = 1
  <2>1. mp \in [1 .. 1 -> Packets] /\ mp # <<>>
    BY <1>2, LenProperties
  <2>2. <<mp[1]>> \in Seq(Packets) /\ Len(<<mp[1]>>) = 1 /\ <<mp[1]>>[1] = mp[1]
    BY <2>1
  <2>3. mp = <<mp[1]>>
    BY <1>2, <2>1, <2>2, SeqEqual
  <2> QED BY <2>1, <2>3
<1> QED BY <1>1, <1>2

(* The steps of the application's calls keep the invariant. *)
LEMMA CallsKeepOrder ==
  ASSUME OrderIInv, rtp_session_recvm_with_ts \/ rtp_session_recv_with_ts
  PROVE  OrderIInv'
<1>0. given \in Seq(Packets) /\ sock \in Seq(Packets \cup {Runt}) /\ Len(sock) \in Nat
  BY LenProperties DEF OrderIInv
<1>s. ASSUME NEW m \in 0 .. Len(sock) PROVE SubSeq(sock, m + 1, Len(sock)) \in Seq(Packets \cup {Runt})
  <2>1. m + 1 \in Nat /\ 1 <= m + 1 /\ m + 1 <= Len(sock) + 1
    BY <1>0
  <2> QED BY <1>0, <2>1, Slice
<1>1. CASE rtp_session_recvm_with_ts
  <2>1. PICK ts \in {user.ts, NextTs}, m \in 0 .. Len(sock) :
           /\ user' = [ts |-> ts, calls |-> user.calls + 1]
           /\ rs' = [Recvm(ts, m).r EXCEPT !.part = @ \ ToSet(Recvm(ts, m).mp)]
           /\ given' = Since(Recvm(ts, m).r) \o Recvm(ts, m).mp
           /\ sock' = SubSeq(sock, m + 1, Len(sock))
    BY <1>1 DEF rtp_session_recvm_with_ts
  <2>2. PICK e, mp : e = Recvm(ts, m).r /\ mp = Recvm(ts, m).mp
    OBVIOUS
  <2>3. user.calls < MaxCalls
    BY <1>1 DEF rtp_session_recvm_with_ts
  <2>a. PICK g, K, s : g = Eff(e, given) /\ s = Since(e) /\ K = Len(s)
    OBVIOUS
  <2>4. PICK c \in 0 .. MaxCalls : c = user.calls + 1
    BY <2>2, <2>3, <2>a, RecvmKeeps
  <2>5. CallOK(g, K, c, ts, e, mp) /\ ts \in Circle /\ g \in Seq(Packets) /\ K \in Nat
    BY <2>2, <2>3, <2>4, <2>a, RecvmKeeps
  <2>6. mp \in Seq(Packets) /\ Len(mp) \in 0 .. 1 /\ e \in Rs
    BY <2>5 DEF CallOK
  <2>b. s \in Seq(Packets) /\ (~e.missed => g = s)
    BY <1>0, <2>a DEF Since, Eff
  <2>7. \E q : /\ After(rs', q, Len(given'), c, ts)
               /\ given' \in Seq(Packets) /\ (~rs'.missed => q = given')
    <3>1. CASE mp = <<>>
      <4>1. ToSet(<<>>) = {}
        BY DEF ToSet
      <4>2. rs' = e
        BY <2>1, <2>2, <2>6, <3>1, <4>1 DEF Rs
      <4>3. given' = s
        BY <2>1, <2>2, <2>a, <2>b, <3>1, ConcatEmptySeq
      <4> QED BY <2>5, <2>a, <2>b, <3>1, <4>2, <4>3, NothingTaken
    <3>2. CASE mp # <<>>
      <4>1. PICK n : mp = <<n>>
        BY <2>6, <3>2, AtMostOne
      <4>2. ToSet(<<n>>) = {n}
        BY DEF ToSet
      <4>3. rs' = [e EXCEPT !.part = @ \ {n}]
        BY <2>1, <2>2, <4>1, <4>2
      <4>4. n \in Packets
        BY <2>5, <4>1, OneTaken
      <4>5. given' = Append(s, n)
        BY <2>1, <2>2, <2>a, <2>b, <4>1, <4>4, AppendIsConcat
      <4>6. given' \in Seq(Packets) /\ Len(given') = K + 1
        BY <2>a, <2>b, <4>4, <4>5, AppendProperties
      <4>7. After(rs', Append(g, n), K + 1, c, ts) /\ SameMark(e, rs')
        BY <2>5, <4>1, <4>3, HandedOver
      <4>8. ~rs'.missed => Append(g, n) = given'
        BY <2>b, <4>5, <4>7 DEF SameMark
      <4> QED BY <4>6, <4>7, <4>8
    <3> QED BY <3>1, <3>2
  <2> QED BY <1>s, <2>1, <2>4, <2>5, <2>7, AfterIs
<1>2. CASE rtp_session_recv_with_ts
  <2>1. PICK ts \in {user.ts, NextTs}, m \in 0 .. Len(sock) :
           LET g == Recvm(ts, m) IN
           /\ user' = [ts |-> ts, calls |-> user.calls + 1]
           /\ IF g.mp = <<>> THEN rs' = g.r /\ given' = Since(g.r)
              ELSE LET n == g.mp[1] IN
                   IF g.r.pt # "known"
                   THEN rs' = [g.r EXCEPT !.freed = @ + 1, !.part = @ \ {n}] /\ given' = Since(g.r)
                   ELSE IF n \in Long \ g.r.part
                   THEN rs' = [g.r EXCEPT !.rq = Putq(@, n), !.part = @ \cup {n}] /\ given' = Since(g.r)
                   ELSE rs' = [g.r EXCEPT !.part = @ \ {n}] /\ given' = Append(Since(g.r), n)
           /\ sock' = SubSeq(sock, m + 1, Len(sock)) /\ net' = NetAfter(g.r)
    BY <1>2 DEF rtp_session_recv_with_ts
  <2>2. PICK e, mp : e = Recvm(ts, m).r /\ mp = Recvm(ts, m).mp
    OBVIOUS
  <2>3. user.calls < MaxCalls
    BY <1>2 DEF rtp_session_recv_with_ts
  <2>a. PICK g, K, s : g = Eff(e, given) /\ s = Since(e) /\ K = Len(s)
    OBVIOUS
  <2>4. PICK c \in 0 .. MaxCalls : c = user.calls + 1
    BY <2>2, <2>3, <2>a, RecvmKeeps
  <2>5. CallOK(g, K, c, ts, e, mp) /\ ts \in Circle /\ g \in Seq(Packets) /\ K \in Nat
    BY <2>2, <2>3, <2>4, <2>a, RecvmKeeps
  <2>6. mp \in Seq(Packets) /\ Len(mp) \in 0 .. 1 /\ e \in Rs
    BY <2>5 DEF CallOK
  <2>b. s \in Seq(Packets) /\ (~e.missed => g = s)
    BY <1>0, <2>a DEF Since, Eff
  <2>7. /\ user' = [ts |-> ts, calls |-> c] /\ sock' = SubSeq(sock, m + 1, Len(sock))
        /\ IF mp = <<>> THEN rs' = e /\ given' = s
           ELSE IF e.pt # "known"
           THEN rs' = [e EXCEPT !.freed = @ + 1, !.part = @ \ {mp[1]}] /\ given' = s
           ELSE IF mp[1] \in Long \ e.part
           THEN rs' = [e EXCEPT !.rq = Putq(@, mp[1]), !.part = @ \cup {mp[1]}] /\ given' = s
           ELSE rs' = [e EXCEPT !.part = @ \ {mp[1]}] /\ given' = Append(s, mp[1])
    BY <2>1, <2>2, <2>4, <2>a
  <2>8. \E q : /\ After(rs', q, Len(given'), c, ts)
               /\ given' \in Seq(Packets) /\ (~rs'.missed => q = given')
    <3>1. CASE mp = <<>>
      BY <2>5, <2>7, <2>a, <2>b, <3>1, NothingTaken
    <3>2. CASE mp # <<>>
      <4>1. PICK n : mp = <<n>> /\ n = mp[1]
        BY <2>6, <3>2, AtMostOne
      <4>2. CASE e.pt # "known"
        <5>1. rs' = [e EXCEPT !.freed = @ + 1, !.part = @ \ {n}] /\ given' = s
          BY <2>7, <3>2, <4>1, <4>2
        <5>2. After(rs', g, K, c, ts) /\ SameMark(e, rs')
          BY <2>5, <4>1, <5>1, Dropped
        <5> QED BY <2>a, <2>b, <5>1, <5>2 DEF SameMark
      <4>3. CASE e.pt = "known" /\ n \in Long \ e.part
        <5>1. rs' = [e EXCEPT !.rq = Putq(@, n), !.part = @ \cup {n}] /\ given' = s
          BY <2>7, <3>2, <4>1, <4>3
        <5>2. After(rs', g, K, c, ts) /\ SameMark(e, rs')
          BY <2>5, <4>1, <4>3, <5>1, PutBack
        <5> QED BY <2>a, <2>b, <5>1, <5>2 DEF SameMark
      <4>4. CASE e.pt = "known" /\ n \notin Long \ e.part
        <5>1. rs' = [e EXCEPT !.part = @ \ {n}] /\ given' = Append(s, n)
          BY <2>7, <3>2, <4>1, <4>4
        <5>0. n \in Packets /\ CallOK(g, K, c, ts, e, <<n>>)
          BY <2>5, <4>1, <2>a, OneTaken
        <5>a. PICK q : q = Append(g, n)
          OBVIOUS
        <5>b. After(rs', q, K + 1, c, ts) /\ SameMark(e, rs')
          BY <2>5, <5>0, <5>1, <5>a, HandedOver
        <5>2. After(rs', Append(g, n), K + 1, c, ts) /\ SameMark(e, rs') /\ n \in Packets
          BY <5>0, <5>a, <5>b
        <5>3. given' \in Seq(Packets) /\ Len(given') = K + 1
          BY <2>a, <2>b, <5>1, <5>2, AppendProperties
        <5>4. ~rs'.missed => Append(g, n) = given'
          BY <2>b, <5>1, <5>2 DEF SameMark
        <5> QED BY <5>2, <5>3, <5>4
      <4> QED BY <4>2, <4>3, <4>4
    <3> QED BY <3>1, <3>2
  <2> QED BY <1>s, <2>4, <2>5, <2>7, <2>8, AfterIs
<1> QED BY <1>1, <1>2

(* The other steps keep it. *)
LEMMA OthersKeepOrder ==
  ASSUME OrderIInv,
         \/ (\E n \in Packets : Arrives(n)) \/ RuntArrives
         \/ set_recv_payload_type \/ set_jitter_compensation \/ rtp_session_reset
         \/ UNCHANGED recvVars
  PROVE  OrderIInv'
<1>0. /\ rs \in Rs /\ sock \in Seq(Packets \cup {Runt}) /\ given \in Seq(Packets)
      /\ user \in [ts : Circle, calls : 0 .. MaxCalls]
      /\ QueuesOK(rs, History, <<>>) /\ Accounted(rs, Len(given))
  BY DEF OrderIInv
<1>1. PICK x \in 0 .. N * TsStep + user.calls * TsStep :
         PlaceOK(rs, History, user.calls, x) /\ ClockOK(rs, user, x)
  BY DEF OrderIInv
<1>2. ASSUME rs' \in Rs, SameStore(rs, rs'), SameClock(rs, rs'), rs'.recv = rs.recv,
             given' = given, user' = user, sock' \in Seq(Packets \cup {Runt})
      PROVE  OrderIInv'
  <2>0. History' = History
    BY <1>2 DEF History, SameStore
  <2>1. QueuesOK(rs', History', <<>>)
    BY <1>0, <1>2, <2>0 DEF SameStore, QueuesOK
  <2>2. Accounted(rs', Len(given'))
    BY <1>0, <1>2 DEF SameStore, Accounted, Total
  <2>3. PlaceOK(rs', History', user'.calls, x) /\ ClockOK(rs', user', x)
    BY <1>1, <1>2, <2>0, PlaceSame DEF SameClock, ClockOK
  <2> QED BY <1>0, <1>1, <1>2, <2>1, <2>2, <2>3 DEF OrderIInv
<1>3. CASE UNCHANGED recvVars
  BY <1>0, <1>2, <1>3 DEF recvVars, SameStore, SameClock
<1>4. CASE (\E n \in Packets : Arrives(n)) \/ RuntArrives
  <2>1. PICK n \in Packets \cup {Runt} : sock' = Append(sock, n) /\ UNCHANGED <<rs, user, given>>
    BY <1>4 DEF Arrives, RuntArrives
  <2>2. sock' \in Seq(Packets \cup {Runt})
    BY <1>0, <2>1, AppendProperties
  <2> QED BY <1>0, <1>2, <2>1, <2>2 DEF SameStore, SameClock
<1>5. CASE set_recv_payload_type
  <2>1. rs' = [UpdatePayloadType(rs, "known") EXCEPT !.pt = "known"] /\ UNCHANGED <<sock, user, given>>
    BY <1>5 DEF set_recv_payload_type
  <2>2. rs.comp = rs.jitt /\ "known" \in PayTypes /\ rs.hwPt \in PayTypes
    BY <1>0, <1>1 DEF PlaceOK, PayTypes, Rs
  <2>3. PICK p \in PayTypes : rs' = [rs EXCEPT !.hwPt = p, !.pt = "known"]
    <3>1. CASE rs.hwPt = "known"
      <4>1. rs' = [rs EXCEPT !.hwPt = "known", !.pt = "known"]
        BY <1>0, <2>1, <3>1 DEF UpdatePayloadType, Rs
      <4> QED BY <2>2, <4>1
    <3>2. CASE rs.hwPt # "known"
      <4>1. rs' = [rs EXCEPT !.hwPt = "known", !.jitt = rs.jitt, !.pt = "known"]
        BY <1>0, <2>1, <2>2, <3>2 DEF UpdatePayloadType, Rs
      <4>2. rs' = [rs EXCEPT !.hwPt = "known", !.pt = "known"]
        BY <1>0, <4>1 DEF Rs
      <4> QED BY <2>2, <4>2
    <3> QED BY <3>1, <3>2
  <2>4. rs' \in Rs
    BY ONLY <1>0, <2>2, <2>3, p \in PayTypes DEF Rs
  <2>5. SameStore(rs, rs') /\ SameClock(rs, rs') /\ rs'.recv = rs.recv
    BY <1>0, <2>3 DEF Rs, SameStore, SameClock
  <2> QED BY <1>0, <1>2, <2>1, <2>4, <2>5
<1>6. CASE set_jitter_compensation
  <2>1. PICK ms \in Jitter : rs' = IF rs.pt = "none" THEN rs ELSE [rs EXCEPT !.comp = ms, !.jitt = ms]
    BY <1>6 DEF set_jitter_compensation
  <2>2. rs.sync /\ UNCHANGED <<sock, user, given>> /\ ms \in Nat
    BY <1>6, RecvConstants DEF set_jitter_compensation
  <2>3. CASE rs' = rs
    BY <1>0, <1>2, <2>2, <2>3 DEF SameStore, SameClock
  <2>4. CASE rs' = [rs EXCEPT !.comp = ms, !.jitt = ms]
    <3>1. rs' \in Rs
      BY ONLY <1>0, <2>2, <2>4 DEF Rs
    <3>2. SameStore(rs, rs') /\ rs'.recv = rs.recv /\ rs'.sync /\ rs'.comp = rs'.jitt
      BY <1>0, <2>2, <2>4 DEF Rs, SameStore
    <3>0. History' = History
      BY <2>2, <3>2 DEF History, SameStore
    <3>3. QueuesOK(rs', History', <<>>)
      BY <1>0, <3>0, <3>2 DEF SameStore, QueuesOK
    <3>4. Accounted(rs', Len(given'))
      BY <1>0, <2>2, <3>2, ZenonT(30) DEF SameStore, Accounted, Total
    <3>5. PlaceOK(rs', History', user'.calls, x) /\ ClockOK(rs', user', x)
      BY <1>1, <2>2, <3>0, <3>2 DEF PlaceOK, ClockOK
    <3> QED BY <1>0, <1>1, <2>2, <3>1, <3>3, <3>4, <3>5 DEF OrderIInv
  <2> QED BY <2>1, <2>3, <2>4
<1>7. CASE rtp_session_reset
  <2>1. rs' = Reset(rs, 0) /\ given' = <<>> /\ UNCHANGED <<sock, user>>
    BY <1>7 DEF rtp_session_reset
  <2>2. /\ rs' \in Rs /\ rs'.sync /\ rs'.comp = rs.comp /\ rs'.jitt = rs.jitt
        /\ rs'.recv + rs'.runts + rs'.kept = Total(rs') + 0
        /\ QueuesOK(rs', <<>>, <<>>)
    <3>1. PICK z \in Nat : z = 0
      OBVIOUS
    <3>2. Emptied(rs, z, rs')
      BY <1>0, <2>1, <3>1, ResetIs
    <3> QED BY <1>0, <3>1, <3>2 DEF Emptied
  <2>3. History' = <<>> /\ Len(given') = 0 /\ <<>> \in Seq(Packets)
    BY <2>1 DEF History
  <2>4. Accounted(rs', Len(given'))
    BY <2>2, <2>3 DEF Accounted
  <2>5. PlaceOK(rs', History', user'.calls, x) /\ ClockOK(rs', user', x)
    BY <1>1, <2>1, <2>2, <2>3 DEF PlaceOK, ClockOK
  <2> QED BY <1>0, <1>1, <2>1, <2>2, <2>3, <2>4, <2>5 DEF OrderIInv
<1> QED BY <1>3, <1>4, <1>5, <1>6, <1>7

(* It holds at first. *)
LEMMA OrderInit == ASSUME RecvInit PROVE OrderIInv
<1>1. /\ 0 \in Nat /\ 0 \in Circle /\ 0 \in 0 .. SnMod - 1 /\ <<>> \in Seq(Packets)
      /\ {} \in SUBSET Packets /\ TRUE \in BOOLEAN /\ "none" \in PayTypes /\ 0 \in 0 .. MaxCalls
  BY Numbers DEF Circle, PayTypes
<1>2. rs \in Rs
  <2>1. PICK h \in BOOLEAN :
           rs = [rq |-> <<>>, tev |-> <<>>, part |-> {}, sync |-> TRUE,
                 pt |-> "none", hwPt |-> "none", comp |-> 0, jitt |-> 0,
                 diff |-> 0, hwDiff |-> 0, last |-> 0,
                 hi |-> 0, lo |-> 0, since |-> 0, atSR |-> 0, cum |-> 0, lastReport |-> 0,
                 recv |-> 0, bad |-> 0, discarded |-> 0, outoftime |-> 0, skipped |-> 0,
                 twice |-> 0, freed |-> 0, kept |-> 0, base |-> 0, sinceBase |-> 0,
                 runts |-> 0, resets |-> h, fresh |-> FALSE, missed |-> FALSE]
    BY DEF RecvInit
  <2> QED BY ONLY <1>1, <2>1, h \in BOOLEAN, FALSE \in BOOLEAN DEF Rs
<1>3. /\ rs.rq = <<>> /\ rs.tev = <<>> /\ rs.part = {} /\ rs.sync
      /\ rs.comp = 0 /\ rs.jitt = 0 /\ rs.recv = 0 /\ rs.kept = 0 /\ rs.runts = 0 /\ ~rs.missed
      /\ rs.bad = 0 /\ rs.discarded = 0 /\ rs.outoftime = 0 /\ rs.skipped = 0
      /\ rs.twice = 0 /\ rs.freed = 0
      /\ sock = <<>> /\ given = <<>> /\ user = [ts |-> 0, calls |-> 0]
  BY DEF RecvInit
<1>4. Len(<<>>) = 0 /\ ToSet(<<>>) = {} /\ Cardinality({}) = 0
  BY FS_EmptySet DEF ToSet
<1>5. QueuesOK(rs, History, <<>>)
  BY <1>3, <1>4, Numbers DEF QueuesOK, Sorted, Before, History
<1>6. Accounted(rs, Len(given))
  <2>1. Total(rs) = 0
    BY ONLY <1>3, <1>4 DEF Total
  <2> QED BY <1>3, <1>4, <2>1 DEF Accounted
<1>7. user.calls = 0 /\ user \in [ts : Circle, calls : 0 .. MaxCalls]
  BY <1>1, <1>3
<1>8. 0 <= N * TsStep + 0 * TsStep /\ 0 \in 0 .. N * TsStep + 0 * TsStep
  BY Numbers
<1>9. PlaceOK(rs, History, user.calls, 0) /\ ClockOK(rs, user, 0)
  BY <1>1, <1>3, <1>7, <1>8 DEF PlaceOK, ClockOK, History
<1> QED BY <1>1, <1>2, <1>3, <1>5, <1>6, <1>7, <1>8, <1>9 DEF OrderIInv

(* The invariant of the queues is inductive. *)
LEMMA OrderInductive == RecvSpec => []OrderIInv
<1>1. RecvInit => OrderIInv
  BY OrderInit
<1>2. OrderIInv /\ [RecvNext]_recvVars => OrderIInv'
  BY CallsKeepOrder, OthersKeepOrder DEF RecvNext
<1> QED BY <1>1, <1>2, PTL DEF RecvSpec

(* The reordering queue is sorted and within its size, and the application *)
(* gets every packet once and in the sender's order, until an old packet   *)
(* gets past the test for jumps: for every stream of less than half the    *)
(* sequence numbers and whatever the network does (rtp_putq, rtp_parse,    *)
(* rtp_session_recv_with_ts and its put-back, rtp_session_reset).          *)
THEOREM OrderInvariant == RecvSpec => []OrderInv
<1>1. ASSUME OrderIInv PROVE OrderInv
  <2>1. /\ rs \in Rs /\ sock \in Seq(Packets \cup {Runt}) /\ given \in Seq(Packets) /\ QueuesOK(rs, History, <<>>)
    BY <1>1 DEF OrderIInv
  <2>2. /\ rs.rq \in Seq(Packets) /\ rs.tev \in Seq(Packets) /\ Len(rs.rq) \in Nat
        /\ rs.diff \in Circle /\ rs.hwDiff \in Circle /\ rs.last \in Circle
    BY <2>1, RsFields
  <2>3. rs.lo \in 0 .. SnMod - 1
    BY <2>1 DEF Rs
  <2>4. Len(<<>>) = 0 /\ ToSet(<<>>) = {}
    BY DEF ToSet
  <2>5. Len(rs.rq) <= MaxRq + Cardinality(rs.part) /\ Len(rs.tev) <= MaxRq
    BY <2>1, <2>2, <2>4 DEF QueuesOK
  <2>6. rs.part \subseteq ToSet(rs.rq) \cap Long
    BY <2>1, <2>4 DEF QueuesOK
  <2>7. RecvTypeOK
    BY <2>1, <2>2, <2>3, <2>5, <2>6 DEF RecvTypeOK, Circle
  <2>8. DOMAIN rs.rq = 1 .. Len(rs.rq) /\ DOMAIN given = 1 .. Len(given)
    BY <2>1, <2>2, LenProperties
  <2>9. RqSorted /\ DeliveredInOrder
    BY <2>1, <2>8 DEF RqSorted, DeliveredInOrder, InSendersOrder, QueuesOK, Sorted, History
  <2> QED BY <2>7, <2>9 DEF OrderInv
<1> QED BY <1>1, OrderInductive, PTL

(* Every datagram read from the socket is in a queue, with the application *)
(* or in exactly one statistic, those too short for a header and the jump  *)
(* that resets the session included (rtp_recv, rtp_parse, split_and_queue, *)
(* rtp_session_recvm_with_ts, rtp_session_reset).                          *)
THEOREM AccountInvariant == RecvSpec => []NothingUnaccounted
<1>1. ASSUME OrderIInv PROVE NothingUnaccounted
  <2>1. rs \in Rs /\ given \in Seq(Packets) /\ Accounted(rs, Len(given))
    BY <1>1 DEF OrderIInv
  <2>2. PICK l1 \in Nat, l2 \in Nat, c1 \in Nat, c2 \in Nat, c3 \in Nat, c4 \in Nat, c5 \in Nat, c6 \in Nat :
           /\ Len(rs.rq) = l1 /\ Len(rs.tev) = l2 /\ rs.bad = c1 /\ rs.discarded = c2
           /\ rs.outoftime = c3 /\ rs.skipped = c4 /\ rs.twice = c5 /\ rs.freed = c6
    BY <2>1, RsFields
  <2>3. PICK g \in Nat : Len(given) = g
    BY <2>1, LenProperties
  <2>4. Total(rs) = l1 + l2 + c1 + c2 + c3 + c4 + c5 + c6
    BY ONLY <2>2 DEF Total
  <2>5. rs.recv + rs.runts + rs.kept = l1 + l2 + c1 + c2 + c3 + c4 + c5 + c6 + g
    BY <2>1, <2>3, <2>4 DEF Accounted
  <2>6. l1 + l2 + c1 + c2 + c3 + c4 + c5 + c6 + g = l1 + l2 + g + c1 + c2 + c3 + c4 + c5 + c6
    OBVIOUS
  <2> QED BY ONLY <2>2, <2>3, <2>5, <2>6 DEF NothingUnaccounted
<1> QED BY <1>1, OrderInductive, PTL

-----------------------------------------------------------------------------
(* The reception report. *)
(* A multiple less than a turn away is none, one less than two is one.     *)
LEMMA Turns ==
  ASSUME NEW m \in Nat \ {0}, NEW d \in Int, NEW y \in Int, y = m * d
  PROVE  /\ y > -m /\ y < m => d = 0
         /\ y > 0 /\ y < 2 * m => d = 1
<1>1. d >= 1 => m * d >= m
  OBVIOUS
<1>2. d <= -1 => m * d <= -m
  OBVIOUS
<1>3. d >= 2 => m * d >= 2 * m
  OBVIOUS
<1>4. d <= 0 => m * d <= 0
  OBVIOUS
<1> QED BY ONLY m \in Nat \ {0}, d \in Int, y \in Int, y = m * d, <1>1, <1>2, <1>3, <1>4

(* The number a is h turns of the circle and l. *)
OnCircle(h, l, a) == h \in Int /\ l \in 0 .. SnMod - 1 /\ a \in Nat /\ a = SnMod * h + l

(* The test for a looping number tells a next number near to the highest   *)
(* one that is in front of it, over the end of the range, from an old one. *)
LEMMA Loops ==
  ASSUME NEW hi, NEW lo, NEW a, OnCircle(hi, lo, a), NEW q, NEW s, NEW b, OnCircle(q, s, b)
  PROVE  /\ b - a > 0 /\ b - a < WrapWindow /\ s > lo => SnMod * hi + s = b
         /\ b - a > 0 /\ b - a < WrapWindow /\ ~(s > lo)
               => s < WrapWindow /\ lo > SnMod - WrapWindow /\ SnMod * (hi + 1) + s = b
         /\ a - b >= 0 /\ a - b < WrapWindow /\ s <= lo
               => ~(s < WrapWindow /\ lo > SnMod - WrapWindow)
<1>0. PICK M \in Nat \ {0}, W \in Nat \ {0} : M = SnMod /\ W = WrapWindow /\ 3 * W <= M
  BY RecvConstants, Numbers
<1>a. /\ hi \in Int /\ lo \in 0 .. M - 1 /\ a \in Nat /\ a = M * hi + lo
       /\ q \in Int /\ s \in 0 .. M - 1 /\ b \in Nat /\ b = M * q + s
  BY <1>0 DEF OnCircle
<1>1. PICK d \in Int, y \in Int : d = q - hi /\ y = M * d
  BY <1>a
<1>2. M * q = M * hi + y
  BY <1>a, <1>1
<1>3. PICK u \in Int, v \in Int : u = M * hi /\ v = M * q
  BY <1>a
<1>4. /\ v = u + y /\ a = u + lo /\ b = v + s
  BY <1>a, <1>2, <1>3
<1>5. M \in Nat \ {0} /\ W \in Nat \ {0} /\ 3 * W <= M /\ lo \in 0 .. M - 1 /\ s \in 0 .. M - 1 /\ a \in Nat /\ b \in Nat
  BY <1>0, <1>a
<1>6. y > -M /\ y < M => y = 0
  BY <1>1, Turns
<1>7. y > 0 /\ y < 2 * M => d = 1 /\ y = M
  <2>1. y > 0 /\ y < 2 * M => d = 1
    BY <1>1, Turns
  <2> QED BY <1>1, <2>1
<1>8. b - a > 0 /\ b - a < W /\ s > lo => u + s = b
  BY ONLY <1>3, <1>4, <1>5, <1>6, <1>1
<1>9. b - a > 0 /\ b - a < W /\ ~(s > lo) => s < W /\ lo > M - W /\ y = M
  BY ONLY <1>3, <1>4, <1>5, <1>7, <1>1
<1>10. M * (hi + 1) = u + M
  BY <1>a, <1>3
<1>11. b - a > 0 /\ b - a < W /\ ~(s > lo) => s < W /\ lo > M - W /\ M * (hi + 1) + s = b
  BY ONLY <1>1, <1>3, <1>4, <1>5, <1>9, <1>10
<1>12. a - b >= 0 /\ a - b < W /\ s <= lo => ~(s < W /\ lo > M - W)
  BY ONLY <1>3, <1>4, <1>5, <1>6, <1>1
<1> QED BY <1>0, <1>3, <1>8, <1>11, <1>12

(* rtp_parse's extended number is that of the highest packet, when the     *)
(* packet is near to it and an older one does not come from before the end *)
(* of the range.                                                           *)
LEMMA ExtKeeps ==
  ASSUME FirstSeq + MaxGap < SnMod, NEW r \in Rs, NEW t \in 0 .. N, NEW n \in Packets, ExtOK(r, t),
         n <= t + MaxGap, t <= n + MaxGap, n < t => SnOf(n) < SnOf(t),
         NEW e \in Rs, e.hi = ExtSeq(r, n).hi, e.lo = ExtSeq(r, n).lo
  PROVE  ExtOK(e, IF n > t THEN n ELSE t)
<1>1. /\ n \in 1 .. N /\ n \in Nat /\ t \in Nat /\ r.hi \in Nat /\ r.lo \in 0 .. SnMod - 1 /\ r.lo \in Nat
  BY Numbers, ReportNumbers DEF Packets
<1>2. PICK s \in 0 .. SnMod - 1 : s = SnOf(n)
  BY SeqOrder
<1>3. /\ s > r.lo => e.lo = s /\ e.hi = r.hi
      /\ ~(s > r.lo) /\ s < WrapWindow /\ r.lo > SnMod - WrapWindow => e.lo = s /\ e.hi = r.hi + 1
      /\ ~(s > r.lo) /\ ~(s < WrapWindow /\ r.lo > SnMod - WrapWindow) => e.lo = r.lo /\ e.hi = r.hi
  BY <1>2 DEF ExtSeq, Rs
<1>4. /\ MaxGap < WrapWindow /\ 3 * WrapWindow <= SnMod
  BY RecvConstants
<1>5. CASE t = 0
  <2>1. r.hi * SnMod + r.lo = 0
    BY <1>5 DEF ExtOK, Ext
  <2>2. r.hi = 0 /\ r.lo = 0
    BY <1>1, <2>1, Numbers
  <2>3. FirstSeq + n \in 0 .. SnMod - 1
    BY <1>1, <1>5, Numbers
  <2>4. s = FirstSeq + n
    BY <1>2, <2>3, ModSmall, Numbers DEF SnOf
  <2>5. e.lo = FirstSeq + n /\ e.hi = 0 /\ n > 0
    BY <1>1, <1>3, <2>2, <2>4, Numbers
  <2>6. e.hi * SnMod + e.lo = FirstSeq + n
    BY <1>1, <2>5, Numbers
  <2> QED BY <1>1, <1>5, <2>5, <2>6 DEF ExtOK, Ext
<1>6. CASE t # 0
  <2>1. PICK a \in Nat : a = FirstSeq + t
    BY <1>1, Numbers
  <2>2. a = SnMod * r.hi + r.lo
    BY <1>1, <1>6, <2>1, Numbers DEF ExtOK, Ext
  <2>3. PICK b \in Nat : b = FirstSeq + n
    BY <1>1, Numbers
  <2>4. PICK q \in Int : b = SnMod * q + s
    <3>1. s = b % SnMod
      BY <1>2, <2>3 DEF SnOf
    <3>2. PICK q \in Int : b = SnMod * q + (b % SnMod)
      <4>1. b \in Int /\ SnMod \in Nat \ {0}
        BY Numbers
      <4> QED BY ONLY <4>1, ModQuotient
    <3> QED BY <3>1, <3>2
  <2>5. t \in Packets
    BY <1>1, <1>6, Numbers DEF Packets
  <2>6. r.lo = SnOf(t)
    <3>1. a % SnMod = r.lo
      <4>1. a \in Int /\ r.hi \in Int /\ r.lo \in 0 .. SnMod - 1 /\ SnMod \in Nat \ {0}
        BY <1>1, Numbers
      <4> QED BY ONLY <2>2, <4>1, ModUnique
    <3> QED BY <2>1, <3>1 DEF SnOf
  <2>7. b - a = n - t /\ a - b = t - n
    BY <1>1, <2>1, <2>3, Numbers
  <2>8. /\ n > t => b - a > 0 /\ b - a < WrapWindow
        /\ ~(n > t) => a - b >= 0 /\ a - b < WrapWindow
    BY <1>1, <1>4, <2>7, Numbers
  <2>9. ~(n > t) => s <= r.lo
    BY <1>1, <1>2, <2>5, <2>6, SeqOrder
  <2>10. /\ b - a > 0 /\ b - a < WrapWindow /\ s > r.lo => SnMod * r.hi + s = b
         /\ b - a > 0 /\ b - a < WrapWindow /\ ~(s > r.lo)
               => s < WrapWindow /\ r.lo > SnMod - WrapWindow /\ SnMod * (r.hi + 1) + s = b
         /\ a - b >= 0 /\ a - b < WrapWindow /\ s <= r.lo
               => ~(s < WrapWindow /\ r.lo > SnMod - WrapWindow)
    <3>1. OnCircle(r.hi, r.lo, a) /\ OnCircle(q, s, b)
      BY <1>1, <2>2, <2>4 DEF OnCircle
    <3> QED BY ONLY <3>1, Loops
  <2>11. CASE n > t
    <3>1. SnMod * e.hi + e.lo = b
      BY <1>3, <2>8, <2>10, <2>11
    <3>2. SnMod * e.hi + e.lo = e.hi * SnMod + e.lo
      BY Numbers, ReportNumbers
    <3> QED BY <1>1, <2>3, <2>11, <3>1, <3>2 DEF ExtOK, Ext
  <2>12. CASE ~(n > t)
    <3>1. s <= r.lo /\ ~(s > r.lo) /\ ~(s < WrapWindow /\ r.lo > SnMod - WrapWindow)
      BY <1>1, <2>8, <2>9, <2>10, <2>12
    <3>2. e.lo = r.lo /\ e.hi = r.hi
      BY <1>3, <3>1
    <3> QED BY <2>12, <3>2 DEF ExtOK, Ext
  <2> QED BY <2>11, <2>12
<1> QED BY <1>1, <1>5, <1>6

(* A packet that raises the number keeps the losses. *)
LEMMA LossRead ==
  ASSUME NEW r \in Rs, NEW e \in Rs, NEW n, ReportStep(r, n, e), LossOK(r), Ext(e) >= Ext(r) + 1
  PROVE  LossOK(e)
<1>1. PICK a \in Nat, b \in Nat, s \in Nat, u \in Nat, c \in Nat, x \in Nat, y \in Nat :
         /\ r.atSR = a /\ r.base = b /\ r.since = s /\ r.sinceBase = u /\ r.cum = c
         /\ Ext(r) = x /\ Ext(e) = y
  BY ReportNumbers
<1>2. e.atSR = a /\ e.base = b /\ e.since = s + 1 /\ e.sinceBase = u + 1 /\ e.cum = c
  BY <1>1 DEF ReportStep
<1>3. (a = 0 => c = 0) /\ (a # 0 => s + a <= x /\ c + u - s = a - b)
  BY <1>1 DEF LossOK
<1>4. (a # 0 => s + 1 + a <= y /\ c + (u + 1) - (s + 1) = a - b)
  BY <1>1, <1>3
<1> QED BY <1>1, <1>2, <1>3, <1>4 DEF LossOK

(* So does a report. *)
LEMMA LossReported ==
  ASSUME NEW r \in Rs, NEW e \in Rs, NEW ts, RtcpStep(r, ts, e), LossOK(r), Ext(r) < ExtMod
  PROVE  LossOK(e)
<1>1. PICK a \in Nat, b \in Nat, s \in Nat, u \in Nat, c \in Nat, x \in Nat, l \in Nat :
         /\ r.atSR = a /\ r.base = b /\ r.since = s /\ r.sinceBase = u /\ r.cum = c
         /\ Ext(r) = x /\ Loss(r) = l
  BY ReportNumbers
<1>2. /\ e.since = 0 /\ e.atSR = x /\ Ext(e) = x
      /\ e.cum = IF a # 0 THEN c + l ELSE c
      /\ e.base = IF a # 0 THEN b ELSE x
      /\ e.sinceBase = IF a # 0 THEN u ELSE 0
  BY <1>1 DEF RtcpStep, Ext
<1>3. (a = 0 => c = 0) /\ (a # 0 => s + a <= x /\ c + u - s = a - b)
  BY <1>1 DEF LossOK
<1>4. a # 0 => l = x - a - s
  <2>1. SUFFICES ASSUME a # 0 PROVE l = x - a - s
    OBVIOUS
  <2>2. x - a - s \in 0 .. ExtMod - 1
    BY <1>1, <1>3, <2>1, Numbers
  <2>3. l = (x - a - s) % ExtMod
    <3>1. r.hi * SnMod + r.lo = x
      BY <1>1 DEF Ext
    <3>2. l = (r.hi * SnMod + r.lo - r.atSR - r.since) % ExtMod
      BY ONLY <1>1, Zenon DEF Loss
    <3>3. r.hi * SnMod \in Int /\ r.lo \in Int
      BY Numbers, ReportNumbers
    <3>4. r.hi * SnMod + r.lo - r.atSR - r.since = x - a - s
      BY ONLY <1>1, <3>1, <3>3
    <3> QED BY ONLY <3>2, <3>4
  <2> QED BY <2>2, <2>3, ModSmall, Numbers
<1>5. CASE a = 0
  BY <1>1, <1>2, <1>3, <1>5 DEF LossOK
<1>6. CASE a # 0
  <2>1. x # 0 /\ (c + l) + u - 0 = x - b /\ 0 + x <= x
    BY <1>1, <1>3, <1>4, <1>6
  <2> QED BY <1>2, <1>6, <2>1 DEF LossOK
<1> QED BY <1>5, <1>6

(* What the report says depends on its fields only. *)
LEMMA ReportSame ==
  ASSUME NEW r, NEW e, SameReport(r, e)
  PROVE  Ext(e) = Ext(r) /\ (LossOK(r) <=> LossOK(e)) /\ \A t : ExtOK(r, t) <=> ExtOK(e, t)
BY DEF SameReport, Ext, ExtOK, LossOK

(* rtp_recv: the extended number comes to that of the network's highest    *)
(* packet so far, and the losses stay right.                               *)
LEMMA RecvReports ==
  ASSUME FirstSeq + MaxGap < SnMod, OrderIInv, ReportIInv, NEW m \in 0 .. Len(sock),
         NEW T \in [0 .. Len(sock) -> 0 .. N], Tops(T), Clean => ExtOK(rs, T[0]),
         NEW e, e = rtp_recv(rs, m), ~e.fresh
  PROVE  /\ Clean => ExtOK(e, T[m])
         /\ net.inOrder => LossOK(e)
<1>1. /\ rs \in Rs /\ sock \in Seq(Packets \cup {Runt}) /\ given \in Seq(Packets) /\ Len(given) \in Nat
      /\ Len(sock) \in Nat /\ m \in Nat /\ user.calls \in 0 .. MaxCalls
      /\ QueuesOK(rs, History, <<>>) /\ Accounted(rs, Len(given))
  BY LenProperties DEF OrderIInv
<1>2. PICK x : PlaceOK(rs, History, user.calls, x) /\ ClockOK(rs, user, x)
  BY DEF OrderIInv
<1>3. PICK h : ReadSteps(h, rs, m, given, Len(given), user.calls, user, x)
  BY <1>1, <1>2, ReadKeeps DEF History
<1>4. /\ h[0] = [rs EXCEPT !.fresh = FALSE] /\ e = h[m]
      /\ \A k \in 0 .. m : h[k] \in Rs
      /\ \A k \in 1 .. m : /\ h[k - 1].fresh => h[k].fresh
                           /\ h[k].fresh \/ ReadStep(h[k - 1], sock[k], h[k])
  BY <1>3 DEF ReadSteps, ReadOK
<1>5. SameReport(rs, h[0])
  BY <1>1, <1>4 DEF Rs, SameReport
<1>6. T[Len(sock)] = net.top /\ \A k \in 1 .. Len(sock) : Follows(T[k - 1], sock[k], T[k])
  BY DEF Tops
<1>7. net.inOrder => Clean /\ net.calm /\ LossOK(rs)
  BY DEF ReportIInv, Clean
<1>8. ASSUME NEW k \in 1 .. m, Clean, ExtOK(h[k - 1], T[k - 1]), ~h[k].fresh
      PROVE  ExtOK(h[k], T[k]) /\ (net.inOrder /\ LossOK(h[k - 1]) => LossOK(h[k]))
  <2>1. k - 1 \in 0 .. m /\ k \in 0 .. m /\ k - 1 \in 0 .. Len(sock) /\ k \in 1 .. Len(sock) /\ k \in 0 .. Len(sock)
    BY <1>1
  <2>2. PICK r \in Rs, o \in Rs : r = h[k - 1] /\ o = h[k]
    BY <1>4, <2>1
  <2>3. PICK t \in 0 .. N, u \in 0 .. N : t = T[k - 1] /\ u = T[k]
    BY <2>1
  <2>4. ReadStep(r, sock[k], o) /\ Follows(t, sock[k], u) /\ ExtOK(r, t)
    BY <1>4, <1>6, <1>8, <2>1, <2>2, <2>3
  <2>5. CASE sock[k] = Runt
    <3>1. SameReport(r, o) /\ u = t
      BY <2>4, <2>5 DEF ReadStep, Follows
    <3> QED BY <2>2, <2>3, <2>4, <3>1, ReportSame
  <2>6. CASE sock[k] # Runt
    <3>0. PICK n \in Packets : n = sock[k] /\ n # Runt
      BY <1>1, <2>1, <2>6, ElementOfSeq
    <3>1. /\ u = IF n > t THEN n ELSE t
          /\ n <= t + MaxGap /\ t <= n + MaxGap /\ (n < t => SnOf(n) < SnOf(t))
          /\ (net.inOrder => n > t) /\ n \notin Bad /\ ReportStep(r, n, o)
      BY <1>8, <2>4, <3>0 DEF Follows, Clean, ReadStep
    <3>2. o.hi = ExtSeq(r, n).hi /\ o.lo = ExtSeq(r, n).lo
      BY <3>1 DEF ReportStep
    <3>3. ExtOK(o, u)
      BY <2>4, <3>1, <3>2, ExtKeeps
    <3>4. ASSUME net.inOrder, LossOK(r) PROVE LossOK(o)
      <4>1. n > t /\ u = n
        BY <3>1, <3>4
      <4>2. n \in Nat /\ t \in Nat /\ n # 0
        BY Numbers DEF Packets
      <4>3. Ext(o) = FirstSeq + n /\ Ext(r) = IF t = 0 THEN 0 ELSE FirstSeq + t
        BY <2>4, <3>3, <4>1, <4>2 DEF ExtOK
      <4>4. Ext(o) >= Ext(r) + 1
        BY <4>1, <4>2, <4>3, Numbers
      <4> QED BY <3>1, <3>4, <4>4, LossRead
    <3> QED BY <2>2, <2>3, <3>3, <3>4
  <2> QED BY <2>5, <2>6
<1> DEFINE S == {k \in 0 .. m : h[k].fresh \/ (/\ ExtOK(h[k], T[k])
                                               /\ net.inOrder => LossOK(h[k]))}
<1>9. ASSUME Clean PROVE m \in S
  <2>1. 0 \in S
    BY <1>1, <1>5, <1>7, <1>9, ReportSame
  <2>2. ASSUME NEW k \in 1 .. m, k - 1 \in S PROVE k \in S
    <3>1. k \in 0 .. m /\ (h[k - 1].fresh \/ (ExtOK(h[k - 1], T[k - 1]) /\ (net.inOrder => LossOK(h[k - 1]))))
      BY <1>1, <2>2
    <3>2. CASE h[k].fresh
      BY <3>1, <3>2
    <3>3. CASE ~h[k].fresh
      <4>1. ExtOK(h[k - 1], T[k - 1]) /\ (net.inOrder => LossOK(h[k - 1]))
        BY <1>4, <3>1, <3>3
      <4>2. ExtOK(h[k], T[k]) /\ (net.inOrder /\ LossOK(h[k - 1]) => LossOK(h[k]))
        BY <1>8, <1>9, <3>3, <4>1
      <4> QED BY <3>1, <4>1, <4>2
    <3> QED BY <3>2, <3>3
  <2> HIDE DEF S
  <2> QED BY <1>1, <2>1, <2>2, UpTo
<1>11. ASSUME Clean PROVE ExtOK(e, T[m]) /\ (net.inOrder => LossOK(e))
  BY <1>4, <1>9, <1>11
<1> QED BY <1>7, <1>11

(* A call of the application reads from the socket, then perhaps reports;  *)
(* what it does with the packet is not seen in the report, nor does it get *)
(* an old packet past the test.                                            *)
LEMMA CallReports ==
  ASSUME rtp_session_recvm_with_ts \/ rtp_session_recv_with_ts, OrderIInv
  PROVE  \E m \in 0 .. Len(sock) :
           /\ sock' = SubSeq(sock, m + 1, Len(sock)) /\ net' = NetAfter(rtp_recv(rs, m))
           /\ \E q \in Rs : /\ SameReport(rtp_recv(rs, m), q)
                            /\ SameReport(q, rs') \/ \E ts : RtcpStep(q, ts, rs')
           /\ Caught(rs, rs')
<1>1. \E ts \in {user.ts, NextTs}, m \in 0 .. Len(sock) :
         /\ user.calls < MaxCalls /\ sock' = SubSeq(sock, m + 1, Len(sock)) /\ net' = NetAfter(Recvm(ts, m).r)
         /\ Recvm(ts, m).r \in Rs => SameReport(Recvm(ts, m).r, rs') /\ rs'.missed = Recvm(ts, m).r.missed
  <2>1. CASE rtp_session_recvm_with_ts
    <3>1. PICK ts \in {user.ts, NextTs}, m \in 0 .. Len(sock) :
             /\ rs' = [Recvm(ts, m).r EXCEPT !.part = @ \ ToSet(Recvm(ts, m).mp)]
             /\ sock' = SubSeq(sock, m + 1, Len(sock)) /\ net' = NetAfter(Recvm(ts, m).r)
      BY <2>1 DEF rtp_session_recvm_with_ts
    <3>2. PICK e, p : e = Recvm(ts, m).r /\ p = Recvm(ts, m).mp
      OBVIOUS
    <3>3. rs' = [e EXCEPT !.part = @ \ ToSet(p)]
      BY <3>1, <3>2
    <3>4. e \in Rs => SameReport(e, rs') /\ rs'.missed = e.missed
      BY ONLY <3>3 DEF Rs, SameReport
    <3> QED BY <2>1, <3>1, <3>2, <3>4 DEF rtp_session_recvm_with_ts
  <2>2. CASE rtp_session_recv_with_ts
    <3>1. PICK ts \in {user.ts, NextTs}, m \in 0 .. Len(sock) :
             LET g == Recvm(ts, m) IN
             /\ user' = [ts |-> ts, calls |-> user.calls + 1]
             /\ IF g.mp = <<>> THEN rs' = g.r /\ given' = Since(g.r)
                ELSE LET n == g.mp[1] IN
                     IF g.r.pt # "known"
                     THEN rs' = [g.r EXCEPT !.freed = @ + 1, !.part = @ \ {n}] /\ given' = Since(g.r)
                     ELSE IF n \in Long \ g.r.part
                     THEN rs' = [g.r EXCEPT !.rq = Putq(@, n), !.part = @ \cup {n}] /\ given' = Since(g.r)
                     ELSE rs' = [g.r EXCEPT !.part = @ \ {n}] /\ given' = Append(Since(g.r), n)
             /\ sock' = SubSeq(sock, m + 1, Len(sock)) /\ net' = NetAfter(g.r)
      BY <2>2 DEF rtp_session_recv_with_ts
    <3>2. PICK e, n : e = Recvm(ts, m).r /\ n = Recvm(ts, m).mp[1]
      OBVIOUS
    <3>3. \/ rs' = e
          \/ rs' = [e EXCEPT !.freed = @ + 1, !.part = @ \ {n}]
          \/ rs' = [e EXCEPT !.rq = Putq(@, n), !.part = @ \cup {n}]
          \/ rs' = [e EXCEPT !.part = @ \ {n}]
      BY <3>1, <3>2
    <3>4. ASSUME e \in Rs PROVE SameReport(e, rs') /\ rs'.missed = e.missed
      <4>1. CASE rs' = e
        BY <4>1 DEF SameReport
      <4>2. CASE rs' = [e EXCEPT !.freed = @ + 1, !.part = @ \ {n}]
        BY ONLY <3>4, <4>2 DEF Rs, SameReport
      <4>3. CASE rs' = [e EXCEPT !.rq = Putq(@, n), !.part = @ \cup {n}]
        BY ONLY <3>4, <4>3 DEF Rs, SameReport
      <4>4. CASE rs' = [e EXCEPT !.part = @ \ {n}]
        BY ONLY <3>4, <4>4 DEF Rs, SameReport
      <4> QED BY <3>3, <4>1, <4>2, <4>3, <4>4
    <3>5. user.calls < MaxCalls /\ sock' = SubSeq(sock, m + 1, Len(sock)) /\ net' = NetAfter(Recvm(ts, m).r)
      BY <2>2, <3>1 DEF rtp_session_recv_with_ts
    <3> QED BY <3>2, <3>4, <3>5
  <2> QED BY <2>1, <2>2
<1>2. PICK ts \in {user.ts, NextTs}, m \in 0 .. Len(sock) :
         /\ user.calls < MaxCalls /\ sock' = SubSeq(sock, m + 1, Len(sock)) /\ net' = NetAfter(Recvm(ts, m).r)
         /\ Recvm(ts, m).r \in Rs => SameReport(Recvm(ts, m).r, rs') /\ rs'.missed = Recvm(ts, m).r.missed
  BY <1>1
<1>3. PICK e, g, K : e = Recvm(ts, m).r /\ g = Eff(e, given) /\ K = Len(Since(e))
  OBVIOUS
<1>4. CallOK(g, K, user.calls + 1, ts, e, Recvm(ts, m).mp) /\ e.fresh = rtp_recv(rs, m).fresh
  BY <1>2, <1>3, RecvmKeeps
<1>5. SameReport(e, rs') /\ rs'.missed = e.missed
  BY <1>2, <1>3, <1>4 DEF CallOK
<1>9. Caught(rs, rs')
  <2>1. e.missed = rtp_recv(rs, m).missed /\ Caught(rs, rtp_recv(rs, m))
    BY <1>2, <1>3, RecvmKeeps
  <2> QED BY <1>5, <2>1 DEF Caught
<1>6. PICK q \in Rs : /\ SameReport(rtp_recv(rs, m), q)
                      /\ SameReport(q, e) \/ RtcpStep(q, ts, e)
  BY <1>2, <1>3, RecvmKeeps
<1>7. SameReport(q, rs') \/ RtcpStep(q, ts, rs')
  BY <1>5, <1>6 DEF SameReport, RtcpStep
<1>8. net' = NetAfter(rtp_recv(rs, m))
  BY <1>2, <1>3, <1>4 DEF NetAfter
<1> QED BY <1>2, <1>6, <1>7, <1>8, <1>9

(* With a limit on jumps that keeps the far future away from the old       *)
(* packets, no old packet gets past the test: the application gets every   *)
(* packet once and in the sender's order, whatever the network and the     *)
(* handler of timestamp_jump do (rtp_parse; the default of 5000 ms is such *)
(* a limit, unless the stream spans almost half of the timestamps).        *)
THEOREM LimitKeepsOrder == ASSUME JumpFar PROVE RecvSpec => []InSendersOrder
<1>1. RecvInit => ~rs.missed
  <2>1. SUFFICES ASSUME RecvInit PROVE ~rs.missed
    OBVIOUS
  <2> QED BY <2>1 DEF RecvInit
<1>2. OrderIInv /\ ~rs.missed /\ [RecvNext]_recvVars => (~rs.missed)'
  <2>1. SUFFICES ASSUME OrderIInv, ~rs.missed, [RecvNext]_recvVars PROVE ~rs'.missed
    OBVIOUS
  <2>2. rs \in Rs
    BY <2>1 DEF OrderIInv
  <2>3. CASE rtp_session_recvm_with_ts \/ rtp_session_recv_with_ts
    BY <2>1, <2>3, CallReports DEF Caught
  <2>4. CASE set_recv_payload_type
    BY <2>1, <2>2, <2>4 DEF set_recv_payload_type, UpdatePayloadType, Rs
  <2>5. CASE set_jitter_compensation
    BY <2>1, <2>2, <2>5 DEF set_jitter_compensation, Rs
  <2>6. CASE rtp_session_reset
    BY <2>2, <2>6 DEF rtp_session_reset, Reset, Rs
  <2>7. CASE (\E n \in Packets : Arrives(n)) \/ RuntArrives \/ UNCHANGED recvVars
    BY <2>1, <2>7 DEF Arrives, RuntArrives, recvVars
  <2> QED BY <2>1, <2>3, <2>4, <2>5, <2>6, <2>7 DEF RecvNext
<1>3. RecvSpec => []~rs.missed
  BY <1>1, <1>2, OrderInductive, PTL DEF RecvSpec
<1>4. OrderInv /\ ~rs.missed => InSendersOrder
  BY DEF OrderInv, DeliveredInOrder
<1> QED BY <1>3, <1>4, OrderInvariant, PTL

(* What the network does next, as it is after a step. *)
FollowsThen(t, n, u) ==
  IF n = Runt THEN u = t
  ELSE /\ u = IF n > t THEN n ELSE t
       /\ n <= t + MaxGap /\ t <= n + MaxGap
       /\ net'.calm /\ n < t => SnOf(n) < SnOf(t)
       /\ net'.inOrder => n > t
       /\ Clean' => n \notin Bad

(* The report's invariant in the next state, from what is known of it. *)
LEMMA ReportNext ==
  ASSUME NEW U \in [0 .. Len(sock') -> 0 .. N], U[Len(sock')] = net'.top,
         \A k \in 1 .. Len(sock') : FollowsThen(U[k - 1], sock'[k], U[k]),
         Clean' => ExtOK(rs', U[0]),
         net' \in [arrivals : Nat, top : 0 .. N, inOrder : BOOLEAN, calm : BOOLEAN],
         net'.inOrder => net'.calm, net'.inOrder => LossOK(rs')
  PROVE  ReportIInv'
<1>1. (\E V \in [0 .. Len(sock) -> 0 .. N] : Tops(V) /\ (Clean => ExtOK(rs, V[0])))'
  BY DEF Tops, Follows, FollowsThen
<1> QED BY <1>1 DEF ReportIInv

(* A call of the application keeps the report right. *)
LEMMA CallsKeepReport ==
  ASSUME FirstSeq + MaxGap < SnMod, OrderIInv, ReportIInv, OrderIInv',
         rtp_session_recvm_with_ts \/ rtp_session_recv_with_ts
  PROVE  ReportIInv'
<1>1. PICK m \in 0 .. Len(sock) :
         /\ sock' = SubSeq(sock, m + 1, Len(sock)) /\ net' = NetAfter(rtp_recv(rs, m))
         /\ \E q \in Rs : /\ SameReport(rtp_recv(rs, m), q)
                          /\ SameReport(q, rs') \/ \E ts : RtcpStep(q, ts, rs')
  BY CallReports
<1>2. PICK q \in Rs : /\ SameReport(rtp_recv(rs, m), q)
                      /\ SameReport(q, rs') \/ \E ts : RtcpStep(q, ts, rs')
  BY <1>1
<1>3. PICK T \in [0 .. Len(sock) -> 0 .. N] : Tops(T) /\ (Clean => ExtOK(rs, T[0]))
  BY DEF ReportIInv
<1>4. /\ sock \in Seq(Packets \cup {Runt}) /\ Len(sock) \in Nat /\ m \in Nat /\ rs' \in Rs
      /\ net \in [arrivals : Nat, top : 0 .. N, inOrder : BOOLEAN, calm : BOOLEAN]
      /\ (net.inOrder => net.calm) /\ (net.inOrder => Clean)
  BY LenProperties DEF OrderIInv, ReportIInv, Clean
<1>5. PICK f : f = rtp_recv(rs, m).fresh
  OBVIOUS
<1>6. /\ net' = [net EXCEPT !.inOrder = @ /\ ~f, !.calm = @ /\ ~f]
      /\ net'.top = net.top /\ net'.arrivals = net.arrivals
      /\ net'.inOrder = (net.inOrder /\ ~f) /\ net'.calm = (net.calm /\ ~f)
  BY <1>1, <1>4, <1>5 DEF NetAfter
<1>7. net' \in [arrivals : Nat, top : 0 .. N, inOrder : BOOLEAN, calm : BOOLEAN]
  <2>1. PICK a \in BOOLEAN, b \in BOOLEAN : a = (net.inOrder /\ ~f) /\ b = (net.calm /\ ~f)
    OBVIOUS
  <2>2. net' = [net EXCEPT !.inOrder = a, !.calm = b]
    BY <1>6, <2>1
  <2> QED BY ONLY <1>4, <2>2, a \in BOOLEAN, b \in BOOLEAN
<1>8. /\ net'.calm => net.calm /\ ~f
      /\ net'.inOrder => net.inOrder /\ net'.calm /\ ~f
      /\ Clean' => Clean /\ ~f
  BY <1>4, <1>6 DEF Clean
<1>9. ASSUME ~f PROVE (Clean => ExtOK(q, T[m])) /\ (net.inOrder => LossOK(q))
  BY <1>2, <1>3, <1>5, <1>9, RecvReports, ReportSame
<1>10. ASSUME ~f, Clean PROVE ExtOK(rs', T[m])
  <2>1. Ext(rs') = Ext(q)
    BY <1>2, ReportSame DEF RtcpStep, Ext
  <2> QED BY <1>9, <1>10, <2>1 DEF ExtOK
<1>11. ASSUME ~f, net.inOrder PROVE LossOK(rs')
  <2>1. CASE SameReport(q, rs')
    BY <1>9, <1>11, <2>1, ReportSame
  <2>2. CASE \E ts : RtcpStep(q, ts, rs')
    <3>1. ExtOK(q, T[m]) /\ LossOK(q)
      BY <1>4, <1>9, <1>11
    <3>2. FirstSeq + N < ExtMod
      BY RecvConstants
    <3>3. PICK t \in 0 .. N : t = T[m]
      OBVIOUS
    <3>4. Ext(q) < ExtMod
      BY <3>1, <3>2, <3>3, Numbers DEF ExtOK
    <3> QED BY <1>4, <2>2, <3>1, <3>4, LossReported
  <2> QED BY <1>2, <2>1, <2>2
<1>12. PICK L \in Nat, l \in Nat : L = Len(sock) /\ l + m = L
  <2>1. Len(sock) - m \in Nat /\ (Len(sock) - m) + m = Len(sock)
    BY <1>4
  <2> QED BY <1>4, <2>1
<1>13. Len(sock') = l /\ \A k \in 1 .. l : sock'[k] = sock[k + m]
  <2>1. m + 1 \in Nat /\ 1 <= m + 1 /\ m + 1 <= Len(sock) + 1
    BY <1>4
  <2>2. /\ Len(sock') = Len(sock) + 1 - (m + 1)
        /\ \A k \in 1 .. Len(sock) + 1 - (m + 1) : sock'[k] = sock[k + (m + 1) - 1]
    BY <1>1, <1>4, <2>1, Slice
  <2>3. Len(sock) + 1 - (m + 1) = l /\ \A k \in 1 .. l : k + (m + 1) - 1 = k + m
    BY <1>4, <1>12
  <2> QED BY <2>2, <2>3
<1>14. PICK U : U = [k \in 0 .. l |-> T[k + m]]
  OBVIOUS
<1>15. \A k \in 0 .. l : k + m \in 0 .. Len(sock)
  BY <1>12
<1>16. /\ U \in [0 .. Len(sock') -> 0 .. N] /\ U[0] = T[m]
       /\ \A k \in 0 .. l : U[k] = T[k + m]
  BY <1>13, <1>14, <1>15
<1>17. T[L] = net.top /\ \A k \in 1 .. L : Follows(T[k - 1], sock[k], T[k])
  BY <1>3, <1>12 DEF Tops
<1>18. U[Len(sock')] = net'.top
  BY <1>6, <1>12, <1>13, <1>16, <1>17
<1>19. ASSUME NEW k \in 1 .. Len(sock') PROVE FollowsThen(U[k - 1], sock'[k], U[k])
  <2>1. k \in 1 .. l /\ k - 1 \in 0 .. l /\ k \in 0 .. l /\ k + m \in 1 .. L /\ (k - 1) + m = (k + m) - 1
    BY <1>12, <1>13
  <2>2. PICK i : i = k + m
    OBVIOUS
  <2>3. U[k - 1] = T[i - 1] /\ U[k] = T[i] /\ sock'[k] = sock[i] /\ i \in 1 .. L
    BY <1>13, <1>16, <2>1, <2>2
  <2>4. Follows(T[i - 1], sock[i], T[i])
    BY <1>17, <2>3
  <2>5. FollowsThen(T[i - 1], sock[i], T[i])
    BY <1>8, <2>4 DEF Follows, FollowsThen
  <2> QED BY <2>3, <2>5
<1> QED BY <1>7, <1>8, <1>10, <1>11, <1>16, <1>18, <1>19, ReportNext

(* A packet's arrival keeps the report right. *)
LEMMA ArrivalKeepsReport ==
  ASSUME OrderIInv, ReportIInv, NEW n \in Packets, Arrives(n)
  PROVE  ReportIInv'
<1>1. /\ sock \in Seq(Packets \cup {Runt}) /\ Len(sock) \in Nat
      /\ net \in [arrivals : Nat, top : 0 .. N, inOrder : BOOLEAN, calm : BOOLEAN]
      /\ (net.inOrder => net.calm) /\ (net.inOrder => LossOK(rs))
  BY LenProperties DEF OrderIInv, ReportIInv
<1>2. PICK T \in [0 .. Len(sock) -> 0 .. N] : Tops(T) /\ (Clean => ExtOK(rs, T[0]))
  BY DEF ReportIInv
<1>3. /\ n \in 1 .. N /\ n \in Nat /\ n # Runt /\ net.top \in Nat /\ net.top <= N /\ net.arrivals \in Nat
      /\ net.inOrder \in BOOLEAN /\ net.calm \in BOOLEAN
  BY <1>1, Numbers DEF Packets, Runt
<1>4. PICK u \in 0 .. N : u = IF n > net.top THEN n ELSE net.top
  BY <1>1, <1>3, Numbers
<1>5. /\ sock' = Append(sock, n) /\ rs' = rs
      /\ n <= net.top + MaxGap /\ net.top <= n + MaxGap
      /\ net' = [arrivals |-> net.arrivals + 1, top |-> u,
                 inOrder |-> net.inOrder /\ n > net.top /\ n \notin Bad,
                 calm |-> net.calm /\ (n < net.top => SnOf(n) < SnOf(net.top))]
  BY <1>4 DEF Arrives
<1>6. /\ net'.top = u /\ net'.arrivals = net.arrivals + 1
      /\ net'.inOrder = (net.inOrder /\ n > net.top /\ n \notin Bad)
      /\ net'.calm = (net.calm /\ (n < net.top => SnOf(n) < SnOf(net.top)))
  BY <1>5
<1>7. /\ Len(sock') = Len(sock) + 1 /\ sock'[Len(sock) + 1] = n
      /\ \A k \in 1 .. Len(sock) : sock'[k] = sock[k]
  BY <1>1, <1>5, AppendProperties
<1>8. /\ net'.inOrder => net.inOrder /\ n > net.top /\ n \notin Bad
      /\ net'.calm => net.calm /\ (n < net.top => SnOf(n) < SnOf(net.top))
  BY <1>6
<1>9. BadFromThenOn /\ u \notin Bad => net.top \notin Bad /\ n \notin Bad
  <2>1. SUFFICES ASSUME BadFromThenOn, u \notin Bad PROVE net.top \notin Bad /\ n \notin Bad
    OBVIOUS
  <2>2. n <= u /\ net.top <= u /\ u \in Packets
    BY <1>3, <1>4, Numbers DEF Packets
  <2> QED BY <2>1, <2>2 DEF BadFromThenOn
<1>10. Clean' => Clean /\ n \notin Bad
  BY <1>6, <1>8, <1>9 DEF Clean
<1>12. PICK L \in Nat : L = Len(sock)
  BY <1>1
<1>13. PICK U : U = [k \in 0 .. L + 1 |-> IF k = L + 1 THEN u ELSE T[k]]
  OBVIOUS
<1>14. /\ U \in [0 .. Len(sock') -> 0 .. N] /\ U[L + 1] = u /\ U[0] = T[0]
       /\ \A k \in 0 .. L : U[k] = T[k]
  BY <1>4, <1>7, <1>12, <1>13
<1>15. T[L] = net.top /\ \A k \in 1 .. L : Follows(T[k - 1], sock[k], T[k])
  BY <1>2, <1>12 DEF Tops
<1>16. ASSUME NEW k \in 1 .. L + 1 PROVE FollowsThen(U[k - 1], sock'[k], U[k])
  <2>1. CASE k = L + 1
    <3>1. U[k] = u /\ U[k - 1] = net.top /\ sock'[k] = n
      BY <1>7, <1>12, <1>14, <1>15, <2>1
    <3> QED BY <1>3, <1>4, <1>5, <1>8, <1>10, <3>1 DEF FollowsThen
  <2>2. CASE k # L + 1
    <3>1. k \in 1 .. L /\ k \in 0 .. L /\ k - 1 \in 0 .. L
      BY <2>2
    <3>2. U[k] = T[k] /\ U[k - 1] = T[k - 1] /\ sock'[k] = sock[k]
      BY <1>7, <1>12, <1>14, <3>1
    <3>3. Follows(T[k - 1], sock[k], T[k])
      BY <1>15, <3>1
    <3>4. FollowsThen(T[k - 1], sock[k], T[k])
      BY <1>8, <1>10, <3>3 DEF Follows, FollowsThen
    <3> QED BY <3>2, <3>4
  <2> QED BY <2>1, <2>2
<1>17. U[Len(sock')] = net'.top /\ \A k \in 1 .. Len(sock') : FollowsThen(U[k - 1], sock'[k], U[k])
  BY <1>6, <1>7, <1>12, <1>14, <1>16
<1>18. Clean' => ExtOK(rs', U[0])
  BY <1>2, <1>5, <1>10, <1>14
<1>20. net' \in [arrivals : Nat, top : 0 .. N, inOrder : BOOLEAN, calm : BOOLEAN]
  BY ONLY <1>3, <1>5, u \in 0 .. N
<1>21. (net'.inOrder => net'.calm) /\ (net'.inOrder => LossOK(rs'))
  <2>1. net'.inOrder => ~(n < net.top)
    BY <1>3, <1>8
  <2> QED BY <1>1, <1>5, <1>6, <1>8, <2>1
<1> QED BY <1>14, <1>17, <1>18, <1>20, <1>21, ReportNext

(* So does a datagram that is too short. *)
LEMMA RuntKeepsReport ==
  ASSUME OrderIInv, ReportIInv, RuntArrives
  PROVE  ReportIInv'
<1>1. /\ sock \in Seq(Packets \cup {Runt}) /\ Len(sock) \in Nat
      /\ net \in [arrivals : Nat, top : 0 .. N, inOrder : BOOLEAN, calm : BOOLEAN]
      /\ (net.inOrder => net.calm) /\ (net.inOrder => LossOK(rs))
  BY LenProperties DEF OrderIInv, ReportIInv
<1>2. PICK T \in [0 .. Len(sock) -> 0 .. N] : Tops(T) /\ (Clean => ExtOK(rs, T[0]))
  BY DEF ReportIInv
<1>3. PICK a \in Nat : a = net.arrivals + 1
  BY <1>1
<1>4. sock' = Append(sock, Runt) /\ rs' = rs /\ net' = [net EXCEPT !.arrivals = a]
  BY <1>3 DEF RuntArrives
<1>5. /\ net' \in [arrivals : Nat, top : 0 .. N, inOrder : BOOLEAN, calm : BOOLEAN]
      /\ net'.top = net.top /\ net'.inOrder = net.inOrder /\ net'.calm = net.calm
  BY ONLY <1>1, <1>4, a \in Nat
<1>6. Clean' <=> Clean
  BY <1>5 DEF Clean
<1>7. /\ Len(sock') = Len(sock) + 1 /\ sock'[Len(sock) + 1] = Runt
      /\ \A k \in 1 .. Len(sock) : sock'[k] = sock[k]
  BY <1>1, <1>4, AppendProperties
<1>8. PICK L \in Nat : L = Len(sock)
  BY <1>1
<1>9. PICK U : U = [k \in 0 .. L + 1 |-> IF k = L + 1 THEN T[L] ELSE T[k]]
  OBVIOUS
<1>10. /\ U \in [0 .. Len(sock') -> 0 .. N] /\ U[L + 1] = T[L] /\ U[0] = T[0]
       /\ \A k \in 0 .. L : U[k] = T[k]
  BY <1>7, <1>8, <1>9
<1>11. T[L] = net.top /\ \A k \in 1 .. L : Follows(T[k - 1], sock[k], T[k])
  BY <1>2, <1>8 DEF Tops
<1>12. ASSUME NEW k \in 1 .. L + 1 PROVE FollowsThen(U[k - 1], sock'[k], U[k])
  <2>1. CASE k = L + 1
    <3>1. U[k] = T[L] /\ U[k - 1] = T[L] /\ sock'[k] = Runt
      BY <1>7, <1>8, <1>10, <2>1
    <3> QED BY <3>1 DEF FollowsThen
  <2>2. CASE k # L + 1
    <3>1. k \in 1 .. L /\ k \in 0 .. L /\ k - 1 \in 0 .. L
      BY <2>2
    <3>2. U[k] = T[k] /\ U[k - 1] = T[k - 1] /\ sock'[k] = sock[k]
      BY <1>7, <1>8, <1>10, <3>1
    <3>3. Follows(T[k - 1], sock[k], T[k])
      BY <1>11, <3>1
    <3>4. FollowsThen(T[k - 1], sock[k], T[k])
      BY <1>5, <1>6, <3>3 DEF Follows, FollowsThen
    <3> QED BY <3>2, <3>4
  <2> QED BY <2>1, <2>2
<1>13. U[Len(sock')] = net'.top /\ \A k \in 1 .. Len(sock') : FollowsThen(U[k - 1], sock'[k], U[k])
  BY <1>5, <1>7, <1>8, <1>10, <1>11, <1>12
<1>14. Clean' => ExtOK(rs', U[0])
  BY <1>2, <1>4, <1>6, <1>10
<1> QED BY <1>1, <1>4, <1>5, <1>10, <1>13, <1>14, ReportNext

(* The other steps keep it. *)
LEMMA OthersKeepReport ==
  ASSUME OrderIInv, ReportIInv,
         \/ set_recv_payload_type \/ set_jitter_compensation \/ rtp_session_reset
         \/ UNCHANGED recvVars
  PROVE  ReportIInv'
<1>1. rs \in Rs /\ net \in [arrivals : Nat, top : 0 .. N, inOrder : BOOLEAN, calm : BOOLEAN]
  BY DEF OrderIInv, ReportIInv
<1>2. PICK T \in [0 .. Len(sock) -> 0 .. N] : Tops(T) /\ (Clean => ExtOK(rs, T[0]))
  BY DEF ReportIInv
<1>a. ASSUME sock' = sock, net'.top = net.top, net'.calm => net.calm,
             net'.inOrder => net.inOrder, Clean' => Clean
      PROVE  /\ T \in [0 .. Len(sock') -> 0 .. N] /\ T[Len(sock')] = net'.top
             /\ \A k \in 1 .. Len(sock') : FollowsThen(T[k - 1], sock'[k], T[k])
  BY <1>2, <1>a DEF Tops, Follows, FollowsThen
<1>3. CASE rtp_session_reset
  <2>1. sock' = sock /\ net' = [net EXCEPT !.inOrder = FALSE, !.calm = FALSE]
    BY <1>3 DEF rtp_session_reset
  <2>2. net' \in [arrivals : Nat, top : 0 .. N, inOrder : BOOLEAN, calm : BOOLEAN]
        /\ net'.top = net.top /\ ~net'.inOrder /\ ~net'.calm
    BY <1>1, <2>1
  <2>3. ~Clean'
    BY <2>2 DEF Clean
  <2> QED BY <1>a, <2>1, <2>2, <2>3, ReportNext
<1>4. ASSUME sock' = sock, net' = net, SameReport(rs, rs') PROVE ReportIInv'
  <2>1. (LossOK(rs) <=> LossOK(rs')) /\ \A t : ExtOK(rs, t) <=> ExtOK(rs', t)
    BY <1>4, ReportSame
  <2>2. Clean' <=> Clean
    BY <1>4 DEF Clean
  <2>3. (net.inOrder => net.calm) /\ (net.inOrder => LossOK(rs))
    BY DEF ReportIInv
  <2> QED BY <1>1, <1>2, <1>4, <1>a, <2>1, <2>2, <2>3, ReportNext
<1>5. CASE UNCHANGED recvVars
  BY <1>4, <1>5 DEF recvVars, SameReport
<1>6. CASE set_recv_payload_type
  <2>1. rs' = [UpdatePayloadType(rs, "known") EXCEPT !.pt = "known"] /\ UNCHANGED <<sock, net>>
    BY <1>6 DEF set_recv_payload_type
  <2>2. SameReport(rs, rs')
    BY <1>1, <2>1 DEF UpdatePayloadType, Rs, SameReport
  <2> QED BY <1>4, <2>1, <2>2
<1>7. CASE set_jitter_compensation
  <2>1. /\ \E ms \in Jitter : rs' = IF rs.pt = "none" THEN rs ELSE [rs EXCEPT !.comp = ms, !.jitt = ms]
        /\ UNCHANGED <<sock, net>>
    BY <1>7 DEF set_jitter_compensation
  <2>2. SameReport(rs, rs')
    BY <1>1, <2>1 DEF Rs, SameReport
  <2> QED BY <1>4, <2>1, <2>2
<1> QED BY <1>3, <1>5, <1>6, <1>7

(* It holds at first. *)
LEMMA ReportInit == ASSUME RecvInit PROVE ReportIInv
<1>1. /\ sock = <<>> /\ Len(sock) = 0 /\ net = [arrivals |-> 0, top |-> 0, inOrder |-> TRUE, calm |-> TRUE]
      /\ rs.hi = 0 /\ rs.lo = 0 /\ rs.atSR = 0 /\ rs.cum = 0
  BY DEF RecvInit
<1>2. Ext(rs) = 0
  BY <1>1, Numbers DEF Ext
<1>3. 0 \in 0 .. N /\ 0 \in Nat /\ TRUE \in BOOLEAN
  BY Numbers
<1>4. net \in [arrivals : Nat, top : 0 .. N, inOrder : BOOLEAN, calm : BOOLEAN] /\ net.top = 0 /\ net.calm
  BY ONLY <1>1, <1>3
<1>5. PICK T : T = [k \in 0 .. 0 |-> 0]
  OBVIOUS
<1>6. T \in [0 .. Len(sock) -> 0 .. N] /\ T[0] = 0
  BY <1>1, <1>3, <1>5
<1>7. Tops(T) /\ ExtOK(rs, T[0])
  BY <1>1, <1>2, <1>4, <1>6 DEF Tops, ExtOK
<1>8. LossOK(rs)
  BY <1>1 DEF LossOK
<1> QED BY <1>4, <1>6, <1>7, <1>8 DEF ReportIInv

(* The invariant of the report is inductive, where the packets that come   *)
(* first are in front of the end of the range.                             *)
LEMMA ReportInductive ==
  ASSUME FirstSeq + MaxGap < SnMod
  PROVE  RecvSpec => [](OrderIInv /\ ReportIInv)
<1>1. RecvInit => OrderIInv /\ ReportIInv
  BY OrderInit, ReportInit
<1>2. OrderIInv /\ ReportIInv /\ [RecvNext]_recvVars => OrderIInv' /\ ReportIInv'
  <2>1. SUFFICES ASSUME OrderIInv, ReportIInv, [RecvNext]_recvVars PROVE OrderIInv' /\ ReportIInv'
    OBVIOUS
  <2>2. OrderIInv'
    BY <2>1, CallsKeepOrder, OthersKeepOrder DEF RecvNext
  <2>3. ReportIInv'
    BY <2>1, <2>2, CallsKeepReport, ArrivalKeepsReport, RuntKeepsReport, OthersKeepReport DEF RecvNext
  <2> QED BY <2>2, <2>3
<1> QED BY <1>1, <1>2, PTL DEF RecvSpec

(* While packets come in order, the losses the reports add up are the      *)
(* numbers that are missing, in unsigned arithmetic and over the end of    *)
(* the 16 bits: for every stream that starts further than the longest gap  *)
(* from the end of the range (report_block_init, rtp_parse).               *)
THEOREM LossInvariant ==
  ASSUME FirstSeq + MaxGap < SnMod
  PROVE  RecvSpec => []LossIsReal
<1>1. OrderIInv /\ ReportIInv => LossIsReal
  BY DEF ReportIInv, LossOK, LossIsReal
<1>2. RecvSpec => [](OrderIInv /\ ReportIInv)
  BY ReportInductive
<1> QED BY <1>1, <1>2, PTL

(* And hwrcv_extseq is the highest number received, also when packets are  *)
(* lost, repeated and overtaken, for a sender that does not come back to   *)
(* version 2 after packets of another one (rtp_parse).                     *)
THEOREM ReportInvariant ==
  ASSUME FirstSeq + MaxGap < SnMod, BadFromThenOn
  PROVE  RecvSpec => []ReportInv
<1>1. OrderIInv /\ ReportIInv => ReportInv
  <2>1. SUFFICES ASSUME OrderIInv, ReportIInv PROVE ReportInv
    OBVIOUS
  <2>2. LossIsReal
    BY <2>1 DEF ReportIInv, LossOK, LossIsReal
  <2>3. ASSUME net.calm, sock = <<>>, net.top \in {n \in Packets \ Bad : n <= net.top}
        PROVE  rs.hi * SnMod + rs.lo = FirstSeq + net.top
    <3>1. PICK T \in [0 .. Len(sock) -> 0 .. N] : Tops(T) /\ (Clean => ExtOK(rs, T[0]))
      BY <2>1 DEF ReportIInv
    <3>2. Clean /\ net.top # 0
      BY <2>3, Numbers DEF Clean, Packets
    <3>3. T[0] = net.top
      BY <2>3, <3>1 DEF Tops
    <3> QED BY <3>1, <3>2, <3>3 DEF ExtOK, Ext
  <2>4. ExtSeqIsHighest
    BY <2>3 DEF ExtSeqIsHighest
  <2> QED BY <2>2, <2>4 DEF ReportInv
<1>2. RecvSpec => [](OrderIInv /\ ReportIInv)
  BY ReportInductive
<1> QED BY <1>1, <1>2, PTL
=============================================================================
