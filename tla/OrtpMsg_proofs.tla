-------------------------- MODULE OrtpMsg_proofs ---------------------------
(***************************************************************************)
(* The message blocks of an oRTP session for any memory, any queue length  *)
(* and any number of calls: a block is in use exactly as long as somebody  *)
(* holds it, and every header goes out in network order.                   *)
(*                                                                         *)
(* Two facts carry the proof and neither is in what is proved.  No block   *)
(* is in two messages outside a call, although dupmsg shares blocks within *)
(* one: so a count is what the parts of one message say, and freeing a     *)
(* message never frees a part of another.  And no held block has a header  *)
(* in network order, so the one that is sent is converted once.  A call    *)
(* goes through states that are Good(s, n, D): n blocks can still be       *)
(* allocated, and only the blocks of D have just been read from the wire.  *)
(***************************************************************************)
EXTENDS OrtpMsg, SequenceTheorems, FiniteSetTheorems, WellFoundedInduction, TLAPS

(* Every set of naturals that is not empty has a least element. *)
LEMMA LeastElement ==
  ASSUME NEW S \in SUBSET Nat, S # {}
  PROVE  \E i \in S : \A j \in S : i <= j
<1>1. PICK R : R = OpToRel(<, Nat)
  OBVIOUS
<1>2. PICK x \in S : \A y \in S : ~(<<y, x>> \in R)
  BY <1>1, NatLessThanWellFounded, WFMin, Zenon
<1>3. \A y, z \in Nat : y < z => <<y, z>> \in R
  BY <1>1 DEF OpToRel
<1>4. ASSUME NEW y \in S PROVE x <= y
  <2>1. x \in Nat /\ y \in Nat /\ ~(y < x)
    BY <1>2, <1>3, Zenon
  <2> QED BY <2>1
<1> QED BY <1>4

(* A set of numbers that has 0 and with each number the next has them all. *)
LEMMA UpTo ==
  ASSUME NEW m \in Nat, NEW S, 0 \in S, \A k \in 1 .. m : k - 1 \in S => k \in S
  PROVE  m \in S
<1> SUFFICES ASSUME m \notin S PROVE FALSE
  OBVIOUS
<1> DEFINE M == {k \in 0 .. m : k \notin S}
<1>1. M \in SUBSET Nat /\ m \in M
  OBVIOUS
<1>2. PICK i \in M : \A j \in M : i <= j
  BY <1>1, LeastElement
<1>3. i \in 1 .. m /\ i - 1 \in 0 .. m
  BY <1>2
<1>4. i - 1 \notin M
  BY <1>2, <1>3
<1>5. i - 1 \in S
  BY <1>3, <1>4
<1> QED BY <1>2, <1>3, <1>5

-----------------------------------------------------------------------------
(* The message blocks. *)
Messages == Seq(Ids)

(* How often a message points to a block is a number, zero if it does not. *)
LEMMA OccurrencesNat ==
  ASSUME NEW m \in Messages, NEW b
  PROVE  /\ IsFiniteSet({i \in DOMAIN m : m[i] = b}) /\ Occurrences(m, b) \in Nat
         /\ Occurrences(m, b) = 0 <=> b \notin ToSet(m)
<1>1. DOMAIN m = 1 .. Len(m) /\ Len(m) \in Nat
  BY LenProperties DEF Messages
<1>2. IsFiniteSet(1 .. Len(m))
  BY <1>1, FS_Interval
<1>3. IsFiniteSet({i \in DOMAIN m : m[i] = b})
  BY <1>1, <1>2, FS_Subset
<1>4. Occurrences(m, b) \in Nat
  BY <1>3, FS_CardinalityType DEF Occurrences
<1>5. Occurrences(m, b) = 0 <=> {i \in DOMAIN m : m[i] = b} = {}
  BY <1>3, FS_EmptySet DEF Occurrences
<1> QED BY <1>3, <1>4, <1>5 DEF ToSet

(* A block appended to a message. *)
LEMMA OccurrencesAppend ==
  ASSUME NEW m \in Messages, NEW c \in Ids, NEW b
  PROVE  /\ Append(m, c) \in Messages /\ ToSet(Append(m, c)) = ToSet(m) \cup {c}
         /\ Occurrences(Append(m, c), b) = Occurrences(m, b) + (IF b = c THEN 1 ELSE 0)
<1>1. DOMAIN m = 1 .. Len(m) /\ Len(m) \in Nat
  BY LenProperties DEF Messages
<1>2. PICK a : a = Append(m, c)
  OBVIOUS
<1>3. /\ a \in Messages /\ DOMAIN a = 1 .. Len(m) + 1 /\ a[Len(m) + 1] = c
      /\ \A i \in 1 .. Len(m) : a[i] = m[i]
  BY <1>1, <1>2, AppendProperties, LenProperties DEF Messages
<1>4. ToSet(a) = ToSet(m) \cup {c}
  <2>1. \A i \in 1 .. Len(m) + 1 : i \in 1 .. Len(m) \/ i = Len(m) + 1
    BY <1>1
  <2>2. Len(m) + 1 \in 1 .. Len(m) + 1 /\ \A i \in 1 .. Len(m) : i \in 1 .. Len(m) + 1
    BY <1>1
  <2> QED BY <1>1, <1>3, <2>1, <2>2 DEF ToSet
<1>5. PICK S, A : S = {i \in DOMAIN m : m[i] = b} /\ A = {i \in DOMAIN a : a[i] = b}
  OBVIOUS
<1>6. /\ IsFiniteSet(S) /\ Len(m) + 1 \notin S
      /\ Cardinality(S) = Occurrences(m, b) /\ Cardinality(S) \in Nat
  <2>1. Len(m) + 1 \notin 1 .. Len(m)
    BY <1>1
  <2>2. S \subseteq 1 .. Len(m)
    BY <1>1, <1>5
  <2>3. Cardinality(S) = Occurrences(m, b)
    BY <1>5 DEF Occurrences
  <2> QED BY <1>5, <2>1, <2>2, <2>3, OccurrencesNat
<1>7. A = IF b = c THEN S \cup {Len(m) + 1} ELSE S
  BY <1>1, <1>3, <1>5
<1>8. Cardinality(A) = Cardinality(S) + (IF b = c THEN 1 ELSE 0)
  <2>1. CASE b = c
    BY <1>6, <1>7, <2>1, FS_AddElement
  <2>2. CASE b # c
    BY <1>6, <1>7, <2>2
  <2> QED BY <2>1, <2>2
<1> QED BY <1>2, <1>3, <1>4, <1>5, <1>6, <1>8 DEF Occurrences

(* Two messages one behind the other. *)
LEMMA OccurrencesConcat ==
  ASSUME NEW m \in Messages, NEW n \in Messages, NEW b
  PROVE  /\ m \o n \in Messages /\ ToSet(m \o n) = ToSet(m) \cup ToSet(n)
         /\ Occurrences(m \o n, b) = Occurrences(m, b) + Occurrences(n, b)
<1>1. /\ DOMAIN m = 1 .. Len(m) /\ Len(m) \in Nat /\ DOMAIN n = 1 .. Len(n) /\ Len(n) \in Nat
  BY LenProperties DEF Messages
<1>L. PICK L \in Nat, M \in Nat : L = Len(m) /\ M = Len(n)
  BY <1>1
<1>a. PICK a : a = m \o n
  OBVIOUS
<1>2. a = m \o n /\ L = Len(m) /\ M = Len(n)
  BY <1>L, <1>a
<1>3. /\ a \in Messages /\ DOMAIN a = 1 .. L + M
      /\ \A i \in 1 .. L : a[i] = m[i]
      /\ \A i \in 1 .. M : a[L + i] = n[i]
  <2>1. a \in Messages /\ Len(a) = L + M
    BY <1>2, ConcatProperties DEF Messages
  <2>2. \A i \in 1 .. L + M : a[i] = IF i <= L THEN m[i] ELSE n[i - L]
    BY <1>2, ConcatProperties DEF Messages
  <2>3. \A i \in 1 .. L : i \in 1 .. L + M /\ i <= L
    OBVIOUS
  <2>4. \A i \in 1 .. M : L + i \in 1 .. L + M /\ ~(L + i <= L) /\ (L + i) - L = i
    OBVIOUS
  <2>5. DOMAIN a = 1 .. L + M
    BY <2>1, LenProperties DEF Messages
  <2> QED BY <2>1, <2>2, <2>3, <2>4, <2>5
<1>4. \A i \in 1 .. L + M : i \in 1 .. L \/ \E j \in 1 .. M : i = L + j
  <2> SUFFICES ASSUME NEW i \in 1 .. L + M, i \notin 1 .. L PROVE \E j \in 1 .. M : i = L + j
    OBVIOUS
  <2>1. i - L \in 1 .. M /\ i = L + (i - L)
    OBVIOUS
  <2> QED BY <2>1
<1>5. ToSet(a) = ToSet(m) \cup ToSet(n)
  <2>1. /\ \A i \in 1 .. L : i \in 1 .. L + M
        /\ \A i \in 1 .. M : L + i \in 1 .. L + M
    OBVIOUS
  <2>2. \A v : v \in ToSet(a) <=> \E i \in 1 .. L + M : a[i] = v
    BY <1>3 DEF ToSet
  <2>3. \A v : v \in ToSet(m) <=> \E i \in 1 .. L : m[i] = v
    BY <1>1, <1>2 DEF ToSet
  <2>4. \A v : v \in ToSet(n) <=> \E i \in 1 .. M : n[i] = v
    BY <1>1, <1>2 DEF ToSet
  <2>5. ASSUME NEW v \in ToSet(a) PROVE v \in ToSet(m) \cup ToSet(n)
    <3>1. PICK i \in 1 .. L + M : a[i] = v
      BY <2>2, <2>5
    <3>2. CASE i \in 1 .. L
      BY <1>3, <2>3, <3>1, <3>2
    <3>3. CASE i \notin 1 .. L
      BY <1>3, <1>4, <2>4, <3>1, <3>3
    <3> QED BY <3>2, <3>3
  <2>6. ASSUME NEW v \in ToSet(m) PROVE v \in ToSet(a)
    BY <1>3, <2>1, <2>2, <2>3, <2>6
  <2>7. ASSUME NEW v \in ToSet(n) PROVE v \in ToSet(a)
    BY <1>3, <2>1, <2>2, <2>4, <2>7
  <2> QED BY <2>5, <2>6, <2>7
<1>6. PICK S, T, A : /\ S = {i \in DOMAIN m : m[i] = b} /\ T = {i \in DOMAIN n : n[i] = b}
                     /\ A = {i \in DOMAIN a : a[i] = b}
  OBVIOUS
<1>7. /\ IsFiniteSet(S) /\ IsFiniteSet(T) /\ IsFiniteSet(A)
      /\ Cardinality(S) \in Nat /\ Cardinality(T) \in Nat /\ Cardinality(A) \in Nat
  BY <1>3, <1>6, OccurrencesNat, FS_CardinalityType
<1>8. PICK B : B = {i \in A : i > L}
  OBVIOUS
<1>9. A = S \cup B /\ S \cap B = {} /\ IsFiniteSet(B)
  <2>1. A = S \cup B
    <3>1. S \subseteq A
      BY <1>1, <1>2, <1>3, <1>6
    <3>2. \A i \in A : i > L \/ i \in S
      BY <1>1, <1>2, <1>3, <1>6
    <3> QED BY <1>8, <3>1, <3>2
  <2>2. S \cap B = {}
    BY <1>1, <1>2, <1>6, <1>8
  <2> QED BY <1>7, <1>8, <2>1, <2>2, FS_Subset
<1>10. Cardinality(B) = Cardinality(T)
  <2>1. PICK f : f = [i \in T |-> L + i]
    OBVIOUS
  <2>2. f \in [T -> B]
    BY <1>1, <1>2, <1>3, <1>6, <1>8, <2>1
  <2>3. \A i, j \in T : f[i] = f[j] => i = j
    BY <1>1, <1>2, <1>6, <2>1
  <2>4. \A i \in B : \E j \in T : f[j] = i
    <3> SUFFICES ASSUME NEW i \in B PROVE \E j \in T : f[j] = i
      OBVIOUS
    <3>1. i \in 1 .. L + M /\ i > L /\ a[i] = b
      BY <1>3, <1>6, <1>8
    <3>2. PICK j \in 1 .. M : i = L + j
      BY <1>4, <3>1
    <3>3. j \in T
      BY <1>1, <1>2, <1>3, <1>6, <3>1, <3>2
    <3> QED BY <2>1, <3>2, <3>3
  <2>5. f \in Bijection(T, B)
    BY <2>2, <2>3, <2>4 DEF Bijection, Injection, Surjection, IsInjective
  <2> QED BY <1>7, <2>5, FS_Bijection DEF ExistsBijection
<1>11. Cardinality(A) = Cardinality(S) + Cardinality(T)
  <2>1. Cardinality(A) = Cardinality(S) + Cardinality(B) - Cardinality(S \cap B)
    BY <1>7, <1>9, FS_Union
  <2>2. Cardinality(S \cap B) = 0
    BY <1>9, FS_EmptySet
  <2> QED BY <1>7, <1>10, <2>1, <2>2
<1> QED BY <1>2, <1>3, <1>5, <1>6, <1>11 DEF Occurrences

(* The pointers in a queue of which at most one message has the block. *)
LEMMA PointersOne ==
  ASSUME NEW q \in Seq(Messages), NEW b
  PROVE  /\ (\A i \in 1 .. Len(q) : b \notin ToSet(q[i])) => PointersIn(q, b) = 0
         /\ \A i \in 1 .. Len(q) :
               (\A j \in 1 .. Len(q) : j # i => b \notin ToSet(q[j]))
                  => PointersIn(q, b) = Occurrences(q[i], b)
<1>1. DOMAIN q = 1 .. Len(q) /\ Len(q) \in Nat /\ \A i \in 1 .. Len(q) : q[i] \in Messages
  BY LenProperties, ElementOfSeq
<1>2. PICK P : P = {p \in UNION {{i} \X DOMAIN q[i] : i \in DOMAIN q} : q[p[1]][p[2]] = b}
  OBVIOUS
<1>3. ASSUME \A i \in 1 .. Len(q) : b \notin ToSet(q[i]) PROVE Cardinality(P) = 0
  <2>1. P = {}
    BY <1>1, <1>2, <1>3 DEF ToSet
  <2> QED BY <2>1, FS_EmptySet
<1>4. ASSUME NEW i \in 1 .. Len(q), \A j \in 1 .. Len(q) : j # i => b \notin ToSet(q[j])
      PROVE  Cardinality(P) = Occurrences(q[i], b)
  <2>1. PICK S : S = {k \in DOMAIN q[i] : q[i][k] = b}
    OBVIOUS
  <2>2. IsFiniteSet(S) /\ Cardinality(S) = Occurrences(q[i], b)
    BY <1>1, <2>1, OccurrencesNat DEF Occurrences
  <2>3. PICK f : f = [k \in S |-> <<i, k>>]
    OBVIOUS
  <2>4. \A p \in P : \E k \in S : p = <<i, k>>
    <3> SUFFICES ASSUME NEW p \in P PROVE \E k \in S : p = <<i, k>>
      OBVIOUS
    <3>1. PICK j \in 1 .. Len(q) : p \in {j} \X DOMAIN q[j] /\ q[p[1]][p[2]] = b
      BY <1>1, <1>2
    <3>k. PICK k \in DOMAIN q[j] : p = <<j, k>> /\ q[j][k] = b
      BY <3>1
    <3>2. j = i
      BY <1>4, <3>1, <3>k DEF ToSet
    <3> QED BY <2>1, <3>k, <3>2
  <2>5. \A k \in S : <<i, k>> \in P
    BY <1>1, <1>2, <2>1
  <2>6. f \in Bijection(S, P)
    BY <2>3, <2>4, <2>5 DEF Bijection, Injection, Surjection, IsInjective
  <2> QED BY <2>2, <2>6, FS_Bijection DEF ExistsBijection
<1> QED BY <1>2, <1>3, <1>4 DEF PointersIn

-----------------------------------------------------------------------------
(* The fields: pointers to one message, queues of messages, the rest. *)
Singles == {"sd", "mp", "m1", "m2", "m3", "rep", "cur", "rtp", "rtcp"}
Queues == {"csrc", "rq", "tevq", "hands"}
Boxes == Singles \cup Queues
MsgFields == Boxes \cup {"ref", "net", "sent", "alive", "leaks"}

(* The types of the state, and what was sent so far. *)
MsgState(s) ==
  /\ s = [x \in MsgFields |-> s[x]]
  /\ s.ref \in [Ids -> Int] /\ s.net \in [Ids -> BOOLEAN]
  /\ \A f \in Singles : s[f] \in Messages
  /\ \A f \in Queues : s[f] \in Seq(Messages)
  /\ s.alive \in BOOLEAN /\ s.leaks \in BOOLEAN
  /\ s.sent \subseteq {TRUE}

(* The spots a message can be in: a pointer, or a place of a queue. *)
Spots == Boxes \X Nat

(* The message at a spot, whether a block is in it, or in any. *)
At(s, p) ==
  IF p[1] \in Singles THEN IF p[2] = 0 THEN s[p[1]] ELSE <<>>
  ELSE IF p[2] \in 1 .. Len(s[p[1]]) THEN s[p[1]][p[2]] ELSE <<>>

In(s, p, b) == b \in ToSet(At(s, p))

Held(s, b) == \E p \in Spots : In(s, p, b)

(* No block is in two messages, the parts of its message are what it       *)
(* counts, and its header is in host order unless it is one of D.  What is *)
(* in no message is free, unless something was forgotten.                  *)
Balanced(s, D) ==
  /\ \A p, q \in Spots, b \in Ids : In(s, p, b) /\ In(s, q, b) => p = q
  /\ \A p \in Spots, b \in Ids :
        In(s, p, b) => s.ref[b] = Occurrences(At(s, p), b) /\ (s.net[b] => b \in D)
  /\ \A b \in Ids : ~Held(s, b) => s.ref[b] >= 0 /\ (~s.leaks => s.ref[b] = 0)

(* What allocb can take. *)
FreeBlocks(s) == {b \in Ids : s.ref[b] = 0}

(* In the middle of a call: n blocks can still be allocated. *)
Good(s, n, D) == MsgState(s) /\ Balanced(s, D) /\ n <= Cardinality(FreeBlocks(s))

(* Only the fields X differ. *)
Same(s, t, X) == \A x \in MsgFields \ X : t[x] = s[x]

(* What is at a spot is a message. *)
LEMMA AtMessage ==
  ASSUME NEW s, MsgState(s), NEW p \in Spots
  PROVE  At(s, p) \in Messages
<1>1. PICK f \in Boxes, i \in Nat : p = <<f, i>>
  BY DEF Spots
<1>2. <<>> \in Messages
  BY EmptySeq DEF Messages
<1>3. CASE f \in Singles
  BY <1>1, <1>2, <1>3 DEF At, MsgState
<1>4. CASE f \notin Singles
  <2>1. s[f] \in Seq(Messages)
    BY <1>4 DEF Boxes, MsgState
  <2>2. i \in 1 .. Len(s[f]) => s[f][i] \in Messages
    BY <2>1, ElementOfSeq
  <2> QED BY <1>1, <1>2, <1>4, <2>2 DEF At
<1> QED BY <1>3, <1>4

(* The free blocks are finitely many. *)
LEMMA FreeFinite ==
  ASSUME NEW s
  PROVE  IsFiniteSet(FreeBlocks(s)) /\ Cardinality(FreeBlocks(s)) \in Nat
<1>1. Memory \in Nat
  BY MsgConstants
<1>2. IsFiniteSet(Ids)
  BY <1>1, FS_Interval DEF Ids
<1>3. IsFiniteSet(FreeBlocks(s))
  BY <1>2, FS_Subset DEF FreeBlocks
<1> QED BY <1>3, FS_CardinalityType

(* A block that is held is not free. *)
LEMMA HeldCounts ==
  ASSUME NEW s, NEW D, MsgState(s), Balanced(s, D), NEW b \in Ids, Held(s, b)
  PROVE  s.ref[b] \in Nat \ {0}
<1>1. PICK p \in Spots : In(s, p, b)
  BY DEF Held
<1>2. At(s, p) \in Messages
  BY AtMessage
<1>3. Occurrences(At(s, p), b) \in Nat \ {0}
  BY <1>1, <1>2, OccurrencesNat DEF In
<1> QED BY <1>1, <1>3 DEF Balanced

(* Every message of the new state was one of the old, each once; counts    *)
(* change only to zero, of blocks no longer held; what is no longer held   *)
(* is free or was forgotten.                                               *)
Moved(s, t, src) ==
  /\ src \in [Spots -> Spots]
  /\ \A p \in Spots : At(t, p) = <<>> \/ At(t, p) = At(s, src[p])
  /\ \A p, q \in Spots :
        At(t, p) # <<>> /\ At(t, q) # <<>> /\ src[p] = src[q] => p = q
  /\ \A b \in Ids : \/ t.ref[b] = s.ref[b] /\ (Held(t, b) \/ ~Held(s, b) \/ t.leaks)
                    \/ t.ref[b] = 0 /\ ~Held(t, b)
  /\ t.net = s.net
  /\ s.leaks => t.leaks

(* Moving and freeing messages keeps the balance. *)
LEMMA MovedKeeps ==
  ASSUME NEW s, NEW t, NEW src, NEW n \in Nat, NEW D, NEW E, Good(s, n, D), MsgState(t),
         Moved(s, t, src), \A b \in D : Held(t, b) => b \in E
  PROVE  Good(t, n, E)
<1> USE DEF Good
<1>0. ToSet(<<>>) = {}
  BY DEF ToSet
<1>1. \A p \in Spots : \A b : In(t, p, b) => At(t, p) # <<>> /\ At(t, p) = At(s, src[p]) /\ In(s, src[p], b)
  BY <1>0 DEF In, Moved
<1>2. \A p \in Spots : src[p] \in Spots
  BY DEF Moved
<1>3. \A b : Held(t, b) => Held(s, b)
  BY <1>1, <1>2 DEF Held
<1>4. ASSUME NEW p \in Spots, NEW q \in Spots, NEW b \in Ids, In(t, p, b), In(t, q, b) PROVE p = q
  <2>1. src[p] = src[q]
    BY <1>1, <1>2, <1>4 DEF Balanced
  <2> QED BY <1>1, <1>4, <2>1 DEF Moved
<1>5. ASSUME NEW b \in Ids, Held(t, b) PROVE t.ref[b] = s.ref[b]
  BY <1>5 DEF Moved
<1>6. ASSUME NEW p \in Spots, NEW b \in Ids, In(t, p, b)
      PROVE  t.ref[b] = Occurrences(At(t, p), b) /\ (t.net[b] => b \in E)
  <2>1. Held(t, b)
    BY <1>6 DEF Held
  <2>2. s.ref[b] = Occurrences(At(s, src[p]), b) /\ (s.net[b] => b \in D)
    BY <1>1, <1>2, <1>6 DEF Balanced
  <2>3. At(t, p) = At(s, src[p]) /\ t.net = s.net
    BY <1>1, <1>6 DEF Moved
  <2> QED BY <1>5, <2>1, <2>2, <2>3
<1>7. ASSUME NEW b \in Ids, ~Held(t, b) PROVE t.ref[b] >= 0 /\ (~t.leaks => t.ref[b] = 0)
  <2>1. s.ref[b] \in Int /\ s.ref[b] >= 0 /\ (~Held(s, b) /\ ~s.leaks => s.ref[b] = 0)
    <3>1. CASE Held(s, b)
      BY <3>1, HeldCounts
    <3>2. CASE ~Held(s, b)
      BY <3>2 DEF Balanced, MsgState
    <3> QED BY <3>1, <3>2
  <2>2. \/ t.ref[b] = s.ref[b] /\ (~Held(s, b) \/ t.leaks)
        \/ t.ref[b] = 0
    BY <1>7 DEF Moved
  <2>3. s.leaks => t.leaks
    BY DEF Moved
  <2> QED BY <2>1, <2>2, <2>3
<1>8. n <= Cardinality(FreeBlocks(t))
  <2>1. FreeBlocks(s) \subseteq FreeBlocks(t)
    BY DEF Moved, FreeBlocks
  <2>2. Cardinality(FreeBlocks(s)) <= Cardinality(FreeBlocks(t))
    BY <2>1, FreeFinite, FS_Subset
  <2> QED BY <2>2, FreeFinite
<1>9. Balanced(t, E)
  BY <1>4, <1>6, <1>7 DEF Balanced
<1> QED BY <1>8, <1>9

-----------------------------------------------------------------------------
(* The fields of a changed state. *)
LEMMA FieldNames ==
  /\ \A f \in Boxes : f \in MsgFields /\ f \notin {"ref", "net", "sent", "alive", "leaks"}
  /\ {"ref", "net", "sent", "alive", "leaks"} \subseteq MsgFields
  /\ Singles \subseteq Boxes /\ Queues \subseteq Boxes /\ Singles \cap Queues = {}
BY DEF MsgFields, Boxes, Singles, Queues

(* What is at a spot, when only some boxes differ. *)
LEMMA AtSame ==
  ASSUME NEW s, NEW t, NEW X, Same(s, t, X), NEW f \in Boxes \ X, NEW i \in Nat
  PROVE  At(t, <<f, i>>) = At(s, <<f, i>>)
<1>1. t[f] = s[f]
  BY FieldNames DEF Same
<1> QED BY <1>1 DEF At

(* A message by its name, and a message of a queue. *)
LEMMA AtIs ==
  ASSUME NEW s, MsgState(s)
  PROVE  /\ \A f \in Singles : At(s, <<f, 0>>) = s[f] /\ <<f, 0>> \in Spots
         /\ \A f \in Singles, i \in Nat : i # 0 => At(s, <<f, i>>) = <<>>
         /\ \A f \in Queues, i \in Nat :
               /\ <<f, i>> \in Spots
               /\ i \in 1 .. Len(s[f]) => At(s, <<f, i>>) = s[f][i]
               /\ i \notin 1 .. Len(s[f]) => At(s, <<f, i>>) = <<>>
BY FieldNames DEF At, Spots, Singles, Queues, Boxes

(* The message at f grew by a block that nobody held. *)
Alloced(s, f, t) ==
  \E b \in Ids : /\ t[f] = Append(s[f], b) /\ t.net = [s.net EXCEPT ![b] = FALSE]
                 /\ ~Held(s, b)

(* allocb: one block less is free. *)
LEMMA AllocKeeps ==
  ASSUME NEW s, NEW n \in Nat, NEW D, NEW f \in Singles, Good(s, n + 1, D)
  PROVE  /\ Good(Allocb(s, f), n, D) /\ Same(s, Allocb(s, f), {"ref", "net", f})
         /\ Alloced(s, f, Allocb(s, f))
<1> USE DEF Good
<1>0. s[f] \in Messages /\ s.ref \in [Ids -> Int] /\ s.net \in [Ids -> BOOLEAN]
  BY DEF MsgState
<1>1. PICK m \in FreeBlocks(s) : \A y \in FreeBlocks(s) : m <= y
  <2>1. FreeBlocks(s) # {}
    BY FreeFinite, FS_EmptySet
  <2>2. FreeBlocks(s) \in SUBSET Nat
    BY MsgConstants DEF FreeBlocks, Ids
  <2> QED BY <2>1, <2>2, LeastElement
<1>2. m \in Ids /\ s.ref[m] = 0 /\ \A y \in 1 .. m - 1 : s.ref[y] # 0
  <2>1. m \in 1 .. Memory /\ Memory \in Nat
    BY MsgConstants DEF FreeBlocks, Ids
  <2>2. \A y \in 1 .. m - 1 : y \in 1 .. Memory /\ ~(m <= y)
    BY <2>1
  <2> QED BY <1>1, <2>1, <2>2 DEF FreeBlocks, Ids
<1>3. PICK b : b = CHOOSE x \in Ids : s.ref[x] = 0 /\ \A y \in 1 .. x - 1 : s.ref[y] # 0
  OBVIOUS
<1>4. b \in Ids /\ s.ref[b] = 0
  BY <1>2, <1>3
<1>5. PICK t : t = Allocb(s, f)
  OBVIOUS
<1>6. t = [s EXCEPT !.ref[b] = 1, !.net[b] = FALSE, ![f] = Append(@, b)]
  BY <1>3, <1>5 DEF Allocb
<1>7. /\ t = [x \in MsgFields |-> t[x]] /\ t.ref = [s.ref EXCEPT ![b] = 1]
      /\ t.net = [s.net EXCEPT ![b] = FALSE] /\ t[f] = Append(s[f], b)
      /\ \A x \in MsgFields \ {"ref", "net", f} : t[x] = s[x]
  BY <1>6, FieldNames DEF MsgState
<1>r. t.ref = [s.ref EXCEPT ![b] = 1] /\ t.net = [s.net EXCEPT ![b] = FALSE]
  BY <1>7
<1>m. PICK m0 \in Messages : m0 = s[f]
  BY <1>0
<1>o. /\ Append(m0, b) \in Messages /\ ToSet(Append(m0, b)) = ToSet(m0) \cup {b}
      /\ \A c : Occurrences(Append(m0, b), c) = Occurrences(m0, c) + (IF c = b THEN 1 ELSE 0)
  BY <1>4, OccurrencesAppend
<1>p. t[f] = Append(m0, b)
  BY <1>7, <1>m
<1>8. MsgState(t)
  <2>1. t[f] \in Messages
    BY <1>o, <1>p
  <2>2. t.ref \in [Ids -> Int] /\ t.net \in [Ids -> BOOLEAN]
    BY <1>0, <1>4, <1>r
  <2>3. \A g \in Singles : t[g] \in Messages
    BY <1>7, <2>1, FieldNames DEF MsgState
  <2>4. \A g \in Queues : t[g] \in Seq(Messages)
    BY <1>7, FieldNames DEF MsgState
  <2>5. t.alive = s.alive /\ t.leaks = s.leaks /\ t.sent = s.sent
    BY <1>7, FieldNames
  <2> QED BY <1>7, <2>2, <2>3, <2>4, <2>5 DEF MsgState
<1>9. ~Held(s, b)
  BY <1>4, HeldCounts
<1>10. Same(s, t, {"ref", "net", f})
  BY <1>7 DEF Same
<1>11. PICK p0 : p0 = <<f, 0>>
  OBVIOUS
<1>12. p0 \in Spots /\ At(s, p0) = s[f] /\ At(t, p0) = Append(s[f], b)
  BY <1>7, <1>8, <1>11, AtIs
<1>13. ASSUME NEW p \in Spots, p # p0 PROVE At(t, p) = At(s, p)
  <2>1. PICK g \in Boxes, i \in Nat : p = <<g, i>>
    BY DEF Spots
  <2>2. CASE g = f
    BY <1>8, <1>11, <1>13, <2>1, <2>2, AtIs
  <2>3. CASE g # f
    BY <1>10, <2>1, <2>3, AtSame, FieldNames
  <2> QED BY <2>2, <2>3
<1>14. \A c : In(t, p0, c) <=> In(s, p0, c) \/ c = b
  BY <1>12, <1>m, <1>o DEF In
<1>15. \A p \in Spots : \A c : p # p0 => (In(t, p, c) <=> In(s, p, c))
  BY <1>13 DEF In
<1>16. \A p \in Spots : ~In(s, p, b)
  BY <1>9 DEF Held
<1>17. \A c \in Ids : Held(t, c) <=> Held(s, c) \/ c = b
  BY <1>12, <1>14, <1>15 DEF Held
<1>18. ASSUME NEW p \in Spots, NEW q \in Spots, NEW c \in Ids, In(t, p, c), In(t, q, c) PROVE p = q
  BY <1>14, <1>15, <1>16, <1>18 DEF Balanced
<1>19. ASSUME NEW p \in Spots, NEW c \in Ids, In(t, p, c)
       PROVE  t.ref[c] = Occurrences(At(t, p), c) /\ (t.net[c] => c \in D)
  <2>1. CASE c = b
    <3>1. p = p0
      BY <1>15, <1>16, <1>19, <2>1
    <3>2. Occurrences(At(t, p), c) = Occurrences(At(s, p), c) + 1
      BY <1>12, <1>m, <1>o, <2>1, <3>1
    <3>3. Occurrences(At(s, p), c) = 0
      BY <1>12, <1>16, <2>1, <3>1, OccurrencesNat, AtMessage DEF In
    <3>4. t.ref[c] = 1 /\ t.net[c] = FALSE
      BY <1>0, <1>4, <1>7, <2>1
    <3> QED BY <3>2, <3>3, <3>4
  <2>2. CASE c # b
    <3>1. In(s, p, c)
      BY <1>14, <1>15, <1>19, <2>2
    <3>2. t.ref[c] = s.ref[c] /\ t.net[c] = s.net[c]
      BY <1>0, <1>4, <1>7, <2>2
    <3>3. Occurrences(At(t, p), c) = Occurrences(At(s, p), c)
      <4>1. CASE p = p0
        <5>1. Occurrences(At(s, p), c) \in Nat
          BY OccurrencesNat, AtMessage
        <5>2. At(s, p) = m0 /\ At(t, p) = Append(m0, b)
          BY <1>12, <1>m, <4>1
        <5>3. Occurrences(Append(m0, b), c) = Occurrences(m0, c) + 0
          BY <1>o, <2>2
        <5> QED BY <5>1, <5>2, <5>3
      <4>2. CASE p # p0
        BY <1>13, <4>2
      <4> QED BY <4>1, <4>2
    <3> QED BY <3>1, <3>2, <3>3 DEF Balanced
  <2> QED BY <2>1, <2>2
<1>20. ASSUME NEW c \in Ids, ~Held(t, c) PROVE t.ref[c] >= 0 /\ (~t.leaks => t.ref[c] = 0)
  <2>1. c # b /\ ~Held(s, c) /\ t.ref[c] = s.ref[c] /\ t.leaks = s.leaks
    BY <1>7, <1>17, <1>20, FieldNames DEF MsgState
  <2> QED BY <2>1 DEF Balanced
<1>21. n <= Cardinality(FreeBlocks(t))
  <2>1. FreeBlocks(t) = FreeBlocks(s) \ {b}
    BY <1>0, <1>4, <1>7 DEF FreeBlocks
  <2>2. b \in FreeBlocks(s)
    BY <1>4 DEF FreeBlocks
  <2>3. Cardinality(FreeBlocks(t)) = Cardinality(FreeBlocks(s)) - 1
    <3>1. PICK F : F = FreeBlocks(s) /\ IsFiniteSet(F) /\ b \in F
      BY ONLY <2>2, FreeFinite
    <3>2. Cardinality(F \ {b}) = Cardinality(F) - 1
      BY ONLY <3>1, FS_RemoveElement
    <3> QED BY ONLY <2>1, <3>1, <3>2
  <2> QED BY <2>3, FreeFinite
<1>22. Balanced(t, D)
  BY <1>18, <1>19, <1>20 DEF Balanced
<1> QED BY <1>4, <1>5, <1>7, <1>8, <1>9, <1>10, <1>21, <1>22 DEF Alloced

(* The types of a state of which some fields have changed. *)
LEMMA ChangedState ==
  ASSUME NEW s, NEW t, NEW X, MsgState(s), t = [x \in MsgFields |-> t[x]], Same(s, t, X),
         t.ref \in [Ids -> Int], t.net \in [Ids -> BOOLEAN], t.alive \in BOOLEAN,
         t.leaks \in BOOLEAN, t.sent \subseteq {TRUE},
         \A f \in Singles : f \in X => t[f] \in Messages,
         \A f \in Queues : f \in X => t[f] \in Seq(Messages)
  PROVE  MsgState(t)
<1>1. \A f \in Singles : t[f] \in Messages
  BY FieldNames DEF MsgState, Same
<1>2. \A f \in Queues : t[f] \in Seq(Messages)
  BY FieldNames DEF MsgState, Same
<1> QED BY <1>1, <1>2 DEF MsgState

(* freemsg of the message at f: its blocks are free. *)
LEMMA FreeAtKeeps ==
  ASSUME NEW s, NEW n \in Nat, NEW D, NEW f \in Singles, Good(s, n, D)
  PROVE  /\ Good(FreeAt(s, f), n, D \ ToSet(s[f])) /\ Same(s, FreeAt(s, f), {"ref", f})
         /\ FreeAt(s, f)[f] = <<>>
<1>0. MsgState(s) /\ Balanced(s, D)
  BY DEF Good
<1>1. PICK m \in Messages : m = s[f]
  BY <1>0 DEF MsgState
<1>2. PICK t : t = FreeAt(s, f)
  OBVIOUS
<1>3. t = [[s EXCEPT !.ref = [b \in Ids |-> @[b] - Occurrences(m, b)]] EXCEPT ![f] = <<>>]
  BY <1>1, <1>2 DEF FreeAt, Freemsg
<1>4. /\ t = [x \in MsgFields |-> t[x]] /\ t[f] = <<>>
      /\ t.ref = [b \in Ids |-> s.ref[b] - Occurrences(m, b)]
      /\ Same(s, t, {"ref", f})
  BY <1>0, <1>3, FieldNames DEF MsgState, Same
<1>5. \A b \in Ids : Occurrences(m, b) \in Nat /\ (Occurrences(m, b) = 0 <=> b \notin ToSet(m))
  BY OccurrencesNat
<1>6. \A b \in Ids : t.ref[b] = s.ref[b] - Occurrences(m, b) /\ s.ref[b] \in Int
  BY <1>0, <1>4 DEF MsgState
<1>7. t.ref \in [Ids -> Int]
  <2>1. \A b \in Ids : s.ref[b] - Occurrences(m, b) \in Int
    BY <1>5, <1>6
  <2>2. t.ref = [b \in Ids |-> s.ref[b] - Occurrences(m, b)]
    BY <1>4
  <2> QED BY <2>1, <2>2
<1>8. t.net = s.net /\ t.alive = s.alive /\ t.leaks = s.leaks /\ t.sent = s.sent
  BY <1>4, FieldNames DEF Same
<1>9. MsgState(t)
  <2>1. <<>> \in Messages
    BY EmptySeq DEF Messages
  <2>2. \A g \in Singles : g \in {"ref", f} => t[g] \in Messages
    BY <1>4, <2>1, FieldNames
  <2>3. \A g \in Queues : g \notin {"ref", f}
    BY FieldNames
  <2>4. s.net \in [Ids -> BOOLEAN] /\ s.alive \in BOOLEAN /\ s.leaks \in BOOLEAN /\ s.sent \subseteq {TRUE}
    BY <1>0 DEF MsgState
  <2>5. Same(s, t, {"ref", f}) /\ t = [x \in MsgFields |-> t[x]]
    BY <1>4
  <2> HIDE DEF MsgState, Same
  <2> QED BY <1>0, <1>7, <1>8, <2>2, <2>3, <2>4, <2>5, ChangedState
<1>10. PICK p0 \in Spots : p0 = <<f, 0>> /\ At(s, p0) = m /\ At(t, p0) = <<>>
  <2>1. <<f, 0>> \in Spots /\ At(s, <<f, 0>>) = s[f]
    BY <1>0, AtIs
  <2>2. At(t, <<f, 0>>) = t[f]
    BY <1>9, AtIs
  <2>3. t[f] = <<>>
    BY <1>4
  <2> QED BY <1>1, <2>1, <2>2, <2>3
<1>11. ASSUME NEW p \in Spots, p # p0 PROVE At(t, p) = At(s, p)
  <2>1. PICK g \in Boxes, i \in Nat : p = <<g, i>>
    BY DEF Spots
  <2>2. CASE g = f
    BY <1>0, <1>9, <1>10, <1>11, <2>1, <2>2, AtIs
  <2>3. CASE g # f
    BY <1>4, <2>1, <2>3, AtSame, FieldNames
  <2> QED BY <2>2, <2>3
<1>12. PICK src : src = [p \in Spots |-> p]
  OBVIOUS
<1>13. \A p \in Spots : At(t, p) = <<>> \/ At(t, p) = At(s, src[p])
  BY <1>10, <1>11, <1>12
<1>14. ToSet(<<>>) = {}
  BY DEF ToSet
<1>15. ASSUME NEW b \in ToSet(m), b \in Ids PROVE t.ref[b] = 0 /\ ~Held(t, b)
  <2>1. In(s, p0, b)
    BY <1>10, <1>15 DEF In
  <2>2. s.ref[b] = Occurrences(m, b)
    BY <1>0, <1>10, <1>15, <2>1 DEF Balanced
  <2>3. \A p \in Spots : ~In(t, p, b)
    BY <1>0, <1>10, <1>11, <1>14, <1>15, <2>1 DEF In, Balanced
  <2> QED BY <1>5, <1>6, <1>15, <2>2, <2>3 DEF Held
<1>16. ASSUME NEW b \in Ids, b \notin ToSet(m) PROVE t.ref[b] = s.ref[b] /\ (Held(s, b) => Held(t, b))
  <2>1. t.ref[b] = s.ref[b]
    BY <1>5, <1>6, <1>16
  <2>2. ASSUME NEW p \in Spots, In(s, p, b) PROVE In(t, p, b)
    BY <1>10, <1>11, <1>16, <2>2 DEF In
  <2> QED BY <2>1, <2>2 DEF Held
<1>17. Moved(s, t, src)
  <2>1. src \in [Spots -> Spots] /\ \A p, q \in Spots : src[p] = src[q] => p = q
    BY <1>12
  <2>2. \A b \in Ids : \/ t.ref[b] = s.ref[b] /\ (Held(t, b) \/ ~Held(s, b) \/ t.leaks)
                       \/ t.ref[b] = 0 /\ ~Held(t, b)
    BY <1>15, <1>16
  <2> QED BY <1>8, <1>13, <2>1, <2>2 DEF Moved
<1>18. \A b \in D : Held(t, b) => b \in D \ ToSet(m)
  <2>1. \A b \in ToSet(m) : b \in Ids
    BY DEF ToSet, Messages
  <2> QED BY <1>15, <2>1
<1>19. Good(t, n, D \ ToSet(m))
  BY <1>9, <1>17, <1>18, MovedKeeps
<1> QED BY <1>1, <1>2, <1>4, <1>19

(* freemsg, when all headers are in host order. *)
LEMMA FreeClean ==
  ASSUME NEW s, NEW n \in Nat, NEW f \in Singles, Good(s, n, {})
  PROVE  /\ Good(FreeAt(s, f), n, {}) /\ Same(s, FreeAt(s, f), {"ref", f})
         /\ FreeAt(s, f)[f] = <<>>
<1>1. PICK D : D = {}
  OBVIOUS
<1>2. Good(s, n, D)
  BY ONLY <1>1, Good(s, n, {})
<1>3. /\ Good(FreeAt(s, f), n, D \ ToSet(s[f])) /\ Same(s, FreeAt(s, f), {"ref", f})
      /\ FreeAt(s, f)[f] = <<>>
  BY ONLY <1>2, n \in Nat, f \in Singles, FreeAtKeeps
<1>4. D \ ToSet(s[f]) = {}
  BY ONLY <1>1
<1> QED BY ONLY <1>3, <1>4

(* What is left of a queue when its first x messages are gone. *)
LEMMA QueueRest ==
  ASSUME NEW q \in Seq(Messages), NEW x \in 0 .. Len(q)
  PROVE  /\ SubSeq(q, 1, x) \in Seq(Messages) /\ Len(SubSeq(q, 1, x)) = x
         /\ \A i \in 1 .. x : SubSeq(q, 1, x)[i] = q[i]
         /\ SubSeq(q, x + 1, Len(q)) \in Seq(Messages)
         /\ Len(SubSeq(q, x + 1, Len(q))) = Len(q) - x
         /\ \A i \in 1 .. Len(q) - x : SubSeq(q, x + 1, Len(q))[i] = q[i + x]
<1>1. PICK l \in Nat : l = Len(q)
  BY LenProperties
<1>2. \A i \in 1 .. l : q[i] \in Messages
  BY <1>1, ElementOfSeq
<1>3. x \in Nat /\ x <= l
  BY <1>1
<1>4. SubSeq(q, 1, x) \in Seq(Messages) /\ Len(SubSeq(q, 1, x)) = x /\ \A i \in 1 .. x : SubSeq(q, 1, x)[i] = q[i]
  <2>1. 1 \in Int /\ x \in Int /\ (\A i \in 1 .. x : q[i] \in Messages) /\ (1 <= x + 1)
    BY <1>2, <1>3
  <2> QED BY <1>1, <1>3, <2>1, SubSeqProperties
<1>5. SubSeq(q, x + 1, l) \in Seq(Messages) /\ Len(SubSeq(q, x + 1, l)) = l - x
      /\ \A i \in 1 .. l - x : SubSeq(q, x + 1, l)[i] = q[i + x]
  <2>1. x + 1 \in Int /\ l \in Int /\ (\A i \in x + 1 .. l : q[i] \in Messages)
    BY <1>2, <1>3
  <2>2. IF x + 1 <= l THEN l - (x + 1) + 1 = l - x ELSE l - x = 0
    BY <1>3
  <2> QED BY <1>1, <1>3, <2>1, <2>2, SubSeqProperties
<1> QED BY <1>1, <1>4, <1>5

(* freemsg of the first messages of a queue. *)
LEMMA FreeFirstKeeps ==
  ASSUME NEW s, NEW n \in Nat, NEW D, NEW f \in Queues, NEW x \in 0 .. Len(s[f]), Good(s, n, D)
  PROVE  /\ Good(FreeFirst(s, f, x), n, D) /\ Same(s, FreeFirst(s, f, x), {"ref", f})
         /\ FreeFirst(s, f, x)[f] = SubSeq(s[f], x + 1, Len(s[f]))
<1>0. MsgState(s) /\ Balanced(s, D)
  BY DEF Good
<1>1. PICK q \in Seq(Messages) : q = s[f]
  BY <1>0 DEF MsgState
<1>l. PICK l \in Nat : l = Len(q)
  BY LenProperties
<1>x. x \in 0 .. l /\ x \in Nat /\ x <= l
  BY <1>1, <1>l
<1>2. PICK t : t = FreeFirst(s, f, x)
  OBVIOUS
<1>3. PICK h \in Seq(Messages), r \in Seq(Messages) : h = SubSeq(q, 1, x) /\ r = SubSeq(q, x + 1, l)
  BY <1>l, <1>x, QueueRest
<1>4. t = [s EXCEPT !.ref = [b \in Ids |-> @[b] - PointersIn(h, b)], ![f] = r]
  BY <1>1, <1>l, <1>2, <1>3 DEF FreeFirst
<1>5. /\ t = [y \in MsgFields |-> t[y]] /\ t[f] = r
      /\ t.ref = [b \in Ids |-> s.ref[b] - PointersIn(h, b)]
      /\ Same(s, t, {"ref", f})
  BY <1>0, <1>4, FieldNames DEF MsgState, Same
<1>6. /\ Len(h) = x /\ Len(r) = l - x
      /\ \A i \in 1 .. x : h[i] = q[i]
      /\ \A i \in 1 .. l - x : r[i] = q[i + x]
  BY <1>l, <1>x, <1>3, QueueRest
<1>7. \A i \in 1 .. l : At(s, <<f, i>>) = q[i] /\ <<f, i>> \in Spots
  BY <1>0, <1>1, <1>l, AtIs
<1>8. ASSUME NEW b \in Ids, NEW i \in 1 .. x, b \in ToSet(q[i])
      PROVE  s.ref[b] = Occurrences(q[i], b) /\ PointersIn(h, b) = Occurrences(q[i], b)
  <2>1. i \in 1 .. l /\ In(s, <<f, i>>, b)
    BY <1>x, <1>7, <1>8 DEF In
  <2>2. \A j \in 1 .. x : j \in 1 .. l /\ (j # i => <<f, j>> # <<f, i>>)
    BY <1>x
  <2>3. \A j \in 1 .. x : j # i => b \notin ToSet(h[j])
    BY <1>0, <1>6, <1>7, <1>8, <2>1, <2>2 DEF Balanced, In
  <2>4. PointersIn(h, b) = Occurrences(h[i], b)
    BY <1>6, <1>8, <2>3, PointersOne
  <2>5. s.ref[b] = Occurrences(q[i], b)
    BY <1>0, <1>7, <2>1 DEF Balanced
  <2> QED BY <1>6, <2>4, <2>5
<1>9. ASSUME NEW b \in Ids, \A i \in 1 .. x : b \notin ToSet(q[i]) PROVE PointersIn(h, b) = 0
  BY <1>6, <1>9, PointersOne
<1>10. \A b \in Ids : t.ref[b] = s.ref[b] - PointersIn(h, b) /\ s.ref[b] \in Int
  BY <1>0, <1>5 DEF MsgState
<1>11. ASSUME NEW b \in Ids
       PROVE  \/ t.ref[b] = 0 /\ \E i \in 1 .. x : b \in ToSet(q[i])
              \/ t.ref[b] = s.ref[b] /\ \A i \in 1 .. x : b \notin ToSet(q[i])
  BY <1>8, <1>9, <1>10
<1>12. t.ref \in [Ids -> Int]
  <2>1. \A b \in Ids : s.ref[b] - PointersIn(h, b) \in Int
    BY <1>10, <1>11
  <2>2. t.ref = [b \in Ids |-> s.ref[b] - PointersIn(h, b)]
    BY <1>5
  <2> QED BY <2>1, <2>2
<1>13. t.net = s.net /\ t.alive = s.alive /\ t.leaks = s.leaks /\ t.sent = s.sent
  BY <1>5, FieldNames DEF Same
<1>14. MsgState(t)
  <2>2. \A g \in Queues : g \in {"ref", f} => t[g] \in Seq(Messages)
    BY <1>5, FieldNames
  <2>3. \A g \in Singles : g \notin {"ref", f}
    BY FieldNames
  <2>4. s.net \in [Ids -> BOOLEAN] /\ s.alive \in BOOLEAN /\ s.leaks \in BOOLEAN /\ s.sent \subseteq {TRUE}
    BY <1>0 DEF MsgState
  <2>5. Same(s, t, {"ref", f}) /\ t = [y \in MsgFields |-> t[y]]
    BY <1>5
  <2> QED BY <1>0, <1>12, <1>13, <2>2, <2>3, <2>4, <2>5, ChangedState
<1>15. PICK src : src = [p \in Spots |-> IF p[1] = f THEN <<f, p[2] + x>> ELSE p]
  OBVIOUS
<1>16. /\ \A i \in Nat : src[<<f, i>>] = <<f, i + x>>
       /\ \A g \in Boxes, i \in Nat : g # f => src[<<g, i>>] = <<g, i>>
       /\ src \in [Spots -> Spots]
  BY <1>x, <1>15, FieldNames DEF Spots
<1>17. \A i \in Nat : At(t, <<f, i>>) = <<>> \/ (i \in 1 .. l - x /\ At(t, <<f, i>>) = At(s, <<f, i + x>>))
  <2> SUFFICES ASSUME NEW i \in Nat, i \in 1 .. l - x PROVE At(t, <<f, i>>) = At(s, <<f, i + x>>)
    BY <1>5, <1>6, <1>14, AtIs
  <2>1. At(t, <<f, i>>) = r[i]
    BY <1>5, <1>6, <1>14, AtIs
  <2>2. i + x \in 1 .. l
    BY <1>x
  <2> QED BY <1>6, <1>7, <2>1, <2>2
<1>18. \A g \in Boxes, i \in Nat : g # f => At(t, <<g, i>>) = At(s, <<g, i>>)
  BY <1>5, AtSame, FieldNames
<1>19. ASSUME NEW p \in Spots PROVE At(t, p) = <<>> \/ At(t, p) = At(s, src[p])
  <2>1. PICK g \in Boxes, i \in Nat : p = <<g, i>>
    BY DEF Spots
  <2>2. CASE g = f
    BY <1>16, <1>17, <2>1, <2>2
  <2>3. CASE g # f
    BY <1>16, <1>18, <2>1, <2>3
  <2> QED BY <2>2, <2>3
<1>20. ASSUME NEW p \in Spots, NEW o \in Spots, src[p] = src[o] PROVE p = o
  <2>1. PICK g \in Boxes, i \in Nat : p = <<g, i>>
    BY DEF Spots
  <2>2. PICK k \in Boxes, j \in Nat : o = <<k, j>>
    BY DEF Spots
  <2>3. CASE g = f /\ k = f
    <3>1. <<f, i + x>> = <<f, j + x>>
      BY <1>16, <1>20, <2>1, <2>2, <2>3
    <3>2. i + x = j + x
      BY <3>1
    <3> QED BY <1>x, <2>1, <2>2, <2>3, <3>2
  <2>4. CASE g = f /\ k # f
    BY <1>16, <1>20, <2>1, <2>2, <2>4
  <2>5. CASE g # f /\ k = f
    BY <1>16, <1>20, <2>1, <2>2, <2>5
  <2>6. CASE g # f /\ k # f
    BY <1>16, <1>20, <2>1, <2>2, <2>6
  <2> QED BY <2>3, <2>4, <2>5, <2>6
<1>21. ToSet(<<>>) = {}
  BY DEF ToSet
<1>22. ASSUME NEW b \in Ids, NEW i \in 1 .. x, b \in ToSet(q[i]) PROVE ~Held(t, b)
  <2>1. i \in 1 .. l /\ i \in Nat /\ i <= x /\ In(s, <<f, i>>, b) /\ <<f, i>> \in Spots
    BY <1>x, <1>7, <1>22 DEF In
  <2>2. ASSUME NEW p \in Spots, In(t, p, b) PROVE FALSE
    <3>1. At(t, p) = At(s, src[p]) /\ In(s, src[p], b) /\ At(t, p) # <<>> /\ src[p] \in Spots
      BY <1>16, <1>19, <1>21, <2>2 DEF In
    <3>2. src[p] = <<f, i>>
      BY <1>0, <2>1, <3>1 DEF Balanced
    <3>3. PICK g \in Boxes, j \in Nat : p = <<g, j>>
      BY DEF Spots
    <3>4. g = f
      <4>1. ASSUME g # f PROVE <<g, j>> = <<f, i>>
        BY <1>16, <3>2, <3>3, <4>1
      <4> QED BY <4>1
    <3>6. <<f, j + x>> = <<f, i>>
      BY <1>16, <3>2, <3>3, <3>4
    <3>5. j \in 1 .. l - x /\ j + x = i
      BY <1>17, <3>1, <3>3, <3>4, <3>6
    <3> QED BY <1>x, <2>1, <3>5
  <2> QED BY <2>2 DEF Held
<1>23. ASSUME NEW b \in Ids, \A i \in 1 .. x : b \notin ToSet(q[i]), Held(s, b) PROVE Held(t, b)
  <2>1. PICK p \in Spots : In(s, p, b)
    BY <1>23 DEF Held
  <2>2. PICK g \in Boxes, i \in Nat : p = <<g, i>>
    BY DEF Spots
  <2>3. CASE g # f
    BY <1>18, <2>1, <2>2, <2>3 DEF Held, In
  <2>4. CASE g = f
    <3>1. i \in 1 .. l
      BY <1>0, <1>1, <1>l, <1>21, <2>1, <2>2, <2>4, AtIs DEF In
    <3>2. i \notin 1 .. x
      BY <1>7, <1>23, <2>1, <2>2, <2>4, <3>1 DEF In
    <3>3. PICK j \in Nat : j = i - x /\ j \in 1 .. l - x /\ j + x = i
      BY <1>x, <3>1, <3>2
    <3>4. At(t, <<f, j>>) = r[j]
      BY <1>5, <1>6, <1>14, <3>3, AtIs
    <3>5. At(t, <<f, j>>) = At(s, p)
      BY <1>6, <1>7, <2>2, <2>4, <3>1, <3>3, <3>4
    <3>6. <<f, j>> \in Spots
      BY <1>14, AtIs
    <3> QED BY <2>1, <3>5, <3>6 DEF Held, In
  <2> QED BY <2>3, <2>4
<1>24. Moved(s, t, src)
  <2>1. \A b \in Ids : \/ t.ref[b] = s.ref[b] /\ (Held(t, b) \/ ~Held(s, b) \/ t.leaks)
                       \/ t.ref[b] = 0 /\ ~Held(t, b)
    BY <1>11, <1>22, <1>23
  <2> QED BY <1>13, <1>16, <1>19, <1>20, <2>1 DEF Moved
<1>25. Good(t, n, D)
  BY <1>14, <1>24, MovedKeeps
<1> QED BY <1>1, <1>l, <1>2, <1>3, <1>5, <1>25

-----------------------------------------------------------------------------
(* Messages that only change places. *)
Carried(s, t, src) ==
  /\ src \in [Spots -> Spots]
  /\ \A p \in Spots : At(t, p) = <<>> \/ At(t, p) = At(s, src[p])
  /\ \A p, q \in Spots :
        At(t, p) # <<>> /\ At(t, q) # <<>> /\ src[p] = src[q] => p = q
  /\ \A p \in Spots : At(s, p) # <<>> => t.leaks \/ \E q \in Spots : At(t, q) = At(s, p)
  /\ t.ref = s.ref /\ t.net = s.net
  /\ s.leaks => t.leaks

(* They stay balanced: nothing is counted or freed. *)
LEMMA CarriedKeeps ==
  ASSUME NEW s, NEW t, NEW src, NEW n \in Nat, NEW D, Good(s, n, D), MsgState(t),
         Carried(s, t, src)
  PROVE  Good(t, n, D)
<1>1. ToSet(<<>>) = {}
  BY DEF ToSet
<1>2. \A b \in Ids : Held(s, b) => Held(t, b) \/ t.leaks
  BY <1>1 DEF Held, In, Carried
<1>3. Moved(s, t, src)
  BY <1>2 DEF Carried, Moved
<1> QED BY <1>3, MovedKeeps

(* A message goes from one pointer to another that is empty. *)
LEMMA ShiftKeeps ==
  ASSUME NEW s, NEW t, NEW n \in Nat, NEW D, NEW f \in Singles, NEW g \in Singles, f # g,
         Good(s, n, D), t = [x \in MsgFields |-> t[x]], Same(s, t, {f, g}),
         t[f] = s[g], t[g] = <<>>, s[f] = <<>>
  PROVE  Good(t, n, D)
<1>0. MsgState(s)
  BY DEF Good
<1>1. /\ t.ref = s.ref /\ t.net = s.net /\ t.alive = s.alive /\ t.leaks = s.leaks
      /\ t.sent = s.sent
  BY FieldNames DEF Same
<1>2. MsgState(t)
  <2>1. <<>> \in Messages
    BY EmptySeq DEF Messages
  <2>2. \A h \in Singles : h \in {f, g} => t[h] \in Messages
    BY <1>0, <2>1 DEF MsgState
  <2>3. \A h \in Queues : h \notin {f, g}
    BY FieldNames
  <2>4. /\ s.ref \in [Ids -> Int] /\ s.net \in [Ids -> BOOLEAN] /\ s.alive \in BOOLEAN
        /\ s.leaks \in BOOLEAN /\ s.sent \subseteq {TRUE}
    BY <1>0 DEF MsgState
  <2> QED BY <1>0, <1>1, <2>2, <2>3, <2>4, ChangedState
<1>3. /\ At(s, <<f, 0>>) = <<>> /\ At(s, <<g, 0>>) = s[g]
      /\ <<f, 0>> \in Spots /\ <<g, 0>> \in Spots
  BY <1>0, AtIs
<1>4. At(t, <<f, 0>>) = s[g] /\ At(t, <<g, 0>>) = <<>>
  BY <1>2, AtIs
<1>5. ASSUME NEW p \in Spots, p # <<f, 0>>, p # <<g, 0>> PROVE At(t, p) = At(s, p)
  <2>1. PICK h \in Boxes, i \in Nat : p = <<h, i>>
    BY DEF Spots
  <2>2. CASE h \in {f, g}
    <3>1. i # 0
      BY <1>5, <2>1, <2>2
    <3> QED BY <1>0, <1>2, <2>1, <2>2, <3>1, AtIs
  <2>3. CASE h \notin {f, g}
    BY <2>1, <2>3, AtSame
  <2> QED BY <2>2, <2>3
<1>6. PICK src : src = [p \in Spots |-> IF p = <<f, 0>> THEN <<g, 0>> ELSE p]
  OBVIOUS
<1>7. src \in [Spots -> Spots] /\ src[<<f, 0>>] = <<g, 0>> /\ \A p \in Spots : p # <<f, 0>> => src[p] = p
  BY <1>3, <1>6
<1>8. \A p \in Spots : At(t, p) = <<>> \/ At(t, p) = At(s, src[p])
  BY <1>3, <1>4, <1>5, <1>7
<1>9. ASSUME NEW p \in Spots, NEW q \in Spots, At(t, p) # <<>>, At(t, q) # <<>>, src[p] = src[q]
      PROVE  p = q
  BY <1>4, <1>7, <1>9
<1>10. ASSUME NEW p \in Spots, At(s, p) # <<>> PROVE \E q \in Spots : At(t, q) = At(s, p)
  BY <1>3, <1>4, <1>5, <1>10
<1>11. Carried(s, t, src)
  BY <1>1, <1>7, <1>8, <1>9, <1>10 DEF Carried
<1> QED BY <1>2, <1>11, CarriedKeeps

(* A queue without its i-th message. *)
LEMMA RemoveAtIs ==
  ASSUME NEW q \in Seq(Messages), NEW i \in 1 .. Len(q)
  PROVE  /\ RemoveAt(q, i) \in Seq(Messages) /\ Len(RemoveAt(q, i)) = Len(q) - 1
         /\ \A j \in 1 .. Len(q) - 1 :
               RemoveAt(q, i)[j] = IF j < i THEN q[j] ELSE q[j + 1]
<1>1. PICK l \in Nat : l = Len(q) /\ i \in 1 .. l
  BY LenProperties
<1>2. PICK a, r : a = SubSeq(q, 1, i - 1) /\ r = SubSeq(q, i + 1, l)
  OBVIOUS
<1>3. i - 1 \in 0 .. l /\ i \in 0 .. l
  BY <1>1
<1>4. a \in Seq(Messages) /\ Len(a) = i - 1 /\ \A j \in 1 .. i - 1 : a[j] = q[j]
  BY <1>1, <1>2, <1>3, QueueRest
<1>5. r \in Seq(Messages) /\ Len(r) = l - i /\ \A j \in 1 .. l - i : r[j] = q[j + i]
  BY <1>1, <1>2, <1>3, QueueRest
<1>6. /\ a \o r \in Seq(Messages) /\ Len(a \o r) = (i - 1) + (l - i)
      /\ \A j \in 1 .. (i - 1) + (l - i) : (a \o r)[j] = IF j <= i - 1 THEN a[j] ELSE r[j - (i - 1)]
  <2>1. /\ a \o r \in Seq(Messages) /\ Len(a \o r) = Len(a) + Len(r)
        /\ \A j \in 1 .. Len(a) + Len(r) : (a \o r)[j] = IF j <= Len(a) THEN a[j] ELSE r[j - Len(a)]
    BY <1>4, <1>5, ConcatProperties
  <2>2. Len(a) = i - 1 /\ Len(r) = l - i
    BY <1>4, <1>5
  <2> QED BY <2>1, <2>2
<1>7. (i - 1) + (l - i) = l - 1
  BY <1>1
<1>8. ASSUME NEW j \in 1 .. l - 1 PROVE (a \o r)[j] = IF j < i THEN q[j] ELSE q[j + 1]
  <2>1. CASE j < i
    <3>1. j \in 1 .. i - 1 /\ j <= i - 1
      BY <1>1, <2>1
    <3> QED BY <1>4, <1>6, <1>7, <2>1, <3>1
  <2>2. CASE ~(j < i)
    <3>1. j - (i - 1) \in 1 .. l - i /\ j - (i - 1) + i = j + 1 /\ ~(j <= i - 1)
      BY <1>1, <2>2
    <3> QED BY <1>5, <1>6, <1>7, <2>2, <3>1
  <2> QED BY <2>1, <2>2
<1>9. a \o r = RemoveAt(q, i)
  BY <1>1, <1>2 DEF RemoveAt
<1> QED BY <1>1, <1>6, <1>7, <1>8, <1>9

(* The message i of the queue f is at mp now. *)
TakenOut(s, f, i, t) ==
  Same(s, t, {"mp", f}) /\ t.mp = s[f][i] /\ t[f] = RemoveAt(s[f], i)

(* A message is taken out of its queue. *)
LEMMA TakeOutKeeps ==
  ASSUME NEW s, NEW n \in Nat, NEW D, NEW f \in Queues, NEW i \in 1 .. Len(s[f]),
         Good(s, n, D), s.mp = <<>>
  PROVE  Good(TakeOut(s, f, i), n, D) /\ TakenOut(s, f, i, TakeOut(s, f, i))
<1>0. MsgState(s) /\ "mp" \in Singles
  BY DEF Good, Singles
<1>1. PICK q \in Seq(Messages) : q = s[f]
  BY <1>0 DEF MsgState
<1>l. PICK l \in Nat : l = Len(q) /\ i \in 1 .. l /\ i \in Nat
  BY <1>1, LenProperties
<1>2. PICK t : t = TakeOut(s, f, i)
  OBVIOUS
<1>3. PICK r : r = RemoveAt(q, i)
  OBVIOUS
<1>4. r \in Seq(Messages) /\ Len(r) = l - 1 /\ \A j \in 1 .. l - 1 : r[j] = IF j < i THEN q[j] ELSE q[j + 1]
  BY <1>l, <1>3, RemoveAtIs
<1>5. t = [s EXCEPT !.mp = q[i], ![f] = r]
  BY <1>1, <1>2, <1>3 DEF TakeOut
<1>6. /\ t = [y \in MsgFields |-> t[y]] /\ t[f] = r /\ t.mp = q[i]
      /\ Same(s, t, {"mp", f})
  BY <1>0, <1>5, FieldNames DEF MsgState, Same
<1>7. /\ t.ref = s.ref /\ t.net = s.net /\ t.alive = s.alive /\ t.leaks = s.leaks
      /\ t.sent = s.sent
  BY <1>0, <1>6, FieldNames DEF Same
<1>8. MsgState(t)
  <2>1. q[i] \in Messages
    BY <1>l, ElementOfSeq
  <2>2. \A h \in Singles : h \in {"mp", f} => t[h] \in Messages
    BY <1>6, <2>1, FieldNames
  <2>3. \A h \in Queues : h \in {"mp", f} => t[h] \in Seq(Messages)
    BY <1>0, <1>4, <1>6, FieldNames
  <2>4. /\ s.ref \in [Ids -> Int] /\ s.net \in [Ids -> BOOLEAN] /\ s.alive \in BOOLEAN
        /\ s.leaks \in BOOLEAN /\ s.sent \subseteq {TRUE}
    BY <1>0 DEF MsgState
  <2>5. Same(s, t, {"mp", f}) /\ t = [y \in MsgFields |-> t[y]]
    BY <1>6
  <2> QED BY <1>0, <1>7, <2>2, <2>3, <2>4, <2>5, ChangedState
<1>9. PICK m0 \in Spots : m0 = <<"mp", 0>> /\ At(s, m0) = <<>> /\ At(t, m0) = q[i]
  <2>1. <<"mp", 0>> \in Spots /\ At(s, <<"mp", 0>>) = s.mp
    BY <1>0, AtIs
  <2>2. At(t, <<"mp", 0>>) = t.mp
    BY <1>0, <1>8, AtIs
  <2> QED BY <1>6, <2>1, <2>2
<1>10. \A j \in Nat : /\ <<f, j>> \in Spots
                      /\ j \in 1 .. l => At(s, <<f, j>>) = q[j]
                      /\ j \notin 1 .. l => At(s, <<f, j>>) = <<>>
  BY <1>0, <1>1, <1>l, AtIs
<1>11. \A j \in Nat : /\ j \in 1 .. l - 1 => At(t, <<f, j>>) = r[j]
                      /\ j \notin 1 .. l - 1 => At(t, <<f, j>>) = <<>>
  BY <1>4, <1>6, <1>8, AtIs
<1>12. \A h \in Boxes, j \in Nat : h # f /\ <<h, j>> # m0 => At(t, <<h, j>>) = At(s, <<h, j>>)
  <2> SUFFICES ASSUME NEW h \in Boxes, NEW j \in Nat, h # f, <<h, j>> # m0
               PROVE  At(t, <<h, j>>) = At(s, <<h, j>>)
    OBVIOUS
  <2>1. CASE h = "mp"
    <3>1. j # 0
      BY <1>9, <2>1
    <3> QED BY <1>0, <1>8, <2>1, <3>1, AtIs
  <2>2. CASE h # "mp"
    BY <1>6, <2>2, AtSame
  <2> QED BY <2>1, <2>2
<1>13. PICK src : src = [p \in Spots |-> IF p = m0 THEN <<f, i>>
                                         ELSE IF p[1] = f /\ p[2] >= i THEN <<f, p[2] + 1>> ELSE p]
  OBVIOUS
<1>14. /\ src[m0] = <<f, i>>
       /\ \A j \in Nat : j < i => src[<<f, j>>] = <<f, j>>
       /\ \A j \in Nat : j >= i => src[<<f, j>>] = <<f, j + 1>>
       /\ \A h \in Boxes, j \in Nat : h # f /\ <<h, j>> # m0 => src[<<h, j>>] = <<h, j>>
       /\ src \in [Spots -> Spots]
  <2>1. f # "mp" /\ f \in Boxes
    BY <1>0, FieldNames
  <2>2. \A j \in Nat : <<f, j>> # m0
    BY <1>9, <2>1
  <2>3. \A h \in Boxes, j \in Nat : <<h, j>> \in Spots
    BY DEF Spots
  <2>4. ASSUME NEW p \in Spots PROVE src[p] \in Spots
    BY <1>l, <1>10, <1>13 DEF Spots
  <2>5. src[m0] = <<f, i>>
    BY <1>13
  <2>6. ASSUME NEW h \in Boxes, NEW j \in Nat, h # f, <<h, j>> # m0 PROVE src[<<h, j>>] = <<h, j>>
    BY <1>13, <2>3, <2>6
  <2>7. ASSUME NEW j \in Nat PROVE /\ j < i => src[<<f, j>>] = <<f, j>>
                                   /\ j >= i => src[<<f, j>>] = <<f, j + 1>>
    BY <1>l, <1>13, <2>1, <2>2, <2>3
  <2>8. src \in [Spots -> Spots]
    BY <1>13, <2>4
  <2> QED BY <2>5, <2>6, <2>7, <2>8
<1>15. ASSUME NEW p \in Spots PROVE At(t, p) = <<>> \/ At(t, p) = At(s, src[p])
  <2>1. PICK h \in Boxes, j \in Nat : p = <<h, j>>
    BY DEF Spots
  <2>2. CASE p = m0
    BY <1>l, <1>9, <1>10, <1>14, <2>2
  <2>3. CASE h = f
    <3>1. CASE j \in 1 .. l - 1
      <4>0. At(t, p) = r[j] /\ j \in 1 .. l /\ j + 1 \in 1 .. l /\ j + 1 \in Nat
        BY <1>11, <1>l, <2>1, <2>3, <3>1
      <4>1. CASE j < i
        <5>1. src[p] = <<f, j>> /\ r[j] = q[j]
          BY <1>4, <1>14, <2>1, <2>3, <3>1, <4>1
        <5> QED BY <1>10, <4>0, <5>1
      <4>2. CASE j >= i
        <5>0. ~(j < i)
          BY <1>l, <4>2
        <5>1. src[p] = <<f, j + 1>> /\ r[j] = q[j + 1]
          BY <1>4, <1>14, <2>1, <2>3, <3>1, <4>2, <5>0
        <5> QED BY <1>10, <4>0, <5>1
      <4> QED BY <1>l, <4>1, <4>2
    <3>2. CASE j \notin 1 .. l - 1
      BY <1>11, <2>1, <2>3, <3>2
    <3> QED BY <3>1, <3>2
  <2>4. CASE h # f /\ p # m0
    BY <1>12, <1>14, <2>1, <2>4
  <2> QED BY <2>2, <2>3, <2>4
<1>16. ASSUME NEW p \in Spots, NEW o \in Spots, src[p] = src[o] PROVE p = o
  <2>1. PICK h \in Boxes, j \in Nat : p = <<h, j>>
    BY DEF Spots
  <2>2. PICK k \in Boxes, w \in Nat : o = <<k, w>>
    BY DEF Spots
  <2>3. \A v \in Nat : src[<<f, v>>] \in {<<f, v>>, <<f, v + 1>>} /\ src[<<f, v>>] # <<f, i>>
    BY <1>l, <1>14
  <2>4. ASSUME h # f, p # m0, k = f \/ o = m0 PROVE FALSE
    <3>1. src[p] = <<h, j>>
      BY <1>14, <2>1, <2>4
    <3>2. PICK v \in Nat : src[o] = <<f, v>>
      <4>1. CASE o = m0
        BY <1>l, <1>14, <4>1
      <4>2. CASE o # m0
        <5>0. o = <<f, w>>
          BY <2>2, <2>4, <4>2
        <5>1. src[o] \in {<<f, w>>, <<f, w + 1>>} /\ w + 1 \in Nat
          BY <2>3, <5>0, SMTT(30)
        <5> QED BY <5>1
      <4> QED BY <4>1, <4>2
    <3>3. <<h, j>> = <<f, v>>
      BY <1>16, <3>1, <3>2
    <3> QED BY <2>4, <3>3
  <2>5. ASSUME k # f, o # m0, h = f \/ p = m0 PROVE FALSE
    <3>1. src[o] = <<k, w>>
      BY <1>14, <2>2, <2>5
    <3>2. PICK v \in Nat : src[p] = <<f, v>>
      <4>1. CASE p = m0
        BY <1>l, <1>14, <4>1
      <4>2. CASE p # m0
        <5>0. p = <<f, j>>
          BY <2>1, <2>5, <4>2
        <5>1. src[p] \in {<<f, j>>, <<f, j + 1>>} /\ j + 1 \in Nat
          BY <2>3, <5>0, SMTT(30)
        <5> QED BY <5>1
      <4> QED BY <4>1, <4>2
    <3>3. <<k, w>> = <<f, v>>
      BY <1>16, <3>1, <3>2
    <3> QED BY <2>5, <3>3
  <2>6. CASE h # f /\ p # m0 /\ k # f /\ o # m0
    BY <1>14, <1>16, <2>1, <2>2, <2>6
  <2>7. CASE p = m0 /\ k = f
    BY <1>14, <1>16, <2>2, <2>3, <2>7
  <2>8. CASE o = m0 /\ h = f
    BY <1>14, <1>16, <2>1, <2>3, <2>8
  <2>9. CASE h = f /\ k = f
    <3>1. PICK v \in Nat : src[p] = <<f, v>> /\ (IF j < i THEN v = j ELSE v = j + 1)
      BY <1>l, <1>14, <2>1, <2>9, SMTT(30)
    <3>2. PICK u \in Nat : src[o] = <<f, u>> /\ (IF w < i THEN u = w ELSE u = w + 1)
      BY <1>l, <1>14, <2>2, <2>9, SMTT(30)
    <3>5. <<f, v>> = <<f, u>>
      BY <1>16, <3>1, <3>2
    <3>3. v = u
      BY <3>5
    <3>4. j = w
      BY <1>l, <3>1, <3>2, <3>3
    <3> QED BY <2>1, <2>2, <2>9, <3>4
  <2>10. CASE p = m0 /\ o = m0
    BY <2>10
  <2> QED BY <2>4, <2>5, <2>6, <2>7, <2>8, <2>9, <2>10
<1>17. ASSUME NEW p \in Spots, At(s, p) # <<>> PROVE \E o \in Spots : At(t, o) = At(s, p)
  <2>1. PICK h \in Boxes, j \in Nat : p = <<h, j>>
    BY DEF Spots
  <2>2. CASE h # f
    BY <1>9, <1>12, <1>17, <2>1, <2>2
  <2>3. CASE h = f
    <3>1. j \in 1 .. l /\ At(s, p) = q[j]
      BY <1>10, <1>17, <2>1, <2>3
    <3>2. CASE j < i
      <4>1. j \in 1 .. l - 1 /\ At(t, <<f, j>>) = q[j]
        BY <1>4, <1>11, <1>l, <3>1, <3>2
      <4> QED BY <1>10, <3>1, <4>1
    <3>3. CASE j = i
      BY <1>9, <3>1, <3>3
    <3>4. CASE j > i
      <4>1. PICK v \in Nat : v = j - 1 /\ v \in 1 .. l - 1 /\ ~(v < i) /\ v + 1 = j
        BY <1>l, <3>1, <3>4
      <4>2. At(t, <<f, v>>) = q[j]
        BY <1>4, <1>11, <4>1
      <4> QED BY <1>10, <3>1, <4>2
    <3> QED BY <1>l, <3>2, <3>3, <3>4
  <2> QED BY <2>2, <2>3
<1>18. Carried(s, t, src)
  BY <1>7, <1>14, <1>15, <1>16, <1>17 DEF Carried
<1>19. Good(t, n, D)
  BY <1>8, <1>18, CarriedKeeps
<1> QED BY <1>1, <1>2, <1>3, <1>6, <1>19 DEF TakenOut

(* r is the queue q with the message m at place k. *)
PutIn(q, k, m, r) ==
  /\ r \in Seq(Messages) /\ Len(r) = Len(q) + 1 /\ r[k] = m
  /\ \A j \in 1 .. Len(q) : r[IF j < k THEN j ELSE j + 1] = q[j]

(* putq, at the end of a queue, and insq at its front. *)
LEMMA PutInIs ==
  ASSUME NEW q \in Seq(Messages), NEW m \in Messages
  PROVE  /\ PutIn(q, Len(q) + 1, m, Append(q, m)) /\ PutIn(q, 1, m, <<m>> \o q)
<1>1. PICK l \in Nat : l = Len(q)
  BY LenProperties
<1>2. PutIn(q, Len(q) + 1, m, Append(q, m))
  <2>1. /\ Append(q, m) \in Seq(Messages) /\ Len(Append(q, m)) = l + 1
        /\ \A i \in 1 .. l : Append(q, m)[i] = q[i]
        /\ Append(q, m)[l + 1] = m
    BY <1>1, AppendProperties
  <2>2. \A j \in 1 .. l : j < l + 1
    OBVIOUS
  <2> QED BY <1>1, <2>1, <2>2 DEF PutIn
<1>3. PutIn(q, 1, m, <<m>> \o q)
  <2>1. <<m>> \in Seq(Messages) /\ Len(<<m>>) = 1 /\ <<m>>[1] = m
    OBVIOUS
  <2>2. PICK r : r = <<m>> \o q
    OBVIOUS
  <2>3. /\ r \in Seq(Messages) /\ Len(r) = 1 + l
        /\ \A i \in 1 .. 1 + l : r[i] = IF i <= 1 THEN <<m>>[i] ELSE q[i - 1]
    BY <1>1, <2>1, <2>2, ConcatProperties
  <2>4. r[1] = m /\ Len(r) = l + 1
    BY <2>1, <2>3
  <2>5. ASSUME NEW j \in 1 .. l PROVE r[IF j < 1 THEN j ELSE j + 1] = q[j]
    <3>1. j + 1 \in 1 .. 1 + l /\ ~(j + 1 <= 1) /\ (j + 1) - 1 = j /\ ~(j < 1)
      OBVIOUS
    <3> QED BY <2>3, <3>1
  <2> QED BY <1>1, <2>2, <2>3, <2>4, <2>5 DEF PutIn
<1> QED BY <1>2, <1>3

(* The message at mp goes into a queue. *)
LEMMA PutKeeps ==
  ASSUME NEW s, NEW t, NEW n \in Nat, NEW D, NEW f \in Queues, NEW k \in 1 .. Len(s[f]) + 1,
         Good(s, n, D), t = [x \in MsgFields |-> t[x]], Same(s, t, {"mp", f}),
         t.mp = <<>>, PutIn(s[f], k, s.mp, t[f])
  PROVE  Good(t, n, D)
<1>0. MsgState(s) /\ "mp" \in Singles
  BY DEF Good, Singles
<1>1. PICK q \in Seq(Messages) : q = s[f]
  BY <1>0 DEF MsgState
<1>l. PICK l \in Nat : l = Len(q) /\ k \in 1 .. l + 1 /\ k \in Nat
  BY <1>1, LenProperties
<1>2. PICK r : r = t[f]
  OBVIOUS
<1>3. /\ r \in Seq(Messages) /\ Len(r) = l + 1 /\ r[k] = s.mp
      /\ \A j \in 1 .. l : r[IF j < k THEN j ELSE j + 1] = q[j]
  BY <1>1, <1>l, <1>2 DEF PutIn
<1>4. ASSUME NEW j \in 1 .. l + 1
      PROVE  /\ j < k => j \in 1 .. l /\ r[j] = q[j]
             /\ j = k => r[j] = s.mp
             /\ j > k => j - 1 \in 1 .. l /\ r[j] = q[j - 1]
  <2>1. ASSUME j < k PROVE j \in 1 .. l /\ r[j] = q[j]
    BY <1>l, <1>3, <2>1
  <2>2. ASSUME j > k PROVE j - 1 \in 1 .. l /\ r[j] = q[j - 1]
    <3>1. j - 1 \in 1 .. l /\ ~(j - 1 < k) /\ (j - 1) + 1 = j
      BY <1>l, <2>2
    <3> QED BY <1>3, <3>1
  <2> QED BY <1>3, <2>1, <2>2
<1>7. /\ t.ref = s.ref /\ t.net = s.net /\ t.alive = s.alive /\ t.leaks = s.leaks
      /\ t.sent = s.sent
  BY <1>0, FieldNames DEF Same
<1>8. MsgState(t)
  <2>1. <<>> \in Messages
    BY EmptySeq DEF Messages
  <2>2. \A h \in Singles : h \in {"mp", f} => t[h] \in Messages
    BY <2>1, FieldNames
  <2>3. \A h \in Queues : h \in {"mp", f} => t[h] \in Seq(Messages)
    BY <1>0, <1>2, <1>3, FieldNames
  <2>4. /\ s.ref \in [Ids -> Int] /\ s.net \in [Ids -> BOOLEAN] /\ s.alive \in BOOLEAN
        /\ s.leaks \in BOOLEAN /\ s.sent \subseteq {TRUE}
    BY <1>0 DEF MsgState
  <2> QED BY <1>0, <1>7, <2>2, <2>3, <2>4, ChangedState
<1>9. PICK m0 \in Spots : m0 = <<"mp", 0>> /\ At(s, m0) = s.mp /\ At(t, m0) = <<>>
  <2>1. <<"mp", 0>> \in Spots /\ At(s, <<"mp", 0>>) = s.mp
    BY <1>0, AtIs
  <2>2. At(t, <<"mp", 0>>) = t.mp
    BY <1>0, <1>8, AtIs
  <2> QED BY <2>1, <2>2
<1>10. \A j \in Nat : /\ <<f, j>> \in Spots
                      /\ j \in 1 .. l => At(s, <<f, j>>) = q[j]
                      /\ j \notin 1 .. l => At(s, <<f, j>>) = <<>>
  BY <1>0, <1>1, <1>l, AtIs
<1>11. \A j \in Nat : /\ j \in 1 .. l + 1 => At(t, <<f, j>>) = r[j]
                      /\ j \notin 1 .. l + 1 => At(t, <<f, j>>) = <<>>
  BY <1>2, <1>3, <1>8, AtIs
<1>12. \A h \in Boxes, j \in Nat : h # f /\ <<h, j>> # m0 => At(t, <<h, j>>) = At(s, <<h, j>>)
  <2> SUFFICES ASSUME NEW h \in Boxes, NEW j \in Nat, h # f, <<h, j>> # m0
               PROVE  At(t, <<h, j>>) = At(s, <<h, j>>)
    OBVIOUS
  <2>1. CASE h = "mp"
    <3>1. j # 0
      BY <1>9, <2>1
    <3> QED BY <1>0, <1>8, <2>1, <3>1, AtIs
  <2>2. CASE h # "mp"
    BY <2>2, AtSame
  <2> QED BY <2>1, <2>2
<1>13. PICK src : src = [p \in Spots |-> IF p = <<f, k>> THEN m0
                                         ELSE IF p[1] = f /\ p[2] > k THEN <<f, p[2] - 1>> ELSE p]
  OBVIOUS
<1>14. /\ src[<<f, k>>] = m0
       /\ \A j \in Nat : j < k => src[<<f, j>>] = <<f, j>>
       /\ \A j \in Nat : j > k => src[<<f, j>>] = <<f, j - 1>>
       /\ \A h \in Boxes, j \in Nat : h # f => src[<<h, j>>] = <<h, j>>
       /\ src \in [Spots -> Spots]
  <2>1. f # "mp" /\ f \in Boxes
    BY <1>0, FieldNames
  <2>3. \A h \in Boxes, j \in Nat : <<h, j>> \in Spots
    BY DEF Spots
  <2>4. ASSUME NEW p \in Spots PROVE src[p] \in Spots
    <3>1. PICK h \in Boxes, j \in Nat : p = <<h, j>>
      BY DEF Spots
    <3>2. CASE h = f /\ j > k
      <4>1. j - 1 \in Nat
        BY <1>l, <3>2
      <4>2. src[p] \in {m0, <<f, j - 1>>}
        BY <1>13, <3>1, <3>2
      <4> QED BY <1>10, <4>1, <4>2
    <3>3. CASE ~(h = f /\ j > k)
      BY <1>13, <3>1, <3>3
    <3> QED BY <3>2, <3>3
  <2>5. src[<<f, k>>] = m0
    BY <1>l, <1>10, <1>13
  <2>6. ASSUME NEW h \in Boxes, NEW j \in Nat, h # f PROVE src[<<h, j>>] = <<h, j>>
    BY <1>13, <2>3, <2>6
  <2>7. ASSUME NEW j \in Nat PROVE /\ j < k => src[<<f, j>>] = <<f, j>>
                                   /\ j > k => src[<<f, j>>] = <<f, j - 1>>
    <3>1. j # k => <<f, j>> # <<f, k>>
      OBVIOUS
    <3>2. j < k => j # k /\ ~(j > k)
      BY <1>l
    <3>3. j > k => j # k
      BY <1>l
    <3> QED BY <1>13, <2>1, <2>3, <3>1, <3>2, <3>3
  <2>8. src \in [Spots -> Spots]
    BY <1>13, <2>4
  <2> QED BY <2>5, <2>6, <2>7, <2>8
<1>15. ASSUME NEW p \in Spots, At(t, p) # <<>> PROVE At(t, p) = At(s, src[p])
  <2>1. PICK h \in Boxes, j \in Nat : p = <<h, j>>
    BY DEF Spots
  <2>2. CASE h # f
    BY <1>9, <1>12, <1>14, <1>15, <2>1, <2>2
  <2>3. CASE h = f
    <3>1. j \in 1 .. l + 1 /\ At(t, p) = r[j]
      BY <1>11, <1>15, <2>1, <2>3
    <3>2. CASE j < k
      BY <1>4, <1>10, <1>14, <2>1, <2>3, <3>1, <3>2
    <3>3. CASE j = k
      BY <1>4, <1>9, <1>14, <2>1, <2>3, <3>1, <3>3
    <3>4. CASE j > k
      <4>1. j - 1 \in 1 .. l /\ j - 1 \in Nat /\ r[j] = q[j - 1]
        BY <1>4, <3>1, <3>4
      <4>2. src[p] = <<f, j - 1>>
        BY <1>14, <2>1, <2>3, <3>4
      <4> QED BY <1>10, <3>1, <4>1, <4>2
    <3> QED BY <1>l, <3>2, <3>3, <3>4
  <2> QED BY <2>2, <2>3
<1>16. ASSUME NEW p \in Spots, NEW o \in Spots, At(t, p) # <<>>, At(t, o) # <<>>, src[p] = src[o]
       PROVE  p = o
  <2>1. PICK h \in Boxes, j \in Nat : p = <<h, j>>
    BY DEF Spots
  <2>2. PICK g \in Boxes, w \in Nat : o = <<g, w>>
    BY DEF Spots
  <2>0. p # m0 /\ o # m0
    BY <1>9, <1>16
  <2>f. \A v \in Nat : <<f, v>> # m0
    BY <1>0, <1>9, FieldNames
  <2>3. ASSUME NEW v \in Nat
        PROVE  \/ v = k /\ src[<<f, v>>] = m0
               \/ v < k /\ src[<<f, v>>] = <<f, v>>
               \/ v > k /\ src[<<f, v>>] = <<f, v - 1>> /\ v - 1 \in Nat
    <3>1. CASE v = k
      BY <1>14, <3>1
    <3>2. CASE v < k
      BY <1>14, <3>2
    <3>3. CASE v > k
      <4>1. v - 1 \in Nat
        BY <1>l, <3>3
      <4>2. src[<<f, v>>] = <<f, v - 1>>
        BY <1>14, <3>3
      <4> QED BY ONLY <3>3, <4>1, <4>2, Zenon
    <3>4. v = k \/ v < k \/ v > k
      BY <1>l
    <3> QED BY ONLY <3>1, <3>2, <3>3, <3>4, Zenon
  <2>4. CASE h # f /\ g # f
    BY <1>14, <1>16, <2>1, <2>2, <2>4
  <2>5. CASE h = f /\ g # f
    <3>1. src[o] = <<g, w>> /\ src[o] # m0
      BY <1>14, <2>0, <2>2, <2>5
    <3>2. src[p] = m0 \/ \E v \in Nat : src[p] = <<f, v>>
      BY <2>1, <2>3, <2>5
    <3> QED BY <1>16, <2>5, <3>1, <3>2
  <2>6. CASE h # f /\ g = f
    <3>1. src[p] = <<h, j>> /\ src[p] # m0
      BY <1>14, <2>0, <2>1, <2>6
    <3>2. src[o] = m0 \/ \E v \in Nat : src[o] = <<f, v>>
      BY <2>2, <2>3, <2>6
    <3> QED BY <1>16, <2>6, <3>1, <3>2
  <2>7. CASE h = f /\ g = f
    <3>1. src[<<f, j>>] = src[<<f, w>>]
      BY <1>16, <2>1, <2>2, <2>7
    <3>2. \A u, v \in Nat : <<f, u>> = <<f, v>> => u = v
      OBVIOUS
    <3>3. \A v \in Nat : v > k => v - 1 \in Nat /\ <<f, v - 1>> # m0
      BY <1>l, <2>f
    <3>4. j = w
      <4>1. CASE j = k
        BY <1>14, <2>3, <2>f, <3>1, <3>3, <4>1
      <4>2. CASE j < k
        <5>1. src[<<f, w>>] = <<f, j>>
          BY <1>14, <3>1, <4>2
        <5>2. w # k
          BY <1>14, <2>f, <5>1
        <5>3. CASE w < k
          BY <1>14, <3>2, <5>1, <5>3
        <5>4. CASE w > k
          <6>1. w - 1 = j
            BY <1>14, <3>2, <3>3, <5>1, <5>4
          <6> QED BY <1>l, <4>2, <5>4, <6>1
        <5> QED BY <1>l, <5>2, <5>3, <5>4
      <4>3. CASE j > k
        <5>1. src[<<f, w>>] = <<f, j - 1>> /\ j - 1 \in Nat
          BY <1>14, <3>1, <3>3, <4>3
        <5>2. w # k
          BY <1>14, <2>f, <5>1
        <5>3. CASE w < k
          <6>1. w = j - 1
            BY <1>14, <3>2, <5>1, <5>3
          <6> QED BY <1>l, <4>3, <5>3, <6>1
        <5>4. CASE w > k
          <6>1. w - 1 = j - 1
            BY <1>14, <3>2, <3>3, <5>1, <5>4
          <6> QED BY <6>1
        <5> QED BY <1>l, <5>2, <5>3, <5>4
      <4> QED BY <1>l, <4>1, <4>2, <4>3
    <3> QED BY <2>1, <2>2, <2>7, <3>4
  <2> QED BY <2>4, <2>5, <2>6, <2>7
<1>17. ASSUME NEW p \in Spots, At(s, p) # <<>> PROVE \E o \in Spots : At(t, o) = At(s, p)
  <2>1. PICK h \in Boxes, j \in Nat : p = <<h, j>>
    BY DEF Spots
  <2>2. CASE p = m0
    <3>1. At(t, <<f, k>>) = r[k]
      BY <1>l, <1>11
    <3> QED BY <1>l, <1>3, <1>9, <1>10, <2>2, <3>1
  <2>3. CASE h = f
    <3>1. j \in 1 .. l /\ At(s, p) = q[j]
      BY <1>10, <1>17, <2>1, <2>3
    <3>2. PICK v \in Nat : v = IF j < k THEN j ELSE j + 1
      OBVIOUS
    <3>3. v \in 1 .. l + 1 /\ r[v] = q[j]
      BY <1>l, <1>3, <3>1, <3>2
    <3>4. At(t, <<f, v>>) = q[j]
      BY <1>11, <3>3
    <3> QED BY <1>10, <3>1, <3>4
  <2>4. CASE h # f /\ p # m0
    BY <1>12, <2>1, <2>4
  <2> QED BY <2>2, <2>3, <2>4
<1>18. Carried(s, t, src)
  BY <1>7, <1>14, <1>15, <1>16, <1>17 DEF Carried
<1> QED BY <1>8, <1>18, CarriedKeeps

(* Boxes whose messages are forgotten, and a session that is over. *)
LEMMA ForgetKeeps ==
  ASSUME NEW s, NEW t, NEW n \in Nat, NEW D, NEW X \in SUBSET Boxes, Good(s, n, D),
         t = [x \in MsgFields |-> t[x]], Same(s, t, X \cup {"leaks", "alive"}),
         t.leaks \in BOOLEAN, t.alive \in BOOLEAN, s.leaks => t.leaks,
         \A f \in X : t[f] = <<>> /\ (t.leaks \/ s[f] = <<>>)
  PROVE  Good(t, n, D)
<1>0. MsgState(s)
  BY DEF Good
<1>1. t.ref = s.ref /\ t.net = s.net /\ t.sent = s.sent
  BY FieldNames DEF Same
<1>2. MsgState(t)
  <2>1. <<>> \in Messages /\ <<>> \in Seq(Messages)
    BY EmptySeq DEF Messages
  <2>2. \A f \in Singles : f \in X \cup {"leaks", "alive"} => t[f] \in Messages
    BY <2>1, FieldNames
  <2>3. \A f \in Queues : f \in X \cup {"leaks", "alive"} => t[f] \in Seq(Messages)
    BY <2>1, FieldNames
  <2>4. s.ref \in [Ids -> Int] /\ s.net \in [Ids -> BOOLEAN] /\ s.sent \subseteq {TRUE}
    BY <1>0 DEF MsgState
  <2> QED BY <1>0, <1>1, <2>2, <2>3, <2>4, ChangedState, ZenonT(30)
<1>3. ASSUME NEW p \in Spots PROVE At(t, p) = At(s, p) \/ (At(t, p) = <<>> /\ t.leaks)
  <2>1. PICK f \in Boxes, i \in Nat : p = <<f, i>>
    BY DEF Spots
  <2>2. CASE f \notin X
    BY <2>1, <2>2, AtSame, FieldNames
  <2>3. CASE f \in X
    <3>1. t[f] = <<>> /\ (t.leaks \/ s[f] = <<>>)
      BY <2>3
    <3>2. CASE f \in Singles
      BY <2>1, <3>1, <3>2 DEF At
    <3>3. CASE f \notin Singles
      <4>1. \A u : u = <<>> => 1 .. Len(u) = {}
        OBVIOUS
      <4>2. At(t, p) = <<>> /\ (s[f] = <<>> => At(s, p) = <<>>)
        BY <2>1, <3>1, <3>3, <4>1 DEF At
      <4> QED BY <3>1, <4>2
    <3> QED BY <3>2, <3>3
  <2> QED BY <2>2, <2>3
<1>4. PICK src : src = [p \in Spots |-> p]
  OBVIOUS
<1>5. Carried(s, t, src)
  BY <1>1, <1>3, <1>4 DEF Carried
<1> QED BY <1>2, <1>5, CarriedKeeps

(* Headers are brought into host or network order in place. *)
LEMMA OrderKeeps ==
  ASSUME NEW s, NEW t, NEW n \in Nat, NEW D, NEW E, Good(s, n, D),
         t = [x \in MsgFields |-> t[x]], Same(s, t, {"net", "sent"}),
         t.net \in [Ids -> BOOLEAN], t.sent \subseteq {TRUE},
         \A b \in Ids : t.net[b] => b \in E \/ (s.net[b] /\ b \notin D)
  PROVE  Good(t, n, E)
<1>0. MsgState(s) /\ Balanced(s, D) /\ n <= Cardinality(FreeBlocks(s))
  BY DEF Good
<1>1. t.ref = s.ref /\ t.leaks = s.leaks /\ t.alive = s.alive
  BY FieldNames DEF Same
<1>2. MsgState(t)
  <2>1. s.ref \in [Ids -> Int] /\ s.alive \in BOOLEAN /\ s.leaks \in BOOLEAN
    BY <1>0 DEF MsgState
  <2>2. \A f \in Boxes : f \notin {"net", "sent"}
    BY FieldNames
  <2> QED BY <1>0, <1>1, <2>1, <2>2, ChangedState, FieldNames
<1>3. \A p \in Spots : At(t, p) = At(s, p)
  <2>1. ASSUME NEW f \in Boxes, NEW i \in Nat PROVE At(t, <<f, i>>) = At(s, <<f, i>>)
    <3>1. f \in Boxes \ {"net", "sent"}
      BY FieldNames
    <3> QED BY <3>1, AtSame
  <2> QED BY <2>1 DEF Spots
<1>4. \A p \in Spots : \A b : In(t, p, b) <=> In(s, p, b)
  BY <1>3 DEF In
<1>5. \A b : Held(t, b) <=> Held(s, b)
  BY <1>4 DEF Held
<1>6. Balanced(t, E)
  BY <1>0, <1>1, <1>3, <1>4, <1>5 DEF Balanced
<1>7. FreeBlocks(t) = FreeBlocks(s)
  BY <1>1 DEF FreeBlocks
<1> QED BY <1>0, <1>2, <1>6, <1>7 DEF Good

(* dupmsg, and the second part behind the first. *)
LEMMA DoubleKeeps ==
  ASSUME NEW s, NEW t, NEW n \in Nat, NEW D, Good(s, n, D),
         t = [x \in MsgFields |-> t[x]], Same(s, t, {"ref", "mp"}),
         t.ref = [b \in Ids |-> s.ref[b] + Occurrences(s.mp, b)], t.mp = s.mp \o s.mp
  PROVE  Good(t, n, D)
<1>0. MsgState(s) /\ Balanced(s, D) /\ n <= Cardinality(FreeBlocks(s)) /\ "mp" \in Singles
  BY DEF Good, Singles
<1>1. t.net = s.net /\ t.leaks = s.leaks /\ t.alive = s.alive /\ t.sent = s.sent
  BY FieldNames DEF Same
<1>2. PICK m \in Messages : m = s.mp
  BY <1>0 DEF MsgState
<1>3. /\ m \o m \in Messages /\ ToSet(m \o m) = ToSet(m)
      /\ \A b : Occurrences(m \o m, b) = Occurrences(m, b) + Occurrences(m, b)
      /\ \A b : Occurrences(m, b) \in Nat /\ (Occurrences(m, b) = 0 <=> b \notin ToSet(m))
  BY OccurrencesConcat, OccurrencesNat
<1>4. \A b \in Ids : t.ref[b] = s.ref[b] + Occurrences(m, b) /\ s.ref[b] \in Int
  BY <1>0, <1>2 DEF MsgState
<1>n. \A b \in Ids : Occurrences(m, b) \in Nat /\ (Occurrences(m, b) = 0 <=> b \notin ToSet(m))
  BY <1>3
<1>5. MsgState(t)
  <2>1. \A b \in Ids : s.ref[b] + Occurrences(m, b) \in Int
    BY ONLY <1>4, <1>n
  <2>2. t.ref \in [Ids -> Int]
    BY <1>2, <2>1
  <2>3. s.net \in [Ids -> BOOLEAN] /\ s.alive \in BOOLEAN /\ s.leaks \in BOOLEAN /\ s.sent \subseteq {TRUE}
    BY <1>0 DEF MsgState
  <2>4. \A f \in Singles : f \in {"ref", "mp"} => t[f] \in Messages
    BY <1>2, <1>3, FieldNames
  <2>5. \A f \in Queues : f \notin {"ref", "mp"}
    BY <1>0, FieldNames
  <2> QED BY <1>0, <1>1, <2>2, <2>3, <2>4, <2>5, ChangedState
<1>6. PICK p0 \in Spots : p0 = <<"mp", 0>> /\ At(s, p0) = m /\ At(t, p0) = m \o m
  <2>1. <<"mp", 0>> \in Spots /\ At(s, <<"mp", 0>>) = s.mp
    BY <1>0, AtIs
  <2>2. At(t, <<"mp", 0>>) = t.mp
    BY <1>0, <1>5, AtIs
  <2> QED BY <1>2, <2>1, <2>2
<1>7. ASSUME NEW p \in Spots, p # p0 PROVE At(t, p) = At(s, p)
  <2>1. PICK g \in Boxes, i \in Nat : p = <<g, i>>
    BY DEF Spots
  <2>2. CASE g = "mp"
    <3>1. i # 0
      BY <1>6, <1>7, <2>1, <2>2
    <3> QED BY <1>0, <1>5, <2>1, <2>2, <3>1, AtIs
  <2>3. CASE g # "mp"
    BY <2>1, <2>3, AtSame, FieldNames
  <2> QED BY <2>2, <2>3
<1>8. \A p \in Spots : \A b : In(t, p, b) <=> In(s, p, b)
  BY <1>3, <1>6, <1>7 DEF In
<1>9. \A b : Held(t, b) <=> Held(s, b)
  BY <1>8 DEF Held
<1>10. ASSUME NEW b \in Ids, b \notin ToSet(m) PROVE t.ref[b] = s.ref[b]
  BY ONLY <1>4, <1>10, <1>n, b \in Ids
<1>11. \A b : In(s, p0, b) <=> b \in ToSet(m)
  BY <1>6 DEF In
<1>12. ASSUME NEW p \in Spots, NEW b \in Ids, In(t, p, b)
       PROVE  t.ref[b] = Occurrences(At(t, p), b) /\ (t.net[b] => b \in D)
  <2>1. In(s, p, b) /\ s.ref[b] = Occurrences(At(s, p), b) /\ (s.net[b] => b \in D)
    BY <1>0, <1>8, <1>12 DEF Balanced
  <2>2. CASE p = p0
    BY <1>1, <1>3, <1>4, <1>6, <2>1, <2>2, ZenonT(30)
  <2>3. CASE p # p0
    <3>1. b \notin ToSet(m)
      BY <1>0, <1>11, <2>1, <2>3 DEF Balanced
    <3> QED BY <1>1, <1>7, <1>10, <2>1, <2>3, <3>1
  <2> QED BY <2>2, <2>3
<1>13. ASSUME NEW b \in Ids, ~Held(t, b) PROVE t.ref[b] >= 0 /\ (~t.leaks => t.ref[b] = 0)
  <2>1. ~Held(s, b) /\ b \notin ToSet(m)
    BY <1>9, <1>11, <1>13 DEF Held
  <2> QED BY <1>0, <1>1, <1>10, <2>1 DEF Balanced
<1>14. Balanced(t, D)
  BY <1>0, <1>8, <1>12, <1>13 DEF Balanced
<1>15. FreeBlocks(t) = FreeBlocks(s)
  <2>1. ASSUME NEW b \in Ids PROVE t.ref[b] = 0 <=> s.ref[b] = 0
    <3>1. CASE b \in ToSet(m)
      <4>1. Held(s, b)
        BY <1>11, <3>1 DEF Held
      <4>2. s.ref[b] \in Nat \ {0}
        BY <1>0, <4>1, HeldCounts
      <4> QED BY ONLY <1>4, <1>n, <4>2, b \in Ids
    <3>2. CASE b \notin ToSet(m)
      BY <1>10, <3>2
    <3> QED BY <3>1, <3>2
  <2> QED BY <2>1 DEF FreeBlocks
<1> QED BY <1>0, <1>5, <1>14, <1>15 DEF Good

-----------------------------------------------------------------------------
(* A call that needs less memory than there is. *)
LEMMA GoodLess ==
  ASSUME NEW s, NEW n \in Nat, NEW k \in Nat, NEW D, k <= n, Good(s, n, D)
  PROVE  Good(s, k, D)
<1>1. n <= Cardinality(FreeBlocks(s)) /\ Cardinality(FreeBlocks(s)) \in Nat
  BY FreeFinite DEF Good
<1>2. k <= Cardinality(FreeBlocks(s))
  BY <1>1
<1> QED BY <1>2 DEF Good

(* Two changes one after the other. *)
LEMMA SameTrans ==
  ASSUME NEW s, NEW t, NEW u, NEW X, NEW Y, Same(s, t, X), Same(t, u, Y)
  PROVE  \A Z : X \cup Y \subseteq Z => Same(s, u, Z)
BY DEF Same

(* A message whose blocks were shared with another and are freed again. *)
LEMMA DupFree ==
  ASSUME NEW s, MsgState(s), NEW f \in Singles, NEW m \in Messages
  PROVE  FreeAt([Dupmsg(s, m) EXCEPT ![f] = @ \o m], f) = FreeAt(s, f)
<1>1. PICK a \in Messages : a = s[f]
  BY DEF MsgState
<1>2. PICK d : d = [Dupmsg(s, m) EXCEPT ![f] = @ \o m]
  OBVIOUS
<1>3. d = [[s EXCEPT !.ref = [b \in Ids |-> @[b] + Occurrences(m, b)]] EXCEPT ![f] = @ \o m]
  BY <1>2 DEF Dupmsg
<1>4. /\ d = [x \in MsgFields |-> d[x]] /\ d[f] = a \o m /\ Same(s, d, {"ref", f})
      /\ d.ref = [b \in Ids |-> s.ref[b] + Occurrences(m, b)]
  BY <1>1, <1>3, FieldNames DEF MsgState, Same
<1>5. PICK t, u : t = FreeAt(d, f) /\ u = FreeAt(s, f)
  OBVIOUS
<1>6. /\ t = [x \in MsgFields |-> t[x]] /\ t[f] = <<>> /\ Same(d, t, {"ref", f})
      /\ t.ref = [b \in Ids |-> d.ref[b] - Occurrences(a \o m, b)]
  <2>1. t = [[d EXCEPT !.ref = [b \in Ids |-> @[b] - Occurrences(a \o m, b)]] EXCEPT ![f] = <<>>]
    BY <1>4, <1>5 DEF FreeAt, Freemsg
  <2>2. d = [x \in MsgFields |-> d[x]]
    BY <1>4
  <2> QED BY <2>1, <2>2, FieldNames DEF Same
<1>7. /\ u = [x \in MsgFields |-> u[x]] /\ u[f] = <<>> /\ Same(s, u, {"ref", f})
      /\ u.ref = [b \in Ids |-> s.ref[b] - Occurrences(a, b)]
  <2>1. u = [[s EXCEPT !.ref = [b \in Ids |-> @[b] - Occurrences(a, b)]] EXCEPT ![f] = <<>>]
    BY <1>1, <1>5 DEF FreeAt, Freemsg
  <2>2. s = [x \in MsgFields |-> s[x]]
    BY DEF MsgState
  <2> QED BY <2>1, <2>2, FieldNames DEF Same
<1>8. t.ref = u.ref
  <2>1. \A b \in Ids : d.ref[b] - Occurrences(a \o m, b) = s.ref[b] - Occurrences(a, b)
    <3> TAKE b \in Ids
    <3>1. PICK i \in Nat, j \in Nat : i = Occurrences(a, b) /\ j = Occurrences(m, b)
      BY OccurrencesNat
    <3>2. Occurrences(a \o m, b) = i + j
      BY <3>1, OccurrencesConcat
    <3>3. PICK r \in Int : r = s.ref[b]
      BY DEF MsgState
    <3>4. d.ref[b] = r + j
      BY <1>4, <3>1, <3>3
    <3>5. (r + j) - (i + j) = r - i
      OBVIOUS
    <3> QED BY <3>1, <3>2, <3>3, <3>4, <3>5
  <2>2. t.ref = [b \in Ids |-> d.ref[b] - Occurrences(a \o m, b)]
    BY <1>6
  <2>3. u.ref = [b \in Ids |-> s.ref[b] - Occurrences(a, b)]
    BY <1>7
  <2> QED BY ONLY <2>1, <2>2, <2>3
<1>9. Same(s, t, {"ref", f})
  BY <1>4, <1>6, SameTrans
<1>10. \A x \in MsgFields : t[x] = u[x]
  BY <1>6, <1>7, <1>8, <1>9 DEF Same
<1>11. t = u
  <2>1. t = [x \in MsgFields |-> t[x]] /\ u = [x \in MsgFields |-> u[x]]
    BY <1>6, <1>7
  <2> QED BY ONLY <1>10, <2>1
<1> QED BY <1>2, <1>5, <1>11

(* __rtp_session_rtcp_process: two blocks, and the source description is   *)
(* held for as long as the packet is.                                      *)
LEMMA ReportKeeps ==
  ASSUME NEW s, NEW n \in Nat, NEW due \in BOOLEAN, Good(s, n + 2, {}), s.rep = <<>>
  PROVE  /\ Good(ProcessRtcp(s, due), n, {}) /\ ProcessRtcp(s, due).rep = <<>>
         /\ Same(s, ProcessRtcp(s, due), {"ref", "net", "rep", "alive"})
<1>0. "rep" \in Singles /\ MsgState(s)
  BY DEF Singles, Good
<1>1. CASE ~due
  <2>1. Good(s, n, {})
    BY GoodLess
  <2> QED BY <1>1, <2>1 DEF ProcessRtcp, Same
<1>2. CASE due /\ s.csrc # <<>>
  <2>1. PICK t : t = [s EXCEPT !.alive = FALSE]
    OBVIOUS
  <2>2. t = ProcessRtcp(s, due)
    BY <1>2, <2>1 DEF ProcessRtcp, Report
  <2>3. /\ t = [x \in MsgFields |-> t[x]] /\ t.alive = FALSE /\ Same(s, t, {"alive"})
        /\ t.leaks = s.leaks /\ s.leaks \in BOOLEAN /\ t.rep = s.rep
    BY <1>0, <2>1, FieldNames DEF MsgState, Same
  <2>4. Same(s, t, {} \cup {"leaks", "alive"}) /\ Same(s, t, {"ref", "net", "rep", "alive"})
    BY <2>3 DEF Same
  <2>5. Good(s, n, {})
    BY GoodLess
  <2>6. \A f \in {} : t[f] = <<>> /\ (t.leaks \/ s[f] = <<>>)
    OBVIOUS
  <2>7. {} \in SUBSET Boxes
    OBVIOUS
  <2>8. Good(t, n, {})
    BY <2>3, <2>4, <2>5, <2>6, <2>7, ForgetKeeps
  <2> QED BY <2>2, <2>3, <2>4, <2>8
<1>3. CASE due /\ s.csrc = <<>>
  <2>1. PICK a, h : a = Allocb(s, "rep") /\ h = Allocb(a, "rep")
    OBVIOUS
  <2>2. Good(a, n + 1, {}) /\ Same(s, a, {"ref", "net", "rep"})
    <3>1. n + 1 \in Nat /\ n + 2 = (n + 1) + 1
      OBVIOUS
    <3> QED BY <1>0, <2>1, <3>1, AllocKeeps
  <2>3. Good(h, n, {}) /\ Same(a, h, {"ref", "net", "rep"})
    BY <1>0, <2>1, <2>2, AllocKeeps
  <2>4. PICK t : t = FreeAt(h, "rep")
    OBVIOUS
  <2>5. Good(t, n, {}) /\ Same(h, t, {"ref", "rep"}) /\ t.rep = <<>>
    BY ONLY <1>0, <2>3, <2>4, n \in Nat, FreeClean
  <2>6. s.sd \in Messages
    BY <1>0 DEF MsgState, Singles
  <2>7. MsgState(h)
    BY <2>3 DEF Good
  <2>8. FreeAt([Dupmsg(h, s.sd) EXCEPT !["rep"] = @ \o s.sd], "rep") = t
    BY <1>0, <2>4, <2>6, <2>7, DupFree
  <2>9. ProcessRtcp(s, due) = t
    BY <1>3, <2>1, <2>8 DEF ProcessRtcp, Report, RtcpSend
  <2>10. Same(s, h, {"ref", "net", "rep"})
    BY <2>2, <2>3, SameTrans
  <2>11. Same(s, t, {"ref", "net", "rep", "alive"})
    BY <2>5, <2>10, SameTrans
  <2> QED BY <2>5, <2>9, <2>11
<1> QED BY <1>1, <1>2, <1>3

(* rtcp_recv: a buffer is kept. *)
LEMMA RtcpRecvKeeps ==
  ASSUME NEW s, NEW n \in Nat, Good(s, n + 1, {})
  PROVE  Good(RtcpRecv(s), n, {}) /\ Same(s, RtcpRecv(s), {"ref", "net", "rtcp"})
<1>1. CASE s.rtcp = <<>>
  <2>1. "rtcp" \in Singles
    BY DEF Singles
  <2> QED BY <1>1, <2>1, AllocKeeps DEF RtcpRecv
<1>2. CASE s.rtcp # <<>>
  <2>1. Good(s, n, {})
    BY GoodLess
  <2> QED BY <1>2, <2>1 DEF RtcpRecv, Same
<1> QED BY <1>1, <1>2

(* ortp_rtp_send: the header is in host order, since nobody sent its block *)
(* before, goes out in network order, and the message is freed.            *)
LEMMA RtpSendKeeps ==
  ASSUME NEW s, NEW n \in Nat, NEW f \in Singles, Good(s, n, {}), s[f] # <<>>
  PROVE  /\ Good(RtpSend(s, f), n, {}) /\ RtpSend(s, f)[f] = <<>>
         /\ Same(s, RtpSend(s, f), {"ref", "net", "sent", f})
<1>0. MsgState(s) /\ Balanced(s, {})
  BY DEF Good
<1>1. PICK m \in Messages : m = s[f] /\ m # <<>>
  BY <1>0 DEF MsgState
<1>2. PICK b : b = Head(m)
  OBVIOUS
<1>3. b \in Ids /\ b \in ToSet(m)
  <2>1. Head(m) \in Ids /\ Head(m) = m[1] /\ Len(m) \in Nat /\ Len(m) # 0 /\ DOMAIN m = 1 .. Len(m)
    BY <1>1, HeadTailProperties, LenProperties, EmptySeq DEF Messages
  <2>2. 1 \in DOMAIN m
    BY <2>1
  <2> QED BY <1>2, <2>1, <2>2 DEF ToSet
<1>4. ~s.net[b]
  <2>1. At(s, <<f, 0>>) = m /\ <<f, 0>> \in Spots
    BY <1>0, <1>1, AtIs
  <2>2. In(s, <<f, 0>>, b)
    BY <1>3, <2>1 DEF In
  <2> QED BY <1>0, <1>3, <2>1, <2>2 DEF Balanced
<1>5. PICK t : t = [s EXCEPT !.net[b] = ~@, !.sent = @ \cup {~s.net[b]}]
  OBVIOUS
<1>6. /\ t = [x \in MsgFields |-> t[x]] /\ t.net = [s.net EXCEPT ![b] = ~s.net[b]]
      /\ t.sent = s.sent \cup {~s.net[b]} /\ Same(s, t, {"net", "sent"})
  BY <1>0, <1>5, FieldNames DEF MsgState, Same
<1>7. t.net \in [Ids -> BOOLEAN] /\ \A c \in Ids : t.net[c] => c \in {b} \/ (s.net[c] /\ c \notin {})
  <2>1. s.net \in [Ids -> BOOLEAN]
    BY <1>0 DEF MsgState
  <2>2. t.net = [s.net EXCEPT ![b] = ~s.net[b]]
    BY <1>6
  <2> QED BY <1>3, <2>1, <2>2
<1>8. t.sent \subseteq {TRUE}
  <2>1. s.sent \subseteq {TRUE} /\ s.net[b] \in BOOLEAN
    BY <1>0, <1>3 DEF MsgState
  <2>2. (~s.net[b]) = TRUE
    BY <1>4, <2>1
  <2> QED BY <1>6, <2>1, <2>2
<1>9. Good(t, n, {b})
  <2>1. PICK D, E : D = {} /\ E = {b}
    OBVIOUS
  <2>2. Good(s, n, D) /\ \A c \in Ids : t.net[c] => c \in E \/ (s.net[c] /\ c \notin D)
    BY <1>7, <2>1
  <2>3. Good(t, n, E)
    BY <1>6, <1>7, <1>8, <2>2, OrderKeeps, ZenonT(30)
  <2> QED BY <2>1, <2>3
<1>10. t[f] = m
  BY <1>1, <1>6, FieldNames DEF Same
<1>11. {b} \ ToSet(t[f]) = {}
  BY <1>3, <1>10
<1>12. Good(FreeAt(t, f), n, {}) /\ Same(t, FreeAt(t, f), {"ref", f}) /\ FreeAt(t, f)[f] = <<>>
  <2>1. PICK D : D = {b}
    OBVIOUS
  <2>2. Good(t, n, D) /\ D \ ToSet(t[f]) = {}
    BY ONLY <1>9, <1>11, <2>1
  <2>3. /\ Good(FreeAt(t, f), n, D \ ToSet(t[f])) /\ Same(t, FreeAt(t, f), {"ref", f})
        /\ FreeAt(t, f)[f] = <<>>
    BY ONLY <2>2, n \in Nat, f \in Singles, FreeAtKeeps
  <2> QED BY ONLY <2>2, <2>3
<1>13. RtpSend(s, f) = FreeAt(t, f)
  BY <1>1, <1>2, <1>5 DEF RtpSend
<1>14. Same(s, FreeAt(t, f), {"ref", "net", "sent", f})
  BY <1>6, <1>12, SameTrans
<1> QED BY <1>12, <1>13, <1>14

(* rtp_session_sendm_with_ts: at most three blocks, and the message is     *)
(* freed.                                                                  *)
LEMMA SendmKeeps ==
  ASSUME NEW s, NEW n \in Nat, NEW f \in {"mp", "m1", "m2", "m3"}, NEW due \in BOOLEAN,
         Good(s, n + 3, {}), s[f] # <<>>, s.rep = <<>>
  PROVE  /\ Good(Sendm(s, f, due), n, {})
         /\ Sendm(s, f, due)[f] = <<>> /\ Sendm(s, f, due).rep = <<>>
         /\ Same(s, Sendm(s, f, due), {"ref", "net", "sent", "rtcp", "rep", "alive", f})
<1>0. f \in Singles /\ f \notin {"ref", "net", "sent", "rtcp", "rep", "alive"} /\ "rep" \in MsgFields /\ f \in MsgFields
  BY DEF Singles, Boxes, MsgFields
<1>1. PICK t, u : t = RtpSend(s, f) /\ u = RtcpRecv(t)
  OBVIOUS
<1>2. n + 3 \in Nat /\ n + 2 \in Nat /\ n + 3 = (n + 2) + 1
  OBVIOUS
<1>3. Good(t, n + 3, {}) /\ t[f] = <<>> /\ Same(s, t, {"ref", "net", "sent", f})
  BY <1>0, <1>1, <1>2, RtpSendKeeps
<1>4. Good(u, n + 2, {}) /\ Same(t, u, {"ref", "net", "rtcp"})
  BY <1>1, <1>2, <1>3, RtcpRecvKeeps
<1>5. Same(s, u, {"ref", "net", "sent", "rtcp", f})
  BY <1>3, <1>4, SameTrans
<1>6. u[f] = <<>> /\ u.rep = <<>>
  <2>1. u[f] = t[f]
    BY <1>0, <1>4 DEF Same
  <2>2. u.rep = s.rep
    BY <1>0, <1>5 DEF Same
  <2> QED BY <1>3, <2>1, <2>2
<1>7. PICK v : v = ProcessRtcp(u, due)
  OBVIOUS
<1>8. Good(v, n, {}) /\ v.rep = <<>> /\ Same(u, v, {"ref", "net", "rep", "alive"})
  BY <1>4, <1>6, <1>7, ReportKeeps
<1>9. v[f] = <<>>
  BY <1>0, <1>6, <1>8 DEF Same
<1>10. Same(s, v, {"ref", "net", "sent", "rtcp", "rep", "alive", f})
  BY <1>5, <1>8, SameTrans
<1>11. v = Sendm(s, f, due)
  BY <1>1, <1>7 DEF Sendm
<1> QED BY <1>8, <1>9, <1>10, <1>11

(* copyb: one block is copied. *)
CopyStep(t, f, b) == [Allocb(t, f) EXCEPT !.net[Last(Allocb(t, f)[f])] = t.net[b]]

(* g[k] is the state after k blocks. *)
CopiesBy(s, f, m, g) ==
  /\ g[0] = s /\ Copymsg(s, f, m) = g[Len(m)]
  /\ \A k \in 1 .. Len(m) : g[k] = CopyStep(g[k - 1], f, m[k])

(* copymsg copies block by block. *)
LEMMA CopymsgIs ==
  ASSUME NEW s, NEW f, NEW m \in Messages
  PROVE  \E g : CopiesBy(s, f, m, g)
<1> DEFINE Copies(h, n) == h = [k \in 0 .. n |-> IF k = 0 THEN s ELSE CopyStep(h[k - 1], f, m[k])]
<1>0. Len(m) \in Nat
  BY LenProperties DEF Messages
<1>1. \A n \in 0 .. Len(m) : \E h : Copies(h, n)
  <2> DEFINE S == {n \in 0 .. Len(m) : ~ \E h : Copies(h, n)}
  <2>1. SUFFICES ASSUME S # {} PROVE FALSE
    OBVIOUS
  <2>2. S \in SUBSET Nat
    BY <1>0
  <2>3. PICK n \in S : \A j \in S : n <= j
    BY <2>1, <2>2, LeastElement
  <2>4. n # 0
    <3>1. Copies([k \in 0 .. 0 |-> s], 0)
      OBVIOUS
    <3> QED BY <3>1, <2>3
  <2>5. n - 1 \in 0 .. Len(m) /\ n - 1 \notin S /\ n \in Nat
    <3>1. n \in 0 .. Len(m) /\ \A j \in S : j \in Int
      OBVIOUS
    <3> HIDE DEF S
    <3> QED BY <1>0, <2>3, <2>4, <3>1
  <2>6. PICK g : Copies(g, n - 1)
    BY <2>5
  <2>7. Copies([k \in 0 .. n |-> IF k = n THEN CopyStep(g[n - 1], f, m[n]) ELSE g[k]], n)
    <3> DEFINE h == [k \in 0 .. n |-> IF k = n THEN CopyStep(g[n - 1], f, m[n]) ELSE g[k]]
    <3>1. ASSUME NEW k \in 0 .. n
          PROVE  h[k] = IF k = 0 THEN s ELSE CopyStep(h[k - 1], f, m[k])
      <4>1. CASE k = n
        BY <4>1, <2>4, <2>5
      <4>2. CASE k # n
        <5>1. k \in 0 .. n - 1 /\ (k # 0 => k - 1 \in 0 .. n /\ k - 1 # n)
          BY <4>2, <2>5
        <5>2. g[k] = IF k = 0 THEN s ELSE CopyStep(g[k - 1], f, m[k])
          BY <5>1, <2>6
        <5>3. h[k] = g[k] /\ (k # 0 => h[k - 1] = g[k - 1])
          BY <5>1, <4>2
        <5> QED BY <5>2, <5>3
      <4> QED BY <4>1, <4>2
    <3> HIDE DEF h
    <3>2. h = [k \in 0 .. n |-> h[k]]
      BY DEF h
    <3>3. Copies(h, n)
      BY <3>1, <3>2
    <3> QED BY <3>3 DEF h
  <2> QED BY <2>3, <2>7
<1>2. \E h : Copies(h, Len(m))
  BY <1>0, <1>1
<1>3. PICK h : h = CHOOSE g : Copies(g, Len(m))
  OBVIOUS
<1>4. Copies(h, Len(m))
  BY <1>2, <1>3
<1>5. Copymsg(s, f, m) = h[Len(m)]
  BY <1>3 DEF Copymsg, CopyStep
<1>6. h[0] = s /\ \A k \in 1 .. Len(m) : h[k] = CopyStep(h[k - 1], f, m[k])
  BY <1>0, <1>4
<1>7. CopiesBy(s, f, m, h)
  BY ONLY <1>5, <1>6 DEF CopiesBy
<1> QED BY ONLY <1>7

(* One block is copied: its header is in host order, as the copy's is. *)
LEMMA CopyStepKeeps ==
  ASSUME NEW s, NEW n \in Nat, NEW f \in Singles, NEW c \in Ids, Good(s, n + 1, {}), ~s.net[c]
  PROVE  /\ Good(CopyStep(s, f, c), n, {}) /\ Same(s, CopyStep(s, f, c), {"ref", "net", f})
         /\ Len(CopyStep(s, f, c)[f]) = Len(s[f]) + 1
         /\ \A b \in Ids : CopyStep(s, f, c).net[b] => s.net[b]
<1>0. MsgState(s) /\ s.net \in [Ids -> BOOLEAN]
  BY DEF Good, MsgState
<1>1. PICK t : t = Allocb(s, f)
  OBVIOUS
<1>2. Good(t, n, {}) /\ Same(s, t, {"ref", "net", f}) /\ Alloced(s, f, t)
  BY <1>1, AllocKeeps
<1>3. PICK b \in Ids : t[f] = Append(s[f], b) /\ t.net = [s.net EXCEPT ![b] = FALSE]
  BY <1>2 DEF Alloced
<1>4. PICK m \in Messages : m = s[f]
  BY <1>0 DEF MsgState
<1>5. Len(Append(m, b)) = Len(m) + 1 /\ Last(Append(m, b)) = b
  BY AppendProperties DEF Messages, Last
<1>6. MsgState(t) /\ s.net[c] = FALSE
  BY <1>0, <1>2 DEF Good
<1>7. CopyStep(s, f, c) = [t EXCEPT !.net[b] = FALSE]
  BY <1>1, <1>3, <1>4, <1>5, <1>6 DEF CopyStep
<1>8. [t.net EXCEPT ![b] = FALSE] = t.net
  <2>1. t.net[b] = FALSE /\ t.net \in [Ids -> BOOLEAN]
    BY <1>0, <1>3
  <2> QED BY <2>1
<1>9. t = [x \in MsgFields |-> t[x]]
  BY <1>6 DEF MsgState
<1>10. CopyStep(s, f, c) = t
  BY <1>7, <1>8, <1>9, FieldNames
<1>11. \A d \in Ids : t.net[d] => s.net[d]
  BY <1>0, <1>3
<1> QED BY <1>2, <1>3, <1>4, <1>5, <1>10, <1>11

(* copymsg: as many new blocks as the message has parts. *)
LEMMA CopymsgKeeps ==
  ASSUME NEW s, NEW n \in Nat, NEW f \in Singles, NEW m \in Messages,
         Good(s, n + Len(m), {}), \A b \in ToSet(m) : ~s.net[b]
  PROVE  /\ Good(Copymsg(s, f, m), n, {}) /\ Same(s, Copymsg(s, f, m), {"ref", "net", f})
         /\ Len(Copymsg(s, f, m)[f]) = Len(s[f]) + Len(m)
<1>1. PICK l \in Nat : l = Len(m)
  BY LenProperties DEF Messages
<1>g. PICK g : CopiesBy(s, f, m, g)
  BY ONLY CopymsgIs, m \in Messages, Zenon
<1>2. /\ g[0] = s /\ Copymsg(s, f, m) = g[l]
      /\ \A k \in 1 .. l : g[k] = CopyStep(g[k - 1], f, m[k])
  BY ONLY <1>1, <1>g DEF CopiesBy
<1>3. PICK a \in Nat : a = Len(s[f])
  BY LenProperties DEF Good, MsgState, Messages
<1> DEFINE Ok(k) == /\ Good(g[k], n + (l - k), {}) /\ Same(s, g[k], {"ref", "net", f})
                    /\ Len(g[k][f]) = a + k /\ \A b \in Ids : g[k].net[b] => s.net[b]
           S == {k \in 0 .. l : Ok(k)}
<1>4. 0 \in S
  <2>1. n + (l - 0) = n + l /\ a + 0 = a
    OBVIOUS
  <2> QED BY <1>1, <1>2, <1>3, <2>1 DEF Same
<1>5. ASSUME NEW k \in 1 .. l, k - 1 \in S PROVE k \in S
  <2>1. Ok(k - 1)
    BY <1>5
  <2>2. PICK t : t = g[k - 1]
    OBVIOUS
  <2>3. n + (l - k) \in Nat /\ n + (l - (k - 1)) = (n + (l - k)) + 1 /\ k \in 0 .. l /\ (a + (k - 1)) + 1 = a + k
    OBVIOUS
  <2>4. Good(t, (n + (l - k)) + 1, {}) /\ Same(s, t, {"ref", "net", f}) /\ Len(t[f]) = a + (k - 1)
        /\ \A b \in Ids : t.net[b] => s.net[b]
    BY <2>1, <2>2, <2>3
  <2>5. m[k] \in Ids /\ m[k] \in ToSet(m)
    BY <1>1, LenProperties, ElementOfSeq DEF Messages, ToSet
  <2>6. ~t.net[m[k]]
    BY <2>4, <2>5
  <2>7. g[k] = CopyStep(t, f, m[k])
    BY <1>2, <2>2
  <2>8. /\ Good(g[k], n + (l - k), {}) /\ Same(t, g[k], {"ref", "net", f})
        /\ Len(g[k][f]) = Len(t[f]) + 1 /\ \A b \in Ids : g[k].net[b] => t.net[b]
    <3>1. PICK v \in Nat : v = n + (l - k)
      BY <2>3
    <3>2. Good(t, v + 1, {})
      BY ONLY <2>4, <3>1
    <3>3. /\ Good(g[k], v, {}) /\ Same(t, g[k], {"ref", "net", f})
          /\ Len(g[k][f]) = Len(t[f]) + 1 /\ \A b \in Ids : g[k].net[b] => t.net[b]
      <4>1. PICK c \in Ids : c = m[k]
        BY <2>5
      <4>2. ~t.net[c]
        BY ONLY <2>6, <4>1
      <4>3. /\ Good(CopyStep(t, f, c), v, {}) /\ Same(t, CopyStep(t, f, c), {"ref", "net", f})
            /\ Len(CopyStep(t, f, c)[f]) = Len(t[f]) + 1
            /\ \A b \in Ids : CopyStep(t, f, c).net[b] => t.net[b]
        BY ONLY <3>2, <4>2, v \in Nat, c \in Ids, f \in Singles, CopyStepKeeps
      <4> QED BY ONLY <2>7, <4>1, <4>3
    <3> QED BY ONLY <3>1, <3>3
  <2>9. Same(s, g[k], {"ref", "net", f})
    BY <2>4, <2>8, SameTrans
  <2>10. Len(g[k][f]) = a + k
    BY <2>3, <2>4, <2>8
  <2>11. Ok(k)
    BY <2>4, <2>8, <2>9, <2>10
  <2> QED BY <2>3, <2>11
<1> HIDE DEF S
<1>6. l \in S
  BY <1>4, <1>5, UpTo
<1>7. Ok(l)
  BY <1>6 DEF S
<1>8. n + (l - l) = n
  OBVIOUS
<1> QED BY <1>1, <1>2, <1>3, <1>7, <1>8

-----------------------------------------------------------------------------
(* A telephone event and its mark are two parts of one block. *)
Pairs(q) == \A i \in 1 .. Len(q) : Len(q[i]) = 2

(* The blocks of a message that somebody holds are in host order. *)
LEMMA HostOrder ==
  ASSUME NEW s, NEW n, NEW f \in Singles, Good(s, n, {})
  PROVE  s[f] \in Messages /\ \A b \in ToSet(s[f]) : b \in Ids /\ ~s.net[b]
<1>1. MsgState(s) /\ Balanced(s, {})
  BY DEF Good
<1>2. At(s, <<f, 0>>) = s[f] /\ <<f, 0>> \in Spots
  BY <1>1, AtIs
<1>3. s[f] \in Messages
  BY <1>1 DEF MsgState
<1>4. ASSUME NEW b \in ToSet(s[f]) PROVE b \in Ids /\ ~s.net[b]
  <2>1. b \in Ids
    BY <1>3 DEF ToSet, Messages
  <2>2. In(s, <<f, 0>>, b)
    BY <1>2 DEF In
  <2> QED BY <1>1, <1>2, <2>1, <2>2 DEF Balanced
<1> QED BY <1>3, <1>4

(* split_and_queue: the two parts are queued; those at the old end of a    *)
(* queue that is too long are freed.                                       *)
LEMMA SplitBlockKeeps ==
  ASSUME NEW s, NEW n \in Nat, NEW f \in {"rq", "tevq"}, Good(s, n, {}), Len(s.mp) = 1
  PROVE  /\ Good(SplitBlock(s, f), n, {}) /\ SplitBlock(s, f).mp = <<>>
         /\ Same(s, SplitBlock(s, f), {"ref", "mp", f})
         /\ Pairs(s[f]) => Pairs(SplitBlock(s, f)[f])
<1>0. MsgState(s) /\ f \in Queues /\ "mp" \in Singles /\ f # "mp" /\ "mp" \in MsgFields /\ f \in MsgFields
  BY DEF Good, Queues, Singles, Boxes, MsgFields
<1>1. PICK m \in Messages : m = s.mp /\ Len(m) = 1
  BY <1>0 DEF MsgState
<1>2. m \o m \in Messages /\ Len(m \o m) = 2
  <2>1. m \o m \in Messages /\ Len(m \o m) = Len(m) + Len(m)
    BY ONLY m \in Messages, ConcatProperties DEF Messages
  <2> QED BY <1>1, <2>1
<1>3. PICK d : d = [s EXCEPT !.ref = [b \in Ids |-> s.ref[b] + Occurrences(m, b)], !.mp = m \o m]
  OBVIOUS
<1>4. /\ d = [x \in MsgFields |-> d[x]] /\ Same(s, d, {"ref", "mp"}) /\ d.mp = m \o m
      /\ d.ref = [b \in Ids |-> s.ref[b] + Occurrences(m, b)]
  BY <1>0, <1>3, FieldNames DEF MsgState, Same
<1>5. Good(d, n, {})
  BY <1>1, <1>4, DoubleKeeps
<1>6. d[f] = s[f]
  BY <1>0, <1>4, FieldNames DEF Same
<1>7. PICK q \in Seq(Messages) : q = s[f]
  BY <1>0 DEF MsgState
<1>8. PICK u : u = [Dupmsg(s, s.mp) EXCEPT ![f] = Append(@, s.mp \o s.mp), !.mp = <<>>]
  OBVIOUS
<1>9. /\ u = [x \in MsgFields |-> u[x]] /\ u.mp = <<>> /\ u[f] = Append(q, m \o m)
      /\ Same(s, u, {"ref", "mp", f}) /\ u.ref = [b \in Ids |-> s.ref[b] + Occurrences(m, b)]
  BY <1>0, <1>1, <1>7, <1>8, FieldNames DEF Dupmsg, MsgState, Same
<1>10. Same(d, u, {"mp", f})
  BY <1>4, <1>9 DEF Same
<1>11. Good(u, n, {})
  <2>1. PutIn(q, Len(q) + 1, m \o m, u[f])
    BY <1>2, <1>9, PutInIs
  <2>2. PutIn(d[f], Len(d[f]) + 1, d.mp, u[f])
    BY <1>4, <1>6, <1>7, <2>1
  <2>3. Len(d[f]) + 1 \in 1 .. Len(d[f]) + 1
    BY <1>6, <1>7, LenProperties
  <2>4. u = [x \in MsgFields |-> u[x]] /\ u.mp = <<>>
    BY <1>9
  <2> QED BY <1>0, <1>5, <1>10, <2>2, <2>3, <2>4, PutKeeps
<1>12. PICK l \in Nat : l = Len(q) /\ Len(u[f]) = l + 1 /\ u[f] \in Seq(Messages)
  <2>1. Len(q) \in Nat
    BY LenProperties
  <2>2. Append(q, m \o m) \in Seq(Messages) /\ Len(Append(q, m \o m)) = Len(q) + 1
    BY ONLY <1>2, q \in Seq(Messages), AppendProperties
  <2> QED BY <1>9, <2>1, <2>2
<1>13. PICK x : x = IF Len(u[f]) > MaxQueue THEN Len(u[f]) - MaxQueue ELSE 0
  OBVIOUS
<1>14. x \in 0 .. Len(u[f])
  BY <1>12, <1>13, MsgConstants
<1>15. PICK t : t = FreeFirst(u, f, x)
  OBVIOUS
<1>16. /\ Good(t, n, {}) /\ Same(u, t, {"ref", f}) /\ t[f] = SubSeq(u[f], x + 1, Len(u[f]))
  BY <1>0, <1>11, <1>14, <1>15, FreeFirstKeeps
<1>17. t = SplitBlock(s, f)
  <2> DEFINE Q == [Dupmsg(s, s.mp) EXCEPT ![f] = Append(@, s.mp \o s.mp), !.mp = <<>>]
  <2>1. SplitBlock(s, f) = FreeFirst(Q, f, IF Len(Q[f]) > MaxQueue THEN Len(Q[f]) - MaxQueue ELSE 0)
    BY ONLY DEF SplitBlock
  <2>2. u = Q
    BY ONLY <1>8
  <2> HIDE DEF Q
  <2> QED BY ONLY <1>13, <1>15, <2>1, <2>2
<1>18. Same(s, t, {"ref", "mp", f})
  BY <1>9, <1>16, SameTrans
<1>19. t.mp = <<>>
  BY <1>0, <1>9, <1>16 DEF Same
<1>20. ASSUME Pairs(s[f]) PROVE Pairs(t[f])
  <2>1. \A i \in 1 .. l + 1 : Len(u[f][i]) = 2
    <3>1. \A i \in 1 .. l : Append(q, m \o m)[i] = q[i] /\ Len(q[i]) = 2
      BY <1>2, <1>7, <1>12, <1>20, AppendProperties DEF Pairs
    <3>2. Append(q, m \o m)[l + 1] = m \o m
      BY <1>2, <1>12, AppendProperties
    <3>3. \A i \in 1 .. l + 1 : i \in 1 .. l \/ i = l + 1
      OBVIOUS
    <3> QED BY <1>2, <1>9, <3>1, <3>2, <3>3
  <2>2. /\ Len(t[f]) = Len(u[f]) - x
        /\ \A i \in 1 .. Len(u[f]) - x : t[f][i] = u[f][i + x]
    BY <1>12, <1>14, <1>16, QueueRest
  <2>3. \A i \in 1 .. (l + 1) - x : i + x \in 1 .. l + 1
    BY <1>12, <1>14
  <2> QED BY <1>12, <2>1, <2>2, <2>3 DEF Pairs
<1> QED BY <1>16, <1>17, <1>18, <1>19, <1>20

(* rtp_parse: the packet is in host order and in a queue, or it is freed. *)
LEMMA ParseKeeps ==
  ASSUME NEW s, NEW n \in Nat, NEW kind \in Kinds \ {"none"}, NEW c \in Ids, s.mp = <<c>>,
         Good(s, n, {c}), Pairs(s.tevq)
  PROVE  /\ Good(Parse(s, kind), n, {}) /\ Parse(s, kind).mp = <<>> /\ Pairs(Parse(s, kind).tevq)
         /\ Same(s, Parse(s, kind), {"ref", "net", "mp", "rq", "tevq"})
<1>0. MsgState(s) /\ "mp" \in Singles /\ "tevq" \in MsgFields /\ "mp" \in MsgFields
  BY DEF Good, Singles, Boxes, Queues, MsgFields
<1>1. PICK h : h = [s EXCEPT !.net[Head(s.mp)] = FALSE]
  OBVIOUS
<1>2. Head(s.mp) = c /\ Len(s.mp) = 1 /\ c \in ToSet(s.mp) /\ s.mp \in Messages
  BY DEF ToSet, Messages
<1>3. /\ h = [x \in MsgFields |-> h[x]] /\ h.net = [s.net EXCEPT ![c] = FALSE]
      /\ Same(s, h, {"net"})
  BY <1>0, <1>1, <1>2, FieldNames DEF MsgState, Same
<1>4. Same(s, h, {"net", "sent"}) /\ h.sent = s.sent /\ h.mp = s.mp /\ h.tevq = s.tevq
  BY <1>0, <1>3, FieldNames DEF Same
<1>5. Good(h, n, {})
  <2>1. PICK D, E : D = {c} /\ E = {}
    OBVIOUS
  <2>2. s.net \in [Ids -> BOOLEAN] /\ s.sent \subseteq {TRUE}
    BY <1>0 DEF MsgState
  <2>3. h.net \in [Ids -> BOOLEAN] /\ \A b \in Ids : h.net[b] => b \in E \/ (s.net[b] /\ b \notin D)
    <3>1. h.net = [s.net EXCEPT ![c] = FALSE]
      BY <1>3
    <3> QED BY <2>1, <2>2, <3>1
  <2>4. Good(s, n, D)
    BY <2>1
  <2>5. h.sent \subseteq {TRUE}
    BY <1>4, <2>2
  <2>6. h = [x \in MsgFields |-> h[x]]
    BY <1>3
  <2>7. Good(h, n, E)
    BY <1>4, <2>3, <2>4, <2>5, <2>6, OrderKeeps, ZenonT(30)
  <2> QED BY <2>1, <2>7
<1>6. CASE kind = "refused"
  <2>1. {c} \ ToSet(s["mp"]) = {}
    BY <1>2
  <2>2. PICK t : t = FreeAt(s, "mp")
    OBVIOUS
  <2>3. Good(t, n, {}) /\ Same(s, t, {"ref", "mp"}) /\ t.mp = <<>>
    <3>1. PICK D : D = {c}
      OBVIOUS
    <3>2. Good(s, n, D) /\ D \ ToSet(s["mp"]) = {}
      BY <2>1, <3>1
    <3>3. Good(t, n, D \ ToSet(s["mp"])) /\ Same(s, t, {"ref", "mp"}) /\ t["mp"] = <<>>
      BY ONLY <1>0, <2>2, <3>2, n \in Nat, FreeAtKeeps
    <3> QED BY ONLY <3>2, <3>3
  <2>4. t.tevq = s.tevq /\ Same(s, t, {"ref", "net", "mp", "rq", "tevq"})
    BY <1>0, <2>3 DEF Same
  <2>5. t = Parse(s, kind)
    BY <1>6, <2>2 DEF Parse
  <2> QED BY <2>3, <2>4, <2>5
<1>7. CASE kind = "twice"
  <2>2. PICK t : t = FreeAt(h, "mp")
    OBVIOUS
  <2>3. Good(t, n, {}) /\ Same(h, t, {"ref", "mp"}) /\ t.mp = <<>>
    BY ONLY <1>0, <1>5, <2>2, n \in Nat, FreeClean
  <2>4. t.tevq = h.tevq
    BY <1>0, <2>3 DEF Same
  <2>5. Same(s, t, {"ref", "net", "mp", "rq", "tevq"})
    BY <1>3, <2>3, SameTrans
  <2>6. FreeAt([Dupmsg(h, h.mp) EXCEPT !["mp"] = @ \o h.mp], "mp") = t
    <3>1. MsgState(h)
      BY <1>5 DEF Good
    <3> QED BY <1>0, <1>2, <1>4, <2>2, <3>1, DupFree
  <2>7. [Dupmsg(h, h.mp) EXCEPT !["mp"] = @ \o h.mp] = [Dupmsg(h, h.mp) EXCEPT !.mp = @ \o @]
    <3>1. Dupmsg(h, h.mp).mp = h.mp
      BY <1>0, <1>3 DEF Dupmsg
    <3> QED BY <3>1
  <2>8. t = Parse(s, kind)
    BY <1>1, <1>7, <2>6, <2>7 DEF Parse
  <2> QED BY <1>4, <2>3, <2>4, <2>5, <2>8
<1>8. ASSUME NEW f \in {"rq", "tevq"} PROVE
         /\ Good(SplitBlock(h, f), n, {}) /\ SplitBlock(h, f).mp = <<>> /\ Pairs(SplitBlock(h, f).tevq)
         /\ Same(s, SplitBlock(h, f), {"ref", "net", "mp", "rq", "tevq"})
  <2>1. PICK t : t = SplitBlock(h, f)
    OBVIOUS
  <2>2. Good(t, n, {}) /\ t.mp = <<>> /\ Same(h, t, {"ref", "mp", f}) /\ (Pairs(h[f]) => Pairs(t[f]))
    BY <1>2, <1>4, <1>5, <2>1, SplitBlockKeeps
  <2>3. Pairs(t.tevq)
    <3>1. CASE f = "tevq"
      BY <1>4, <2>2, <3>1
    <3>2. CASE f # "tevq"
      <4>1. t.tevq = h.tevq
        BY <1>0, <2>2, <3>2 DEF Same
      <4> QED BY <1>4, <4>1
    <3> QED BY <3>1, <3>2
  <2>4. Same(s, t, {"ref", "net", "mp", "rq", "tevq"})
    BY <1>3, <2>2, SameTrans
  <2> QED BY <2>1, <2>2, <2>3, <2>4
<1>9. CASE kind = "media"
  <2>1. Parse(s, kind) = SplitBlock(h, "rq")
    BY <1>1, <1>9 DEF Parse
  <2> QED BY <1>8, <2>1
<1>10. CASE kind = "tev"
  <2>1. Parse(s, kind) = SplitBlock(h, "tevq")
    BY <1>1, <1>10 DEF Parse
  <2> QED BY <1>8, <2>1
<1> QED BY <1>6, <1>7, <1>9, <1>10 DEF Kinds

(* A message that gets its first block. *)
LEMMA AllocOne ==
  ASSUME NEW s, NEW n \in Nat, NEW D, NEW f \in Singles, Good(s, n + 1, D), s[f] = <<>>
  PROVE  \E b \in Ids : Allocb(s, f)[f] = <<b>>
<1>1. PICK t : t = Allocb(s, f)
  OBVIOUS
<1>2. Alloced(s, f, t)
  BY <1>1, AllocKeeps
<1>3. PICK b \in Ids : t[f] = Append(s[f], b)
  BY <1>2 DEF Alloced
<1>4. t[f] = <<b>>
  BY <1>3
<1> QED BY <1>1, <1>4

(* rtp_recv: the buffer is filled and parsed, and there is a new one. *)
LEMMA RtpRecvKeeps ==
  ASSUME NEW s, NEW n \in Nat, NEW kind \in Kinds, Good(s, n + 2, {}), s.mp = <<>>,
         Len(s.rtp) <= 1, Pairs(s.tevq)
  PROVE  /\ Good(RtpRecv(s, kind), n, {}) /\ RtpRecv(s, kind).mp = <<>>
         /\ Len(RtpRecv(s, kind).rtp) <= 1 /\ Pairs(RtpRecv(s, kind).tevq)
         /\ Same(s, RtpRecv(s, kind), {"ref", "net", "mp", "rq", "tevq", "rtp"})
<1>0. /\ "mp" \in Singles /\ "rtp" \in Singles /\ MsgState(s)
      /\ "mp" \in MsgFields /\ "rtp" \in MsgFields /\ "tevq" \in MsgFields
  BY DEF Good, Singles, Boxes, Queues, MsgFields
<1>1. n + 1 \in Nat /\ n + 2 \in Nat /\ n + 2 = (n + 1) + 1
  OBVIOUS
<1>2. PICK t : t = IF s.rtp = <<>> THEN Allocb(s, "rtp") ELSE s
  OBVIOUS
<1>3. Good(t, n + 1, {}) /\ Same(s, t, {"ref", "net", "rtp"}) /\ \E b \in Ids : t.rtp = <<b>>
  <2>1. CASE s.rtp = <<>>
    <3>1. t = Allocb(s, "rtp")
      BY <1>2, <2>1
    <3>2. s["rtp"] = <<>> /\ Good(s, (n + 1) + 1, {})
      BY <1>1, <2>1
    <3>3. \E b \in Ids : Allocb(s, "rtp")["rtp"] = <<b>>
      BY ONLY <1>0, <1>1, <3>2, AllocOne
    <3>4. Good(t, n + 1, {}) /\ Same(s, t, {"ref", "net", "rtp"})
      BY ONLY <1>0, <1>1, <3>1, <3>2, AllocKeeps
    <3> QED BY <3>1, <3>3, <3>4
  <2>2. CASE s.rtp # <<>>
    <3>1. t = s
      BY <1>2, <2>2
    <3>2. Good(s, n + 1, {})
      BY <1>1, GoodLess
    <3>3. PICK m \in Seq(Ids) : m = s.rtp /\ m # <<>> /\ Len(m) <= 1
      BY <1>0, <2>2 DEF MsgState, Messages
    <3>4. Len(m) = 1 /\ DOMAIN m = 1 .. Len(m)
      <4>1. Len(m) \in Nat /\ DOMAIN m = 1 .. Len(m) /\ (Len(m) = 0 => m = <<>>)
        BY ONLY m \in Seq(Ids), LenProperties, EmptySeq
      <4>2. Len(m) # 0 /\ Len(m) <= 1
        BY ONLY <3>3, <4>1
      <4>3. PICK l \in Nat : l = Len(m)
        BY <4>1
      <4>4. l = 1
        BY ONLY <4>2, <4>3, l \in Nat
      <4> QED BY ONLY <4>1, <4>3, <4>4
    <3>5. m = <<m[1]>> /\ m[1] \in Ids
      <4>1. 1 \in 1 .. Len(m)
        BY <3>4
      <4>2. m[1] \in Ids
        BY ONLY <4>1, m \in Seq(Ids), ElementOfSeq
      <4>3. <<m[1]>> \in Seq(Ids) /\ Len(<<m[1]>>) = 1 /\ <<m[1]>>[1] = m[1]
        BY <4>2
      <4>4. \A i \in 1 .. Len(m) : m[i] = <<m[1]>>[i]
        BY <3>4, <4>3
      <4> QED BY ONLY <3>4, <4>2, <4>3, <4>4, m \in Seq(Ids), SeqEqual
    <3>6. Same(s, t, {"ref", "net", "rtp"})
      BY <3>1 DEF Same
    <3> QED BY <3>1, <3>2, <3>3, <3>5, <3>6
  <2> QED BY <2>1, <2>2
<1>4. PICK c \in Ids : t.rtp = <<c>>
  BY <1>3
<1>5. t.mp = <<>> /\ t.tevq = s.tevq
  BY <1>0, <1>3 DEF Same
<1>6. CASE kind = "none"
  <2>1. RtpRecv(s, kind) = t
    BY <1>2, <1>6 DEF RtpRecv
  <2>2. Good(t, n, {})
    BY <1>1, <1>3, GoodLess
  <2>3. Len(t.rtp) <= 1
    BY <1>4
  <2>4. Same(s, t, {"ref", "net", "mp", "rq", "tevq", "rtp"})
    BY <1>3 DEF Same
  <2> QED BY <1>5, <2>1, <2>2, <2>3, <2>4
<1>7. CASE kind # "none"
  <2>1. PICK v : v = [t EXCEPT !.mp = t.rtp, !.rtp = <<>>]
    OBVIOUS
  <2>m. MsgState(t) /\ t.net \in [Ids -> BOOLEAN] /\ t = [x \in MsgFields |-> t[x]]
    BY <1>3 DEF Good, MsgState
  <2>2. /\ v = [x \in MsgFields |-> v[x]] /\ v.mp = t.rtp /\ v.rtp = <<>> /\ Same(t, v, {"mp", "rtp"})
    BY <1>0, <2>1, <2>m DEF Same
  <2>3. Good(v, n + 1, {})
    <3>1. "mp" # "rtp" /\ v["mp"] = t["rtp"] /\ v["rtp"] = <<>> /\ t["mp"] = <<>>
      BY <1>5, <2>2
    <3> QED BY ONLY <1>0, <1>1, <1>3, <2>2, <3>1, ShiftKeeps
  <2>4. PICK r : r = [t EXCEPT !.mp = t.rtp, !.rtp = <<>>, !.net[Head(t.rtp)] = TRUE]
    OBVIOUS
  <2>5. Head(t.rtp) = c
    BY <1>4
  <2>6. /\ r = [x \in MsgFields |-> r[x]] /\ r.mp = t.rtp /\ r.rtp = <<>>
        /\ r.net = [t.net EXCEPT ![c] = TRUE] /\ Same(t, r, {"mp", "rtp", "net"})
    BY <1>0, <2>4, <2>5, <2>m DEF Same, MsgFields
  <2>7. Same(v, r, {"net", "sent"}) /\ v.net = t.net /\ v.sent = t.sent /\ r.sent = t.sent /\ r.tevq = t.tevq
    BY <1>0, <2>2, <2>6 DEF Same, MsgFields
  <2>8. Good(r, n + 1, {c})
    <3>1. PICK D, E : D = {} /\ E = {c}
      OBVIOUS
    <3>2. r.net = [t.net EXCEPT ![c] = TRUE] /\ t.net \in [Ids -> BOOLEAN]
      BY <2>6, <2>m
    <3>3. r.net \in [Ids -> BOOLEAN] /\ \A b \in Ids : r.net[b] => b \in E \/ (v.net[b] /\ b \notin D)
      BY <2>7, <3>1, <3>2
    <3>4. Good(v, n + 1, D)
      BY <2>3, <3>1
    <3>5. r.sent \subseteq {TRUE}
      BY <2>7, <2>m DEF MsgState
    <3>6. r = [x \in MsgFields |-> r[x]]
      BY <2>6
    <3>7. Good(r, n + 1, E)
      BY ONLY <1>1, <2>7, <3>3, <3>4, <3>5, <3>6, OrderKeeps
    <3> QED BY <3>1, <3>7
  <2>9. PICK p : p = Parse(r, kind)
    OBVIOUS
  <2>10. /\ Good(p, n + 1, {}) /\ p.mp = <<>> /\ Pairs(p.tevq)
         /\ Same(r, p, {"ref", "net", "mp", "rq", "tevq"})
    <3>1. kind \in Kinds \ {"none"} /\ r.mp = <<c>> /\ Pairs(r.tevq)
      BY <1>4, <1>5, <1>7, <2>6, <2>7
    <3> QED BY ONLY <1>1, <2>8, <2>9, <3>1, c \in Ids, ParseKeeps
  <2>11. p.rtp = <<>>
    BY <1>0, <2>6, <2>10 DEF Same
  <2>12. PICK q : q = Allocb(p, "rtp")
    OBVIOUS
  <2>13. Good(q, n, {}) /\ Same(p, q, {"ref", "net", "rtp"})
    BY ONLY <1>0, <2>10, <2>12, n \in Nat, AllocKeeps
  <2>14. Len(q.rtp) <= 1
    <3>1. p["rtp"] = <<>>
      BY <2>11
    <3>2. PICK b \in Ids : q["rtp"] = <<b>>
      BY ONLY <1>0, <2>10, <2>12, <3>1, n \in Nat, AllocOne
    <3>3. Len(<<b>>) <= 1
      OBVIOUS
    <3> QED BY ONLY <3>2, <3>3
  <2>15. q.mp = <<>> /\ q.tevq = p.tevq
    BY <1>0, <2>10, <2>13 DEF Same
  <2>16. Same(s, r, {"ref", "net", "mp", "rtp"})
    BY <1>3, <2>6, SameTrans
  <2>17. Same(s, p, {"ref", "net", "mp", "rq", "tevq", "rtp"})
    BY <2>10, <2>16, SameTrans
  <2>18. Same(s, q, {"ref", "net", "mp", "rq", "tevq", "rtp"})
    BY <2>13, <2>17, SameTrans
  <2>19. q = RtpRecv(s, kind)
    <3> DEFINE T == IF s.rtp = <<>> THEN Allocb(s, "rtp") ELSE s
    <3>1. RtpRecv(s, kind) = Allocb(Parse([T EXCEPT !.mp = T.rtp, !.rtp = <<>>, !.net[Head(T.rtp)] = TRUE], kind), "rtp")
      BY ONLY <1>7 DEF RtpRecv
    <3>2. t = T
      BY ONLY <1>2
    <3> HIDE DEF T
    <3> QED BY ONLY <2>4, <2>9, <2>12, <3>1, <3>2
  <2> QED BY <2>10, <2>13, <2>14, <2>15, <2>18, <2>19
<1> QED BY <1>6, <1>7

(* rtp_session_check_telephone_events, and the event is freed: it may stay *)
(* pending as a copy or as itself.                                         *)
LEMMA CheckKeeps ==
  ASSUME NEW s, NEW n \in Nat, NEW how, Good(s, n + 2, {}), Len(s.mp) = 2
  PROVE  \E t : /\ t = FreeAt(CheckTelephoneEvents(s, how), "mp")
                /\ Good(t, n, {}) /\ t.mp = <<>> /\ Same(s, t, {"ref", "net", "mp", "cur"})
<1>0. /\ "mp" \in Singles /\ "cur" \in Singles /\ "mp" # "cur" /\ MsgState(s)
      /\ "mp" \in MsgFields /\ "cur" \in MsgFields
  BY DEF Good, Singles, Boxes, MsgFields
<1>1. n + 2 \in Nat
  OBVIOUS
<1>2. PICK c : c = FreeAt(s, "cur")
  OBVIOUS
<1>3. Good(c, n + 2, {}) /\ Same(s, c, {"ref", "cur"}) /\ c.cur = <<>>
  BY ONLY <1>0, <1>1, <1>2, Good(s, n + 2, {}), FreeClean
<1>4. PICK m \in Messages : m = s.mp /\ Len(m) = 2
  BY <1>0 DEF MsgState
<1>5. c.mp = m /\ c.net = s.net
  BY <1>0, <1>3, <1>4, FieldNames DEF Same
<1>6. CASE how = "mark" \/ s.cur = <<>>
  <2>1. PICK d : d = Copymsg(c, "cur", m)
    OBVIOUS
  <2>2. \A b \in ToSet(m) : ~c.net[b]
    BY <1>0, <1>4, <1>5, HostOrder
  <2>3. Good(c, n + Len(m), {})
    BY ONLY <1>3, <1>4
  <2>4. Good(d, n, {}) /\ Same(c, d, {"ref", "net", "cur"})
    BY ONLY <1>0, <2>1, <2>2, <2>3, n \in Nat, m \in Messages, CopymsgKeeps
  <2>5. PICK t : t = FreeAt(d, "mp")
    OBVIOUS
  <2>6. Good(t, n, {}) /\ Same(d, t, {"ref", "mp"}) /\ t.mp = <<>>
    BY ONLY <1>0, <2>4, <2>5, n \in Nat, FreeClean
  <2>7. Same(s, d, {"ref", "net", "cur"})
    BY <1>3, <2>4, SameTrans
  <2>8. Same(s, t, {"ref", "net", "mp", "cur"})
    BY <2>6, <2>7, SameTrans
  <2>9. d = CheckTelephoneEvents(s, how)
    BY <1>2, <1>4, <1>6, <2>1 DEF CheckTelephoneEvents
  <2> QED BY <2>5, <2>6, <2>8, <2>9
<1>7. CASE ~(how = "mark" \/ s.cur = <<>>) /\ how = "other"
  <2>1. PICK d : d = [Dupmsg(c, m) EXCEPT !.cur = m]
    OBVIOUS
  <2>m. c = [x \in MsgFields |-> c[x]] /\ c.ref \in [Ids -> Int]
    BY <1>3 DEF Good, MsgState
  <2>2. /\ d = [x \in MsgFields |-> d[x]] /\ d.cur = m /\ d.mp = m /\ Same(c, d, {"ref", "cur"})
        /\ d.ref = [b \in Ids |-> c.ref[b] + Occurrences(m, b)]
    BY <1>0, <1>5, <2>1, <2>m, FieldNames DEF Dupmsg, Same
  <2>3. PICK t : t = FreeAt(d, "mp")
    OBVIOUS
  <2>4. /\ t = [x \in MsgFields |-> t[x]] /\ t.mp = <<>> /\ Same(d, t, {"ref", "mp"})
        /\ t.ref = [b \in Ids |-> d.ref[b] - Occurrences(m, b)]
    <3>1. t = [[d EXCEPT !.ref = [b \in Ids |-> @[b] - Occurrences(m, b)]] EXCEPT !["mp"] = <<>>]
      BY <2>2, <2>3 DEF FreeAt, Freemsg
    <3>2. d = [x \in MsgFields |-> d[x]]
      BY <2>2
    <3> QED BY <1>0, <3>1, <3>2, FieldNames DEF Same
  <2>5. t.ref = c.ref
    <3>1. \A b \in Ids : d.ref[b] - Occurrences(m, b) = c.ref[b]
      <4> TAKE b \in Ids
      <4>1. PICK o \in Nat : o = Occurrences(m, b)
        BY OccurrencesNat
      <4>2. PICK r \in Int : r = c.ref[b]
        BY <2>m
      <4>3. d.ref[b] = r + o
        BY <2>2, <4>1, <4>2
      <4>4. (r + o) - o = r
        OBVIOUS
      <4> QED BY <4>1, <4>2, <4>3, <4>4
    <3>2. t.ref = [b \in Ids |-> d.ref[b] - Occurrences(m, b)]
      BY <2>4
    <3> QED BY ONLY <2>m, <3>1, <3>2
  <2>6. Same(c, t, {"cur", "mp"}) /\ t.cur = m
    <3>1. Same(c, t, {"ref", "cur", "mp"})
      BY <2>2, <2>4, SameTrans
    <3>2. t.cur = d.cur
      BY <1>0, <2>4 DEF Same, MsgFields
    <3> QED BY <2>2, <2>5, <3>1, <3>2 DEF Same
  <2>7. Good(c, n, {})
    BY <1>1, <1>3, GoodLess
  <2>8. Good(t, n, {})
    <3>1. t["cur"] = c["mp"] /\ t["mp"] = <<>> /\ c["cur"] = <<>> /\ t = [x \in MsgFields |-> t[x]]
      BY <1>3, <1>5, <2>4, <2>6
    <3> QED BY ONLY <1>0, <2>6, <2>7, <3>1, n \in Nat, ShiftKeeps
  <2>9. Same(s, t, {"ref", "net", "mp", "cur"})
    BY <1>3, <2>6, SameTrans
  <2>10. d = CheckTelephoneEvents(s, how)
    BY <1>2, <1>4, <1>7, <2>1 DEF CheckTelephoneEvents
  <2> QED BY <2>3, <2>4, <2>8, <2>9, <2>10
<1>8. CASE ~(how = "mark" \/ s.cur = <<>>) /\ how # "other"
  <2>1. CheckTelephoneEvents(s, how) = s
    BY <1>8 DEF CheckTelephoneEvents
  <2>2. PICK t : t = FreeAt(s, "mp")
    OBVIOUS
  <2>3. Good(s, n, {})
    BY <1>1, GoodLess
  <2>4. Good(t, n, {}) /\ Same(s, t, {"ref", "mp"}) /\ t.mp = <<>>
    BY ONLY <1>0, <2>2, <2>3, n \in Nat, FreeClean
  <2>5. Same(s, t, {"ref", "net", "mp", "cur"})
    BY <2>4 DEF Same
  <2> QED BY <2>1, <2>2, <2>4, <2>5
<1> QED BY <1>6, <1>7, <1>8

(* A telephone event is taken and looked at. *)
LEMMA TakeEventKeeps ==
  ASSUME NEW s, NEW n \in Nat, NEW how, Good(s, n + 2, {}), s.mp = <<>>, Pairs(s.tevq)
  PROVE  /\ Good(TakeEvent(s, how), n, {}) /\ TakeEvent(s, how).mp = <<>>
         /\ Pairs(TakeEvent(s, how).tevq)
         /\ Same(s, TakeEvent(s, how), {"ref", "net", "mp", "cur", "tevq"})
<1>0. /\ "mp" \in Singles /\ "tevq" \in Queues /\ MsgState(s)
      /\ "mp" \in MsgFields /\ "tevq" \in MsgFields
  BY DEF Good, Singles, Queues, Boxes, MsgFields
<1>1. n + 2 \in Nat
  OBVIOUS
<1>2. CASE s.tevq = <<>>
  <2>1. TakeEvent(s, how) = s
    BY <1>2 DEF TakeEvent
  <2>2. Good(s, n, {})
    BY <1>1, GoodLess
  <2> QED BY <2>1, <2>2 DEF Same
<1>3. CASE s.tevq # <<>>
  <2>1. PICK q \in Seq(Messages) : q = s.tevq /\ q # <<>>
    BY <1>0, <1>3 DEF MsgState
  <2>2. PICK l \in Nat : l = Len(q) /\ l # 0
    BY ONLY <2>1, q \in Seq(Messages), EmptySeq, LenProperties
  <2>3. 1 \in 1 .. Len(s["tevq"])
    BY <2>1, <2>2
  <2>4. PICK t : t = TakeOut(s, "tevq", 1)
    OBVIOUS
  <2>5. /\ Good(t, n + 2, {}) /\ Same(s, t, {"mp", "tevq"}) /\ t.mp = s["tevq"][1]
        /\ t["tevq"] = RemoveAt(s["tevq"], 1)
    <3>1. PICK k \in Nat : k = n + 2
      BY <1>1
    <3>2. Good(s, k, {})
      BY <3>1
    <3>3. /\ Good(t, k, {}) /\ Same(s, t, {"mp", "tevq"}) /\ t.mp = s["tevq"][1]
          /\ t["tevq"] = RemoveAt(s["tevq"], 1)
      <4>1. Good(t, k, {}) /\ TakenOut(s, "tevq", 1, t)
        BY ONLY <1>0, <2>3, <2>4, <3>2, k \in Nat, s.mp = <<>>, TakeOutKeeps
      <4> QED BY ONLY <4>1 DEF TakenOut
    <3> QED BY ONLY <3>1, <3>3
  <2>6. t.mp = q[1] /\ t.tevq = RemoveAt(q, 1)
    BY ONLY <2>1, <2>5
  <2>7. Len(t.mp) = 2
    BY <2>1, <2>3, <2>6 DEF Pairs
  <2>8. Pairs(t.tevq)
    <3>1. /\ Len(RemoveAt(q, 1)) = l - 1
          /\ \A j \in 1 .. l - 1 : RemoveAt(q, 1)[j] = IF j < 1 THEN q[j] ELSE q[j + 1]
      BY <2>1, <2>2, <2>3, RemoveAtIs
    <3>2. \A j \in 1 .. l - 1 : j + 1 \in 1 .. l /\ ~(j < 1)
      OBVIOUS
    <3>3. \A j \in 1 .. l : Len(q[j]) = 2
      BY <2>1, <2>2 DEF Pairs
    <3> QED BY ONLY <2>6, <3>1, <3>2, <3>3 DEF Pairs
  <2>9. \E u : /\ u = TakeEvent(s, how) /\ Good(u, n, {}) /\ u.mp = <<>>
               /\ Same(t, u, {"ref", "net", "mp", "cur"})
    <3>1. CASE how = "ignored"
      <4>1. PICK u : u = FreeAt(t, "mp")
        OBVIOUS
      <4>2. Good(t, n, {})
        BY <1>1, <2>5, GoodLess
      <4>3. Good(u, n, {}) /\ Same(t, u, {"ref", "mp"}) /\ u.mp = <<>>
        <5>1. {} \ ToSet(t["mp"]) = {}
          OBVIOUS
        <5> QED BY ONLY <1>0, <4>1, <4>2, <5>1, n \in Nat, FreeAtKeeps
      <4>4. Same(t, u, {"ref", "net", "mp", "cur"})
        BY <4>3 DEF Same
      <4>5. u = TakeEvent(s, how)
        BY <1>3, <2>4, <3>1, <4>1 DEF TakeEvent
      <4> QED BY <4>3, <4>4, <4>5
    <3>2. CASE how # "ignored"
      <4>1. PICK u : /\ u = FreeAt(CheckTelephoneEvents(t, how), "mp")
                     /\ Good(u, n, {}) /\ u.mp = <<>> /\ Same(t, u, {"ref", "net", "mp", "cur"})
        BY ONLY <2>5, <2>7, n \in Nat, CheckKeeps
      <4>2. u = TakeEvent(s, how)
        BY <1>3, <2>4, <3>2, <4>1 DEF TakeEvent
      <4> QED BY <4>1, <4>2
    <3> QED BY <3>1, <3>2
  <2>10. PICK u : /\ u = TakeEvent(s, how) /\ Good(u, n, {}) /\ u.mp = <<>>
                  /\ Same(t, u, {"ref", "net", "mp", "cur"})
    BY <2>9
  <2>11. u.tevq = t.tevq
    BY <1>0, <2>10 DEF Same
  <2>12. Same(s, u, {"ref", "net", "mp", "cur", "tevq"})
    BY <2>5, <2>10, SameTrans
  <2> QED BY <2>8, <2>10, <2>11, <2>12
<1> QED BY <1>2, <1>3

(* rtp_getq: the last of the packets taken is left at mp. *)
LEMMA GetqKeeps ==
  ASSUME NEW s, NEW n \in Nat, NEW k \in 0 .. Len(s.rq), Good(s, n, {}), s.mp = <<>>
  PROVE  Good(Getq(s, k), n, {}) /\ Same(s, Getq(s, k), {"ref", "mp", "rq"})
<1>0. /\ "mp" \in Singles /\ "rq" \in Queues /\ MsgState(s)
      /\ "mp" \in MsgFields /\ "rq" \in MsgFields
  BY DEF Good, Singles, Queues, Boxes, MsgFields
<1>1. CASE k = 0
  BY <1>1 DEF Getq, Same
<1>2. CASE k # 0
  <2>1. PICK q \in Seq(Messages) : q = s.rq
    BY <1>0 DEF MsgState
  <2>2. PICK l \in Nat : l = Len(q)
    BY LenProperties
  <2>3. k - 1 \in 0 .. Len(s["rq"]) /\ k - 1 \in 0 .. Len(q) /\ l - (k - 1) >= 1 /\ k \in 1 .. l
    BY <1>2, <2>1, <2>2
  <2>4. PICK t : t = FreeFirst(s, "rq", k - 1)
    OBVIOUS
  <2>5. /\ Good(t, n, {}) /\ Same(s, t, {"ref", "rq"})
        /\ t["rq"] = SubSeq(s["rq"], (k - 1) + 1, Len(s["rq"]))
    BY ONLY <1>0, <2>3, <2>4, n \in Nat, Good(s, n, {}), FreeFirstKeeps
  <2>6. Len(t["rq"]) = l - (k - 1)
    <3>1. Len(SubSeq(q, (k - 1) + 1, Len(q))) = Len(q) - (k - 1)
      BY ONLY <2>3, q \in Seq(Messages), QueueRest
    <3> QED BY ONLY <2>1, <2>2, <2>5, <3>1
  <2>7. 1 \in 1 .. Len(t["rq"]) /\ t.mp = <<>>
    <3>1. 1 \in 1 .. l - (k - 1)
      BY <2>3
    <3>2. t.mp = s.mp
      BY <1>0, <2>5 DEF Same
    <3> QED BY <2>6, <3>1, <3>2
  <2>8. PICK u : u = TakeOut(t, "rq", 1)
    OBVIOUS
  <2>9. Good(u, n, {}) /\ Same(t, u, {"mp", "rq"})
    <3>1. Good(u, n, {}) /\ TakenOut(t, "rq", 1, u)
      BY ONLY <1>0, <2>5, <2>7, <2>8, n \in Nat, TakeOutKeeps
    <3> QED BY ONLY <3>1 DEF TakenOut
  <2>10. Same(s, u, {"ref", "mp", "rq"})
    BY <2>5, <2>9, SameTrans
  <2>11. u = Getq(s, k)
    BY <1>2, <2>4, <2>8 DEF Getq
  <2> QED BY <2>9, <2>10, <2>11
<1> QED BY <1>1, <1>2

-----------------------------------------------------------------------------
(* Between two calls nothing is left at the pointers a call works with;    *)
(* the kept buffer is one block, telephone events are pairs and what the   *)
(* application holds is not empty.                                         *)
Idle(s) == s.mp = <<>> /\ s.m1 = <<>> /\ s.m2 = <<>> /\ s.m3 = <<>> /\ s.rep = <<>>
Filled(q) == \A i \in 1 .. Len(q) : q[i] # <<>>

(* The inductive invariant, of the states between two calls. *)
MsgIInv(s) ==
  /\ Good(s, 0, {}) /\ Idle(s)
  /\ Len(s.rtp) <= 1 /\ Pairs(s.tevq) /\ Filled(s.hands)

(* The names of the fields. *)
LEMMA AllNames ==
  /\ {"sd", "mp", "m1", "m2", "m3", "rep", "cur", "rtp", "rtcp", "csrc", "rq", "tevq", "hands",
      "ref", "net", "sent", "alive", "leaks"} \subseteq MsgFields
  /\ {"sd", "mp", "m1", "m2", "m3", "rep", "cur", "rtp", "rtcp"} \subseteq Singles
  /\ {"csrc", "rq", "tevq", "hands"} \subseteq Queues
BY DEF MsgFields, Boxes, Singles, Queues

(* What rtp_session_recvm_with_ts leaves. *)
Received(s, t) ==
  /\ Good(t, 0, {}) /\ t.rep = <<>> /\ Len(t.rtp) <= 1 /\ Pairs(t.tevq)
  /\ Same(s, t, {"ref", "net", "mp", "rq", "tevq", "rtp", "rtcp", "cur", "rep", "alive"})

(* rtp_session_recvm_with_ts needs at most seven blocks. *)
LEMMA RecvmKeeps ==
  ASSUME NEW s, NEW kind \in Kinds, NEW how, NEW k \in Nat, NEW due \in BOOLEAN,
         MsgIInv(s), Good(s, 7, {})
  PROVE  Received(s, RecvmBlocks(s, kind, how, k, due))
<1>0. s.mp = <<>> /\ s.rep = <<>> /\ Len(s.rtp) <= 1 /\ Pairs(s.tevq)
  BY DEF MsgIInv, Idle
<1>1. PICK a : a = RtpRecv(s, kind)
  OBVIOUS
<1>2. /\ Good(a, 5, {}) /\ a.mp = <<>> /\ Len(a.rtp) <= 1 /\ Pairs(a.tevq)
      /\ Same(s, a, {"ref", "net", "mp", "rq", "tevq", "rtp"})
  <2>1. PICK n \in Nat : n = 5 /\ n + 2 = 7
    OBVIOUS
  <2>2. Good(s, n + 2, {})
    BY <2>1
  <2>3. /\ Good(a, n, {}) /\ a.mp = <<>> /\ Len(a.rtp) <= 1 /\ Pairs(a.tevq)
        /\ Same(s, a, {"ref", "net", "mp", "rq", "tevq", "rtp"})
    BY ONLY <1>0, <1>1, <2>2, n \in Nat, kind \in Kinds, RtpRecvKeeps
  <2> QED BY ONLY <2>1, <2>3
<1>3. PICK b : b = RtcpRecv(a)
  OBVIOUS
<1>4. Good(b, 4, {}) /\ Same(a, b, {"ref", "net", "rtcp"})
  <2>1. PICK n \in Nat : n = 4 /\ n + 1 = 5
    OBVIOUS
  <2>2. Good(a, n + 1, {})
    BY <1>2, <2>1
  <2>3. Good(b, n, {}) /\ Same(a, b, {"ref", "net", "rtcp"})
    BY ONLY <1>3, <2>2, n \in Nat, RtcpRecvKeeps
  <2> QED BY ONLY <2>1, <2>3
<1>5. b.mp = <<>> /\ b.tevq = a.tevq /\ b.rtp = a.rtp
  BY <1>2, <1>4, AllNames DEF Same
<1>6. PICK r : r = TakeEvent(b, how)
  OBVIOUS
<1>7. /\ Good(r, 2, {}) /\ r.mp = <<>> /\ Pairs(r.tevq)
      /\ Same(b, r, {"ref", "net", "mp", "cur", "tevq"})
  <2>1. PICK n \in Nat : n = 2 /\ n + 2 = 4
    OBVIOUS
  <2>2. Good(b, n + 2, {}) /\ Pairs(b.tevq)
    BY <1>2, <1>4, <1>5, <2>1
  <2>3. /\ Good(r, n, {}) /\ r.mp = <<>> /\ Pairs(r.tevq)
        /\ Same(b, r, {"ref", "net", "mp", "cur", "tevq"})
    BY ONLY <1>5, <1>6, <2>2, n \in Nat, TakeEventKeeps
  <2> QED BY ONLY <2>1, <2>3
<1>8. PICK j : j = IF k <= Len(r.rq) THEN k ELSE 0
  OBVIOUS
<1>9. j \in 0 .. Len(r.rq)
  <2>1. r.rq \in Seq(Messages)
    BY <1>7, AllNames DEF Good, MsgState
  <2>2. Len(r.rq) \in Nat
    BY <2>1, LenProperties
  <2> QED BY <1>8, <2>2
<1>10. PICK g : g = Getq(r, j)
  OBVIOUS
<1>11. Good(g, 2, {}) /\ Same(r, g, {"ref", "mp", "rq"})
  BY <1>7, <1>9, <1>10, GetqKeeps
<1>12. /\ Same(s, b, {"ref", "net", "mp", "rq", "tevq", "rtp", "rtcp"})
  BY <1>2, <1>4, SameTrans
<1>13. Same(s, r, {"ref", "net", "mp", "rq", "tevq", "rtp", "rtcp", "cur"})
  BY <1>7, <1>12, SameTrans
<1>14. Same(s, g, {"ref", "net", "mp", "rq", "tevq", "rtp", "rtcp", "cur"})
  BY <1>11, <1>13, SameTrans
<1>15. g.rep = <<>> /\ g.rtp = a.rtp /\ g.tevq = r.tevq
  <2>1. g.rep = s.rep
    BY <1>14, AllNames DEF Same
  <2>2. g.rtp = r.rtp /\ g.tevq = r.tevq
    BY <1>11, AllNames DEF Same
  <2>3. r.rtp = b.rtp
    BY <1>7, AllNames DEF Same
  <2> QED BY <1>0, <1>5, <2>1, <2>2, <2>3
<1>16. PICK t : t = ProcessRtcp(g, due)
  OBVIOUS
<1>17. Good(t, 0, {}) /\ t.rep = <<>> /\ Same(g, t, {"ref", "net", "rep", "alive"})
  <2>1. PICK n \in Nat : n = 0 /\ n + 2 = 2
    OBVIOUS
  <2>2. Good(g, n + 2, {})
    BY <1>11, <2>1
  <2>3. Good(t, n, {}) /\ t.rep = <<>> /\ Same(g, t, {"ref", "net", "rep", "alive"})
    BY ONLY <1>15, <1>16, <2>2, n \in Nat, due \in BOOLEAN, ReportKeeps
  <2> QED BY ONLY <2>1, <2>3
<1>18. t.rtp = g.rtp /\ t.tevq = g.tevq
  BY <1>17, AllNames DEF Same
<1>19. Same(s, t, {"ref", "net", "mp", "rq", "tevq", "rtp", "rtcp", "cur", "rep", "alive"})
  BY <1>14, <1>17, SameTrans
<1>20. t = RecvmBlocks(s, kind, how, k, due)
  BY ONLY <1>1, <1>3, <1>6, <1>8, <1>10, <1>16 DEF RecvmBlocks
<1> QED BY <1>2, <1>7, <1>15, <1>17, <1>18, <1>19, <1>20 DEF Received

(* The message at f is sent; n blocks are left. *)
SentOne(s, f, n, t) ==
  /\ Good(t, n, {}) /\ t[f] = <<>> /\ t.rep = <<>>
  /\ Same(s, t, {"ref", "net", "sent", "rtcp", "rep", "alive", f})

(* One message of rtp_session_send_dtmf. *)
LEMMA SendOne ==
  ASSUME NEW s, NEW n \in Nat, NEW f \in {"mp", "m1", "m2", "m3"}, NEW due \in BOOLEAN, NEW k,
         k = n + 3, Good(s, k, {}), Len(s[f]) = 1, s.rep = <<>>
  PROVE  SentOne(s, f, n, Sendm(s, f, due))
<1>1. s[f] # <<>>
  OBVIOUS
<1> QED BY <1>1, SendmKeeps DEF SentOne

(* One of the copies of rtp_session_send_dtmf. *)
LEMMA CopyOne ==
  ASSUME NEW s, NEW n \in Nat, NEW f \in Singles, NEW g \in Singles, NEW k, k = n + 1,
         Good(s, k, {}), s[f] = <<>>, Len(s[g]) = 1
  PROVE  /\ Good(Copymsg(s, f, s[g]), n, {}) /\ Len(Copymsg(s, f, s[g])[f]) = 1
         /\ Same(s, Copymsg(s, f, s[g]), {"ref", "net", f})
<1>1. s[g] \in Messages /\ \A b \in ToSet(s[g]) : ~s.net[b]
  BY HostOrder
<1>2. PICK m \in Messages : m = s[g] /\ Len(m) = 1 /\ \A b \in ToSet(m) : ~s.net[b]
  BY <1>1
<1>3. Good(s, n + Len(m), {})
  BY <1>2
<1>4. /\ Good(Copymsg(s, f, m), n, {}) /\ Same(s, Copymsg(s, f, m), {"ref", "net", f})
      /\ Len(Copymsg(s, f, m)[f]) = Len(s[f]) + Len(m)
  BY ONLY <1>2, <1>3, n \in Nat, f \in Singles, CopymsgKeeps
<1>5. Len(s[f]) + Len(m) = 1
  BY <1>2
<1> QED BY ONLY <1>2, <1>4, <1>5

(* rtp_session_send_dtmf needs at most twenty blocks, and leaves none of   *)
(* its three packets.                                                      *)
LEMMA SendDtmfKeeps ==
  ASSUME NEW s, NEW due \in BOOLEAN, MsgIInv(s), Good(s, 20, {})
  PROVE  MsgIInv(SendDtmf(s, due))
<1>0. Idle(s)
  BY DEF MsgIInv
<1>n. {"m1", "m2", "m3"} \subseteq Singles
  BY AllNames
<1>1. PICK a : a = Allocb(s, "m1")
  OBVIOUS
<1>2. Good(a, 19, {}) /\ Same(s, a, {"ref", "net", "m1"}) /\ Len(a.m1) = 1
  <2>1. 19 + 1 = 20
    OBVIOUS
  <2>2. PICK c \in Ids : Allocb(s, "m1")["m1"] = <<c>>
    BY <1>0, <1>n, <2>1, AllocOne DEF Idle
  <2> QED BY <1>1, <1>n, <2>1, <2>2, AllocKeeps
<1>3. PICK b : b = Allocb(a, "m2")
  OBVIOUS
<1>4. a.m2 = <<>> /\ a.m3 = <<>> /\ a.rep = <<>>
  BY <1>0, <1>2, AllNames DEF Same, Idle
<1>5. Good(b, 18, {}) /\ Same(a, b, {"ref", "net", "m2"}) /\ Len(b.m2) = 1
  <2>1. 18 + 1 = 19
    OBVIOUS
  <2>2. PICK c \in Ids : Allocb(a, "m2")["m2"] = <<c>>
    <3>1. PICK x \in Nat : x = 18
      OBVIOUS
    <3>2. Good(a, x + 1, {}) /\ a["m2"] = <<>> /\ "m2" \in Singles
      BY ONLY <1>2, <1>4, <2>1, <3>1, AllNames
    <3> QED BY ONLY <3>2, x \in Nat, AllocOne
  <2> QED BY <1>2, <1>3, <1>n, <2>1, <2>2, AllocKeeps
<1>6. PICK c : c = Allocb(b, "m3")
  OBVIOUS
<1>7. b.m1 = a.m1 /\ b.m3 = <<>> /\ b.rep = <<>>
  BY <1>4, <1>5, AllNames DEF Same
<1>8. Good(c, 17, {}) /\ Same(b, c, {"ref", "net", "m3"}) /\ Len(c.m3) = 1
  <2>1. 17 + 1 = 18
    OBVIOUS
  <2>2. PICK d \in Ids : Allocb(b, "m3")["m3"] = <<d>>
    <3>1. PICK x \in Nat : x = 17
      OBVIOUS
    <3>2. Good(b, x + 1, {}) /\ b["m3"] = <<>> /\ "m3" \in Singles
      BY ONLY <1>5, <1>7, <2>1, <3>1, AllNames
    <3> QED BY ONLY <3>2, x \in Nat, AllocOne
  <2> QED BY <1>5, <1>6, <1>n, <2>1, <2>2, AllocKeeps
<1>9. Len(c.m1) = 1 /\ Len(c.m2) = 1 /\ c.rep = <<>>
  BY <1>2, <1>5, <1>7, <1>8, AllNames DEF Same
<1>10. PICK d : d = Sendm(c, "m1", due)
  OBVIOUS
<1>11. /\ Good(d, 14, {}) /\ d.m1 = <<>> /\ d.rep = <<>>
       /\ Same(c, d, {"ref", "net", "sent", "rtcp", "rep", "alive", "m1"})
  <2>1. 17 = 14 + 3
    OBVIOUS
  <2>2. SentOne(c, "m1", 14, d)
    BY ONLY <1>8, <1>9, <1>10, <2>1, due \in BOOLEAN, SendOne
  <2> QED BY ONLY <2>2 DEF SentOne
<1>12. Len(d.m2) = 1 /\ Len(d.m3) = 1
  BY <1>8, <1>9, <1>11, AllNames DEF Same
<1>13. PICK e : e = Sendm(d, "m2", due)
  OBVIOUS
<1>14. /\ Good(e, 11, {}) /\ e.m2 = <<>> /\ e.rep = <<>>
       /\ Same(d, e, {"ref", "net", "sent", "rtcp", "rep", "alive", "m2"})
  <2>1. 14 = 11 + 3
    OBVIOUS
  <2>2. SentOne(d, "m2", 11, e)
    BY ONLY <1>11, <1>12, <1>13, <2>1, due \in BOOLEAN, SendOne
  <2> QED BY ONLY <2>2 DEF SentOne
<1>15. e.m1 = <<>> /\ Len(e.m3) = 1
  BY <1>11, <1>12, <1>14, AllNames DEF Same
<1>16. PICK g : g = Copymsg(e, "m1", e.m3)
  OBVIOUS
<1>17. Good(g, 10, {}) /\ Len(g.m1) = 1 /\ Same(e, g, {"ref", "net", "m1"})
  <2>1. 11 = 10 + 1
    OBVIOUS
  <2> QED BY <1>14, <1>15, <1>16, <1>n, <2>1, CopyOne
<1>18. g.m2 = <<>> /\ g.m3 = e.m3 /\ g.rep = <<>>
  BY <1>14, <1>17, AllNames DEF Same
<1>19. PICK h : h = Copymsg(g, "m2", e.m3)
  OBVIOUS
<1>20. Good(h, 9, {}) /\ Len(h.m2) = 1 /\ Same(g, h, {"ref", "net", "m2"})
  <2>1. 10 = 9 + 1
    OBVIOUS
  <2>2. Len(g["m3"]) = 1 /\ h = Copymsg(g, "m2", g["m3"])
    BY <1>15, <1>18, <1>19
  <2> QED BY <1>17, <1>18, <1>n, <2>1, <2>2, CopyOne
<1>21. Len(h.m1) = 1 /\ Len(h.m3) = 1 /\ h.rep = <<>>
  BY <1>15, <1>17, <1>18, <1>20, AllNames DEF Same
<1>22. PICK i : i = Sendm(h, "m3", due)
  OBVIOUS
<1>23. /\ Good(i, 6, {}) /\ i.m3 = <<>> /\ i.rep = <<>>
       /\ Same(h, i, {"ref", "net", "sent", "rtcp", "rep", "alive", "m3"})
  <2>1. 9 = 6 + 3
    OBVIOUS
  <2>2. SentOne(h, "m3", 6, i)
    BY ONLY <1>20, <1>21, <1>22, <2>1, due \in BOOLEAN, SendOne
  <2> QED BY ONLY <2>2 DEF SentOne
<1>24. Len(i.m1) = 1 /\ Len(i.m2) = 1
  BY <1>20, <1>21, <1>23, AllNames DEF Same
<1>25. PICK j : j = Sendm(i, "m1", due)
  OBVIOUS
<1>26. /\ Good(j, 3, {}) /\ j.m1 = <<>> /\ j.rep = <<>>
       /\ Same(i, j, {"ref", "net", "sent", "rtcp", "rep", "alive", "m1"})
  <2>1. 6 = 3 + 3
    OBVIOUS
  <2>2. SentOne(i, "m1", 3, j)
    BY ONLY <1>23, <1>24, <1>25, <2>1, due \in BOOLEAN, SendOne
  <2> QED BY ONLY <2>2 DEF SentOne
<1>27. Len(j.m2) = 1 /\ j.m3 = <<>>
  BY <1>23, <1>24, <1>26, AllNames DEF Same
<1>28. PICK t : t = Sendm(j, "m2", due)
  OBVIOUS
<1>29. /\ Good(t, 0, {}) /\ t.m2 = <<>> /\ t.rep = <<>>
       /\ Same(j, t, {"ref", "net", "sent", "rtcp", "rep", "alive", "m2"})
  <2>1. 3 = 0 + 3
    OBVIOUS
  <2>2. SentOne(j, "m2", 0, t)
    BY ONLY <1>26, <1>27, <1>28, <2>1, due \in BOOLEAN, SendOne
  <2> QED BY ONLY <2>2 DEF SentOne
<1>30. t.m1 = <<>> /\ t.m3 = <<>>
  BY <1>26, <1>27, <1>29, AllNames DEF Same
<1>31. Same(s, t, {"ref", "net", "sent", "rtcp", "rep", "alive", "m1", "m2", "m3"})
  BY <1>2, <1>5, <1>8, <1>11, <1>14, <1>17, <1>20, <1>23, <1>26, <1>29 DEF Same
<1>32. t.mp = s.mp /\ t.rtp = s.rtp /\ t.tevq = s.tevq /\ t.hands = s.hands
  BY <1>31, AllNames DEF Same
<1>33. t = SendDtmf(s, due)
  BY ONLY <1>1, <1>3, <1>6, <1>10, <1>13, <1>16, <1>19, <1>22, <1>25, <1>28 DEF SendDtmf
<1> QED BY <1>29, <1>30, <1>32, <1>33 DEF MsgIInv, Idle

(* The message at mp goes to the end of f, and what that changes. *)
AtEnd(s, f) == [s EXCEPT ![f] = Append(@, s.mp), !.mp = <<>>]

PutAtEnd(s, f, t) == Same(s, t, {"mp", f}) /\ t.mp = <<>> /\ t[f] = Append(s[f], s.mp)

(* A message goes to the end of a queue. *)
LEMMA PutEnd ==
  ASSUME NEW s, NEW n \in Nat, NEW f \in Queues, Good(s, n, {})
  PROVE  Good(AtEnd(s, f), n, {}) /\ PutAtEnd(s, f, AtEnd(s, f))
<1>t. PICK t : t = AtEnd(s, f)
  OBVIOUS
<1>0. MsgState(s) /\ "mp" \in Singles /\ f # "mp" /\ "mp" \in MsgFields /\ f \in MsgFields
  BY FieldNames, AllNames DEF Good
<1>1. /\ t = [x \in MsgFields |-> t[x]] /\ t.mp = <<>> /\ Same(s, t, {"mp", f})
      /\ t[f] = Append(s[f], s.mp)
  BY <1>0, <1>t DEF MsgState, Same, AtEnd
<1>2. PICK q \in Seq(Messages), m \in Messages : q = s[f] /\ m = s.mp
  BY <1>0 DEF MsgState
<1>3. PutIn(q, Len(q) + 1, m, Append(q, m))
  BY PutInIs
<1>4. PutIn(s[f], Len(s[f]) + 1, s.mp, t[f])
  BY ONLY <1>1, <1>2, <1>3
<1>5. Len(s[f]) + 1 \in 1 .. Len(s[f]) + 1
  <2>1. Len(q) \in Nat
    BY LenProperties
  <2>2. PICK l \in Nat : l = Len(s[f])
    BY ONLY <1>2, <2>1
  <2>3. l + 1 \in 1 .. l + 1
    BY ONLY l \in Nat
  <2> QED BY ONLY <2>2, <2>3
<1>6. Good(t, n, {})
  BY ONLY <1>1, <1>4, <1>5, n \in Nat, f \in Queues, Good(s, n, {}), PutKeeps
<1> QED BY ONLY <1>t, <1>1, <1>6 DEF PutAtEnd

(* rtp_session_set_source_description *)
LEMMA SetSourceKeeps ==
  ASSUME NEW s, NEW parts, MsgIInv(s), Good(s, 2, {})
  PROVE  MsgIInv(SetSourceDescription(s, parts))
<1>0. Idle(s) /\ "mp" \in Singles /\ "sd" \in Singles /\ "mp" # "sd" /\ "mp" \in MsgFields /\ "sd" \in MsgFields
  BY AllNames DEF MsgIInv
<1>1. PICK a : a = IF parts = 2 THEN Allocb(Allocb(s, "mp"), "mp") ELSE Allocb(s, "mp")
  OBVIOUS
<1>2. Good(a, 0, {}) /\ Same(s, a, {"ref", "net", "mp"})
  <2>1. PICK b : b = Allocb(s, "mp")
    OBVIOUS
  <2>2. Good(b, 1, {}) /\ Same(s, b, {"ref", "net", "mp"})
    <3>1. 2 = 1 + 1
      OBVIOUS
    <3> QED BY <1>0, <2>1, <3>1, AllocKeeps
  <2>3. CASE parts = 2
    <3>1. 1 = 0 + 1
      OBVIOUS
    <3>2. Good(a, 0, {}) /\ Same(b, a, {"ref", "net", "mp"})
      BY <1>0, <1>1, <2>1, <2>2, <2>3, <3>1, AllocKeeps
    <3> QED BY <2>2, <3>2, SameTrans
  <2>4. CASE parts # 2
    <3>1. a = b
      BY <1>1, <2>1, <2>4
    <3>2. Good(b, 0, {})
      BY <2>2, GoodLess
    <3> QED BY <2>2, <3>1, <3>2
  <2> QED BY <2>3, <2>4
<1>3. PICK c : c = FreeAt(a, "sd")
  OBVIOUS
<1>4. Good(c, 0, {}) /\ Same(a, c, {"ref", "sd"}) /\ c.sd = <<>>
  BY <1>0, <1>2, <1>3, FreeClean
<1>5. c.mp = a.mp /\ c = [x \in MsgFields |-> c[x]]
  BY <1>0, <1>4 DEF Same, Good, MsgState
<1>6. PICK t : t = [c EXCEPT !.sd = a.mp, !.mp = <<>>]
  OBVIOUS
<1>7. /\ t = [x \in MsgFields |-> t[x]] /\ t.sd = a.mp /\ t.mp = <<>> /\ Same(c, t, {"sd", "mp"})
  BY <1>0, <1>5, <1>6 DEF Same
<1>8. Good(t, 0, {})
  <2>1. t["sd"] = c["mp"] /\ t["mp"] = <<>> /\ c["sd"] = <<>>
    BY <1>4, <1>5, <1>7
  <2> QED BY ONLY <1>0, <1>4, <1>7, <2>1, 0 \in Nat, ShiftKeeps
<1>9. Same(s, t, {"ref", "net", "mp", "sd"})
  BY <1>2, <1>4, <1>7 DEF Same
<1>10. /\ t.m1 = s.m1 /\ t.m2 = s.m2 /\ t.m3 = s.m3 /\ t.rep = s.rep /\ t.rtp = s.rtp
       /\ t.tevq = s.tevq /\ t.hands = s.hands
  BY <1>9, AllNames DEF Same
<1>11. t = SetSourceDescription(s, parts)
  BY ONLY <1>1, <1>3, <1>6 DEF SetSourceDescription
<1> QED BY <1>7, <1>8, <1>10, <1>11 DEF MsgIInv, Idle

(* rtp_session_init *)
LEMMA MsgInitKeeps == MsgInit => MsgIInv(ms)
<1> SUFFICES ASSUME MsgInit PROVE MsgIInv(ms)
  OBVIOUS
<1>1. PICK s : s = [ref |-> [b \in Ids |-> 0], net |-> [b \in Ids |-> FALSE],
                 sd |-> <<>>, mp |-> <<>>, m1 |-> <<>>, m2 |-> <<>>, m3 |-> <<>>,
                 rep |-> <<>>, cur |-> <<>>, rtp |-> <<>>, rtcp |-> <<>>,
                 csrc |-> <<>>, rq |-> <<>>, tevq |-> <<>>, hands |-> <<>>,
                 sent |-> {}, alive |-> TRUE, leaks |-> FALSE]
  OBVIOUS
<1>2. ms = SetSourceDescription(s, 1)
  BY <1>1 DEF MsgInit
<1>3. /\ s = [x \in MsgFields |-> s[x]] /\ s.ref = [b \in Ids |-> 0]
      /\ s.net = [b \in Ids |-> FALSE] /\ s.sent = {} /\ s.alive = TRUE /\ s.leaks = FALSE
      /\ \A f \in Boxes : s[f] = <<>>
  <2>1. MsgFields = {"sd", "mp", "m1", "m2", "m3", "rep", "cur", "rtp", "rtcp", "csrc", "rq",
                     "tevq", "hands", "ref", "net", "sent", "alive", "leaks"}
    BY DEF MsgFields, Boxes, Singles, Queues
  <2>2. s = [x \in MsgFields |-> s[x]]
    BY <1>1, <2>1
  <2>3. \A f \in Singles : s[f] = <<>>
    BY <1>1 DEF Singles
  <2>4. \A f \in Queues : s[f] = <<>>
    BY <1>1 DEF Queues
  <2>5. /\ s.ref = [b \in Ids |-> 0] /\ s.net = [b \in Ids |-> FALSE]
        /\ s.sent = {} /\ s.alive = TRUE /\ s.leaks = FALSE
    BY <1>1
  <2> QED BY <2>2, <2>3, <2>4, <2>5 DEF Boxes
<1>4. <<>> \in Messages /\ <<>> \in Seq(Messages)
  BY EmptySeq DEF Messages
<1>5. MsgState(s)
  <2>1. s.ref \in [Ids -> Int] /\ s.net \in [Ids -> BOOLEAN]
    <3>1. [b \in Ids |-> 0] \in [Ids -> Int] /\ [b \in Ids |-> FALSE] \in [Ids -> BOOLEAN]
      OBVIOUS
    <3> QED BY ONLY <1>3, <3>1
  <2>2. \A f \in Singles : s[f] \in Messages
    BY <1>3, <1>4, FieldNames
  <2>3. \A f \in Queues : s[f] \in Seq(Messages)
    BY <1>3, <1>4, FieldNames
  <2> QED BY <1>3, <2>1, <2>2, <2>3 DEF MsgState
<1>6. \A p \in Spots : At(s, p) = <<>>
  <2>1. \A u : u = <<>> => 1 .. Len(u) = {}
    OBVIOUS
  <2>2. ASSUME NEW f \in Boxes, NEW i \in Nat PROVE At(s, <<f, i>>) = <<>>
    <3>1. s[f] = <<>>
      BY <1>3
    <3> QED BY <2>1, <3>1 DEF At
  <2> QED BY <2>2 DEF Spots
<1>7. \A p \in Spots : \A b : ~In(s, p, b)
  BY <1>6 DEF In, ToSet
<1>8. Balanced(s, {})
  <2>1. \A b \in Ids : s.ref[b] = 0
    BY <1>3
  <2> QED BY <1>3, <1>7, <2>1 DEF Balanced
<1>9. Good(s, 20, {}) /\ Good(s, 2, {}) /\ Good(s, 0, {})
  <2>1. FreeBlocks(s) = 1 .. Memory
    <3>1. \A b \in Ids : s.ref[b] = 0
      BY ONLY <1>3
    <3> QED BY ONLY <3>1, Zenon DEF FreeBlocks, Ids
  <2>2. Memory \in Nat /\ 20 <= Memory
    BY MsgConstants DEF PerCall
  <2>3. Cardinality(FreeBlocks(s)) = Memory
    BY <2>1, <2>2, FS_Interval
  <2>4. Good(s, 20, {})
    BY <1>5, <1>8, <2>2, <2>3 DEF Good
  <2> QED BY <2>4, GoodLess
<1>10. MsgIInv(s)
  <2>1. Idle(s) /\ s.rtp = <<>> /\ s.tevq = <<>> /\ s.hands = <<>>
    BY <1>1 DEF Idle
  <2>2. Len(s.rtp) <= 1 /\ Pairs(s.tevq) /\ Filled(s.hands)
    BY <2>1 DEF Pairs, Filled
  <2> QED BY <1>9, <2>1, <2>2 DEF MsgIInv
<1> QED BY <1>2, <1>9, <1>10, SetSourceKeeps

(* A packet that the application gets is not empty. *)
LEMMA FilledAppend ==
  ASSUME NEW q \in Seq(Messages), NEW m \in Messages, Filled(q), m # <<>>
  PROVE  Filled(Append(q, m))
<1>1. PICK l \in Nat : l = Len(q)
  BY LenProperties
<1>2. /\ Len(Append(q, m)) = l + 1 /\ Append(q, m)[l + 1] = m
      /\ \A i \in 1 .. l : Append(q, m)[i] = q[i]
  BY <1>1, AppendProperties
<1>3. \A i \in 1 .. l + 1 : i \in 1 .. l \/ i = l + 1
  OBVIOUS
<1> QED BY <1>1, <1>2, <1>3 DEF Filled

(* What is left of packets that are not empty. *)
LEMMA FilledRemove ==
  ASSUME NEW q \in Seq(Messages), NEW i \in 1 .. Len(q), Filled(q)
  PROVE  Filled(RemoveAt(q, i)) /\ q[i] # <<>>
<1>1. PICK l \in Nat : l = Len(q)
  BY LenProperties
<1>2. /\ Len(RemoveAt(q, i)) = l - 1
      /\ \A j \in 1 .. l - 1 : RemoveAt(q, i)[j] = IF j < i THEN q[j] ELSE q[j + 1]
  BY <1>1, RemoveAtIs
<1>3. \A j \in 1 .. l - 1 : j \in 1 .. l /\ j + 1 \in 1 .. l
  OBVIOUS
<1> QED BY <1>1, <1>2, <1>3 DEF Filled

(* One or two blocks at mp. *)
LEMMA NewMessage ==
  ASSUME NEW s, NEW n \in Nat, Good(s, n + 2, {}), s.mp = <<>>
  PROVE  \A t \in {Allocb(s, "mp"), Allocb(Allocb(s, "mp"), "mp")} :
            Good(t, n, {}) /\ Same(s, t, {"ref", "net", "mp"}) /\ t.mp # <<>>
<1>0. "mp" \in Singles
  BY AllNames
<1>1. PICK a, b : a = Allocb(s, "mp") /\ b = Allocb(a, "mp")
  OBVIOUS
<1>2. Good(a, n + 1, {}) /\ Same(s, a, {"ref", "net", "mp"}) /\ Alloced(s, "mp", a)
  <2>1. PICK k \in Nat : k = n + 1
    OBVIOUS
  <2>2. Good(s, k + 1, {})
    BY <2>1
  <2>3. Good(a, k, {}) /\ Same(s, a, {"ref", "net", "mp"}) /\ Alloced(s, "mp", a)
    BY ONLY <1>0, <1>1, <2>2, k \in Nat, AllocKeeps
  <2> QED BY ONLY <2>1, <2>3
<1>3. Good(b, n, {}) /\ Same(a, b, {"ref", "net", "mp"}) /\ Alloced(a, "mp", b)
  BY ONLY <1>0, <1>1, <1>2, n \in Nat, AllocKeeps
<1>4. Good(a, n, {})
  BY <1>2, GoodLess
<1>5. Same(s, b, {"ref", "net", "mp"})
  BY <1>2, <1>3, SameTrans
<1>6. \A m \in Messages, c \in Ids : Append(m, c) # <<>>
  BY AppendProperties, EmptySeq DEF Messages
<1>7. s.mp \in Messages /\ a.mp \in Messages
  BY <1>0, <1>4 DEF Good, MsgState
<1>8. a.mp # <<>> /\ b.mp # <<>>
  BY <1>2, <1>3, <1>6, <1>7 DEF Alloced
<1> QED BY <1>1, <1>2, <1>3, <1>4, <1>5, <1>8

(* rtp_session_add_contributing_source, rtp_session_create_packet: a new   *)
(* message goes to the end of a queue.                                     *)
LEMMA NewQueuedKeeps ==
  ASSUME NEW s, NEW f \in {"csrc", "hands"}, MsgIInv(s), Good(s, 2, {}),
         NEW a \in {Allocb(s, "mp"), Allocb(Allocb(s, "mp"), "mp")}, NEW t,
         t = [a EXCEPT ![f] = Append(@, a.mp), !.mp = <<>>]
  PROVE  MsgIInv(t)
<1>0. Idle(s) /\ s.mp = <<>> /\ f \in Queues
  BY AllNames DEF MsgIInv, Idle
<1>1. Good(a, 0, {}) /\ Same(s, a, {"ref", "net", "mp"}) /\ a.mp # <<>>
  <2>1. 0 \in Nat /\ 2 = 0 + 2
    BY ONLY SMT
  <2>2. Good(s, 0 + 2, {})
    BY ONLY <2>1, Good(s, 2, {})
  <2>3. a \in {Allocb(s, "mp"), Allocb(Allocb(s, "mp"), "mp")}
    OBVIOUS
  <2> QED BY ONLY <1>0, <2>1, <2>2, <2>3, NewMessage
<1>2. Good(t, 0, {}) /\ Same(a, t, {"mp", f}) /\ t.mp = <<>> /\ t[f] = Append(a[f], a.mp)
  <2>1. 0 \in Nat
    BY ONLY SMT
  <2>2. t = AtEnd(a, f)
    BY ONLY t = [a EXCEPT ![f] = Append(@, a.mp), !.mp = <<>>] DEF AtEnd
  <2>3. Good(AtEnd(a, f), 0, {}) /\ PutAtEnd(a, f, AtEnd(a, f))
    BY ONLY <1>0, <1>1, <2>1, PutEnd
  <2> QED BY ONLY <2>2, <2>3 DEF PutAtEnd
<1>3. Same(s, t, {"ref", "net", "mp", f}) /\ a[f] = s[f]
  BY <1>1, <1>2, AllNames DEF Same
<1>4. /\ t.m1 = s.m1 /\ t.m2 = s.m2 /\ t.m3 = s.m3 /\ t.rep = s.rep /\ t.rtp = s.rtp /\ t.tevq = s.tevq
  BY <1>3, AllNames DEF Same
<1>5. Filled(t.hands)
  <2>1. CASE f = "hands"
    <3>1. s.hands \in Seq(Messages) /\ a.mp \in Messages /\ Filled(s.hands)
      BY <1>1, AllNames DEF MsgIInv, Good, MsgState
    <3>2. t.hands = Append(s.hands, a.mp)
      BY <1>2, <1>3, <2>1
    <3> QED BY <1>1, <3>1, <3>2, FilledAppend
  <2>2. CASE f # "hands"
    <3>1. t.hands = s.hands
      BY <1>3, <2>2, AllNames DEF Same
    <3> QED BY <3>1 DEF MsgIInv
  <2> QED BY <2>1, <2>2
<1> QED BY <1>2, <1>4, <1>5 DEF MsgIInv, Idle

(* rtp_session_remove_contributing_sources: the description is forgotten,  *)
(* the BYE is freed once it is sent.                                       *)
LEMMA RemoveSourceKeeps ==
  ASSUME NEW s, NEW i \in 0 .. Len(s.csrc), MsgIInv(s), Good(s, 1, {}), NEW u,
         u = IF i = 0 THEN s ELSE [s EXCEPT !.csrc = RemoveAt(@, i), !.leaks = TRUE]
  PROVE  MsgIInv(RtcpSend(Allocb(u, "rep")))
<1>0. /\ Idle(s) /\ s.mp = <<>> /\ "csrc" \in Queues /\ "rep" \in Singles /\ MsgState(s)
      /\ "mp" \in MsgFields /\ "csrc" \in MsgFields /\ "leaks" \in MsgFields
      /\ "mp" # "csrc" /\ "mp" \in Boxes
  BY AllNames, FieldNames DEF MsgIInv, Idle, Good
<1>1. Good(u, 1, {}) /\ Same(s, u, {"csrc", "leaks"})
  <2>1. CASE i = 0
    BY <2>1 DEF Same
  <2>2. CASE i # 0
    <3>1. PICK a : a = TakeOut(s, "csrc", i)
      OBVIOUS
    <3>2. Good(a, 1, {}) /\ TakenOut(s, "csrc", i, a)
      <4>1. i \in 1 .. Len(s["csrc"]) /\ 1 \in Nat
        <5>1. s.csrc \in Seq(Messages)
          BY <1>0 DEF MsgState
        <5>2. Len(s.csrc) \in Nat
          BY <5>1, LenProperties
        <5> QED BY <2>2, <5>2
      <4> QED BY ONLY <1>0, <3>1, <4>1, Good(s, 1, {}), TakeOutKeeps
    <3>3. /\ Same(s, a, {"mp", "csrc"}) /\ a.csrc = RemoveAt(s.csrc, i)
          /\ a = [x \in MsgFields |-> a[x]]
      BY <3>2 DEF TakenOut, Good, MsgState
    <3>4. /\ u = [x \in MsgFields |-> u[x]] /\ u.csrc = RemoveAt(s.csrc, i) /\ u.leaks = TRUE
          /\ Same(s, u, {"csrc", "leaks"})
      <4>1. u = [s EXCEPT !.csrc = RemoveAt(@, i), !.leaks = TRUE]
        BY <2>2
      <4>2. s = [x \in MsgFields |-> s[x]]
        BY <1>0 DEF MsgState
      <4> QED BY ONLY <1>0, <4>1, <4>2 DEF Same
    <3>5. PICK X : X = {"mp"}
      OBVIOUS
    <3>6. Same(a, u, X \cup {"leaks", "alive"}) /\ u.mp = <<>> /\ u.alive \in BOOLEAN
      <4>1. u.mp = s.mp /\ u.alive = s.alive /\ s.alive \in BOOLEAN
        BY <1>0, <3>4, AllNames DEF Same, MsgState
      <4>2. Same(a, u, {"mp", "leaks"})
        BY <3>3, <3>4 DEF Same
      <4>3. Same(a, u, X \cup {"leaks", "alive"})
        BY <3>5, <4>2 DEF Same
      <4> QED BY <1>0, <4>1, <4>3
    <3>7. X \in SUBSET Boxes /\ \A f \in X : u[f] = <<>> /\ (u.leaks \/ a[f] = <<>>)
      BY <1>0, <3>4, <3>5, <3>6
    <3>8. Good(u, 1, {})
      <4>1. u.leaks \in BOOLEAN /\ (a.leaks => u.leaks) /\ 1 \in Nat
        BY <3>4
      <4>2. u = [x \in MsgFields |-> u[x]] /\ Good(a, 1, {})
        BY <3>2, <3>4
      <4> QED BY ONLY <3>6, <3>7, <4>1, <4>2, ForgetKeeps
    <3> QED BY <3>4, <3>8
  <2> QED BY <2>1, <2>2
<1>2. PICK b : b = Allocb(u, "rep")
  OBVIOUS
<1>3. Good(b, 0, {}) /\ Same(u, b, {"ref", "net", "rep"})
  <2>1. 1 = 0 + 1 /\ 0 \in Nat
    OBVIOUS
  <2> QED BY ONLY <1>0, <1>1, <1>2, <2>1, AllocKeeps
<1>4. PICK t : t = FreeAt(b, "rep")
  OBVIOUS
<1>5. Good(t, 0, {}) /\ Same(b, t, {"ref", "rep"}) /\ t.rep = <<>>
  BY <1>0, <1>3, <1>4, FreeClean
<1>6. Same(s, t, {"csrc", "leaks", "ref", "net", "rep"})
  BY <1>1, <1>3, <1>5 DEF Same
<1>7. /\ t.mp = s.mp /\ t.m1 = s.m1 /\ t.m2 = s.m2 /\ t.m3 = s.m3 /\ t.rtp = s.rtp
      /\ t.tevq = s.tevq /\ t.hands = s.hands
  BY <1>6, AllNames DEF Same
<1>8. t = RtcpSend(Allocb(u, "rep"))
  BY <1>2, <1>4 DEF RtcpSend
<1> QED BY <1>5, <1>7, <1>8 DEF MsgIInv, Idle

(* What a call with its message at mp starts from. *)
Working(s) ==
  /\ s.m1 = <<>> /\ s.m2 = <<>> /\ s.m3 = <<>> /\ s.rep = <<>>
  /\ Len(s.rtp) <= 1 /\ Pairs(s.tevq) /\ Filled(s.hands)

(* The invariant is Working with nothing at mp. *)
LEMMA IInvWorking == \A s : MsgIInv(s) <=> Good(s, 0, {}) /\ s.mp = <<>> /\ Working(s)
BY DEF MsgIInv, Idle, Working

(* A step that leaves those fields alone keeps it. *)
LEMMA WorkingSame ==
  ASSUME NEW s, NEW t, Working(s),
         Same(s, t, {"ref", "net", "sent", "alive", "leaks", "sd", "mp", "cur", "rtcp", "csrc", "rq"})
  PROVE  Working(t)
<1>1. /\ t.m1 = s.m1 /\ t.m2 = s.m2 /\ t.m3 = s.m3 /\ t.rep = s.rep /\ t.rtp = s.rtp
      /\ t.tevq = s.tevq /\ t.hands = s.hands
  BY AllNames DEF Same
<1> QED BY ONLY <1>1, Working(s) DEF Working

(* A packet of the application, taken out of its hands. *)
LEMMA TakeHand ==
  ASSUME NEW s, NEW n \in Nat, MsgIInv(s), Good(s, n, {}), NEW i \in DOMAIN s.hands
  PROVE  /\ Good(TakeOut(s, "hands", i), n, {}) /\ Working(TakeOut(s, "hands", i))
         /\ TakeOut(s, "hands", i).mp # <<>>
<1>0. "hands" \in Queues /\ s.mp = <<>> /\ Working(s) /\ s.hands \in Seq(Messages)
  BY AllNames, IInvWorking DEF Good, MsgState
<1>1. i \in 1 .. Len(s["hands"])
  BY <1>0
<1>2. PICK t : t = TakeOut(s, "hands", i)
  OBVIOUS
<1>3. Good(t, n, {}) /\ TakenOut(s, "hands", i, t)
  BY ONLY <1>0, <1>1, <1>2, n \in Nat, Good(s, n, {}), TakeOutKeeps
<1>4. /\ Same(s, t, {"mp", "hands"}) /\ t.mp = s.hands[i] /\ t.hands = RemoveAt(s.hands, i)
  BY ONLY <1>3 DEF TakenOut
<1>5. Filled(t.hands) /\ t.mp # <<>>
  <2>1. PICK q \in Seq(Messages) : q = s.hands
    BY ONLY <1>0
  <2>2. i \in 1 .. Len(q) /\ Filled(q)
    BY ONLY <1>0, <1>1, <2>1 DEF Working
  <2>3. Filled(RemoveAt(q, i)) /\ q[i] # <<>>
    BY ONLY <2>2, FilledRemove, q \in Seq(Messages)
  <2> QED BY ONLY <1>4, <2>1, <2>3
<1>6. /\ t.m1 = s.m1 /\ t.m2 = s.m2 /\ t.m3 = s.m3 /\ t.rep = s.rep /\ t.rtp = s.rtp
      /\ t.tevq = s.tevq
  BY ONLY <1>4, AllNames DEF Same
<1> QED BY ONLY <1>0, <1>2, <1>3, <1>5, <1>6 DEF Working

(* rtp_session_sendm_with_ts *)
LEMMA SendIdle ==
  ASSUME NEW s, NEW due \in BOOLEAN, Good(s, 3, {}), Working(s), s.mp # <<>>
  PROVE  MsgIInv(Sendm(s, "mp", due))
<1>1. PICK t : t = Sendm(s, "mp", due)
  OBVIOUS
<1>2. /\ Good(t, 0, {}) /\ t.mp = <<>> /\ t.rep = <<>>
      /\ Same(s, t, {"ref", "net", "sent", "rtcp", "rep", "alive", "mp"})
  <2>1. 3 = 0 + 3 /\ 0 \in Nat
    BY ONLY SMT
  <2>2. Good(s, 0 + 3, {}) /\ s["mp"] # <<>> /\ s.rep = <<>> /\ "mp" \in {"mp", "m1", "m2", "m3"}
    BY ONLY <2>1, Good(s, 3, {}), Working(s), s.mp # <<>> DEF Working
  <2> QED BY ONLY <1>1, <2>1, <2>2, due \in BOOLEAN, SendmKeeps
<1>3. /\ t.m1 = s.m1 /\ t.m2 = s.m2 /\ t.m3 = s.m3 /\ t.rtp = s.rtp
      /\ t.tevq = s.tevq /\ t.hands = s.hands
  BY ONLY <1>2, AllNames DEF Same
<1>4. Working(t)
  BY ONLY <1>2, <1>3, Working(s) DEF Working
<1> QED BY ONLY <1>1, <1>2, <1>4, IInvWorking

(* rtp_session_send_with_ts *)
LEMMA SendNewKeeps ==
  ASSUME NEW s, NEW due \in BOOLEAN, MsgIInv(s), Good(s, 5, {})
  PROVE  MsgIInv(Sendm(Allocb(Allocb(s, "mp"), "mp"), "mp", due))
<1>0. s.mp = <<>> /\ Working(s)
  BY IInvWorking
<1>1. PICK t : t = Allocb(Allocb(s, "mp"), "mp")
  OBVIOUS
<1>2. Good(t, 3, {}) /\ Same(s, t, {"ref", "net", "mp"}) /\ t.mp # <<>>
  <2>1. 5 = 3 + 2 /\ 3 \in Nat
    BY ONLY SMT
  <2>2. Good(s, 3 + 2, {}) /\ t \in {Allocb(s, "mp"), Allocb(Allocb(s, "mp"), "mp")}
    BY ONLY <1>1, <2>1, Good(s, 5, {})
  <2> QED BY ONLY <1>0, <2>1, <2>2, NewMessage
<1>3. Same(s, t, {"ref", "net", "sent", "alive", "leaks", "sd", "mp", "cur", "rtcp", "csrc", "rq"})
  BY ONLY <1>2 DEF Same
<1>4. Working(t)
  BY ONLY <1>0, <1>3, WorkingSame
<1> QED BY ONLY <1>1, <1>2, <1>4, due \in BOOLEAN, SendIdle

(* The application frees a packet. *)
LEMMA FreePacketKeeps ==
  ASSUME NEW s, MsgIInv(s), NEW i \in DOMAIN s.hands
  PROVE  MsgIInv(FreeAt(TakeOut(s, "hands", i), "mp"))
<1>0. "mp" \in Singles /\ 0 \in Nat /\ Good(s, 0, {})
  BY AllNames, IInvWorking
<1>1. PICK a : a = TakeOut(s, "hands", i)
  OBVIOUS
<1>2. Good(a, 0, {}) /\ Working(a)
  BY <1>0, <1>1, TakeHand
<1>3. PICK t : t = FreeAt(a, "mp")
  OBVIOUS
<1>4. Good(t, 0, {}) /\ Same(a, t, {"ref", "mp"}) /\ t.mp = <<>>
  BY ONLY <1>0, <1>2, <1>3, FreeClean
<1>5. Same(a, t, {"ref", "net", "sent", "alive", "leaks", "sd", "mp", "cur", "rtcp", "csrc", "rq"})
  BY ONLY <1>4 DEF Same
<1>6. Working(t)
  BY ONLY <1>2, <1>5, WorkingSame
<1> QED BY ONLY <1>1, <1>3, <1>4, <1>6, IInvWorking

(* rtp_session_reset: rtp.rq is flushed. *)
LEMMA ResetKeeps ==
  ASSUME NEW s, MsgIInv(s)
  PROVE  /\ MsgIInv(FreeFirst(s, "rq", Len(s.rq)))
         /\ Same(s, FreeFirst(s, "rq", Len(s.rq)), {"ref", "rq"})
<1>0. Good(s, 0, {}) /\ s.mp = <<>> /\ Working(s) /\ "rq" \in Queues /\ s.rq \in Seq(Messages)
  BY AllNames, IInvWorking DEF Good, MsgState
<1>1. Len(s.rq) \in 0 .. Len(s["rq"])
  <2>1. PICK l \in Nat : l = Len(s.rq)
    BY ONLY <1>0, LenProperties
  <2>2. l \in 0 .. l
    BY ONLY l \in Nat
  <2> QED BY ONLY <2>1, <2>2
<1>2. PICK x : x = Len(s.rq)
  OBVIOUS
<1>3. PICK t : t = FreeFirst(s, "rq", x)
  OBVIOUS
<1>4. Good(t, 0, {}) /\ Same(s, t, {"ref", "rq"})
  <2>1. 0 \in Nat /\ x \in 0 .. Len(s["rq"])
    BY ONLY <1>1, <1>2, SMT
  <2>2. PICK D : D = {}
    OBVIOUS
  <2>3. Good(s, 0, D)
    BY ONLY <1>0, <2>2
  <2>4. Good(t, 0, D) /\ Same(s, t, {"ref", "rq"})
    BY ONLY <1>0, <1>3, <2>1, <2>3, FreeFirstKeeps
  <2> QED BY ONLY <2>2, <2>4
<1>5. Same(s, t, {"ref", "net", "sent", "alive", "leaks", "sd", "mp", "cur", "rtcp", "csrc", "rq"})
  BY ONLY <1>4 DEF Same
<1>6. Working(t) /\ t.mp = s.mp
  <2>1. t.mp = s.mp
    BY ONLY <1>4, AllNames DEF Same
  <2> QED BY ONLY <1>0, <1>5, <2>1, WorkingSame
<1> QED BY ONLY <1>0, <1>2, <1>3, <1>4, <1>6, IInvWorking

(* rtp_session_uninit: what is not freed is told in leaks. *)
LEMMA UninitKeeps ==
  ASSUME NEW s, MsgIInv(s), NEW t,
         t = [Uninit(s) EXCEPT !.tevq = <<>>, !.csrc = <<>>, !.alive = FALSE,
                               !.leaks = @ \/ s.tevq # <<>> \/ s.csrc # <<>>]
  PROVE  MsgIInv(t)
<1>0. /\ Good(s, 0, {}) /\ s.mp = <<>> /\ Working(s) /\ 0 \in Nat
      /\ {"sd", "cur", "rtp", "rtcp"} \subseteq Singles
  BY AllNames, IInvWorking
<1>1. PICK a : a = FreeFirst(s, "rq", Len(s.rq))
  OBVIOUS
<1>2. Good(a, 0, {}) /\ Same(s, a, {"ref", "rq"})
  BY ONLY <1>1, MsgIInv(s), ResetKeeps, IInvWorking
<1>3. PICK b, c, d, e : /\ b = FreeAt(a, "cur") /\ c = FreeAt(b, "rtp")
                        /\ d = FreeAt(c, "rtcp") /\ e = FreeAt(d, "sd")
  OBVIOUS
<1>4. Good(b, 0, {}) /\ Same(a, b, {"ref", "cur"})
  BY ONLY <1>0, <1>2, <1>3, FreeClean
<1>5. Good(c, 0, {}) /\ Same(b, c, {"ref", "rtp"}) /\ c.rtp = <<>>
  BY ONLY <1>0, <1>3, <1>4, FreeClean
<1>6. Good(d, 0, {}) /\ Same(c, d, {"ref", "rtcp"})
  BY ONLY <1>0, <1>3, <1>5, FreeClean
<1>7. Good(e, 0, {}) /\ Same(d, e, {"ref", "sd"})
  BY ONLY <1>0, <1>3, <1>6, FreeClean
<1>8. Same(s, e, {"ref", "rq", "cur", "rtp", "rtcp", "sd"}) /\ e.rtp = <<>>
  <2>1. e.rtp = d.rtp /\ d.rtp = c.rtp
    BY ONLY <1>6, <1>7, AllNames DEF Same
  <2> QED BY ONLY <1>2, <1>4, <1>5, <1>6, <1>7, <2>1 DEF Same
<1>9. e = Uninit(s)
  BY ONLY <1>1, <1>3 DEF Uninit
<1>10. t = [e EXCEPT !.tevq = <<>>, !.csrc = <<>>, !.alive = FALSE,
                     !.leaks = @ \/ s.tevq # <<>> \/ s.csrc # <<>>]
  BY <1>9
<1>11. /\ t = [x \in MsgFields |-> t[x]] /\ Same(e, t, {"tevq", "csrc", "alive", "leaks"})
       /\ t.tevq = <<>> /\ t.csrc = <<>> /\ t.alive = FALSE
       /\ t.leaks = (e.leaks \/ s.tevq # <<>> \/ s.csrc # <<>>)
  <2>1. e = [x \in MsgFields |-> e[x]]
    BY ONLY <1>7 DEF Good, MsgState
  <2> QED BY ONLY <1>10, <2>1, AllNames DEF Same
<1>12. PICK X, D : X = {"tevq", "csrc"} /\ D = {}
  OBVIOUS
<1>13. X \in SUBSET Boxes /\ \A f \in X : t[f] = <<>> /\ (t.leaks \/ e[f] = <<>>)
  <2>1. e.tevq = s.tevq /\ e.csrc = s.csrc
    BY ONLY <1>8, AllNames DEF Same
  <2>2. "tevq" \in Boxes /\ "csrc" \in Boxes
    BY ONLY AllNames, FieldNames
  <2> QED BY ONLY <1>11, <1>12, <2>1, <2>2
<1>14. /\ Same(e, t, X \cup {"leaks", "alive"}) /\ Good(e, 0, D) /\ (e.leaks => t.leaks)
       /\ t.leaks \in BOOLEAN /\ t.alive \in BOOLEAN
  <2>1. Same(e, t, X \cup {"leaks", "alive"})
    BY ONLY <1>11, <1>12 DEF Same
  <2>2. e.leaks \in BOOLEAN
    BY ONLY <1>7 DEF Good, MsgState
  <2>3. (e.leaks => t.leaks) /\ t.leaks \in BOOLEAN /\ t.alive \in BOOLEAN
    BY ONLY <1>11, <2>2
  <2> QED BY ONLY <1>7, <1>12, <2>1, <2>3
<1>15. Good(t, 0, {})
  <2>1. Good(t, 0, D)
    BY ONLY <1>0, <1>11, <1>13, <1>14, ForgetKeeps
  <2> QED BY ONLY <1>12, <2>1
<1>16. /\ t.mp = s.mp /\ t.m1 = s.m1 /\ t.m2 = s.m2 /\ t.m3 = s.m3 /\ t.rep = s.rep
       /\ t.hands = s.hands /\ t.rtp = <<>>
  BY ONLY <1>8, <1>11, AllNames DEF Same
<1>17. Working(t)
  <2>1. Len(t.rtp) <= 1 /\ Pairs(t.tevq)
    BY ONLY <1>11, <1>16 DEF Pairs
  <2> QED BY ONLY <1>0, <1>16, <2>1 DEF Working
<1> QED BY ONLY <1>0, <1>15, <1>16, <1>17, IInvWorking

(* What rtp_session_recvm_with_ts leaves, with the packet at mp. *)
LEMMA ReceivedWorking ==
  ASSUME NEW s, NEW t, MsgIInv(s), Received(s, t)
  PROVE  Good(t, 0, {}) /\ Working(t)
<1>1. Working(s)
  BY IInvWorking
<1>2. /\ Good(t, 0, {}) /\ t.rep = <<>> /\ Len(t.rtp) <= 1 /\ Pairs(t.tevq)
      /\ Same(s, t, {"ref", "net", "mp", "rq", "tevq", "rtp", "rtcp", "cur", "rep", "alive"})
  BY ONLY Received(s, t) DEF Received
<1>3. t.m1 = s.m1 /\ t.m2 = s.m2 /\ t.m3 = s.m3 /\ t.hands = s.hands
  BY ONLY <1>2, AllNames DEF Same
<1> QED BY ONLY <1>1, <1>2, <1>3 DEF Working

(* rtp_session_recvm_with_ts: the packet goes to the application. *)
LEMMA GivenKeeps ==
  ASSUME NEW s, Good(s, 0, {}), Working(s), NEW t,
         t = [s EXCEPT !.mp = <<>>, !.hands = IF s.mp = <<>> THEN @ ELSE Append(@, s.mp)]
  PROVE  MsgIInv(t)
<1>0. /\ MsgState(s) /\ "hands" \in Queues /\ 0 \in Nat /\ s.hands \in Seq(Messages)
      /\ s.mp \in Messages
  BY AllNames DEF Good, MsgState
<1>1. CASE s.mp = <<>>
  <2>1. t = s
    BY <1>0, <1>1 DEF MsgState
  <2> QED BY ONLY <1>1, <2>1, Good(s, 0, {}), Working(s), IInvWorking
<1>2. CASE s.mp # <<>>
  <2>1. t = [s EXCEPT !.mp = <<>>, !.hands = Append(@, s.mp)]
    BY <1>2
  <2>2. t = AtEnd(s, "hands")
    BY ONLY <1>0, <2>1, AllNames DEF AtEnd, MsgState
  <2>3. Good(AtEnd(s, "hands"), 0, {}) /\ PutAtEnd(s, "hands", AtEnd(s, "hands"))
    BY ONLY <1>0, Good(s, 0, {}), PutEnd
  <2>4. Same(s, t, {"mp", "hands"}) /\ t.mp = <<>> /\ t.hands = Append(s.hands, s.mp)
    BY ONLY <2>2, <2>3 DEF PutAtEnd
  <2>5. /\ t.m1 = s.m1 /\ t.m2 = s.m2 /\ t.m3 = s.m3 /\ t.rep = s.rep /\ t.rtp = s.rtp
        /\ t.tevq = s.tevq
    BY ONLY <2>4, AllNames DEF Same
  <2>6. Filled(t.hands)
    <3>1. Filled(s.hands)
      BY ONLY Working(s) DEF Working
    <3>2. Filled(Append(s.hands, s.mp))
      BY ONLY <1>0, <1>2, <3>1, FilledAppend
    <3> QED BY ONLY <2>4, <3>2
  <2>7. Working(t)
    BY ONLY <2>5, <2>6, Working(s) DEF Working
  <2> QED BY ONLY <2>2, <2>3, <2>4, <2>7, IInvWorking
<1> QED BY <1>1, <1>2

(* rtp_session_recv_with_ts: the packet is freed, or goes back to the front *)
(* of the queue.                                                            *)
LEMMA ReadKeepsBlocks ==
  ASSUME NEW s, Good(s, 0, {}), Working(s), NEW whole, NEW t,
         t = IF whole \/ s.mp = <<>> THEN FreeAt(s, "mp")
             ELSE [s EXCEPT !.rq = <<s.mp>> \o @, !.mp = <<>>]
  PROVE  MsgIInv(t)
<1>0. /\ MsgState(s) /\ "rq" \in Queues /\ 0 \in Nat /\ s.rq \in Seq(Messages)
      /\ s.mp \in Messages /\ "mp" \in Singles
  BY AllNames DEF Good, MsgState
<1>1. CASE whole \/ s.mp = <<>>
  <2>1. t = FreeAt(s, "mp")
    BY <1>1
  <2>2. Good(t, 0, {}) /\ Same(s, t, {"ref", "mp"}) /\ t.mp = <<>>
    BY ONLY <1>0, <2>1, Good(s, 0, {}), FreeClean
  <2>3. Same(s, t, {"ref", "net", "sent", "alive", "leaks", "sd", "mp", "cur", "rtcp", "csrc", "rq"})
    BY ONLY <2>2 DEF Same
  <2>4. Working(t)
    BY ONLY <2>3, Working(s), WorkingSame
  <2> QED BY ONLY <2>2, <2>4, IInvWorking
<1>2. CASE ~(whole \/ s.mp = <<>>)
  <2>1. t = [s EXCEPT !.rq = <<s.mp>> \o @, !.mp = <<>>]
    BY <1>2
  <2>2. /\ t = [x \in MsgFields |-> t[x]] /\ Same(s, t, {"mp", "rq"}) /\ t.mp = <<>>
        /\ t.rq = <<s.mp>> \o s.rq
    BY ONLY <1>0, <2>1, AllNames DEF MsgState, Same
  <2>3. PutIn(s["rq"], 1, s.mp, t["rq"])
    <3>1. PICK q \in Seq(Messages), m \in Messages : q = s.rq /\ m = s.mp
      BY ONLY <1>0
    <3>2. PutIn(q, 1, m, <<m>> \o q)
      BY PutInIs
    <3> QED BY ONLY <2>2, <3>1, <3>2
  <2>4. 1 \in 1 .. Len(s["rq"]) + 1
    <3>1. Len(s["rq"]) \in Nat
      BY ONLY <1>0, LenProperties
    <3> QED BY ONLY <3>1
  <2>5. Good(t, 0, {})
    <3>1. PICK D : D = {}
      OBVIOUS
    <3>2. Good(s, 0, D)
      BY ONLY <3>1, Good(s, 0, {})
    <3>3. Good(t, 0, D)
      BY ONLY <1>0, <2>2, <2>3, <2>4, <3>2, PutKeeps
    <3> QED BY ONLY <3>1, <3>3
  <2>6. Same(s, t, {"ref", "net", "sent", "alive", "leaks", "sd", "mp", "cur", "rtcp", "csrc", "rq"})
    BY ONLY <2>2 DEF Same
  <2>7. Working(t)
    BY ONLY <2>6, Working(s), WorkingSame
  <2> QED BY ONLY <2>2, <2>5, <2>7, IInvWorking
<1> QED BY <1>1, <1>2

(* There is memory for a call. *)
LEMMA CallReady ==
  ASSUME NEW s, MsgIInv(s), PerCall <= Cardinality({b \in Ids : s.ref[b] = 0}),
         NEW n \in Nat, n <= 20
  PROVE  Good(s, n, {})
<1>1. MsgState(s) /\ Balanced(s, {})
  BY IInvWorking DEF Good
<1>2. Good(s, 20, {})
  BY <1>1 DEF Good, FreeBlocks, PerCall
<1> QED BY ONLY <1>2, n \in Nat, n <= 20, 20 \in Nat, GoodLess

(* Every call of the library keeps the invariant. *)
LEMMA MsgNextKeeps ==
  ASSUME MsgIInv(ms), [MsgNext]_msgVars
  PROVE  MsgIInv(ms')
<1>0. ASSUME NEW s, CallTo(s)
      PROVE  /\ ms' = s /\ Good(ms, 1, {}) /\ Good(ms, 2, {}) /\ Good(ms, 3, {})
             /\ Good(ms, 5, {}) /\ Good(ms, 7, {}) /\ Good(ms, 20, {})
  <2>1. ms' = s /\ PerCall <= Cardinality({b \in Ids : ms.ref[b] = 0})
    BY <1>0 DEF CallTo
  <2>2. \A n \in Nat : n <= 20 => Good(ms, n, {})
    BY ONLY <2>1, MsgIInv(ms), CallReady
  <2> QED BY <2>1, <2>2
<1>1. CASE set_source_description
  <2>1. PICK parts \in 1 .. 2 : CallTo(SetSourceDescription(ms, parts))
    BY <1>1 DEF set_source_description
  <2> QED BY ONLY <1>0, <2>1, MsgIInv(ms), SetSourceKeeps
<1>2. CASE add_contributing_source
  <2>1. PICK a, t : /\ a = Allocb(ms, "mp") /\ CallTo(t)
                    /\ t = [a EXCEPT !.csrc = Append(@, a.mp), !.mp = <<>>]
    BY <1>2 DEF add_contributing_source
  <2>2. t = [a EXCEPT !["csrc"] = Append(@, a.mp), !.mp = <<>>]
    BY ONLY <2>1
  <2>3. MsgIInv(t)
    <3>1. a \in {Allocb(ms, "mp"), Allocb(Allocb(ms, "mp"), "mp")} /\ "csrc" \in {"csrc", "hands"}
      BY ONLY <2>1
    <3> QED BY ONLY <1>0, <2>1, <2>2, <3>1, MsgIInv(ms), NewQueuedKeeps
  <2> QED BY ONLY <1>0, <2>1, <2>3
<1>3. CASE remove_contributing_sources
  <2>1. PICK i \in 0 .. Len(ms.csrc) :
           CallTo(RtcpSend(Allocb(IF i = 0 THEN ms
                ELSE [ms EXCEPT !.csrc = RemoveAt(@, i), !.leaks = TRUE], "rep")))
    BY <1>3 DEF remove_contributing_sources
  <2>2. PICK u : u = IF i = 0 THEN ms
                     ELSE [ms EXCEPT !.csrc = RemoveAt(@, i), !.leaks = TRUE]
    OBVIOUS
  <2>3. CallTo(RtcpSend(Allocb(u, "rep")))
    BY ONLY <2>1, <2>2
  <2>4. MsgIInv(RtcpSend(Allocb(u, "rep")))
    BY ONLY <1>0, <2>2, <2>3, i \in 0 .. Len(ms.csrc), MsgIInv(ms), RemoveSourceKeeps
  <2> QED BY ONLY <1>0, <2>3, <2>4
<1>4. CASE create_packet
  <2>1. PICK a, t :
           \E parts \in 1 .. 2 :
           /\ a = IF parts = 2 THEN Allocb(Allocb(ms, "mp"), "mp") ELSE Allocb(ms, "mp")
           /\ t = [a EXCEPT !.hands = Append(@, a.mp), !.mp = <<>>] /\ CallTo(t)
    BY <1>4 DEF create_packet
  <2>2. t = [a EXCEPT !["hands"] = Append(@, a.mp), !.mp = <<>>]
    BY ONLY <2>1
  <2>3. MsgIInv(t)
    <3>1. a \in {Allocb(ms, "mp"), Allocb(Allocb(ms, "mp"), "mp")} /\ "hands" \in {"csrc", "hands"}
      BY ONLY <2>1
    <3> QED BY ONLY <1>0, <2>1, <2>2, <3>1, MsgIInv(ms), NewQueuedKeeps
  <2> QED BY ONLY <1>0, <2>1, <2>3
<1>5. CASE sendm_with_ts
  <2>1. PICK i \in DOMAIN ms.hands, due \in BOOLEAN :
           CallTo(Sendm(TakeOut(ms, "hands", i), "mp", due))
    BY <1>5 DEF sendm_with_ts
  <2>2. PICK a : a = TakeOut(ms, "hands", i)
    OBVIOUS
  <2>3. Good(a, 3, {}) /\ Working(a) /\ a.mp # <<>>
    <3>1. 3 \in Nat
      BY ONLY SMT
    <3> QED BY ONLY <1>0, <2>1, <2>2, <3>1, i \in DOMAIN ms.hands, MsgIInv(ms), TakeHand
  <2>4. MsgIInv(Sendm(a, "mp", due)) /\ CallTo(Sendm(a, "mp", due))
    BY ONLY <2>1, <2>2, <2>3, due \in BOOLEAN, SendIdle
  <2> QED BY ONLY <1>0, <2>4
<1>6. CASE send_with_ts
  <2>1. PICK due \in BOOLEAN : CallTo(Sendm(Allocb(Allocb(ms, "mp"), "mp"), "mp", due))
    BY <1>6 DEF send_with_ts
  <2> QED BY ONLY <1>0, <2>1, due \in BOOLEAN, MsgIInv(ms), SendNewKeeps
<1>7. CASE send_dtmf
  <2>1. PICK due \in BOOLEAN : CallTo(SendDtmf(ms, due))
    BY <1>7 DEF send_dtmf
  <2> QED BY ONLY <1>0, <2>1, due \in BOOLEAN, MsgIInv(ms), SendDtmfKeeps
<1>8. ASSUME NEW kind \in Kinds, NEW k \in 0 .. Len(ms.rq) + 1, NEW due \in BOOLEAN, NEW how,
             NEW s, s = RecvmBlocks(ms, kind, how, k, due), Good(ms, 7, {})
      PROVE  Good(s, 0, {}) /\ Working(s)
  <2>1. k \in Nat
    <3>1. ms.rq \in Seq(Messages)
      BY IInvWorking, AllNames DEF Good, MsgState
    <3>2. Len(ms.rq) \in Nat
      BY ONLY <3>1, LenProperties
    <3> QED BY ONLY <3>2, k \in 0 .. Len(ms.rq) + 1
  <2>2. Received(ms, s)
    BY ONLY <1>8, <2>1, kind \in Kinds, due \in BOOLEAN, MsgIInv(ms), RecvmKeeps
  <2> QED BY ONLY <2>2, MsgIInv(ms), ReceivedWorking
<1>9. CASE recvm_with_ts
  <2>1. PICK kind \in Kinds, k \in 0 .. Len(ms.rq) + 1, due \in BOOLEAN :
           \E how \in Hows(kind) :
           LET s == RecvmBlocks(ms, kind, how, k, due)
           IN  CallTo([s EXCEPT !.mp = <<>>,
                                !.hands = IF s.mp = <<>> THEN @ ELSE Append(@, s.mp)])
    BY ONLY <1>9 DEF recvm_with_ts
  <2>2. PICK how :
           LET s == RecvmBlocks(ms, kind, how, k, due)
           IN  CallTo([s EXCEPT !.mp = <<>>,
                                !.hands = IF s.mp = <<>> THEN @ ELSE Append(@, s.mp)])
    BY ONLY <2>1
  <2>3. PICK s : s = RecvmBlocks(ms, kind, how, k, due)
    OBVIOUS
  <2>4. PICK t : t = [s EXCEPT !.mp = <<>>,
                               !.hands = IF s.mp = <<>> THEN @ ELSE Append(@, s.mp)]
    OBVIOUS
  <2>5. CallTo(t)
    BY ONLY <2>2, <2>3, <2>4
  <2>6. Good(s, 0, {}) /\ Working(s)
    BY ONLY <1>0, <1>8, <2>3, <2>5, kind \in Kinds, k \in 0 .. Len(ms.rq) + 1, due \in BOOLEAN
  <2>7. MsgIInv(t)
    BY ONLY <2>4, <2>6, GivenKeeps
  <2> QED BY ONLY <1>0, <2>5, <2>7
<1>10. CASE recv_with_ts
  <2>1. PICK kind \in Kinds, k \in 0 .. Len(ms.rq) + 1, due \in BOOLEAN, whole \in BOOLEAN :
           \E how \in Hows(kind) :
           LET s == RecvmBlocks(ms, kind, how, k, due)
           IN  CallTo(IF whole \/ s.mp = <<>> THEN FreeAt(s, "mp")
                      ELSE [s EXCEPT !.rq = <<s.mp>> \o @, !.mp = <<>>])
    BY ONLY <1>10 DEF recv_with_ts
  <2>2. PICK how :
           LET s == RecvmBlocks(ms, kind, how, k, due)
           IN  CallTo(IF whole \/ s.mp = <<>> THEN FreeAt(s, "mp")
                      ELSE [s EXCEPT !.rq = <<s.mp>> \o @, !.mp = <<>>])
    BY ONLY <2>1
  <2>3. PICK s : s = RecvmBlocks(ms, kind, how, k, due)
    OBVIOUS
  <2>4. PICK t : t = IF whole \/ s.mp = <<>> THEN FreeAt(s, "mp")
                     ELSE [s EXCEPT !.rq = <<s.mp>> \o @, !.mp = <<>>]
    OBVIOUS
  <2>5. CallTo(t)
    BY ONLY <2>2, <2>3, <2>4
  <2>6. Good(s, 0, {}) /\ Working(s)
    BY ONLY <1>0, <1>8, <2>3, <2>5, kind \in Kinds, k \in 0 .. Len(ms.rq) + 1, due \in BOOLEAN
  <2>7. MsgIInv(t)
    BY ONLY <2>4, <2>6, ReadKeepsBlocks
  <2> QED BY ONLY <1>0, <2>5, <2>7
<1>11. CASE free_packet
  <2>1. PICK i \in DOMAIN ms.hands : CallTo(FreeAt(TakeOut(ms, "hands", i), "mp"))
    BY <1>11 DEF free_packet
  <2> QED BY ONLY <1>0, <2>1, i \in DOMAIN ms.hands, MsgIInv(ms), FreePacketKeeps
<1>12. CASE msg_session_reset
  <2>1. CallTo(FreeFirst(ms, "rq", Len(ms.rq)))
    BY <1>12 DEF msg_session_reset
  <2> QED BY ONLY <1>0, <2>1, MsgIInv(ms), ResetKeeps
<1>13. CASE session_uninit
  <2>1. PICK t : /\ t = [Uninit(ms) EXCEPT !.tevq = <<>>, !.csrc = <<>>, !.alive = FALSE,
                              !.leaks = @ \/ ms.tevq # <<>> \/ ms.csrc # <<>>]
                 /\ CallTo(t)
    BY <1>13 DEF session_uninit
  <2>2. MsgIInv(t)
    BY ONLY <2>1, MsgIInv(ms), UninitKeeps
  <2> QED BY ONLY <1>0, <2>1, <2>2
<1>14. CASE UNCHANGED msgVars
  BY <1>14 DEF msgVars
<1> QED BY <1>1, <1>2, <1>3, <1>4, <1>5, <1>6, <1>7, <1>9, <1>10, <1>11, <1>12, <1>13, <1>14
        DEF MsgNext

(* The parts at a field that point to b. *)
CountAt(s, f, b) == IF f \in Singles THEN Occurrences(s[f], b) ELSE PointersIn(s[f], b)

(* A field counts the parts of the one message of it that has b. *)
LEMMA CountAtIs ==
  ASSUME NEW s, MsgState(s), Balanced(s, {}), NEW f \in Boxes, NEW b \in Ids
  PROVE  /\ (\A i \in Nat : ~In(s, <<f, i>>, b)) => CountAt(s, f, b) = 0
         /\ \A i \in Nat : In(s, <<f, i>>, b) => CountAt(s, f, b) = Occurrences(At(s, <<f, i>>), b)
<1>1. CASE f \in Singles
  <2>1. /\ At(s, <<f, 0>>) = s[f] /\ CountAt(s, f, b) = Occurrences(s[f], b) /\ s[f] \in Messages
        /\ \A i \in Nat : i # 0 => At(s, <<f, i>>) = <<>>
    BY <1>1, AtIs DEF CountAt, MsgState
  <2>2. Occurrences(s[f], b) = 0 <=> b \notin ToSet(s[f])
    BY <2>1, OccurrencesNat
  <2>3. \A i \in Nat : In(s, <<f, i>>, b) => i = 0
    <3>1. b \notin ToSet(<<>>)
      BY DEF ToSet
    <3> QED BY ONLY <2>1, <3>1 DEF In
  <2>4. (\A i \in Nat : ~In(s, <<f, i>>, b)) => CountAt(s, f, b) = 0
    <3>1. 0 \in Nat
      BY ONLY SMT
    <3> QED BY ONLY <2>1, <2>2, <3>1 DEF In
  <2> QED BY ONLY <2>1, <2>3, <2>4
<1>2. CASE f \notin Singles
  <2>0. f \in Queues /\ s[f] \in Seq(Messages)
    BY <1>2 DEF Boxes, MsgState
  <2>1. PICK q \in Seq(Messages) : q = s[f]
    BY ONLY <2>0
  <2>2. PICK l \in Nat : l = Len(q)
    BY LenProperties
  <2>3. CountAt(s, f, b) = PointersIn(q, b)
    BY ONLY <1>2, <2>1 DEF CountAt
  <2>4. \A i \in Nat : /\ <<f, i>> \in Spots
                       /\ i \in 1 .. l => At(s, <<f, i>>) = q[i]
                       /\ i \notin 1 .. l => At(s, <<f, i>>) = <<>>
    BY ONLY <2>0, <2>1, <2>2, MsgState(s), AtIs
  <2>5. \A i \in Nat : In(s, <<f, i>>, b) <=> i \in 1 .. l /\ b \in ToSet(q[i])
    <3>1. b \notin ToSet(<<>>)
      BY DEF ToSet
    <3> QED BY ONLY <2>4, <3>1 DEF In
  <2>6. \A i \in 1 .. l : i \in Nat
    BY ONLY l \in Nat
  <2>7. (\A i \in Nat : ~In(s, <<f, i>>, b)) => CountAt(s, f, b) = 0
    <3>1. (\A i \in 1 .. l : b \notin ToSet(q[i])) => PointersIn(q, b) = 0
      BY ONLY <2>2, q \in Seq(Messages), PointersOne
    <3> QED BY ONLY <2>3, <2>5, <2>6, <3>1
  <2>8. ASSUME NEW i \in Nat, In(s, <<f, i>>, b)
        PROVE  CountAt(s, f, b) = Occurrences(At(s, <<f, i>>), b)
    <3>1. i \in 1 .. l /\ At(s, <<f, i>>) = q[i]
      BY ONLY <2>4, <2>5, <2>8, i \in Nat
    <3>2. \A j \in 1 .. l : j # i => b \notin ToSet(q[j])
      <4>1. SUFFICES ASSUME NEW j \in 1 .. l, j # i, b \in ToSet(q[j]) PROVE FALSE
        OBVIOUS
      <4>2. j \in Nat /\ In(s, <<f, j>>, b)
        BY ONLY <2>5, <2>6, <4>1, j \in 1 .. l
      <4>3. <<f, j>> \in Spots /\ <<f, i>> \in Spots
        BY ONLY <2>4, <4>2, i \in Nat
      <4>4. <<f, j>> = <<f, i>>
        BY ONLY <2>8, <4>2, <4>3, b \in Ids, Balanced(s, {}) DEF Balanced
      <4> QED BY ONLY <4>1, <4>4
    <3>3. PointersIn(q, b) = Occurrences(q[i], b)
      BY ONLY <2>2, <3>1, <3>2, q \in Seq(Messages), PointersOne
    <3> QED BY ONLY <2>3, <3>1, <3>3
  <2> QED BY ONLY <2>7, <2>8
<1> QED BY ONLY <1>1, <1>2

(* All that point to a block are the parts of one message. *)
LEMMA PointersAre ==
  ASSUME NEW s, MsgIInv(s), NEW b \in Ids
  PROVE  /\ ~Held(s, b) => Pointers(s, b) = 0
         /\ Held(s, b) => Pointers(s, b) = s.ref[b]
<1>0. MsgState(s) /\ Balanced(s, {}) /\ Idle(s)
  BY DEF MsgIInv, Good
<1>1. Pointers(s, b) = CountAt(s, "sd", b) + CountAt(s, "cur", b) + CountAt(s, "rtp", b)
        + CountAt(s, "rtcp", b) + CountAt(s, "csrc", b) + CountAt(s, "rq", b)
        + CountAt(s, "tevq", b) + CountAt(s, "hands", b)
  <2>1. /\ {"sd", "cur", "rtp", "rtcp"} \subseteq Singles
        /\ "csrc" \notin Singles /\ "rq" \notin Singles /\ "tevq" \notin Singles /\ "hands" \notin Singles
    BY DEF Singles
  <2> QED BY ONLY <2>1 DEF Pointers, CountAt
<1>2. \A f \in Boxes, i \in Nat : <<f, i>> \in Spots
  BY DEF Spots
<1>3. Boxes = {"sd", "mp", "m1", "m2", "m3", "rep", "cur", "rtp", "rtcp", "csrc", "rq", "tevq", "hands"}
  BY DEF Boxes, Singles, Queues
<1>4. ~Held(s, b) => Pointers(s, b) = 0
  <2>1. SUFFICES ASSUME ~Held(s, b) PROVE Pointers(s, b) = 0
    OBVIOUS
  <2>2. \A f \in Boxes : CountAt(s, f, b) = 0
    <3>1. SUFFICES ASSUME NEW f \in Boxes PROVE CountAt(s, f, b) = 0
      OBVIOUS
    <3>2. \A i \in Nat : ~In(s, <<f, i>>, b)
      BY ONLY <1>2, <2>1, f \in Boxes DEF Held
    <3> QED BY ONLY <1>0, <3>2, f \in Boxes, b \in Ids, CountAtIs
  <2> QED BY ONLY <1>1, <1>3, <2>2
<1>5. Held(s, b) => Pointers(s, b) = s.ref[b]
  <2>1. SUFFICES ASSUME Held(s, b) PROVE Pointers(s, b) = s.ref[b]
    OBVIOUS
  <2>2. PICK f \in Boxes, i \in Nat : In(s, <<f, i>>, b)
    BY ONLY <2>1 DEF Held, Spots
  <2>3. PICK n \in Nat : n = Occurrences(At(s, <<f, i>>), b)
    <3>1. At(s, <<f, i>>) \in Messages
      BY ONLY <1>0, <1>2, f \in Boxes, i \in Nat, AtMessage
    <3> QED BY ONLY <3>1, OccurrencesNat
  <2>4. CountAt(s, f, b) = n
    BY ONLY <1>0, <2>2, <2>3, f \in Boxes, i \in Nat, b \in Ids, CountAtIs
  <2>5. s.ref[b] = n
    BY ONLY <1>0, <1>2, <2>2, <2>3, f \in Boxes, i \in Nat, b \in Ids DEF Balanced
  <2>6. \A g \in Boxes : g # f => CountAt(s, g, b) = 0
    <3>1. SUFFICES ASSUME NEW g \in Boxes, g # f PROVE CountAt(s, g, b) = 0
      OBVIOUS
    <3>2. \A j \in Nat : ~In(s, <<g, j>>, b)
      <4>1. SUFFICES ASSUME NEW j \in Nat, In(s, <<g, j>>, b) PROVE FALSE
        OBVIOUS
      <4>2. <<g, j>> = <<f, i>>
        <5>1. <<g, j>> \in Spots /\ <<f, i>> \in Spots
          BY ONLY <1>2, g \in Boxes, j \in Nat, f \in Boxes, i \in Nat
        <5> QED BY ONLY <1>0, <2>2, <4>1, <5>1, b \in Ids DEF Balanced
      <4> QED BY ONLY <3>1, <4>2
    <3> QED BY ONLY <1>0, <3>2, g \in Boxes, b \in Ids, CountAtIs
  <2>7. f \notin {"mp", "m1", "m2", "m3", "rep"}
    <3>1. SUFFICES ASSUME f \in {"mp", "m1", "m2", "m3", "rep"} PROVE FALSE
      OBVIOUS
    <3>2. s[f] = <<>> /\ f \in Singles
      BY ONLY <1>0, <3>1 DEF Idle, Singles
    <3>3. At(s, <<f, i>>) = <<>>
      BY ONLY <1>0, <3>2, i \in Nat, AtIs
    <3>4. b \notin ToSet(<<>>)
      BY DEF ToSet
    <3> QED BY ONLY <2>2, <3>3, <3>4 DEF In
  <2>8. f \in {"sd", "cur", "rtp", "rtcp", "csrc", "rq", "tevq", "hands"}
    BY ONLY <1>3, <2>7, f \in Boxes
  <2>9. ASSUME NEW g \in {"sd", "cur", "rtp", "rtcp", "csrc", "rq", "tevq", "hands"}
        PROVE  CountAt(s, g, b) = IF g = f THEN n ELSE 0
    BY ONLY <1>3, <2>4, <2>6, <2>9
  <2>10. Pointers(s, b) = n
    BY ONLY <1>1, <2>8, <2>9, n \in Nat
  <2> QED BY ONLY <2>5, <2>10
<1> QED BY ONLY <1>4, <1>5

(* What the runs check follows from the invariant. *)
LEMMA MsgInvHolds ==
  ASSUME MsgIInv(ms)
  PROVE  BlockInv /\ WireInNetworkOrder
<1>0. MsgState(ms) /\ Balanced(ms, {})
  BY DEF MsgIInv, Good
<1>1. WireInNetworkOrder
  BY <1>0 DEF WireInNetworkOrder, MsgState
<1>2. ASSUME NEW b \in Ids
      PROVE  ms.ref[b] >= Pointers(ms, b) /\ (~ms.leaks => ms.ref[b] <= Pointers(ms, b))
  <2>1. ms.ref[b] \in Int
    BY <1>0 DEF MsgState
  <2>2. CASE Held(ms, b)
    BY ONLY <2>1, <2>2, MsgIInv(ms), b \in Ids, PointersAre
  <2>3. CASE ~Held(ms, b)
    <3>1. Pointers(ms, b) = 0
      BY ONLY <2>3, MsgIInv(ms), b \in Ids, PointersAre
    <3>2. ms.ref[b] >= 0 /\ (~ms.leaks => ms.ref[b] = 0)
      BY ONLY <1>0, <2>3, b \in Ids DEF Balanced
    <3> QED BY ONLY <2>1, <3>1, <3>2
  <2> QED BY ONLY <2>2, <2>3
<1>3. BlockInv
  BY ONLY <1>2 DEF BlockInv, BlocksHeld, NothingLeaked
<1> QED BY ONLY <1>1, <1>3

(* The invariant of the current state. *)
MsgBalance == MsgIInv(ms)

(* The blocks of a session are balanced in every state it reaches. *)
LEMMA MsgInvariant == MsgSpec => []MsgBalance
<1>1. MsgInit => MsgBalance
  BY MsgInitKeeps DEF MsgBalance
<1>2. MsgBalance /\ [MsgNext]_msgVars => MsgBalance'
  BY MsgNextKeeps DEF MsgBalance
<1> QED BY <1>1, <1>2, PTL DEF MsgSpec

(* str_utils.c: whatever is shared, copied, queued and freed, no block is   *)
(* given back while somebody holds it, and none is kept longer.             *)
THEOREM BlockInvariant == MsgSpec => []BlockInv
<1>1. MsgBalance => BlockInv
  BY MsgInvHolds DEF MsgBalance
<1> QED BY <1>1, MsgInvariant, PTL

(* ortp_rtp_send: no header is converted twice before it goes out. *)
THEOREM WireInvariant == MsgSpec => []WireInNetworkOrder
<1>1. MsgBalance => WireInNetworkOrder
  BY MsgInvHolds DEF MsgBalance
<1> QED BY <1>1, MsgInvariant, PTL
=============================================================================
