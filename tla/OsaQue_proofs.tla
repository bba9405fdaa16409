---------------------------- MODULE OsaQue_proofs ----------------------------
(***************************************************************************)
(* Safety of the blocking queue for every ring length, every finite set of *)
(* threads and every set of values, and that it implements OsaQueSpec.     *)
(***************************************************************************)
EXTENDS OsaQue, FiniteSetTheorems, SequenceTheorems, TLAPS

(* Advancing an index of the ring, as curRd and curWr are advanced. *)
LEMMA Advance ==
  ASSUME NEW i \in 0 .. len - 1
  PROVE  (i + 1) % len = IF i + 1 = len THEN 0 ELSE i + 1
BY LenAssumption

(* The set of threads at a place is finite. *)
LEMMA WhereFinite ==
  ASSUME NEW f, NEW p
  PROVE  IsFiniteSet(Where(f, p)) /\ Cardinality(Where(f, p)) \in Nat
BY ThreadsAssumption, FS_Subset, FS_CardinalityType DEF Where

(* A set with one element more. *)
LEMMA OneMore ==
  ASSUME NEW S, NEW T, NEW x, IsFiniteSet(S), T = S \cup {x}, x \notin S
  PROVE  /\ Cardinality(T) = Cardinality(S) + 1
         /\ Cardinality(S) = Cardinality(T) - 1
<1>1. Cardinality(T) = Cardinality(S) + 1 /\ Cardinality(S) \in Nat
  BY FS_AddElement, FS_CardinalityType
<1> QED
  BY <1>1

(* Thread t, and no other, moves from place p to place r. *)
Moves(f, g, t, p, r) ==
  f[t] = p /\ g[t] = r /\ p # r /\ \A u \in Threads : u # t => g[u] = f[u]

(* What a move does to the number of threads at each place. *)
LEMMA MoveCounts ==
  ASSUME NEW f, NEW g, NEW t \in Threads, NEW p, NEW r, Moves(f, g, t, p, r)
  PROVE  /\ Cardinality(Where(g, p)) = Cardinality(Where(f, p)) - 1
         /\ Cardinality(Where(g, r)) = Cardinality(Where(f, r)) + 1
         /\ \A s : s # p /\ s # r => Where(g, s) = Where(f, s)
<1>1. Where(f, p) = Where(g, p) \cup {t} /\ t \notin Where(g, p)
  BY DEF Where, Moves
<1>2. Where(g, r) = Where(f, r) \cup {t} /\ t \notin Where(f, r)
  BY DEF Where, Moves
<1>3. ASSUME NEW s, s # p, s # r PROVE Where(g, s) = Where(f, s)
  BY <1>3 DEF Where, Moves
<1>4. Cardinality(Where(g, p)) = Cardinality(Where(f, p)) - 1
  BY <1>1, WhereFinite, OneMore
<1>5. Cardinality(Where(g, r)) = Cardinality(Where(f, r)) + 1
  BY <1>2, WhereFinite, OneMore
<1> QED
  BY <1>3, <1>4, <1>5

(* The indices, the stored values and every thread's call stay in range,   *)
(* whatever the interleaving of OSA_quePut and OSA_queGet.                 *)
THEOREM TypeInvariant == Spec => []TypeOK
<1>1. Init => TypeOK
  BY LenAssumption DEF Init, TypeOK, NoArg, Timeouts, Results, Places
<1>2. TypeOK /\ [Next]_vars => TypeOK'
  <2> SUFFICES ASSUME TypeOK, [Next]_vars PROVE TypeOK'
    OBVIOUS
  <2> USE LenAssumption DEF TypeOK, Results, Timeouts, Places
  <2>1. ASSUME NEW t \in Threads, CallPut(t) PROVE TypeOK'
    BY <2>1 DEF CallPut
  <2>2. ASSUME NEW t \in Threads, CallGet(t) PROVE TypeOK'
    BY <2>2 DEF CallGet
  <2>3. ASSUME NEW t \in Threads, pc[t] = "put", Enqueue(t) PROVE TypeOK'
    <3>1. /\ curWr' \in 0 .. len - 1 /\ count' \in 0 .. len /\ curRd' = curRd
          /\ queue' \in [0 .. len - 1 -> Values \cup {NoValue}]
      BY <2>3, Advance DEF Enqueue
    <3>2. /\ arg' \in [Threads -> [val : Values \cup {NoValue}, timeout : Timeouts]]
          /\ ret' \in [Threads -> Results]
          /\ pc' \in [Threads -> Places]
      BY <2>3 DEF Enqueue, LeaveAndSignal, Return, At, Where, NoArg
    <3>3. \A u \in Threads : pc'[u] \in {"put", "condWr"} => arg'[u].val \in Values
      BY <2>3 DEF Enqueue, LeaveAndSignal, At, Where
    <3> QED
      BY <3>1, <3>2, <3>3
  <2>4. ASSUME NEW t \in Threads, pc[t] = "get", Dequeue(t) PROVE TypeOK'
    <3>1. /\ curRd' \in 0 .. len - 1 /\ count' \in 0 .. len
          /\ curWr' = curWr /\ queue' = queue
      BY <2>4, Advance DEF Dequeue
    <3>2. /\ arg' \in [Threads -> [val : Values \cup {NoValue}, timeout : Timeouts]]
          /\ ret' \in [Threads -> Results]
          /\ pc' \in [Threads -> Places]
      BY <2>4 DEF Dequeue, LeaveAndSignal, Return, At, Where, NoArg
    <3>3. \A u \in Threads : pc'[u] \in {"put", "condWr"} => arg'[u].val \in Values
      BY <2>4 DEF Dequeue, LeaveAndSignal, At, Where
    <3> QED
      BY <3>1, <3>2, <3>3
  <2>5. ASSUME NEW t \in Threads, GiveUp(t) PROVE TypeOK'
    BY <2>5 DEF GiveUp, Return, NoArg, ring
  <2>6. ASSUME NEW t \in Threads, pc[t] = "put", Sleep(t, "condWr") PROVE TypeOK'
    BY <2>6 DEF Sleep
  <2>7. ASSUME NEW t \in Threads, Sleep(t, "condRd") PROVE TypeOK'
    BY <2>7 DEF Sleep
  <2>8. ASSUME NEW t \in Threads, SpuriousWakeup(t) PROVE TypeOK'
    BY <2>8 DEF SpuriousWakeup
  <2>9. CASE UNCHANGED vars
    BY <2>9 DEF vars
  <2> QED
    BY <2>1, <2>2, <2>3, <2>4, <2>5, <2>6, <2>7, <2>8, <2>9
       DEF Next, Turn, PutTurn, GetTurn
<1> QED
  BY <1>1, <1>2, PTL DEF Spec

(* OSA_queGet never hands out an entry that no OSA_quePut has written, on  *)
(* a ring of any length.                                                   *)
THEOREM RingInvariant == Spec => []RingOK
<1>1. Init => RingOK
  BY LenAssumption DEF Init, RingOK, Held
<1>2. TypeOK /\ RingOK /\ [Next]_vars => RingOK'
  <2> SUFFICES ASSUME TypeOK, RingOK, [Next]_vars PROVE RingOK'
    OBVIOUS
  <2> USE LenAssumption
  <2>1. ASSUME NEW t \in Threads, pc[t] = "put", Enqueue(t) PROVE RingOK'
    <3>1. /\ curWr' = IF curWr + 1 = len THEN 0 ELSE curWr + 1
          /\ queue' = [queue EXCEPT ![curWr] = arg[t].val]
          /\ arg[t].val \in Values
          /\ count < len /\ count' = count + 1 /\ curRd' = curRd
      BY <2>1, Advance DEF Enqueue, TypeOK
    <3>2. /\ queue \in [0 .. len - 1 -> Values \cup {NoValue}]
          /\ curRd \in 0 .. len - 1 /\ curWr \in 0 .. len - 1 /\ count \in 0 .. len
      BY DEF TypeOK
    <3> QED
      BY <3>1, <3>2 DEF RingOK, Held
  <2>2. ASSUME NEW t \in Threads, Dequeue(t) PROVE RingOK'
    <3>1. /\ curRd' = IF curRd + 1 = len THEN 0 ELSE curRd + 1
          /\ count > 0 /\ count' = count - 1 /\ queue' = queue /\ curWr' = curWr
      BY <2>2, Advance DEF Dequeue, TypeOK
    <3>2. /\ curRd \in 0 .. len - 1 /\ curWr \in 0 .. len - 1 /\ count \in 0 .. len
      BY DEF TypeOK
    <3> QED
      BY <3>1, <3>2 DEF RingOK, Held
  <2>3. CASE UNCHANGED ring
    BY <2>3 DEF ring, RingOK, Held
  <2> QED
    BY <2>1, <2>2, <2>3
       DEF Next, Turn, PutTurn, GetTurn, CallPut, CallGet, SpuriousWakeup, GiveUp, Sleep,
           vars, ring
<1> QED
  BY <1>1, <1>2, TypeInvariant, PTL DEF Spec

(* A thread leaves its loop and signals: if anybody sleeps on `cond`,      *)
(* exactly one sleeper goes back to competing for the mutex.               *)
LEMMA SignalMoves ==
  ASSUME pc \in [Threads -> Places], NEW t \in Threads, NEW mine, NEW cond, NEW op,
         pc[t] = mine, mine # "idle", mine # cond, mine # op,
         cond # op, cond # "idle", op # "idle", LeaveAndSignal(t, cond, op)
  PROVE  /\ Cardinality(Where(pc', mine)) = Cardinality(Where(pc, mine)) - 1
         /\ \A s : s \notin {"idle", mine, cond, op} => Where(pc', s) = Where(pc, s)
         /\ Where(pc, cond) = {} => Where(pc', cond) = {}
         /\ Where(pc, cond) # {} =>
               Cardinality(Where(pc', op)) = Cardinality(Where(pc, op)) + 1
<1> DEFINE h == [pc EXCEPT ![t] = "idle"]
<1>1. Moves(pc, h, t, mine, "idle")
  BY DEF Moves
<1> HIDE DEF h
<1>2. /\ Cardinality(Where(h, mine)) = Cardinality(Where(pc, mine)) - 1
      /\ \A s : s # mine /\ s # "idle" => Where(h, s) = Where(pc, s)
  BY <1>1, MoveCounts
<1>3. CASE Where(pc, cond) = {}
  <2>1. pc' = h
    BY <1>3 DEF LeaveAndSignal, At, h
  <2> QED
    BY <1>2, <1>3, <2>1
<1>4. CASE Where(pc, cond) # {}
  <2>1. PICK u \in Where(pc, cond) : pc' = [pc EXCEPT ![t] = "idle", ![u] = op]
    BY <1>4 DEF LeaveAndSignal, At
  <2>2. u \in Threads /\ Moves(h, pc', u, cond, op)
    BY <2>1 DEF Where, Moves, h
  <2>3. /\ Cardinality(Where(pc', op)) = Cardinality(Where(h, op)) + 1
        /\ \A s : s # cond /\ s # op => Where(pc', s) = Where(h, s)
    BY <2>2, MoveCounts
  <2> QED
    BY <1>2, <1>4, <2>3
<1> QED
  BY <1>3, <1>4

(* No wake-up is lost: pthread_cond_signal, one per entry stored or freed, *)
(* is enough for any number of getters and putters.                        *)
THEOREM WakeupInvariant == Spec => []NoLostWakeup
<1>1. Init => NoLostWakeup
  BY DEF Init, NoLostWakeup, At, Where
<1>2. TypeOK /\ NoLostWakeup /\ [Next]_vars => NoLostWakeup'
  <2> SUFFICES ASSUME TypeOK, NoLostWakeup, [Next]_vars PROVE NoLostWakeup'
    OBVIOUS
  <2> DEFINE Getters == Cardinality(Where(pc, "get"))
             Putters == Cardinality(Where(pc, "put"))
  <2>n. /\ len \in Nat /\ count \in 0 .. len /\ pc \in [Threads -> Places]
        /\ Getters \in Nat /\ Putters \in Nat
    BY LenAssumption, WhereFinite DEF TypeOK
  <2> USE <2>n DEF NoLostWakeup, At
  <2>1. ASSUME NEW t \in Threads, CallPut(t) PROVE NoLostWakeup'
    <3>1. Moves(pc, pc', t, "idle", "put") /\ count' = count
      BY <2>1 DEF CallPut, Moves
    <3> QED
      BY <3>1, MoveCounts
  <2>2. ASSUME NEW t \in Threads, CallGet(t) PROVE NoLostWakeup'
    <3>1. Moves(pc, pc', t, "idle", "get") /\ count' = count
      BY <2>2 DEF CallGet, Moves
    <3> QED
      BY <3>1, MoveCounts
  <2>3. ASSUME NEW t \in Threads, pc[t] = "put", Enqueue(t) PROVE NoLostWakeup'
    <3>1. LeaveAndSignal(t, "condRd", "get") /\ count' = count + 1 /\ count < len
      BY <2>3 DEF Enqueue
    <3>2. /\ Cardinality(Where(pc', "put")) = Putters - 1
          /\ Where(pc', "condWr") = Where(pc, "condWr")
          /\ Where(pc, "condRd") = {} => Where(pc', "condRd") = {}
          /\ Where(pc, "condRd") # {} => Cardinality(Where(pc', "get")) = Getters + 1
      BY <2>3, <3>1, SignalMoves
    <3> QED
      BY <3>1, <3>2
  <2>4. ASSUME NEW t \in Threads, pc[t] = "get", Dequeue(t) PROVE NoLostWakeup'
    <3>1. LeaveAndSignal(t, "condWr", "put") /\ count' = count - 1 /\ count > 0
      BY <2>4 DEF Dequeue
    <3>2. /\ Cardinality(Where(pc', "get")) = Getters - 1
          /\ Where(pc', "condRd") = Where(pc, "condRd")
          /\ Where(pc, "condWr") = {} => Where(pc', "condWr") = {}
          /\ Where(pc, "condWr") # {} => Cardinality(Where(pc', "put")) = Putters + 1
      BY <2>4, <3>1, SignalMoves
    <3> QED
      BY <3>1, <3>2
  <2>5. ASSUME NEW t \in Threads, NEW p \in {"idle", "condWr"},
               pc[t] = "put", count = len, pc' = [pc EXCEPT ![t] = p], count' = count
        PROVE  NoLostWakeup'
    <3>1. Moves(pc, pc', t, "put", p)
      BY <2>5 DEF Moves
    <3>2. /\ Cardinality(Where(pc', "put")) = Putters - 1
          /\ Where(pc', "get") = Where(pc, "get")
          /\ Where(pc', "condRd") = Where(pc, "condRd")
      BY <3>1, MoveCounts
    <3>3. Cardinality(Where(pc', "put")) \in Nat
      BY WhereFinite
    <3> QED
      BY <2>5, <3>2, <3>3
  <2>6. ASSUME NEW t \in Threads, NEW p \in {"idle", "condRd"},
               pc[t] = "get", count = 0, pc' = [pc EXCEPT ![t] = p], count' = count
        PROVE  NoLostWakeup'
    <3>1. Moves(pc, pc', t, "get", p)
      BY <2>6 DEF Moves
    <3>2. /\ Cardinality(Where(pc', "get")) = Getters - 1
          /\ Where(pc', "put") = Where(pc, "put")
          /\ Where(pc', "condWr") = Where(pc, "condWr")
      BY <3>1, MoveCounts
    <3>3. Cardinality(Where(pc', "get")) \in Nat
      BY WhereFinite
    <3>4. count' <= Cardinality(Where(pc', "get"))
      BY <2>6, <3>3
    <3>5. Where(pc', "condWr") # {} => len - count' <= Cardinality(Where(pc', "put"))
      BY <2>6, <3>2
    <3> QED
      BY <3>4, <3>5
  <2>7. ASSUME NEW t \in Threads, SpuriousWakeup(t) PROVE NoLostWakeup'
    <3>0. \/ Moves(pc, pc', t, "condRd", "get") /\ count' = count
          \/ Moves(pc, pc', t, "condWr", "put") /\ count' = count
      BY <2>7 DEF SpuriousWakeup, Moves
    <3>1. CASE Moves(pc, pc', t, "condRd", "get") /\ count' = count
      <4>1. /\ Cardinality(Where(pc', "get")) = Getters + 1
            /\ Where(pc', "put") = Where(pc, "put")
            /\ Where(pc', "condWr") = Where(pc, "condWr")
        BY <3>1, MoveCounts
      <4>2. Where(pc, "condRd") # {}
        BY <3>1 DEF Moves, Where
      <4> QED
        BY <3>1, <4>1, <4>2
    <3>2. CASE Moves(pc, pc', t, "condWr", "put") /\ count' = count
      <4>1. /\ Cardinality(Where(pc', "put")) = Putters + 1
            /\ Where(pc', "get") = Where(pc, "get")
            /\ Where(pc', "condRd") = Where(pc, "condRd")
        BY <3>2, MoveCounts
      <4>2. Where(pc, "condWr") # {}
        BY <3>2 DEF Moves, Where
      <4> QED
        BY <3>2, <4>1, <4>2
    <3> QED
      BY <3>0, <3>1, <3>2
  <2>8. CASE UNCHANGED vars
    BY <2>8 DEF vars
  <2> QED
    BY <2>1, <2>2, <2>3, <2>4, <2>5, <2>6, <2>7, <2>8
       DEF Next, Turn, PutTurn, GetTurn, GiveUp, Sleep, ring
<1> QED
  BY <1>1, <1>2, TypeInvariant, PTL DEF Spec

-----------------------------------------------------------------------------
(* The ring implements the bounded FIFO of OsaQueSpec.  Outside a call a   *)
(* thread has no arguments.                                                *)
CallsKept == \A t \in Threads : pc[t] = "idle" => arg[t] = NoArg

(* Arguments come with a call and go with it. *)
LEMMA CallsInvariant == Spec => []CallsKept
<1>1. Init => CallsKept
  BY DEF Init, CallsKept
<1>2. TypeOK /\ CallsKept /\ [Next]_vars => CallsKept'
  <2> SUFFICES ASSUME TypeOK, CallsKept, [Next]_vars PROVE CallsKept'
    OBVIOUS
  <2> USE DEF TypeOK, CallsKept
  <2>1. ASSUME NEW t \in Threads, CallPut(t) PROVE CallsKept'
    BY <2>1 DEF CallPut
  <2>2. ASSUME NEW t \in Threads, CallGet(t) PROVE CallsKept'
    BY <2>2 DEF CallGet
  <2>3. ASSUME NEW t \in Threads, LeaveAndSignal(t, "condRd", "get") PROVE CallsKept'
    BY <2>3 DEF LeaveAndSignal, At, Where
  <2>4. ASSUME NEW t \in Threads, LeaveAndSignal(t, "condWr", "put") PROVE CallsKept'
    BY <2>4 DEF LeaveAndSignal, At, Where
  <2>5. ASSUME NEW t \in Threads, GiveUp(t) PROVE CallsKept'
    BY <2>5 DEF GiveUp
  <2>6. ASSUME NEW t \in Threads, pc[t] = "put", Sleep(t, "condWr") PROVE CallsKept'
    BY <2>6 DEF Sleep
  <2>7. ASSUME NEW t \in Threads, pc[t] = "get", Sleep(t, "condRd") PROVE CallsKept'
    BY <2>7 DEF Sleep
  <2>8. ASSUME NEW t \in Threads, SpuriousWakeup(t) PROVE CallsKept'
    BY <2>8 DEF SpuriousWakeup
  <2>9. CASE UNCHANGED vars
    BY <2>9 DEF vars
  <2> QED
    BY <2>1, <2>2, <2>3, <2>4, <2>5, <2>6, <2>7, <2>8, <2>9
       DEF Next, Turn, PutTurn, GetTurn, Enqueue, Dequeue
<1> QED
  BY <1>1, <1>2, TypeInvariant, PTL DEF Spec

(* The k-th entry from index i on, on the ring. *)
LEMMA SlotOf ==
  ASSUME NEW i \in 0 .. len - 1, NEW k \in 1 .. len
  PROVE  (i + k - 1) % len = IF i + k - 1 < len THEN i + k - 1 ELSE i + k - 1 - len
<1>1. len \in Nat \ {0}
  BY LenAssumption
<1>2. CASE i + k - 1 < len
  BY <1>1, <1>2
<1>3. CASE i + k - 1 >= len
  BY <1>1, <1>3
<1> QED
  BY <1>1, <1>2, <1>3

(* The contents are a sequence of `count` values. *)
LEMMA ContentsAre ==
  ASSUME TypeOK
  PROVE  /\ Contents \in Seq(Values \cup {NoValue}) /\ Len(Contents) = count
         /\ \A k \in 1 .. count : Contents[k] = queue[(curRd + k - 1) % len]
         /\ DOMAIN Contents = 1 .. count
<1>1. count \in Nat /\ count <= len /\ len \in Nat
  BY LenAssumption DEF TypeOK
<1>2. \A k \in 1 .. count : queue[(curRd + k - 1) % len] \in Values \cup {NoValue}
  <2> TAKE k \in 1 .. count
  <2>1. curRd \in 0 .. len - 1 /\ k \in 1 .. len
    BY <1>1 DEF TypeOK
  <2>2. (curRd + k - 1) % len \in 0 .. len - 1
    BY <1>1, <2>1, SlotOf
  <2> QED BY <2>2 DEF TypeOK
<1> QED BY <1>1, <1>2 DEF Contents

(* A put appends to the contents. *)
LEMMA EnqueueAppends ==
  ASSUME TypeOK, TypeOK', RingOK, NEW t \in Threads, pc[t] = "put", Enqueue(t)
  PROVE  Len(Contents) < len /\ Contents' = Append(Contents, arg[t].val)
<1> DEFINE S == Values \cup {NoValue}
           v == arg[t].val
<1>1. /\ len \in Nat /\ count \in 0 .. len /\ curRd \in 0 .. len - 1 /\ curWr \in 0 .. len - 1
      /\ queue \in [0 .. len - 1 -> S] /\ v \in S
  BY LenAssumption DEF TypeOK
<1>2. count < len /\ queue' = [queue EXCEPT ![curWr] = v] /\ count' = count + 1 /\ curRd' = curRd
  BY DEF Enqueue
<1>3. /\ Contents \in Seq(S) /\ Len(Contents) = count
      /\ \A k \in 1 .. count : Contents[k] = queue[(curRd + k - 1) % len]
  BY ContentsAre
<1>4. /\ Contents' \in Seq(S) /\ Len(Contents') = count'
      /\ \A k \in 1 .. count' : Contents'[k] = queue'[(curRd' + k - 1) % len]
  <2>1. \A k \in 1 .. count' : queue'[(curRd' + k - 1) % len] \in S
    <3> TAKE k \in 1 .. count'
    <3>1. curRd \in 0 .. len - 1 /\ k \in 1 .. len /\ curRd' = curRd
      BY <1>1, <1>2
    <3>2. (curRd + k - 1) % len = IF curRd + k - 1 < len THEN curRd + k - 1 ELSE curRd + k - 1 - len
      BY <3>1, SlotOf
    <3>3. (curRd' + k - 1) % len \in 0 .. len - 1
      BY <1>1, <3>1, <3>2
    <3> QED BY <3>3 DEF TypeOK
  <2> QED BY <1>1, <1>2, <2>1 DEF Contents
<1>5. /\ Append(Contents, v) \in Seq(S) /\ Len(Append(Contents, v)) = count + 1
      /\ \A k \in 1 .. count : Append(Contents, v)[k] = Contents[k]
      /\ Append(Contents, v)[count + 1] = v
  BY <1>1, <1>3, AppendProperties
<1>6. ASSUME NEW k \in 1 .. count + 1 PROVE Contents'[k] = Append(Contents, v)[k]
  <2>1. k \in 1 .. len
    BY <1>1, <1>2
  <2>2. (curRd + k - 1) % len = IF curRd + k - 1 < len THEN curRd + k - 1 ELSE curRd + k - 1 - len
    BY <2>1, <1>1, SlotOf
  <2>3. CASE k = count + 1
    <3>1. (curRd + k - 1) % len = curWr
      BY <2>2, <2>3, <1>1, <1>2 DEF RingOK
    <3> QED BY <3>1, <2>3, <1>1, <1>2, <1>4, <1>5
  <2>4. CASE k \in 1 .. count
    <3>1. (curRd + k - 1) % len # curWr /\ (curRd + k - 1) % len \in 0 .. len - 1
      BY <2>2, <2>4, <1>1, <1>2 DEF RingOK
    <3> QED BY <3>1, <2>4, <1>1, <1>2, <1>3, <1>4, <1>5
  <2> QED BY <2>3, <2>4, <1>1
<1>7. Contents' = Append(Contents, v)
  BY <1>2, <1>4, <1>5, <1>6, SeqEqual
<1> QED BY <1>2, <1>3, <1>7

(* A get returns the first of the contents and leaves the others. *)
LEMMA DequeueTakesHead ==
  ASSUME TypeOK, NEW t \in Threads, Dequeue(t)
  PROVE  Contents # <<>> /\ queue[curRd] = Head(Contents) /\ Contents' = Tail(Contents)
<1> DEFINE S == Values \cup {NoValue}
<1>1. /\ len \in Nat /\ count \in 0 .. len /\ curRd \in 0 .. len - 1
      /\ queue \in [0 .. len - 1 -> S]
  BY LenAssumption DEF TypeOK
<1>2. /\ count > 0 /\ queue' = queue /\ count' = count - 1
      /\ curRd' = IF curRd + 1 = len THEN 0 ELSE curRd + 1
  BY <1>1, Advance DEF Dequeue
<1>3. /\ Contents \in Seq(S) /\ Len(Contents) = count
      /\ \A k \in 1 .. count : Contents[k] = queue[(curRd + k - 1) % len]
  BY ContentsAre
<1>4. Contents # <<>>
  BY <1>1, <1>2, <1>3
<1>5. Head(Contents) = queue[curRd]
  <2>1. (curRd + 1 - 1) % len = curRd
    BY <1>1, SlotOf
  <2> QED BY <2>1, <1>1, <1>2, <1>3
<1>6. /\ Tail(Contents) \in Seq(S) /\ Len(Tail(Contents)) = count - 1
      /\ \A k \in 1 .. count - 1 : Tail(Contents)[k] = Contents[k + 1]
  BY <1>1, <1>3, <1>4, HeadTailProperties
<1>7. ASSUME NEW k \in 1 .. count - 1
      PROVE  (curRd' + k - 1) % len = (curRd + k) % len /\ (curRd' + k - 1) % len \in 0 .. len - 1
  <2>1. k \in 1 .. len /\ k + 1 \in 1 .. len /\ curRd' \in 0 .. len - 1 /\ k \in Nat
    BY <1>1, <1>2
  <2>2. (curRd' + k - 1) % len
          = IF curRd' + k - 1 < len THEN curRd' + k - 1 ELSE curRd' + k - 1 - len
    BY <2>1, SlotOf
  <2>3. (curRd + (k + 1) - 1) % len
          = IF curRd + (k + 1) - 1 < len THEN curRd + (k + 1) - 1 ELSE curRd + (k + 1) - 1 - len
    BY <2>1, <1>1, SlotOf
  <2>4. curRd + (k + 1) - 1 = curRd + k
    BY <2>1, <1>1
  <2> QED BY <2>1, <2>2, <2>3, <2>4, <1>1, <1>2
<1>8. /\ Contents' \in Seq(S) /\ Len(Contents') = count - 1
      /\ \A k \in 1 .. count - 1 : Contents'[k] = queue[(curRd + k) % len]
  BY <1>1, <1>2, <1>7 DEF Contents
<1>9. \A k \in 1 .. count - 1 : Tail(Contents)[k] = queue[(curRd + k) % len]
  <2> TAKE k \in 1 .. count - 1
  <2>1. k + 1 \in 1 .. count /\ curRd + (k + 1) - 1 = curRd + k
    BY <1>1
  <2> QED BY <2>1, <1>3, <1>6
<1>10. Contents' = Tail(Contents)
  BY <1>6, <1>8, <1>9, SeqEqual
<1> QED BY <1>4, <1>5, <1>10

-----------------------------------------------------------------------------
(* A thread outside the queue is outside for the FIFO, too. *)
LEMMA PendingOutside ==
  ASSUME TypeOK, CallsKept, NEW t \in Threads
  PROVE  pc[t] = "idle" => Pending[t] = Fifo!Idle
BY DEF TypeOK, CallsKept, Pending, Fifo!Idle, NoArg

(* A step that leaves the calls of the other threads as they are. *)
LEMMA PendingMoves ==
  ASSUME NEW t \in Threads, NEW c, Pending'[t] = c,
         \A u \in Threads : u # t => Pending'[u] = Pending[u]
  PROVE  Pending' = [Pending EXCEPT ![t] = c]
BY DEF Pending

(* A thread that leaves its loop and wakes another one: the other is still *)
(* in its call.                                                            *)
LEMMA PendingSignal ==
  ASSUME TypeOK, CallsKept, NEW t \in Threads, NEW cond, NEW op,
         <<cond, op>> \in {<<"condRd", "get">>, <<"condWr", "put">>},
         pc[t] # cond, LeaveAndSignal(t, cond, op)
  PROVE  Pending' = [Pending EXCEPT ![t] = Fifo!Idle]
<1> USE DEF TypeOK
<1>1. pc'[t] = "idle" /\ arg'[t] = NoArg
  BY DEF LeaveAndSignal, At, Where
<1>2. Pending'[t] = Fifo!Idle
  BY <1>1 DEF Pending, Fifo!Idle, NoArg
<1>3. ASSUME NEW u \in Threads, u # t PROVE Pending'[u] = Pending[u]
  <2>1. arg'[u] = arg[u] /\ (pc'[u] = pc[u] \/ (pc[u] = cond /\ pc'[u] = op))
    BY <1>3 DEF LeaveAndSignal, At, Where
  <2>2. \/ pc'[u] = pc[u]
        \/ pc[u] = "condRd" /\ pc'[u] = "get"
        \/ pc[u] = "condWr" /\ pc'[u] = "put"
    BY <2>1
  <2> QED BY <2>1, <2>2 DEF Pending
<1> QED BY <1>2, <1>3, PendingMoves

(* The steps of the queue are steps of the FIFO, or the caller sees        *)
(* nothing of them.                                                        *)
LEMMA FifoStep ==
  TypeOK /\ TypeOK' /\ RingOK /\ CallsKept /\ CallsKept' /\ [Next]_vars
  => [Fifo!Next]_(Fifo!vars)
<1> SUFFICES ASSUME TypeOK, TypeOK', RingOK, CallsKept, CallsKept', [Next]_vars
             PROVE  [Fifo!Next]_(Fifo!vars)
  OBVIOUS
<1> USE DEF Fifo!Next
<1>c. ASSUME UNCHANGED ring PROVE Contents' = Contents
  BY <1>c DEF ring, Contents
<1>1. ASSUME NEW t \in Threads, CallPut(t) \/ CallGet(t) PROVE Fifo!Invoke(t)
  <2>1. Pending[t] = Fifo!Idle
    BY <1>1, PendingOutside DEF CallPut, CallGet
  <2>2. Pending'[t] \in Fifo!Calls
    <3>1. CASE CallPut(t)
      <4>1. PICK v \in Values, to \in Timeouts : arg' = [arg EXCEPT ![t] = [val |-> v, timeout |-> to]]
        BY <3>1 DEF CallPut
      <4>2. arg'[t] = [val |-> v, timeout |-> to] /\ pc'[t] = "put"
        BY <3>1, <4>1 DEF CallPut, TypeOK
      <4>3. Pending'[t] = [op |-> "put", val |-> v, timeout |-> to]
        BY <4>2 DEF Pending
      <4> QED BY <4>3 DEF Fifo!Calls, Timeouts, Fifo!Timeouts
    <3>2. CASE CallGet(t)
      <4>1. PICK to \in Timeouts : arg' = [arg EXCEPT ![t] = [val |-> NoValue, timeout |-> to]]
        BY <3>2 DEF CallGet
      <4>2. arg'[t] = [val |-> NoValue, timeout |-> to] /\ pc'[t] = "get"
        BY <3>2, <4>1 DEF CallGet, TypeOK
      <4>3. Pending'[t] = [op |-> "get", val |-> NoValue, timeout |-> to]
        BY <4>2 DEF Pending
      <4> QED BY <4>3 DEF Fifo!Calls, Timeouts, Fifo!Timeouts
    <3> QED BY <1>1, <3>1, <3>2
  <2>3. \A u \in Threads : u # t => Pending'[u] = Pending[u]
    BY <1>1 DEF CallPut, CallGet, TypeOK, Pending
  <2>4. Pending' = [Pending EXCEPT ![t] = Pending'[t]]
    BY <2>3, PendingMoves
  <2>5. UNCHANGED <<Contents, ret>>
    BY <1>1, <1>c DEF CallPut, CallGet, ring
  <2> QED BY <2>1, <2>2, <2>4, <2>5 DEF Fifo!Invoke
<1>2. ASSUME NEW t \in Threads, pc[t] = "put", Enqueue(t) PROVE Fifo!Put(t)
  <2>1. Pending[t].op = "put" /\ Pending[t].val = arg[t].val
    BY <1>2 DEF Pending
  <2>2. Pending' = [Pending EXCEPT ![t] = Fifo!Idle]
    BY <1>2, PendingSignal DEF Enqueue
  <2>3. Len(Contents) < len /\ Contents' = Append(Contents, arg[t].val)
    BY <1>2, EnqueueAppends
  <2> QED BY <1>2, <2>1, <2>2, <2>3 DEF Enqueue, Return, Fifo!Put, Fifo!Return
<1>3. ASSUME NEW t \in Threads, pc[t] = "get", Dequeue(t) PROVE Fifo!Get(t)
  <2>1. Pending[t].op = "get"
    BY <1>3 DEF Pending
  <2>2. Pending' = [Pending EXCEPT ![t] = Fifo!Idle]
    BY <1>3, PendingSignal DEF Dequeue
  <2>3. Contents # <<>> /\ queue[curRd] = Head(Contents) /\ Contents' = Tail(Contents)
    BY <1>3, DequeueTakesHead
  <2> QED BY <1>3, <2>1, <2>2, <2>3 DEF Dequeue, Return, Fifo!Get, Fifo!Return
<1>4. ASSUME NEW t \in Threads, GiveUp(t),
             (pc[t] = "put" /\ count = len) \/ (pc[t] = "get" /\ count = 0)
      PROVE  Fifo!Fail(t)
  <2>1. Pending[t].timeout = "NONE" /\ (pc[t] = "put" => Pending[t].op = "put")
        /\ (pc[t] = "get" => Pending[t].op = "get")
    BY <1>4 DEF GiveUp, Pending
  <2>2. pc'[t] = "idle" /\ arg'[t] = NoArg
    BY <1>4 DEF GiveUp, TypeOK
  <2>3. Pending'[t] = Fifo!Idle
    BY <2>2 DEF Pending, Fifo!Idle, NoArg
  <2>4. \A u \in Threads : u # t => Pending'[u] = Pending[u]
    BY <1>4 DEF GiveUp, TypeOK, Pending
  <2>5. Pending' = [Pending EXCEPT ![t] = Fifo!Idle]
    BY <2>3, <2>4, PendingMoves
  <2>6. Len(Contents) = count /\ Contents \in Seq(Values \cup {NoValue})
    BY ContentsAre
  <2>7. count = 0 => Contents = <<>>
    BY <2>6
  <2>8. Contents' = Contents
    BY <1>4, <1>c DEF GiveUp
  <2> QED BY <1>4, <2>1, <2>5, <2>6, <2>7, <2>8 DEF GiveUp, Return, Fifo!Fail, Fifo!Return
<1>5. ASSUME NEW t \in Threads, UNCHANGED <<queue, curRd, curWr, count, arg, ret>>,
             \/ pc[t] = "put" /\ pc' = [pc EXCEPT ![t] = "condWr"]
             \/ pc[t] = "get" /\ pc' = [pc EXCEPT ![t] = "condRd"]
             \/ pc[t] = "condWr" /\ pc' = [pc EXCEPT ![t] = "put"]
             \/ pc[t] = "condRd" /\ pc' = [pc EXCEPT ![t] = "get"]
      PROVE  UNCHANGED Fifo!vars
  <2>1. Contents' = Contents
    BY <1>5, <1>c DEF ring
  <2>2. \A u \in Threads : Pending'[u] = Pending[u]
    BY <1>5 DEF Pending, TypeOK
  <2>3. Pending' = Pending
    BY <2>2 DEF Pending
  <2> QED BY <1>5, <2>1, <2>3 DEF Fifo!vars
<1>6. CASE UNCHANGED vars
  <2>1. Contents' = Contents /\ Pending' = Pending
    BY <1>6 DEF vars, Contents, Pending
  <2> QED BY <1>6, <2>1 DEF vars, Fifo!vars
<1>7. ASSUME NEW t \in Threads, PutTurn(t) PROVE [Fifo!Next]_(Fifo!vars)
  BY <1>7, <1>2, <1>4, <1>5 DEF PutTurn, Sleep
<1>8. ASSUME NEW t \in Threads, GetTurn(t) PROVE [Fifo!Next]_(Fifo!vars)
  BY <1>8, <1>3, <1>4, <1>5 DEF GetTurn, Sleep
<1>9. ASSUME NEW t \in Threads, SpuriousWakeup(t) PROVE [Fifo!Next]_(Fifo!vars)
  BY <1>9, <1>5 DEF SpuriousWakeup
<1> QED BY <1>1, <1>6, <1>7, <1>8, <1>9 DEF Next, Turn

(* The ring of osa_que.c, its mutex and its condition variables implement  *)
(* the bounded FIFO for any length and any threads: every value that is    *)
(* put is returned once and in order, and a call with OSA_TIMEOUT_NONE     *)
(* fails only when the queue is full, or empty.                            *)
THEOREM ImplementsFifo == Spec => FifoSpec
<1>1. Init => Fifo!Init
  <2> SUFFICES ASSUME Init PROVE Fifo!Init
    OBVIOUS
  <2>1. Contents = <<>>
    BY DEF Init, Contents
  <2>2. Pending = [t \in Threads |-> Fifo!Idle]
    BY DEF Init, Pending, Fifo!Idle, NoArg
  <2> QED BY <2>1, <2>2 DEF Init, Fifo!Init
<1> QED
  BY <1>1, FifoStep, TypeInvariant, RingInvariant, CallsInvariant, PTL
     DEF Spec, FifoSpec, Fifo!Spec
=============================================================================
