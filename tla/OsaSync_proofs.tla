--------------------------- MODULE OsaSync_proofs ---------------------------
(***************************************************************************)
(* The counting semaphore, the event flags, the frame buffers and the      *)
(* System V objects of utils/osa, for any number of threads, any limit,    *)
(* any set of bits, any number of buffers, of writers and of readers, and  *)
(* any number of servers and clients.                                      *)
(*                                                                         *)
(* The mailboxes for any tasks that send to one another in any way, any    *)
(* queue length and any heap: every message and every parameter has one    *)
(* owner who frees it once, and a call that waits meets its own            *)
(* acknowledgements only and returns what they say.                        *)
(***************************************************************************)
EXTENDS OsaSem, OsaFlg, OsaBuf, OsaIpc, OsaMbx, FiniteSetTheorems, SequenceTheorems, TLAPS

(* The cardinality of a finite set with one element more or less. *)
LEMMA OneElement ==
  ASSUME NEW S, IsFiniteSet(S), NEW x
  PROVE  /\ Cardinality(S) \in Nat
         /\ x \notin S => Cardinality(S \cup {x}) = Cardinality(S) + 1
         /\ x \in S => Cardinality(S \ {x}) = Cardinality(S) - 1
BY FS_AddElement, FS_RemoveElement, FS_CardinalityType

-----------------------------------------------------------------------------
(* The limit is a positive number, whatever OSA_semCreate is called with. *)
LEMMA MaxCount == maxCount \in Nat \ {0}
BY SemAssumption DEF maxCount

(* The threads on their way back to the mutex are finitely many. *)
LEMMA WokenFinite ==
  ASSUME SemTypeOK
  PROVE  IsFiniteSet(semWoken) /\ Cardinality(semWoken) \in Nat
BY SemAssumption, FS_Subset, FS_CardinalityType DEF SemTypeOK

(* pthread_cond_signal: with somebody asleep, one more is on its way. *)
LEMMA SemWakes ==
  ASSUME SemTypeOK, semWake
  PROVE  /\ semAsleep' \subseteq SemThreads /\ semWoken' \subseteq SemThreads
         /\ semAsleep' \cap semWoken' = {}
         /\ semAsleep = {} => semAsleep' = {}
         /\ semAsleep # {} => Cardinality(semWoken') = Cardinality(semWoken) + 1
<1>1. CASE semAsleep = {}
  BY <1>1 DEF semWake, SemTypeOK
<1>2. CASE semAsleep # {}
  <2>1. PICK t \in semAsleep : semAsleep' = semAsleep \ {t} /\ semWoken' = semWoken \cup {t}
    BY <1>2 DEF semWake
  <2>2. Cardinality(semWoken') = Cardinality(semWoken) + 1
    BY <2>1, WokenFinite, OneElement DEF SemTypeOK
  <2> QED
    BY <1>2, <2>1, <2>2 DEF SemTypeOK
<1> QED
  BY <1>1, <1>2

(* OSA_semWait, OSA_semSignal and the loop around pthread_cond_wait keep   *)
(* the count in its range and never leave a thread asleep on a post that   *)
(* nobody is on the way to take.                                           *)
THEOREM SemInvariant == semSpec => []SemInv
<1>1. semInit => SemInv
  BY MaxCount, SemAssumption DEF semInit, SemInv, SemTypeOK, SemNoLostWakeup
<1>2. SemInv /\ [semNext]_semVars => SemInv'
  <2> SUFFICES ASSUME SemInv, [semNext]_semVars PROVE SemInv'
    OBVIOUS
  <2>t. /\ maxCount \in Nat \ {0} /\ SemTypeOK /\ SemNoLostWakeup
        /\ IsFiniteSet(semWoken) /\ Cardinality(semWoken) \in Nat
    BY MaxCount, WokenFinite DEF SemInv
  <2>1. ASSUME NEW t \in SemThreads, t \notin semAsleep, semTake(t) PROVE SemInv'
    <3>1. Cardinality(semWoken \ {t}) >= Cardinality(semWoken) - 1
      <4>1. t \notin semWoken => semWoken \ {t} = semWoken
        OBVIOUS
      <4> QED
        BY <4>1, <2>t, OneElement
    <3>2. Cardinality(semWoken \ {t}) \in Nat
      BY <2>t, FS_Subset, FS_CardinalityType
    <3>3. SemNoLostWakeup'
      BY <2>t, <2>1, <3>1, <3>2 DEF semTake, SemNoLostWakeup, SemTypeOK
    <3>4. SemTypeOK'
      BY <2>t, <2>1 DEF semTake, SemTypeOK
    <3> QED
      BY <3>3, <3>4 DEF SemInv
  <2>2. ASSUME NEW t \in SemThreads, semSleep(t) PROVE SemInv'
    <3>1. semCount' = 0 /\ Cardinality(semWoken \ {t}) \in Nat
      BY <2>t, <2>2, FS_Subset, FS_CardinalityType DEF semSleep
    <3> QED
      BY <2>t, <2>2, <3>1 DEF semSleep, SemInv, SemTypeOK, SemNoLostWakeup
  <2>3. ASSUME NEW t \in SemThreads, OSA_semSignal(t) PROVE SemInv'
    <3>1. CASE semCount < maxCount
      <4>1. semCount' = semCount + 1 /\ semWake
        BY <2>3, <3>1 DEF OSA_semSignal
      <4> QED
        BY <2>t, <3>1, <4>1, SemWakes DEF SemInv, SemTypeOK, SemNoLostWakeup
    <3>2. CASE ~(semCount < maxCount)
      BY <2>t, <2>3, <3>2 DEF OSA_semSignal, semVars, SemInv, SemTypeOK, SemNoLostWakeup
    <3> QED
      BY <3>1, <3>2
  <2>4. CASE semSpurious
    BY <2>t, <2>4, SemWakes DEF semSpurious, SemInv, SemTypeOK, SemNoLostWakeup
  <2>5. CASE UNCHANGED semVars
    BY <2>t, <2>5 DEF semVars, SemInv, SemTypeOK, SemNoLostWakeup
  <2> QED
    BY <2>t, <2>1, <2>2, <2>3, <2>4, <2>5
       DEF semNext, OSA_semWait, OSA_semPoll, semResume, SemIdle, SemTypeOK
<1> QED
  BY <1>1, <1>2, PTL DEF semSpec

-----------------------------------------------------------------------------
(* What the calls of the waiters and the pattern can be. *)
FlgCalls == [at : {"idle", "asleep", "woken", "done"}, pattern : SUBSET FlgBits,
             mode : Modes, clr : BOOLEAN]

FlgTypeOK == /\ flgPattern \in SUBSET FlgBits
             /\ flgWait \in [FlgWaiters -> FlgCalls]
             /\ flgGot \in [FlgWaiters -> SUBSET FlgBits]

(* The call a waiter makes or goes on with: OSA_flgWait, flgResume. *)
FlgTurnOf(w, q) == /\ flgTurn(w, q)
                   /\ q \in [at : {"run", "woken"}, pattern : SUBSET FlgBits,
                             mode : Modes, clr : BOOLEAN]

(* The steps of the event flags, by what they change. *)
LEMMA FlgSteps ==
  ASSUME FlgTypeOK, [flgNext]_flgVars
  PROVE  \/ \E w \in FlgWaiters : \E q : FlgTurnOf(w, q)
         \/ \E p \in SUBSET FlgBits : OSA_flgSet(p)
         \/ flgPattern' \subseteq flgPattern /\ UNCHANGED <<flgWait, flgGot>>
         \/ flgSpurious
<1>1. ASSUME NEW w \in FlgWaiters, OSA_flgWait(w) PROVE \E q : FlgTurnOf(w, q)
  <2>1. PICK p \in SUBSET FlgBits \ {{}}, m \in Modes, c \in BOOLEAN :
            flgTurn(w, [at |-> "run", pattern |-> p, mode |-> m, clr |-> c])
    BY <1>1 DEF OSA_flgWait
  <2> QED
    BY <2>1 DEF FlgTurnOf
<1>2. ASSUME NEW w \in FlgWaiters, flgResume(w) PROVE FlgTurnOf(w, flgWait[w])
  BY <1>2 DEF flgResume, FlgTurnOf, FlgTypeOK, FlgCalls
<1>3. ASSUME NEW p \in SUBSET FlgBits, NEW m \in Modes, NEW c \in BOOLEAN,
             OSA_flgPoll(p, m, c) \/ OSA_flgClear(p)
      PROVE  flgPattern' \subseteq flgPattern /\ UNCHANGED <<flgWait, flgGot>>
  BY <1>3 DEF OSA_flgPoll, OSA_flgClear
<1> QED
  BY <1>1, <1>2, <1>3 DEF flgNext, OSA_flgIsSet, flgVars, Modes

(* Somebody asleep is woken, and nothing else about the calls changes. *)
LEMMA FlgWakes ==
  ASSUME FlgTypeOK, flgWake
  PROVE  /\ flgWait' \in [FlgWaiters -> FlgCalls]
         /\ \A v \in FlgWaiters : \/ flgWait'[v] = flgWait[v]
                                  \/ flgWait'[v].at = "woken"
         /\ Sleeping # {} => \E v \in Sleeping : flgWait'[v].at = "woken"
<1>1. CASE Sleeping = {}
  BY <1>1 DEF flgWake, FlgTypeOK
<1>2. CASE Sleeping # {}
  <2>1. PICK w \in Sleeping : flgWait' = [flgWait EXCEPT ![w].at = "woken"]
    BY <1>2 DEF flgWake
  <2> QED
    BY <2>1 DEF Sleeping, FlgTypeOK, FlgCalls
<1> QED
  BY <1>1, <1>2

(* A wait that has returned had its condition true at the moment it took   *)
(* the bits, for any number of waiters (OSA_flgWait).                      *)
THEOREM FlgGotInvariant == flgSpec => [](FlgTypeOK /\ FlgGotRight)
<1>1. flgInit => FlgTypeOK /\ FlgGotRight
  BY DEF flgInit, FlgTypeOK, FlgGotRight, FlgIdle, FlgCalls, Modes
<1>2. FlgTypeOK /\ FlgGotRight /\ [flgNext]_flgVars => (FlgTypeOK /\ FlgGotRight)'
  <2> SUFFICES ASSUME FlgTypeOK, FlgGotRight, [flgNext]_flgVars
               PROVE  FlgTypeOK' /\ FlgGotRight'
    OBVIOUS
  <2>1. ASSUME NEW w \in FlgWaiters, NEW q, FlgTurnOf(w, q) PROVE FlgTypeOK' /\ FlgGotRight'
    <3>1. CASE FlgFound(q)
      <4> DEFINE d == [q EXCEPT !.at = "done"]
      <4>1. d \in FlgCalls /\ d.pattern = q.pattern /\ d.mode = q.mode /\ d.at = "done"
        BY <2>1 DEF FlgTurnOf, FlgCalls
      <4>2. /\ flgPattern' \subseteq flgPattern
            /\ flgGot' = [flgGot EXCEPT ![w] = flgPattern \cap q.pattern]
            /\ flgWait' = [flgWait EXCEPT ![w] = d]
        BY <2>1, <3>1 DEF FlgTurnOf, flgTurn
      <4> HIDE DEF d
      <4>3. FlgTypeOK'
        BY <4>1, <4>2 DEF FlgTypeOK
      <4>4. FlgGotRight'
        BY <3>1, <4>1, <4>2 DEF FlgFound, FlgTypeOK, FlgGotRight
      <4> QED
        BY <4>3, <4>4
    <3>2. CASE ~FlgFound(q)
      BY <2>1, <3>2 DEF FlgTurnOf, flgTurn, FlgTypeOK, FlgGotRight, FlgCalls
    <3> QED
      BY <3>1, <3>2
  <2>2. ASSUME NEW p \in SUBSET FlgBits, OSA_flgSet(p) PROVE FlgTypeOK' /\ FlgGotRight'
    BY <2>2, FlgWakes DEF OSA_flgSet, FlgTypeOK, FlgGotRight
  <2>3. CASE flgPattern' \subseteq flgPattern /\ UNCHANGED <<flgWait, flgGot>>
    BY <2>3 DEF FlgTypeOK, FlgGotRight
  <2>4. CASE flgSpurious
    BY <2>4, FlgWakes DEF flgSpurious, FlgTypeOK, FlgGotRight
  <2> QED
    BY <2>1, <2>2, <2>3, <2>4, FlgSteps
<1> QED
  BY <1>1, <1>2, PTL DEF flgSpec

(* With one waiting thread, as osa_flg.c is used, no OSA_flgSet is slept   *)
(* through, whatever the other threads set, clear and test in between.     *)
THEOREM FlgInvariant ==
  ASSUME NEW CONSTANT w, FlgWaiters = {w}
  PROVE  flgSpec => []FlgInv
<1>1. flgInit => FlgNoLostWakeup
  BY DEF flgInit, FlgNoLostWakeup, Sleeping, FlgIdle
<1>2. FlgTypeOK /\ FlgNoLostWakeup /\ [flgNext]_flgVars => FlgNoLostWakeup'
  <2> SUFFICES ASSUME FlgTypeOK, FlgNoLostWakeup, [flgNext]_flgVars
               PROVE  FlgNoLostWakeup'
    OBVIOUS
  <2>1. ASSUME NEW q, FlgTurnOf(w, q) PROVE FlgNoLostWakeup'
    BY <2>1 DEF FlgTurnOf, flgTurn, FlgFound, FlgTypeOK, FlgNoLostWakeup, Sleeping
  <2>2. ASSUME flgWake PROVE Sleeping' = {}
    BY <2>2, FlgWakes DEF Sleeping
  <2>3. ASSUME NEW p \in SUBSET FlgBits, OSA_flgSet(p) PROVE FlgNoLostWakeup'
    BY <2>2, <2>3 DEF OSA_flgSet, FlgNoLostWakeup
  <2>4. CASE flgPattern' \subseteq flgPattern /\ UNCHANGED <<flgWait, flgGot>>
    BY <2>4 DEF FlgNoLostWakeup, Sleeping, FlgFound
  <2>5. CASE flgSpurious
    BY <2>2, <2>5 DEF flgSpurious, FlgNoLostWakeup
  <2> QED
    BY <2>1, <2>3, <2>4, <2>5, FlgSteps
<1> QED
  BY <1>1, <1>2, FlgGotInvariant, PTL DEF flgSpec, FlgInv

-----------------------------------------------------------------------------
(* A queue of buffer numbers as the set of what is in it, each once. *)
Members(s)  == {s[i] : i \in DOMAIN s}
Distinct(s) == \A i, j \in DOMAIN s : s[i] = s[j] => i = j

(* What OSA_queGet leaves of a queue. *)
LEMMA TailMembers ==
  ASSUME NEW S, NEW s \in Seq(S), s # <<>>, Distinct(s)
  PROVE  /\ Head(s) \in Members(s) /\ Head(s) \in S
         /\ Tail(s) \in Seq(S) /\ Distinct(Tail(s))
         /\ Members(Tail(s)) = Members(s) \ {Head(s)}
<1>1. /\ Head(s) = s[1] /\ 1 \in DOMAIN s /\ Tail(s) \in Seq(S)
      /\ DOMAIN Tail(s) = 1 .. Len(s) - 1 /\ DOMAIN s = 1 .. Len(s) /\ Len(s) \in Nat
      /\ \A i \in 1 .. Len(s) - 1 : Tail(s)[i] = s[i + 1] /\ i + 1 \in DOMAIN s
  OBVIOUS
<1>2. Distinct(Tail(s))
  BY <1>1 DEF Distinct
<1>3. \A i \in DOMAIN s : i # 1 => i - 1 \in DOMAIN Tail(s) /\ s[i] = Tail(s)[i - 1]
  BY <1>1
<1>4. Members(Tail(s)) \subseteq Members(s) \ {Head(s)}
  <2>1. \A i \in DOMAIN Tail(s) : s[i + 1] \in Members(s) /\ s[i + 1] # s[1]
    BY <1>1 DEF Members, Distinct
  <2> QED
    BY <1>1, <2>1 DEF Members
<1>5. Members(s) \ {Head(s)} \subseteq Members(Tail(s))
  <2> SUFFICES ASSUME NEW i \in DOMAIN s, s[i] # Head(s) PROVE s[i] \in Members(Tail(s))
    BY DEF Members
  <2>1. i # 1
    BY <1>1
  <2> QED
    BY <1>3, <2>1 DEF Members
<1>6. Head(s) \in Members(s) /\ Head(s) \in S
  BY <1>1 DEF Members
<1> QED
  BY <1>1, <1>2, <1>4, <1>5, <1>6

(* What OSA_quePut makes of a queue. *)
LEMMA AppendMembers ==
  ASSUME NEW S, NEW s \in Seq(S), Distinct(s), NEW x \in S, x \notin Members(s)
  PROVE  /\ Append(s, x) \in Seq(S) /\ Distinct(Append(s, x))
         /\ Members(Append(s, x)) = Members(s) \cup {x}
<1>1. /\ Append(s, x) \in Seq(S) /\ Len(s) \in Nat /\ DOMAIN s = 1 .. Len(s)
      /\ DOMAIN Append(s, x) = 1 .. Len(s) + 1
      /\ Append(s, x)[Len(s) + 1] = x
      /\ \A i \in 1 .. Len(s) : Append(s, x)[i] = s[i]
  OBVIOUS
<1>2. Distinct(Append(s, x))
  BY <1>1 DEF Distinct, Members
<1>3. Members(Append(s, x)) = Members(s) \cup {x}
  BY <1>1 DEF Members
<1> QED
  BY <1>1, <1>2, <1>3

(* The readers that still have b, the writers that have it, the readers    *)
(* that are to put it back.                                                *)
Having(b)  == {r \in Readers : b \in reading[r]}
Filling(b) == {w \in Writers : using[w] = b}
Putting(b) == {r \in Readers : b \in putBuf[r]}

BufTypeOK == /\ emptyQue \in Seq(Bufs) /\ Distinct(emptyQue)
             /\ fullQue \in Seq(Bufs) /\ Distinct(fullQue)
             /\ curReaders \in [Bufs -> Nat]
             /\ using \in [Writers -> Bufs \cup {OSA_BUF_ID_INVALID}]
             /\ reading \in [Readers -> SUBSET Bufs]
             /\ putBuf \in [Readers -> SUBSET Bufs]

(* The five places a buffer can be in, one of them at a time. *)
BufPlace(b) ==
  \/ /\ b \in Members(emptyQue) /\ b \notin Members(fullQue)
     /\ Filling(b) = {} /\ Putting(b) = {} /\ Having(b) = {}
  \/ /\ b \notin Members(emptyQue) /\ b \in Members(fullQue)
     /\ Filling(b) = {} /\ Putting(b) = {} /\ Having(b) = {}
  \/ /\ b \notin Members(emptyQue) /\ b \notin Members(fullQue)
     /\ (\E w : Filling(b) = {w}) /\ Putting(b) = {} /\ Having(b) = {}
  \/ /\ b \notin Members(emptyQue) /\ b \notin Members(fullQue)
     /\ Filling(b) = {} /\ (\E r : Putting(b) = {r}) /\ Having(b) = {}
  \/ /\ b \notin Members(emptyQue) /\ b \notin Members(fullQue)
     /\ Filling(b) = {} /\ Putting(b) = {} /\ Having(b) # {}

(* The inductive invariant: one place for each buffer, none of the readers *)
(* counted while it is full, and while readers have it the count and they  *)
(* make up numReaders.                                                     *)
BufCounted(b) == /\ b \in Members(fullQue) => curReaders[b] = 0
                 /\ Having(b) # {} => Cardinality(Having(b)) + curReaders[b] = numReaders

BufIInv == BufTypeOK /\ \A b \in Bufs : BufPlace(b) /\ BufCounted(b)

(* Sets of readers are finite. *)
LEMMA ReadersFinite ==
  /\ numReaders \in Nat \ {0}
  /\ \A b : IsFiniteSet(Having(b)) /\ Cardinality(Having(b)) \in Nat
  /\ \A b : Cardinality(Having(b)) = 0 <=> Having(b) = {}
BY BufAssumption, FS_Subset, FS_CardinalityType, FS_EmptySet DEF numReaders, Having

(* One place for every buffer is what BufOnePlace says. *)
LEMMA BufIInvImplies == BufIInv => BufOnePlace
<1> SUFFICES ASSUME BufIInv, NEW b \in Bufs
             PROVE  IF Having(b) = {} THEN Cardinality(Owners(b)) = 1 ELSE Owners(b) = {}
  BY DEF BufOnePlace, Having
<1>1. BufPlace(b) /\ Distinct(emptyQue) /\ Distinct(fullQue)
  BY DEF BufIInv, BufTypeOK
<1>2. CASE Having(b) # {}
  BY <1>1, <1>2 DEF BufPlace, Owners, Members, Filling, Putting
<1>3. CASE Having(b) = {}
  <2>1. \E o : Owners(b) = {o}
    <3>1. CASE b \in Members(emptyQue)
      <4>1. PICK i \in DOMAIN emptyQue : emptyQue[i] = b
        BY <3>1 DEF Members
      <4>2. Owners(b) = {<<"empty", i>>}
        BY <1>1, <3>1, <4>1 DEF BufPlace, Owners, Members, Filling, Putting, Distinct
      <4> QED
        BY <4>2
    <3>2. CASE b \in Members(fullQue)
      <4>1. PICK i \in DOMAIN fullQue : fullQue[i] = b
        BY <3>2 DEF Members
      <4>2. Owners(b) = {<<"full", i>>}
        BY <1>1, <3>2, <4>1 DEF BufPlace, Owners, Members, Filling, Putting, Distinct
      <4> QED
        BY <4>2
    <3>3. ASSUME NEW w, Filling(b) = {w} PROVE Owners(b) = {<<"writer", w>>}
      BY <1>1, <3>3 DEF BufPlace, Owners, Members, Filling, Putting
    <3>4. ASSUME NEW r, Putting(b) = {r} PROVE Owners(b) = {<<"put", r>>}
      BY <1>1, <3>4 DEF BufPlace, Owners, Members, Filling, Putting
    <3> QED
      BY <1>1, <1>3, <3>1, <3>2, <3>3, <3>4 DEF BufPlace
  <2> QED
    BY <1>3, <2>1, FS_Singleton
<1> QED
  BY <1>2, <1>3

(* What is not where a buffer moves from or to stays where it is. *)
BufKept(c) == /\ c \in Members(emptyQue)' <=> c \in Members(emptyQue)
              /\ c \in Members(fullQue)' <=> c \in Members(fullQue)
              /\ Filling(c)' = Filling(c) /\ Putting(c)' = Putting(c)
              /\ Having(c)' = Having(c)
              /\ Having(c) # {} \/ c \in Members(fullQue) => curReaders'[c] = curReaders[c]

LEMMA BufKeeps ==
  ASSUME NEW c, BufPlace(c), BufCounted(c), BufKept(c)
  PROVE  BufPlace(c)' /\ BufCounted(c)'
BY DEF BufPlace, BufCounted, BufKept

(* A writer takes the first empty buffer: OSA_bufGetEmpty. *)
LEMMA BufTakeEmpty ==
  ASSUME BufIInv, NEW w \in Writers, OSA_bufGetEmpty(w)
  PROVE  BufIInv'
<1>0. PICK b : b = Head(emptyQue)
  OBVIOUS
<1>1. /\ b \in Members(emptyQue) /\ b \in Bufs
      /\ emptyQue' \in Seq(Bufs) /\ Distinct(emptyQue')
      /\ Members(emptyQue') = Members(emptyQue) \ {b}
  BY <1>0, TailMembers DEF BufIInv, BufTypeOK, OSA_bufGetEmpty
<1>2. /\ using' = [using EXCEPT ![w] = b] /\ using[w] = OSA_BUF_ID_INVALID
      /\ UNCHANGED <<fullQue, curReaders, reading, putBuf>>
  BY <1>0 DEF OSA_bufGetEmpty
<1>3. BufTypeOK'
  BY <1>1, <1>2 DEF BufIInv, BufTypeOK
<1>4. BufPlace(b) /\ BufCounted(b)
  BY <1>1 DEF BufIInv
<1>5. Filling(b)' = {w}
  <2>1. Filling(b) = {}
    BY <1>1, <1>4 DEF BufPlace
  <2> QED
    BY <1>2, <2>1 DEF Filling, BufIInv, BufTypeOK
<1>6. BufPlace(b)' /\ BufCounted(b)'
  BY <1>1, <1>2, <1>4, <1>5 DEF BufPlace, BufCounted, Having, Putting
<1>7. ASSUME NEW c \in Bufs, c # b PROVE BufPlace(c)' /\ BufCounted(c)'
  <2>1. Filling(c)' = Filling(c)
    BY <1>2, <1>7, BufAssumption DEF Filling, BufIInv, BufTypeOK, Bufs
  <2>2. BufKept(c)
    BY <1>1, <1>2, <1>7, <2>1 DEF BufKept, Putting, Having
  <2> QED
    BY <2>2, BufKeeps DEF BufIInv
<1> QED
  BY <1>3, <1>6, <1>7 DEF BufIInv

(* A writer hands its buffer over: OSA_bufPutFull, and OSA_bufSwitchFull   *)
(* without an empty buffer.                                                *)
LEMMA BufHandOver ==
  ASSUME BufIInv, NEW w \in Writers, OSA_bufPutFull(w)
  PROVE  BufIInv'
<1>0. PICK b \in Bufs : b = using[w]
  BY DEF OSA_bufPutFull
<1>1. Filling(b) # {} /\ BufPlace(b)
  BY <1>0 DEF Filling, BufIInv
<1>2. b \notin Members(fullQue) /\ Filling(b) = {w}
  BY <1>0, <1>1 DEF BufPlace, Filling
<1>3. /\ fullQue' \in Seq(Bufs) /\ Distinct(fullQue')
      /\ Members(fullQue') = Members(fullQue) \cup {b}
  BY <1>0, <1>2, AppendMembers DEF BufIInv, BufTypeOK, OSA_bufPutFull
<1>4. /\ using' = [using EXCEPT ![w] = OSA_BUF_ID_INVALID]
      /\ curReaders' = [curReaders EXCEPT ![b] = 0]
      /\ UNCHANGED <<emptyQue, reading, putBuf>>
  BY <1>0 DEF OSA_bufPutFull
<1>5. BufTypeOK'
  BY <1>3, <1>4 DEF BufIInv, BufTypeOK
<1>6. Filling(b)' = {} /\ curReaders'[b] = 0
  BY <1>2, <1>4, BufAssumption DEF Filling, BufIInv, BufTypeOK, Bufs
<1>7. BufPlace(b)' /\ BufCounted(b)'
  BY <1>1, <1>3, <1>4, <1>6 DEF BufPlace, BufCounted, Having, Putting
<1>8. ASSUME NEW c \in Bufs, c # b PROVE BufPlace(c)' /\ BufCounted(c)'
  <2>1. Filling(c)' = Filling(c)
    BY <1>0, <1>4, <1>8, BufAssumption DEF Filling, BufIInv, BufTypeOK, Bufs
  <2>2. BufKept(c)
    BY <1>3, <1>4, <1>8, <2>1 DEF BufKept, Putting, Having, BufIInv, BufTypeOK
  <2> QED
    BY <2>2, BufKeeps DEF BufIInv
<1> QED
  BY <1>5, <1>7, <1>8 DEF BufIInv

(* OSA_bufSwitchFull hands one over and takes another. *)
LEMMA BufSwitchOver ==
  ASSUME BufIInv, NEW w \in Writers, OSA_bufSwitchFull(w), emptyQue # <<>>
  PROVE  BufIInv'
<1>0. PICK b \in Bufs : b = using[w]
  BY DEF OSA_bufSwitchFull
<1>d. PICK d : d = Head(emptyQue)
  OBVIOUS
<1>1. Filling(b) # {} /\ BufPlace(b)
  BY <1>0 DEF Filling, BufIInv
<1>2. b \notin Members(fullQue) /\ Filling(b) = {w} /\ b \notin Members(emptyQue)
  BY <1>0, <1>1 DEF BufPlace, Filling
<1>3. /\ fullQue' \in Seq(Bufs) /\ Distinct(fullQue')
      /\ Members(fullQue') = Members(fullQue) \cup {b}
  BY <1>0, <1>2, AppendMembers DEF BufIInv, BufTypeOK, OSA_bufSwitchFull
<1>4. /\ using' = [using EXCEPT ![w] = d]
      /\ curReaders' = [curReaders EXCEPT ![b] = 0]
      /\ UNCHANGED <<reading, putBuf>>
  BY <1>0, <1>d DEF OSA_bufSwitchFull
<1>5. /\ d \in Members(emptyQue) /\ d \in Bufs
      /\ emptyQue' \in Seq(Bufs) /\ Distinct(emptyQue')
      /\ Members(emptyQue') = Members(emptyQue) \ {d}
  <2>1. emptyQue' = Tail(emptyQue)
    BY DEF OSA_bufSwitchFull
  <2>2. emptyQue \in Seq(Bufs) /\ Distinct(emptyQue)
    BY DEF BufIInv, BufTypeOK
  <2> QED
    BY <1>d, <2>1, <2>2, TailMembers
<1>6. BufTypeOK'
  BY <1>3, <1>4, <1>5 DEF BufIInv, BufTypeOK
<1>7. BufPlace(d) /\ BufCounted(d) /\ d # b
  BY <1>2, <1>5 DEF BufIInv
<1>8. Filling(b)' = {} /\ curReaders'[b] = 0
  BY <1>2, <1>4, <1>7 DEF Filling, BufIInv, BufTypeOK
<1>9. BufPlace(b)' /\ BufCounted(b)'
  BY <1>1, <1>2, <1>3, <1>4, <1>5, <1>8 DEF BufPlace, BufCounted, Having, Putting
<1>10. Filling(d)' = {w}
  <2>1. Filling(d) = {}
    BY <1>5, <1>7 DEF BufPlace
  <2> QED
    BY <1>4, <2>1 DEF Filling, BufIInv, BufTypeOK
<1>11. BufPlace(d)' /\ BufCounted(d)'
  BY <1>3, <1>4, <1>5, <1>7, <1>10 DEF BufPlace, BufCounted, Having, Putting, BufIInv, BufTypeOK
<1>12. ASSUME NEW c \in Bufs, c # b, c # d PROVE BufPlace(c)' /\ BufCounted(c)'
  <2>1. Filling(c)' = Filling(c)
    BY <1>0, <1>4, <1>12 DEF Filling, BufIInv, BufTypeOK
  <2>2. BufKept(c)
    BY <1>3, <1>4, <1>5, <1>12, <2>1 DEF BufKept, Putting, Having, BufIInv, BufTypeOK
  <2> QED
    BY <2>2, BufKeeps DEF BufIInv
<1> QED
  BY <1>6, <1>9, <1>11, <1>12 DEF BufIInv

(* OSA_bufGetFull takes a buffer for all the readers at once. *)
LEMMA BufTakeFull ==
  ASSUME BufIInv, OSA_bufGetFull
  PROVE  BufIInv'
<1>0. PICK b : b = Head(fullQue)
  OBVIOUS
<1>1. /\ b \in Members(fullQue) /\ b \in Bufs
      /\ fullQue' \in Seq(Bufs) /\ Distinct(fullQue')
      /\ Members(fullQue') = Members(fullQue) \ {b}
  BY <1>0, TailMembers DEF BufIInv, BufTypeOK, OSA_bufGetFull
<1>2. /\ reading' = [r \in Readers |-> reading[r] \cup {b}]
      /\ UNCHANGED <<emptyQue, curReaders, using, putBuf>>
  BY <1>0 DEF OSA_bufGetFull
<1>3. BufTypeOK'
  BY <1>1, <1>2 DEF BufIInv, BufTypeOK
<1>4. BufPlace(b) /\ curReaders[b] = 0
  BY <1>1 DEF BufIInv, BufCounted
<1>5. Having(b)' = Readers
  BY <1>2 DEF Having
<1>6. BufPlace(b)'
  BY <1>1, <1>2, <1>4, <1>5, BufAssumption DEF BufPlace, Filling, Putting
<1>7. BufCounted(b)'
  BY <1>1, <1>2, <1>4, <1>5, ReadersFinite DEF BufCounted, numReaders
<1>8. ASSUME NEW c \in Bufs, c # b PROVE BufPlace(c)' /\ BufCounted(c)'
  <2>1. Having(c)' = Having(c)
    BY <1>2, <1>8 DEF Having
  <2>2. BufKept(c)
    BY <1>1, <1>2, <1>8, <2>1 DEF BufKept, Putting, Filling
  <2> QED
    BY <2>2, BufKeeps DEF BufIInv
<1> QED
  BY <1>3, <1>6, <1>7, <1>8 DEF BufIInv

(* A reader gives its buffer back and another may take its place.  The     *)
(* last one to do so, and no other, is to put it into the empty queue.     *)
LEMMA BufGiveBack ==
  ASSUME BufIInv, NEW r \in Readers, NEW b \in Bufs, b \in reading[r],
         Having(b)' = Having(b) \ {r},
         curReaders' = [curReaders EXCEPT ![b] = @ + 1],
         putBuf' = [putBuf EXCEPT ![r] = IF LastReader(curReaders[b] + 1) THEN @ \cup {b} ELSE @],
         b \notin Members(emptyQue)', b \notin Members(fullQue)', Filling(b)' = Filling(b)
  PROVE  BufPlace(b)' /\ BufCounted(b)'
<1>1. r \in Having(b) /\ BufPlace(b)
  BY DEF Having, BufIInv
<1>2. Filling(b) = {} /\ Putting(b) = {}
  BY <1>1 DEF BufPlace
<1>3. /\ Cardinality(Having(b)) + curReaders[b] = numReaders /\ curReaders[b] \in Nat
      /\ Cardinality(Having(b)) \in Nat /\ numReaders \in Nat
  BY <1>1, ReadersFinite DEF BufIInv, BufCounted, BufTypeOK
<1>4. Cardinality(Having(b) \ {r}) = Cardinality(Having(b)) - 1
  BY <1>1, ReadersFinite, OneElement
<1>5. curReaders'[b] = curReaders[b] + 1
  BY DEF BufIInv, BufTypeOK
<1>6. BufCounted(b)'
  BY <1>3, <1>4, <1>5 DEF BufCounted, numReaders
<1>7. Having(b)' = {} <=> LastReader(curReaders[b] + 1)
  <2>1. Having(b) \ {r} = {} <=> Cardinality(Having(b) \ {r}) = 0
    BY <1>1, ReadersFinite, FS_Subset, FS_EmptySet
  <2> QED
    BY <1>3, <1>4, <2>1 DEF LastReader
<1>8. CASE LastReader(curReaders[b] + 1)
  <2>1. Putting(b)' = {r}
    BY <1>2, <1>8 DEF Putting, BufIInv, BufTypeOK
  <2> QED
    BY <1>2, <1>6, <1>7, <1>8, <2>1 DEF BufPlace
<1>9. CASE ~LastReader(curReaders[b] + 1)
  <2>1. Putting(b)' = {}
    BY <1>2, <1>9 DEF Putting, BufIInv, BufTypeOK
  <2> QED
    BY <1>2, <1>6, <1>7, <1>9, <2>1 DEF BufPlace
<1> QED
  BY <1>8, <1>9

(* OSA_bufPutEmpty, and OSA_bufSwitchEmpty without a full buffer. *)
LEMMA BufRelease ==
  ASSUME BufIInv, NEW r \in Readers, NEW b \in Bufs, OSA_bufPutEmpty(r, b)
  PROVE  BufIInv'
<1>1. /\ b \in reading[r] /\ reading' = [reading EXCEPT ![r] = @ \ {b}]
      /\ curReaders' = [curReaders EXCEPT ![b] = @ + 1]
      /\ putBuf' = [putBuf EXCEPT ![r] = IF LastReader(curReaders[b] + 1) THEN @ \cup {b} ELSE @]
      /\ UNCHANGED <<emptyQue, fullQue, using>>
  BY DEF OSA_bufPutEmpty
<1>2. BufTypeOK'
  BY <1>1 DEF BufIInv, BufTypeOK
<1>3. r \in Having(b) /\ BufPlace(b)
  BY <1>1 DEF Having, BufIInv
<1>4. /\ Having(b)' = Having(b) \ {r} /\ Filling(b)' = Filling(b)
      /\ b \notin Members(emptyQue)' /\ b \notin Members(fullQue)'
  BY <1>1, <1>3 DEF Having, Filling, BufPlace, BufIInv, BufTypeOK
<1>5. BufPlace(b)' /\ BufCounted(b)'
  BY <1>1, <1>4, BufGiveBack
<1>6. ASSUME NEW c \in Bufs, c # b PROVE BufPlace(c)' /\ BufCounted(c)'
  <2>1. Having(c)' = Having(c) /\ Putting(c)' = Putting(c)
    BY <1>1, <1>6 DEF Having, Putting, BufIInv, BufTypeOK
  <2>2. BufKept(c)
    BY <1>1, <1>6, <2>1 DEF BufKept, Filling, BufIInv, BufTypeOK
  <2> QED
    BY <2>2, BufKeeps DEF BufIInv
<1> QED
  BY <1>2, <1>5, <1>6 DEF BufIInv

(* OSA_bufSwitchEmpty: the only reader takes a full one and gives its own  *)
(* back.                                                                   *)
LEMMA BufSwitchBack ==
  ASSUME BufIInv, NEW r \in Readers, NEW b \in Bufs, OSA_bufSwitchEmpty(r, b), fullQue # <<>>
  PROVE  BufIInv'
<1>d. PICK d : d = Head(fullQue)
  OBVIOUS
<1>1. /\ Readers = {r} /\ b \in reading[r]
      /\ reading' = [reading EXCEPT ![r] = (@ \ {b}) \cup {d}]
      /\ curReaders' = [curReaders EXCEPT ![b] = @ + 1]
      /\ putBuf' = [putBuf EXCEPT ![r] = IF LastReader(curReaders[b] + 1) THEN @ \cup {b} ELSE @]
      /\ fullQue' = Tail(fullQue)
      /\ UNCHANGED <<emptyQue, using>>
  BY <1>d DEF OSA_bufSwitchEmpty
<1>2. /\ d \in Members(fullQue) /\ d \in Bufs
      /\ fullQue' \in Seq(Bufs) /\ Distinct(fullQue')
      /\ Members(fullQue') = Members(fullQue) \ {d}
  <2>1. fullQue \in Seq(Bufs) /\ Distinct(fullQue)
    BY DEF BufIInv, BufTypeOK
  <2> QED
    BY <1>1, <1>d, <2>1, TailMembers
<1>3. BufTypeOK'
  BY <1>1, <1>2 DEF BufIInv, BufTypeOK
<1>4. r \in Having(b) /\ BufPlace(b) /\ BufPlace(d) /\ BufCounted(d) /\ d # b
  <2>1. r \in Having(b) /\ BufPlace(b) /\ BufPlace(d) /\ BufCounted(d)
    BY <1>1, <1>2 DEF Having, BufIInv
  <2> QED
    BY <1>2, <2>1 DEF BufPlace
<1>5. /\ Having(b)' = Having(b) \ {r} /\ Filling(b)' = Filling(b)
      /\ b \notin Members(emptyQue)' /\ b \notin Members(fullQue)'
  BY <1>1, <1>2, <1>4 DEF Having, Filling, BufPlace, BufIInv, BufTypeOK
<1>6. BufPlace(b)' /\ BufCounted(b)'
  BY <1>1, <1>5, BufGiveBack
<1>7. Having(d)' = Readers /\ Putting(d)' = Putting(d) /\ curReaders'[d] = curReaders[d]
  BY <1>1, <1>2, <1>4 DEF Having, Putting, BufIInv, BufTypeOK
<1>8. BufPlace(d)'
  BY <1>1, <1>2, <1>4, <1>7 DEF BufPlace, Filling
<1>9. BufCounted(d)'
  BY <1>1, <1>2, <1>4, <1>7, ReadersFinite DEF BufCounted, numReaders
<1>10. ASSUME NEW c \in Bufs, c # b, c # d PROVE BufPlace(c)' /\ BufCounted(c)'
  <2>1. Having(c)' = Having(c) /\ Putting(c)' = Putting(c)
    BY <1>1, <1>10 DEF Having, Putting, BufIInv, BufTypeOK
  <2>2. BufKept(c)
    BY <1>1, <1>2, <1>10, <2>1 DEF BufKept, Filling, BufIInv, BufTypeOK
  <2> QED
    BY <2>2, BufKeeps DEF BufIInv
<1> QED
  BY <1>3, <1>6, <1>8, <1>9, <1>10 DEF BufIInv

(* The last reader puts the buffer into the empty queue. *)
LEMMA BufRecycles ==
  ASSUME BufIInv, NEW r \in Readers, NEW b \in Bufs, bufRecycle(r, b)
  PROVE  BufIInv'
<1>1. /\ b \in putBuf[r] /\ putBuf' = [putBuf EXCEPT ![r] = @ \ {b}]
      /\ emptyQue' = Append(emptyQue, b)
      /\ UNCHANGED <<fullQue, curReaders, using, reading>>
  BY DEF bufRecycle
<1>2. r \in Putting(b) /\ BufPlace(b) /\ BufCounted(b)
  BY <1>1 DEF Putting, BufIInv
<1>3. Putting(b) = {r} /\ b \notin Members(emptyQue)
  BY <1>2 DEF BufPlace
<1>4. /\ emptyQue' \in Seq(Bufs) /\ Distinct(emptyQue')
      /\ Members(emptyQue') = Members(emptyQue) \cup {b}
  <2>1. emptyQue \in Seq(Bufs) /\ Distinct(emptyQue)
    BY DEF BufIInv, BufTypeOK
  <2> QED
    BY <1>1, <1>3, <2>1, AppendMembers
<1>5. BufTypeOK'
  BY <1>1, <1>4 DEF BufIInv, BufTypeOK
<1>6. Putting(b)' = {}
  BY <1>1, <1>3 DEF Putting, BufIInv, BufTypeOK
<1>7. BufPlace(b)' /\ BufCounted(b)'
  BY <1>1, <1>2, <1>3, <1>4, <1>6 DEF BufPlace, BufCounted, Filling, Having
<1>8. ASSUME NEW c \in Bufs, c # b PROVE BufPlace(c)' /\ BufCounted(c)'
  <2>1. Putting(c)' = Putting(c)
    BY <1>1, <1>8 DEF Putting, BufIInv, BufTypeOK
  <2>2. BufKept(c)
    BY <1>1, <1>4, <1>8, <2>1 DEF BufKept, Filling, Having
  <2> QED
    BY <2>2, BufKeeps DEF BufIInv
<1> QED
  BY <1>5, <1>7, <1>8 DEF BufIInv

(* A buffer is in one place at every moment and is never lost, whatever    *)
(* the interleaving of writers and readers and however many they are, and  *)
(* although the last reader's count and its put are two steps (osa_buf.c). *)
THEOREM BufInvariant == bufSpec => []BufOnePlace
<1>1. bufInit => BufIInv
  <2> SUFFICES ASSUME bufInit PROVE BufIInv
    OBVIOUS
  <2>1. emptyQue \in Seq(Bufs) /\ Distinct(emptyQue) /\ Members(emptyQue) = Bufs
    <3>1. /\ emptyQue \in Seq(Bufs) /\ DOMAIN emptyQue = 1 .. NumBuf
          /\ \A i \in 1 .. NumBuf : emptyQue[i] = i - 1
      BY BufAssumption DEF bufInit, Bufs
    <3>2. \A b \in Bufs : b + 1 \in DOMAIN emptyQue /\ emptyQue[b + 1] = b
      BY <3>1, BufAssumption DEF Bufs
    <3>3. Distinct(emptyQue)
      BY <3>1, BufAssumption DEF Distinct
    <3>4. Members(emptyQue) \subseteq Bufs
      BY <3>1, BufAssumption DEF Members, Bufs
    <3>5. Bufs \subseteq Members(emptyQue)
      BY <3>2 DEF Members
    <3> QED
      BY <3>1, <3>3, <3>4, <3>5
  <2>2. fullQue = <<>> /\ Members(fullQue) = {} /\ Distinct(fullQue) /\ fullQue \in Seq(Bufs)
    BY DEF bufInit, Members, Distinct
  <2>3. BufTypeOK
    BY <2>1, <2>2 DEF bufInit, BufTypeOK
  <2>4. ASSUME NEW b \in Bufs PROVE Filling(b) = {} /\ Putting(b) = {} /\ Having(b) = {}
    BY BufAssumption DEF bufInit, Filling, Putting, Having, Bufs
  <2> QED
    BY <2>1, <2>2, <2>3, <2>4 DEF BufIInv, BufPlace, BufCounted
<1>2. BufIInv /\ [bufNext]_bufVars => BufIInv'
  <2> SUFFICES ASSUME BufIInv, [bufNext]_bufVars PROVE BufIInv'
    OBVIOUS
  <2>1. ASSUME NEW w \in Writers, OSA_bufSwitchFull(w) PROVE BufIInv'
    <3>1. emptyQue = <<>> => OSA_bufPutFull(w)
      BY <2>1 DEF OSA_bufSwitchFull, OSA_bufPutFull
    <3> QED
      BY <2>1, <3>1, BufHandOver, BufSwitchOver
  <2>2. ASSUME NEW r \in Readers, NEW b \in Bufs, OSA_bufSwitchEmpty(r, b) PROVE BufIInv'
    <3>1. fullQue = <<>> => OSA_bufPutEmpty(r, b)
      BY <2>2 DEF OSA_bufSwitchEmpty, OSA_bufPutEmpty
    <3> QED
      BY <2>2, <3>1, BufRelease, BufSwitchBack
  <2>3. CASE UNCHANGED bufVars
    <3>1. BufTypeOK'
      BY <2>3 DEF bufVars, BufIInv, BufTypeOK
    <3>2. ASSUME NEW c \in Bufs PROVE BufKept(c)
      BY <2>3 DEF bufVars, BufKept, Filling, Having, Putting
    <3> QED
      BY <3>1, <3>2, BufKeeps DEF BufIInv
  <2> QED
    BY <2>1, <2>2, <2>3, BufTakeEmpty, BufHandOver, BufTakeFull, BufRelease, BufRecycles
       DEF bufNext, bufRelease
<1> QED
  BY <1>1, <1>2, BufIInvImplies, PTL DEF bufSpec
-----------------------------------------------------------------------------
(* The objects of osa_ipc.c go with the last server that ends by itself,   *)
(* and two posts at the same time pass the limit of the semaphore by less  *)
(* than the number of clients.                                             *)
(*                                                                         *)
(* The argument is about an object that no server will close: its holder   *)
(* was killed.  Then no server was running, and each one started since has *)
(* to meet the object before it gets to a place where it could close       *)
(* anything.                                                               *)

(* The places of a server from which it still gets to the call that closes *)
(* the object of a kind, and the places before it has opened that object.  *)
Holding(k) == {"setval", "recv", "lock", "close_sem"}
              \cup (IF k = "sem" THEN {} ELSE {"new_sem", "open_sem", "close_shm"})
              \cup (IF k = "mbx" THEN {"new_shm", "open_shm", "close_mbx"} ELSE {})

Before(k) == {"new_mbx", "open_mbx"}
             \cup (IF k = "mbx" THEN {} ELSE {"new_shm", "open_shm"})
             \cup (IF k = "sem" THEN {"new_sem", "open_sem"} ELSE {})

UpTo(k) == {j \in Kinds : j = k \/ j = "mbx" \/ k = "sem"}

Holds(s, k) == pc[s] \in Holding(k) /\ hndl[s][k] = obj[k]

(* An object that no server is going to close. *)
Orphan(k) == obj[k] # NoId /\ \A s \in Servers : ~Holds(s, k)

IpcFound(k) ==
  Orphan(k) => /\ \A s \in Servers : pc[s] \in Ended \cup Before(k)
               /\ \E s \in Servers : pc[s] # "off"
               /\ \A s \in Servers : \A j \in UpTo(k) : pc[s] = OpenAt[j] => obj[j] # NoId

(* An identifier is never given twice, so a stale handle stays stale. *)
IpcFresh == /\ \A k \in Kinds : obj[k] < nextId
            /\ \A p \in Procs : \A k \in Kinds : hndl[p][k] < nextId

Stages == {"off", "killed", "new_mbx", "open_mbx", "new_shm", "open_shm", "new_sem", "open_sem",
           "setval", "recv", "lock", "close_sem", "close_shm", "close_mbx",
           "choose", "getval", "post", "send_shm", "send_quit", "send_semlock", "send_semunlock"}
IpcPlaces == pc \in [Procs -> Stages]

IpcIInv == /\ IpcTypeOK /\ IpcPlaces
           /\ IpcFresh
           /\ \A k \in Kinds : IpcFound(k)
           /\ IpcSemLimit

USE IpcAssumption

-----------------------------------------------------------------------------
(* Types: an identifier is at most MaxIds because Create stops there. *)
LEMMA IpcTypeInit == ipcInit => IpcTypeOK /\ IpcPlaces
  BY DEF ipcInit, IpcTypeOK, IpcPlaces, Stages, NoHandles, NoId, Kinds

(* The tables of places yield places. *)
LEMMA TablesOfPlaces ==
  /\ \A k \in Kinds : /\ NewAt[k] \in Stages /\ OpenAt[k] \in Stages
                      /\ AfterOpen[k] \in Stages /\ OnError[k] \in Stages
                      /\ AfterClose[k] \in Stages /\ AfterClientOpen[k] \in Stages
  /\ \A x \in Texts : SendAt[x] \in Stages /\ Handler[x] \in Stages
  BY DEF Kinds, Texts, NewAt, OpenAt, AfterOpen, OnError, AfterClose, AfterClientOpen,
         SendAt, Handler, Stages

(* Every step keeps the types. *)
LEMMA IpcTypeStep ==
  IpcTypeOK /\ IpcPlaces /\ [ipcNext]_ipcVars => IpcTypeOK' /\ IpcPlaces'
<1> SUFFICES ASSUME IpcTypeOK, IpcPlaces, [ipcNext]_ipcVars
             PROVE  IpcTypeOK' /\ IpcPlaces'
  OBVIOUS
<1>p. /\ {"off", "killed", "new_mbx", "open_mbx", "recv", "setval", "close_sem"} \subseteq Stages
      /\ {"choose", "getval", "post", "send_semunlock"} \subseteq Stages
  BY DEF Stages
<1> USE <1>p DEF IpcTypeOK, IpcPlaces, Procs
<1>0. \A p \in Procs, l \in Stages : Goto(p, l) => IpcPlaces'
  BY DEF Goto
<1>1. ASSUME NEW p \in Procs, NEW k \in Kinds, NEW id \in 0 .. MaxIds, Keep(p, k, id)
      PROVE  hndl' \in [Procs -> [Kinds -> 0 .. MaxIds]]
  BY <1>1 DEF Keep
<1>2. NoHandles \in [Kinds -> 0 .. MaxIds]
  BY DEF NoHandles, NoId
<1>3. ASSUME NEW p \in Procs, NEW l \in Stages, End(p, l)
      PROVE  IpcPlaces' /\ hndl' \in [Procs -> [Kinds -> 0 .. MaxIds]]
  BY <1>3, <1>0, <1>2 DEF End
<1>4. ASSUME NEW s \in Servers, serverStep(s), UNCHANGED runs PROVE IpcTypeOK' /\ IpcPlaces'
  <2>1. CASE serverStart(s)
    BY <2>1, <1>0 DEF serverStart, Untouched
  <2>2. CASE serverSetVal(s)
    BY <2>2, <1>0 DEF serverSetVal
  <2>3. CASE serverRecv(s)
    <3>1. box # <<>> => Head(box) \in Texts /\ Tail(box) \in Seq(Texts)
      OBVIOUS
    <3>2. box' \in Seq(Texts) /\ UNCHANGED <<obj, nextId, val, hndl>>
      BY <2>3, <3>1 DEF serverRecv, Untouched
    <3>3. \E l \in Stages : Goto(s, l)
      BY <2>3, <3>1, TablesOfPlaces DEF serverRecv
    <3> QED BY <3>2, <3>3, <1>0
  <2>4. CASE serverLock(s)
    BY <2>4, <1>0 DEF serverLock, Untouched, CanLock
  <2>5. CASE serverKill(s)
    BY <2>5, <1>3 DEF serverKill, End
  <2>6. ASSUME NEW k \in Kinds, serverCreate(s, k) PROVE IpcTypeOK' /\ IpcPlaces'
    <3>1. \E l \in Stages : Goto(s, l)
      BY <2>6, TablesOfPlaces DEF serverCreate
    <3>2. CASE Create(s, k)
      <4>1. nextId \in 0 .. MaxIds /\ hndl' \in [Procs -> [Kinds -> 0 .. MaxIds]]
        BY <3>2, <1>1 DEF Create
      <4>2. obj' \in [Kinds -> 0 .. MaxIds] /\ nextId' \in 1 .. MaxIds + 1 /\ val' = val
        BY <3>2, <4>1 DEF Create
      <4>3. box' \in Seq(Texts)
        BY <3>2 DEF Create
      <4>4. IpcPlaces'
        BY <3>1, <1>0
      <4> QED BY <4>1, <4>2, <4>3, <4>4
    <3>3. CASE Untouched
      BY <3>1, <3>3, <1>0 DEF Untouched
    <3> QED BY <2>6, <3>2, <3>3 DEF serverCreate
  <2>7. ASSUME NEW k \in Kinds, serverOpen(s, k) PROVE IpcTypeOK' /\ IpcPlaces'
    <3>1. \E l \in Stages : Goto(s, l)
      BY <2>7, TablesOfPlaces DEF serverOpen
    <3>2. CASE Open(s, k)
      <4>1. hndl' \in [Procs -> [Kinds -> 0 .. MaxIds]]
        BY <3>2, <1>1 DEF Open
      <4> QED BY <3>1, <3>2, <4>1, <1>0 DEF Open
    <3>3. CASE Untouched
      BY <3>1, <3>3, <1>0 DEF Untouched
    <3> QED BY <2>7, <3>2, <3>3 DEF serverOpen
  <2>8. ASSUME NEW k \in Kinds, serverClose(s, k) PROVE IpcTypeOK' /\ IpcPlaces'
    <3>1. IpcPlaces'
      BY <2>8, TablesOfPlaces, <1>0 DEF serverClose
    <3>2. obj' \in [Kinds -> 0 .. MaxIds]
      BY <2>8 DEF serverClose, Remove, NoId
    <3>3. hndl' \in [Procs -> [Kinds -> 0 .. MaxIds]]
      BY <2>8, <1>2 DEF serverClose
    <3> QED BY <2>8, <3>1, <3>2, <3>3 DEF serverClose
  <2> QED BY <1>4, <2>1, <2>2, <2>3, <2>4, <2>5, <2>6, <2>7, <2>8 DEF serverStep
<1>5. ASSUME NEW c \in Clients, clientStart(c) PROVE IpcTypeOK' /\ IpcPlaces'
  BY <1>5, <1>0 DEF clientStart, Untouched
<1>6. ASSUME NEW c \in Clients, clientStep(c), UNCHANGED runs PROVE IpcTypeOK' /\ IpcPlaces'
  <2>1. CASE clientChoose(c)
    <3>1. \E l \in Stages : Goto(c, l)
      BY <2>1, TablesOfPlaces DEF clientChoose
    <3> QED BY <2>1, <3>1, <1>0 DEF clientChoose, Untouched
  <2>2. CASE clientGetVal(c)
    <3>1. \E l \in Stages : Goto(c, l)
      BY <2>2 DEF clientGetVal
    <3> QED BY <2>2, <3>1, <1>0 DEF clientGetVal, Untouched
  <2>3. CASE clientPost(c)
    <3>1. CASE Goto(c, "send_semunlock") /\ val' = val + 1 /\ UNCHANGED <<obj, nextId, box, hndl>>
      <4>1. IpcPlaces'
        BY <3>1, <1>0
      <4> QED BY <3>1, <4>1
    <3>2. CASE End(c, "off") /\ UNCHANGED <<box, val>>
      BY <3>2, <1>3 DEF End
    <3> QED BY <2>3, <3>1, <3>2 DEF clientPost
  <2>4. CASE clientSend(c)
    <3>1. End(c, "off") /\ val' = val /\ box' \in Seq(Texts)
      BY <2>4 DEF clientSend
    <3>2. IpcPlaces' /\ hndl' \in [Procs -> [Kinds -> 0 .. MaxIds]]
      BY <3>1, <1>3
    <3> QED BY <3>1, <3>2 DEF End
  <2>5. ASSUME NEW k \in Kinds, clientOpen(c, k) PROVE IpcTypeOK' /\ IpcPlaces'
    <3>1. CASE Open(c, k) /\ Goto(c, AfterClientOpen[k])
      <4>1. hndl' \in [Procs -> [Kinds -> 0 .. MaxIds]]
        BY <3>1, <1>1 DEF Open
      <4> QED BY <3>1, <4>1, <1>0, TablesOfPlaces DEF Open
    <3>2. CASE End(c, "off") /\ UNCHANGED <<box, val>>
      BY <3>2, <1>3 DEF End
    <3> QED BY <2>5, <3>1, <3>2 DEF clientOpen
  <2> QED BY <1>6, <2>1, <2>2, <2>3, <2>4, <2>5 DEF clientStep
<1>7. CASE UNCHANGED ipcVars
  BY <1>7 DEF ipcVars
<1> QED BY <1>4, <1>5, <1>6, <1>7 DEF ipcNext

-----------------------------------------------------------------------------
(* What a step does to the handles and the objects: a handle stays, is     *)
(* dropped, is the object under its key, or the new one; only Create makes *)
(* an object and it takes the next identifier.                             *)
LEMMA IpcFreshStep ==
  IpcTypeOK /\ IpcFresh /\ [ipcNext]_ipcVars => IpcFresh'
<1> SUFFICES ASSUME IpcTypeOK, IpcFresh, [ipcNext]_ipcVars PROVE IpcFresh'
  OBVIOUS
<1> USE DEF IpcTypeOK, Procs
<1>1. CASE UNCHANGED <<obj, nextId, hndl>>
  BY <1>1 DEF IpcFresh
<1>2. ASSUME NEW p \in Procs, NEW l, End(p, l) PROVE IpcFresh'
  BY <1>2 DEF End, IpcFresh, NoHandles, NoId
<1>3. ASSUME NEW p \in Procs, NEW k \in Kinds, Open(p, k) PROVE IpcFresh'
  BY <1>3 DEF Open, Keep, IpcFresh
<1>4. ASSUME NEW s \in Servers, NEW k \in Kinds, serverCreate(s, k) PROVE IpcFresh'
  <2>1. CASE Create(s, k)
    BY <2>1 DEF Create, Keep, IpcFresh
  <2> QED BY <1>4, <2>1, <1>1 DEF serverCreate, Untouched
<1>5. ASSUME NEW s \in Servers, NEW k \in Kinds, serverClose(s, k) PROVE IpcFresh'
  BY <1>5 DEF serverClose, Remove, IpcFresh, NoHandles, NoId
<1>6. ASSUME NEW s \in Servers, serverStep(s) PROVE IpcFresh'
  <2>1. CASE serverStart(s)
    BY <2>1, <1>1 DEF serverStart, Untouched
  <2>2. CASE serverSetVal(s)
    BY <2>2, <1>1 DEF serverSetVal
  <2>3. CASE serverRecv(s)
    BY <2>3, <1>1 DEF serverRecv, Untouched
  <2>4. CASE serverLock(s)
    BY <2>4, <1>1 DEF serverLock, Untouched
  <2>5. CASE serverKill(s)
    BY <2>5, <1>2 DEF serverKill
  <2>6. ASSUME NEW k \in Kinds, serverOpen(s, k) PROVE IpcFresh'
    BY <2>6, <1>1, <1>3 DEF serverOpen, Untouched
  <2> QED BY <1>6, <1>4, <1>5, <2>1, <2>2, <2>3, <2>4, <2>5, <2>6 DEF serverStep
<1>7. ASSUME NEW c \in Clients, clientStep(c) PROVE IpcFresh'
  <2>1. CASE clientChoose(c)
    BY <2>1, <1>1 DEF clientChoose, Untouched
  <2>2. CASE clientGetVal(c)
    BY <2>2, <1>1 DEF clientGetVal, Untouched
  <2>3. CASE clientPost(c)
    BY <2>3, <1>1, <1>2 DEF clientPost
  <2>4. CASE clientSend(c)
    BY <2>4, <1>2 DEF clientSend
  <2>5. ASSUME NEW k \in Kinds, clientOpen(c, k) PROVE IpcFresh'
    BY <2>5, <1>2, <1>3 DEF clientOpen
  <2> QED BY <1>7, <2>1, <2>2, <2>3, <2>4, <2>5 DEF clientStep
<1>8. ASSUME NEW c \in Clients, clientStart(c) PROVE IpcFresh'
  BY <1>8, <1>1 DEF clientStart, Untouched
<1> QED BY <1>1, <1>6, <1>7, <1>8 DEF ipcNext, ipcVars

-----------------------------------------------------------------------------
(* An object without a holder is found by every server.  What the clients  *)
(* do has no part in it.                                                   *)
LEMMA IpcFoundClients ==
  ASSUME NEW k \in Kinds, IpcFound(k), UNCHANGED obj,
         \A s \in Servers : pc'[s] = pc[s] /\ hndl'[s] = hndl[s]
  PROVE  IpcFound(k)'
BY DEF IpcFound, Orphan, Holds

(* Clients are not servers. *)
LEMMA IpcClientSteps ==
  ASSUME IpcTypeOK, IpcPlaces, NEW c \in Clients, clientStart(c) \/ clientStep(c)
  PROVE  UNCHANGED obj /\ \A s \in Servers : pc'[s] = pc[s] /\ hndl'[s] = hndl[s]
<1> USE DEF IpcTypeOK, IpcPlaces, Procs
<1>1. \A l : Goto(c, l) => \A s \in Servers : pc'[s] = pc[s]
  BY DEF Goto
<1>2. \A l : End(c, l) => UNCHANGED obj /\ \A s \in Servers : pc'[s] = pc[s] /\ hndl'[s] = hndl[s]
  BY <1>1 DEF End
<1>3. \A k \in Kinds : Open(c, k) => UNCHANGED obj /\ \A s \in Servers : hndl'[s] = hndl[s]
  BY DEF Open, Keep
<1>4. CASE clientStart(c)
  BY <1>4, <1>1 DEF clientStart, Untouched
<1>5. CASE clientChoose(c)
  BY <1>5, <1>1 DEF clientChoose, Untouched
<1>6. CASE clientGetVal(c)
  BY <1>6, <1>1 DEF clientGetVal, Untouched
<1>7. CASE clientPost(c)
  BY <1>7, <1>1, <1>2 DEF clientPost
<1>8. CASE clientSend(c)
  BY <1>8, <1>2 DEF clientSend
<1>9. ASSUME NEW k \in Kinds, clientOpen(c, k)
      PROVE  UNCHANGED obj /\ \A s \in Servers : pc'[s] = pc[s] /\ hndl'[s] = hndl[s]
  BY <1>9, <1>1, <1>2, <1>3 DEF clientOpen
<1> QED BY <1>4, <1>5, <1>6, <1>7, <1>8, <1>9 DEF clientStep

(* What the tables say of one object, seen from the place in another. *)
LEMMA PlaceOrder ==
  ASSUME NEW j \in Kinds, NEW k \in Kinds
  PROVE  /\ NewAt[j] \in Holding(k) => OpenAt[j] \in Holding(k) /\ AfterOpen[j] \in Holding(k)
         /\ NewAt[j] \in Holding(k) /\ j = "sem" => "setval" \in Holding(k)
         /\ OpenAt[j] \in Holding(k) => AfterOpen[j] \in Holding(k) /\ OnError[j] \in Holding(k)
         /\ CloseAt[j] \in Holding(k) /\ j # k => AfterClose[j] \in Holding(k) /\ AfterClose[j] # "off"
         /\ AfterOpen[k] \in Holding(k) /\ "setval" \in Holding(k)
         /\ NewAt[j] \in Before(k) => OpenAt[j] \in Before(k) /\ j \in UpTo(k)
         /\ OpenAt[j] \in Before(k) => j \in UpTo(k)
         /\ j \in UpTo(k) /\ j # k => AfterOpen[j] \in Before(k)
         /\ j \in UpTo(k) => (j = "sem" => k = "sem")
         /\ CloseAt[j] \notin Before(k) \cup Ended
<1> USE DEF NewAt, OpenAt, AfterOpen, OnError, CloseAt, AfterClose, Ended
<1>j. j = "mbx" \/ j = "shm" \/ j = "sem"
  BY DEF Kinds
<1>k. k = "mbx" \/ k = "shm" \/ k = "sem"
  BY DEF Kinds
<1>1. CASE j = "mbx"
  BY <1>k, <1>1 DEF Holding, Before, UpTo
<1>2. CASE j = "shm"
  BY <1>k, <1>2 DEF Holding, Before, UpTo
<1>3. CASE j = "sem"
  BY <1>k, <1>3 DEF Holding, Before, UpTo
<1> QED BY <1>j, <1>1, <1>2, <1>3

(* The places are different ones. *)
LEMMA PlacesDiffer ==
  ASSUME NEW j \in Kinds
  PROVE  /\ \A i \in Kinds : OpenAt[i] = OpenAt[j] => i = j
         /\ \A i \in Kinds : OpenAt[i] # AfterOpen[j]
         /\ OpenAt[j] \notin Ended \cup {"new_mbx", "setval"}
         /\ NewAt[j] \notin Ended
         /\ AfterOpen[j] # "off"
<1> USE DEF NewAt, OpenAt, AfterOpen, Ended
<1>1. CASE j = "mbx"
  BY <1>1 DEF Kinds
<1>2. CASE j = "shm"
  BY <1>2 DEF Kinds
<1>3. CASE j = "sem"
  BY <1>3 DEF Kinds
<1> QED BY <1>1, <1>2, <1>3 DEF Kinds

(* A server's step, by kind: only the one that is killed leaves an object  *)
(* without a holder, and then it was the only one running.                 *)
LEMMA IpcFoundServers ==
  ASSUME IpcTypeOK, IpcPlaces, IpcFresh, NEW k \in Kinds, IpcFound(k),
         NEW s \in Servers, serverStep(s)
  PROVE  IpcFound(k)'
<1> USE DEF IpcTypeOK, IpcPlaces, Procs
<1>k. k = "mbx" \/ k = "shm" \/ k = "sem"
  BY DEF Kinds
<1>g. ASSUME NEW l, Goto(s, l) PROVE pc'[s] = l /\ \A r \in Servers : r # s => pc'[r] = pc[r]
  BY <1>g DEF Goto
(* A step that leaves the objects and the handles alone and stays among    *)
(* the places that hold the object, or is not at a place before it.        *)
<1>h. ASSUME NEW l, Goto(s, l), UNCHANGED <<obj, hndl>>,
             pc[s] \in {"setval", "recv", "lock"}, l \in {"recv", "lock", "close_sem"}
      PROVE  IpcFound(k)'
  <2>1. pc'[s] = l /\ \A r \in Servers : r # s => pc'[r] = pc[r]
    BY <1>h, <1>g
  <2>2. pc[s] \in Holding(k) /\ l \in Holding(k) /\ pc[s] \notin Ended \cup Before(k)
    BY <1>h, <1>k DEF Holding, Before, Ended
  <2> QED BY <1>h, <2>1, <2>2 DEF IpcFound, Orphan, Holds
<1>1. CASE serverStart(s)
  <2>1. pc'[s] = "new_mbx" /\ \A r \in Servers : r # s => pc'[r] = pc[r]
    BY <1>1, <1>g DEF serverStart
  <2>2. "new_mbx" \in Before(k) /\ \A j \in UpTo(k) : "new_mbx" # OpenAt[j]
    BY PlacesDiffer DEF Before, UpTo
  <2>3. pc[s] \notin Holding(k) /\ "new_mbx" \notin Holding(k)
    BY <1>1, <1>k DEF serverStart, Ended, Holding
  <2> QED BY <1>1, <2>1, <2>2, <2>3 DEF serverStart, Untouched, IpcFound, Orphan, Holds
<1>2. CASE serverSetVal(s)
  BY <1>2, <1>h DEF serverSetVal
<1>3. CASE serverRecv(s)
  <2>1. box # <<>> => Head(box) \in Texts
    OBVIOUS
  <2>2. \A x \in Texts : Handler[x] \in {"recv", "lock", "close_sem"}
    BY DEF Texts, Handler
  <2> QED BY <1>3, <2>1, <2>2, <1>h DEF serverRecv, Untouched
<1>4. CASE serverLock(s)
  BY <1>4, <1>h DEF serverLock, Untouched
<1>5. CASE serverKill(s)
  <2>1. pc'[s] = "killed" /\ \A r \in Servers : r # s => pc'[r] = pc[r]
    BY <1>5, <1>g DEF serverKill, End
  <2>2. \A r \in Servers : pc'[r] \in Ended
    BY <1>5, <2>1 DEF serverKill, Ended
  <2>3. \A j \in Kinds : OpenAt[j] \notin Ended
    BY DEF Kinds, OpenAt, Ended
  <2>4. UpTo(k) \subseteq Kinds
    BY <1>k DEF UpTo, Kinds
  <2> QED BY <2>1, <2>2, <2>3, <2>4 DEF IpcFound
<1>6. ASSUME NEW j \in Kinds, serverCreate(s, j) PROVE IpcFound(k)'
  <2>j. j = "mbx" \/ j = "shm" \/ j = "sem"
    BY DEF Kinds
  <2>1. CASE Create(s, j) /\ Goto(s, IF j = "sem" THEN "setval" ELSE AfterOpen[j])
    <3> DEFINE l == IF j = "sem" THEN "setval" ELSE AfterOpen[j]
    <3>1. pc'[s] = l /\ \A r \in Servers : r # s => pc'[r] = pc[r]
      BY <2>1, <1>g
    <3>2. /\ \A i \in Kinds : obj'[i] = IF i = j THEN nextId ELSE obj[i]
          /\ \A i \in Kinds : hndl'[s][i] = IF i = j THEN nextId ELSE hndl[s][i]
          /\ \A r \in Servers : r # s => hndl'[r] = hndl[r]
          /\ nextId # NoId /\ obj[j] = NoId
      BY <2>1 DEF Create, Keep, NoId
    <3>3. CASE j = k
      <4>1. l \in Holding(k)
        BY <3>3, <2>j DEF Holding, AfterOpen
      <4> QED BY <3>1, <3>2, <3>3, <4>1 DEF IpcFound, Orphan, Holds
    <3>4. CASE j # k
      <4>1. pc[s] \in Holding(k) => l \in Holding(k)
        BY <1>6, PlaceOrder DEF serverCreate
      <4>2. pc[s] \in Ended \cup Before(k) => l \in Before(k) /\ l # "off"
        BY <1>6, <1>k, <3>4, PlaceOrder, PlacesDiffer DEF serverCreate
      <4>3. \A i \in Kinds : l # OpenAt[i]
        BY PlacesDiffer
      <4>4. UpTo(k) \subseteq Kinds
        BY DEF UpTo
      <4>5. Orphan(k)' => Orphan(k)
        BY <3>1, <3>2, <3>4, <4>1 DEF Orphan, Holds
      <4> HIDE DEF l
      <4> QED BY <3>1, <3>2, <3>4, <4>2, <4>3, <4>4, <4>5, ZenonT(30) DEF IpcFound
    <3> QED BY <3>3, <3>4
  <2>2. CASE obj[j] # NoId /\ Goto(s, OpenAt[j]) /\ Untouched
    <3>1. pc'[s] = OpenAt[j] /\ \A r \in Servers : r # s => pc'[r] = pc[r]
      BY <2>2, <1>g
    <3>2. pc[s] = NewAt[j]
      BY <1>6 DEF serverCreate
    <3>3. NewAt[j] \in Holding(k) => OpenAt[j] \in Holding(k)
      BY PlaceOrder
    <3>4. /\ NewAt[j] \in Ended \cup Before(k) => OpenAt[j] \in Before(k)
          /\ OpenAt[j] # "off"
      BY PlaceOrder, PlacesDiffer DEF Ended
    <3>5. \A i \in UpTo(k) : OpenAt[j] = OpenAt[i] => i = j
      BY PlacesDiffer DEF UpTo
    <3> QED BY <2>2, <3>1, <3>2, <3>3, <3>4, <3>5 DEF Untouched, IpcFound, Orphan, Holds
  <2> QED BY <1>6, <2>1, <2>2 DEF serverCreate
<1>7. ASSUME NEW j \in Kinds, serverOpen(s, j) PROVE IpcFound(k)'
  <2>j. j = "mbx" \/ j = "shm" \/ j = "sem"
    BY DEF Kinds
  <2>p. pc[s] = OpenAt[j]
    BY <1>7 DEF serverOpen
  <2>1. CASE Open(s, j) /\ Goto(s, AfterOpen[j])
    <3>1. pc'[s] = AfterOpen[j] /\ \A r \in Servers : r # s => pc'[r] = pc[r]
      BY <2>1, <1>g
    <3>2. /\ \A i \in Kinds : hndl'[s][i] = IF i = j THEN obj[j] ELSE hndl[s][i]
          /\ \A r \in Servers : r # s => hndl'[r] = hndl[r]
          /\ UNCHANGED obj /\ obj[j] # NoId
      BY <2>1 DEF Open, Keep
    <3>3. CASE j = k
      <4>1. AfterOpen[j] \in Holding(k)
        BY <3>3, <2>j DEF Holding, AfterOpen
      <4> QED BY <3>1, <3>2, <3>3, <4>1 DEF IpcFound, Orphan, Holds
    <3>4. CASE j # k
      <4>1. OpenAt[j] \in Holding(k) => AfterOpen[j] \in Holding(k)
        BY PlaceOrder
      <4>2. OpenAt[j] \in Ended \cup Before(k) => AfterOpen[j] \in Before(k)
        BY <3>4, PlaceOrder, PlacesDiffer
      <4>3. \A i \in Kinds : AfterOpen[j] # OpenAt[i] /\ AfterOpen[j] # "off"
        BY PlacesDiffer
      <4>4. UpTo(k) \subseteq Kinds
        BY <1>k DEF UpTo, Kinds
      <4>5. Orphan(k)' => Orphan(k)
        BY <2>p, <3>1, <3>2, <3>4, <4>1 DEF Orphan, Holds
      <4> QED BY <2>p, <3>1, <3>2, <3>4, <4>2, <4>3, <4>4, <4>5, ZenonT(30) DEF IpcFound
    <3> QED BY <3>3, <3>4
  <2>2. CASE obj[j] = NoId /\ Goto(s, OnError[j]) /\ Untouched
    <3>1. pc'[s] = OnError[j] /\ \A r \in Servers : r # s => pc'[r] = pc[r]
      BY <2>2, <1>g
    <3>2. OpenAt[j] \in Holding(k) => OnError[j] \in Holding(k)
      BY PlaceOrder
    <3>3. OpenAt[j] \in Ended \cup Before(k) => j \in UpTo(k)
      BY PlaceOrder, PlacesDiffer
    <3>4. ~Orphan(k)
      BY <2>p, <2>2, <3>3 DEF IpcFound
    <3> QED BY <2>p, <2>2, <3>1, <3>2, <3>4 DEF Untouched, IpcFound, Orphan, Holds
  <2> QED BY <1>7, <2>1, <2>2 DEF serverOpen
<1>8. ASSUME NEW j \in Kinds, serverClose(s, j) PROVE IpcFound(k)'
  <2>p. pc[s] = CloseAt[j] /\ CloseAt[j] \notin Ended \cup Before(k)
    BY <1>8, PlaceOrder DEF serverClose
  <2>1. pc'[s] = AfterClose[j] /\ \A r \in Servers : r # s => pc'[r] = pc[r]
    BY <1>8, <1>g DEF serverClose
  <2>2. \A r \in Servers : r # s => hndl'[r] = hndl[r]
    BY <1>8 DEF serverClose
  <2>3. ~Orphan(k)
    BY <2>p DEF IpcFound
  <2>4. CASE j = k
    <3>1. obj'[k] = IF hndl[s][k] = obj[k] THEN NoId ELSE obj[k]
      BY <1>8, <2>4 DEF serverClose, Remove, Valid, NoId
    <3> QED BY <2>1, <2>2, <2>3, <3>1 DEF IpcFound, Orphan, Holds
  <2>5. CASE j # k
    <3>1. obj'[k] = obj[k]
      BY <1>8, <2>5 DEF serverClose, Remove
    <3>2. CloseAt[j] \in Holding(k) => AfterClose[j] \in Holding(k) /\ AfterClose[j] # "off"
      BY <2>5, PlaceOrder
    <3>3. CloseAt[j] \in Holding(k) => hndl'[s] = hndl[s]
      BY <1>8, <3>2 DEF serverClose
    <3> QED BY <2>p, <2>1, <2>2, <2>3, <3>1, <3>2, <3>3 DEF IpcFound, Orphan, Holds
  <2> QED BY <2>4, <2>5
<1> QED BY <1>1, <1>2, <1>3, <1>4, <1>5, <1>6, <1>7, <1>8 DEF serverStep

(* Every object without a holder will be met by every server. *)
LEMMA IpcFoundStep ==
  IpcTypeOK /\ IpcPlaces /\ IpcFresh /\ (\A k \in Kinds : IpcFound(k)) /\ [ipcNext]_ipcVars
  => \A k \in Kinds : IpcFound(k)'
<1> SUFFICES ASSUME IpcTypeOK, IpcPlaces, IpcFresh, [ipcNext]_ipcVars,
                    NEW k \in Kinds, IpcFound(k)
             PROVE  IpcFound(k)'
  OBVIOUS
<1>1. ASSUME NEW s \in Servers, serverStep(s) PROVE IpcFound(k)'
  BY <1>1, IpcFoundServers
<1>2. ASSUME NEW c \in Clients, clientStart(c) \/ clientStep(c) PROVE IpcFound(k)'
  BY <1>2, IpcClientSteps, IpcFoundClients
<1>3. CASE UNCHANGED ipcVars
  BY <1>3, IpcFoundClients DEF ipcVars
<1> QED BY <1>1, <1>2, <1>3 DEF ipcNext

-----------------------------------------------------------------------------
(* The limit of the semaphore.  The posts under way are clients. *)
LEMMA IpcPostingFinite == IsFiniteSet(Posting) /\ Cardinality(Posting) \in Nat
                          /\ Cardinality(Posting) <= Cardinality(Clients)
                          /\ Cardinality(Clients) \in Nat
<1>1. Posting \subseteq Clients /\ IsFiniteSet(Clients)
  BY DEF Posting
<1>2. IsFiniteSet(Posting) /\ Cardinality(Posting) <= Cardinality(Clients)
  BY <1>1, FS_Subset
<1> QED BY <1>1, <1>2, FS_CardinalityType

(* Fewer posts under way and no greater value keep the limit. *)
LEMMA IpcFewerPosts ==
  ASSUME IpcTypeOK, IpcTypeOK', IpcSemLimit, Posting' \subseteq Posting, val' <= val
  PROVE  IpcSemLimit'
<1>1. IsFiniteSet(Posting) /\ Cardinality(Posting) \in Nat /\ Cardinality(Clients) \in Nat
  BY IpcPostingFinite
<1>2. IsFiniteSet(Posting') /\ Cardinality(Posting') <= Cardinality(Posting)
  BY <1>1, FS_Subset
<1>3. Cardinality(Posting') \in Nat
  BY <1>2, FS_CardinalityType
<1> QED BY <1>1, <1>2, <1>3 DEF IpcSemLimit, IpcTypeOK

(* No step of a server adds a post: an object it makes has an identifier   *)
(* that is in no handle.                                                   *)
LEMMA IpcServerPosts ==
  ASSUME IpcTypeOK, IpcPlaces, IpcFresh, NEW s \in Servers, serverStep(s)
  PROVE  Posting' \subseteq Posting /\ val' <= val
<1> USE DEF IpcTypeOK, IpcPlaces, Procs
<1>1. ASSUME NEW l, Goto(s, l) PROVE \A c \in Clients : pc'[c] = pc[c]
  BY <1>1 DEF Goto
<1>2. "sem" \in Kinds
  BY DEF Kinds
<1> DEFINE Same == \A c \in Clients : pc'[c] = pc[c] /\ hndl'[c] = hndl[c]
<1>3. ASSUME Same, obj'["sem"] \in {obj["sem"], NoId, nextId}
      PROVE  Posting' \subseteq Posting
  <2>1. \A c \in Clients : hndl[c]["sem"] # nextId
    BY <1>2 DEF IpcFresh
  <2> QED BY <1>3, <2>1 DEF Posting, Valid
<1> HIDE DEF Same
<1>4. CASE serverStart(s)
  BY <1>4, <1>1, <1>3 DEF serverStart, Untouched, Same
<1>5. CASE serverSetVal(s)
  BY <1>5, <1>1, <1>3 DEF serverSetVal, Same
<1>6. CASE serverRecv(s)
  BY <1>6, <1>1, <1>3 DEF serverRecv, Untouched, Same
<1>7. CASE serverLock(s)
  BY <1>7, <1>1, <1>3 DEF serverLock, Untouched, Same
<1>8. CASE serverKill(s)
  BY <1>8, <1>1, <1>3 DEF serverKill, End, Same
<1>9. ASSUME NEW k \in Kinds, serverCreate(s, k) PROVE Posting' \subseteq Posting /\ val' <= val
  <2>1. CASE Create(s, k)
    <3>1. Same
      BY <1>9, <2>1, <1>1 DEF serverCreate, Create, Keep, Same
    <3>2. obj'["sem"] \in {obj["sem"], NoId, nextId} /\ val' <= val
      BY <2>1, <1>2 DEF Create
    <3> QED BY <3>1, <3>2, <1>3
  <2>2. CASE Untouched
    BY <1>9, <2>2, <1>1, <1>3 DEF serverCreate, Untouched, Same
  <2> QED BY <1>9, <2>1, <2>2 DEF serverCreate
<1>10. ASSUME NEW k \in Kinds, serverOpen(s, k) PROVE Posting' \subseteq Posting /\ val' <= val
  <2>1. CASE Open(s, k)
    <3>1. Same
      BY <1>10, <2>1, <1>1 DEF serverOpen, Open, Keep, Same
    <3> QED BY <2>1, <3>1, <1>3 DEF Open
  <2>2. CASE Untouched
    BY <1>10, <2>2, <1>1, <1>3 DEF serverOpen, Untouched, Same
  <2> QED BY <1>10, <2>1, <2>2 DEF serverOpen
<1>11. ASSUME NEW k \in Kinds, serverClose(s, k) PROVE Posting' \subseteq Posting /\ val' <= val
  <2>1. Same
    BY <1>11, <1>1 DEF serverClose, Same
  <2>2. obj'["sem"] \in {obj["sem"], NoId, nextId} /\ val' <= val
    BY <1>11, <1>2 DEF serverClose, Remove
  <2> QED BY <2>1, <2>2, <1>3
<1> QED BY <1>4, <1>5, <1>6, <1>7, <1>8, <1>9, <1>10, <1>11 DEF serverStep

(* A client adds a post when it has seen the value below the limit; it     *)
(* raises the value by the post it takes away.                             *)
LEMMA IpcClientPosts ==
  ASSUME IpcTypeOK, IpcTypeOK', IpcPlaces, IpcSemLimit,
         NEW c \in Clients, clientStart(c) \/ clientStep(c)
  PROVE  IpcSemLimit'
<1> USE DEF Procs
<1> DEFINE Others == \A d \in Clients : d # c => pc'[d] = pc[d] /\ hndl'[d] = hndl[d]
<1>1. ASSUME NEW l, Goto(c, l)
      PROVE  pc'[c] = l /\ \A d \in Clients : d # c => pc'[d] = pc[d]
  BY <1>1 DEF Goto, IpcPlaces
<1>2. ASSUME NEW l, End(c, l), l # "post"
      PROVE  Others /\ UNCHANGED obj /\ pc'[c] # "post"
  BY <1>2, <1>1 DEF End, IpcTypeOK
<1>3. ASSUME Others, UNCHANGED obj, pc'[c] # "post"
      PROVE  Posting' \subseteq Posting /\ c \notin Posting'
  BY <1>3 DEF Posting, Valid
<1>4. ASSUME Others, UNCHANGED obj, pc'[c] # "post", val' = val
      PROVE  IpcSemLimit'
  BY <1>4, <1>3, IpcFewerPosts DEF IpcTypeOK
<1>v. val \in Nat
  BY DEF IpcTypeOK
<1> HIDE DEF Others
<1>5. CASE clientStart(c)
  BY <1>5, <1>1, <1>4 DEF clientStart, Untouched, Others
<1>6. CASE clientChoose(c)
  <2>1. \A x \in Texts : SendAt[x] # "post"
    BY DEF Texts, SendAt
  <2>2. pc'[c] # "post" /\ \A d \in Clients : d # c => pc'[d] = pc[d]
    BY <1>6, <2>1, <1>1 DEF clientChoose
  <2> QED BY <1>6, <2>2, <1>4 DEF clientChoose, Untouched, Others
<1>7. CASE clientGetVal(c)
  <2>1. Others /\ UNCHANGED <<obj, val, hndl>>
    BY <1>7, <1>1 DEF clientGetVal, Untouched, Others
  <2>2. CASE ~Valid(c, "sem") \/ ~BelowLimit(val)
    <3>1. Posting' \subseteq Posting
      BY <1>7, <2>1, <2>2, <1>1 DEF clientGetVal, Posting, Valid, Others
    <3> QED BY <3>1, <2>1, <1>v, IpcFewerPosts
  <2>3. CASE BelowLimit(val)
    <3>1. Posting' \subseteq Clients /\ IsFiniteSet(Clients)
      BY DEF Posting
    <3>2. IsFiniteSet(Posting') /\ Cardinality(Posting') <= Cardinality(Clients)
      BY <3>1, FS_Subset
    <3>3. Cardinality(Posting') \in Nat /\ Cardinality(Clients) \in Nat
      BY <3>1, <3>2, FS_CardinalityType
    <3> QED BY <2>1, <2>3, <3>2, <3>3, <1>v DEF BelowLimit, IpcSemLimit
  <2> QED BY <2>2, <2>3
<1>8. CASE clientPost(c)
  <2>1. CASE Valid(c, "sem") /\ val' = val + 1 /\ Goto(c, "send_semunlock")
             /\ UNCHANGED <<obj, nextId, box, hndl>>
    <3>1. Others /\ pc'[c] # "post" /\ UNCHANGED obj
      BY <2>1, <1>1 DEF Others
    <3>2. c \in Posting /\ Posting' \subseteq Posting \ {c}
      BY <1>8, <2>1, <3>1, <1>3 DEF clientPost, Posting
    <3>3. IsFiniteSet(Posting) /\ Cardinality(Posting) \in Nat /\ Cardinality(Clients) \in Nat
      BY IpcPostingFinite
    <3>4. IsFiniteSet(Posting \ {c}) /\ Cardinality(Posting \ {c}) = Cardinality(Posting) - 1
      BY <3>2, <3>3, FS_RemoveElement
    <3>5. IsFiniteSet(Posting') /\ Cardinality(Posting') <= Cardinality(Posting \ {c})
      BY <3>2, <3>4, FS_Subset
    <3>6. Cardinality(Posting') \in Nat
      BY <3>5, FS_CardinalityType
    <3> QED BY <2>1, <3>3, <3>4, <3>5, <3>6, <1>v DEF IpcSemLimit
  <2>2. CASE End(c, "off") /\ UNCHANGED <<box, val>>
    BY <2>2, <1>2, <1>4
  <2> QED BY <1>8, <2>1, <2>2 DEF clientPost
<1>9. CASE clientSend(c)
  BY <1>9, <1>2, <1>4 DEF clientSend
<1>10. ASSUME NEW k \in Kinds, clientOpen(c, k) PROVE IpcSemLimit'
  <2>1. CASE Open(c, k) /\ Goto(c, AfterClientOpen[k])
    <3>1. AfterClientOpen[k] # "post"
      BY DEF Kinds, AfterClientOpen
    <3>2. Others /\ pc'[c] # "post"
      BY <2>1, <3>1, <1>1 DEF Open, Keep, Others, IpcTypeOK
    <3> QED BY <2>1, <3>2, <1>4 DEF Open
  <2>2. CASE End(c, "off") /\ UNCHANGED <<box, val>>
    BY <2>2, <1>2, <1>4
  <2> QED BY <1>10, <2>1, <2>2 DEF clientOpen
<1> QED BY <1>5, <1>6, <1>7, <1>8, <1>9, <1>10 DEF clientStep

-----------------------------------------------------------------------------
(* Nothing is left when every server has ended by itself: a server that    *)
(* has ended holds nothing, and an object nobody holds has a server that   *)
(* runs or was killed.                                                     *)
LEMMA IpcFoundThenGone ==
  ASSUME \A k \in Kinds : IpcFound(k) PROVE IpcNothingLeft
<1>1. \A k \in Kinds : "off" \notin Holding(k)
  BY DEF Holding
<1> QED BY <1>1 DEF IpcFound, Orphan, Holds, IpcNothingLeft

(* The System V objects of osa_ipc.c, for any number of servers and        *)
(* clients: when every server has ended by itself nothing is left, with    *)
(* the only server killed at any point and started again; and the value    *)
(* of the semaphore is less than its limit plus the number of clients.     *)
THEOREM IpcInvariant == ipcSpec => []IpcInv
<1>1. ipcInit => IpcIInv
  <2> SUFFICES ASSUME ipcInit PROVE IpcIInv
    OBVIOUS
  <2>1. IpcTypeOK /\ IpcPlaces
    BY IpcTypeInit
  <2>2. IpcFresh
    BY DEF ipcInit, IpcFresh, NoHandles, NoId
  <2>3. \A k \in Kinds : IpcFound(k)
    BY DEF ipcInit, IpcFound, Orphan
  <2>4. Cardinality(Posting) = 0
    <3>1. Posting = {}
      BY DEF ipcInit, Posting, Procs
    <3> QED BY <3>1, FS_EmptySet
  <2>5. IpcSemLimit
    BY <2>4, IpcPostingFinite DEF ipcInit, IpcSemLimit
  <2> QED BY <2>1, <2>2, <2>3, <2>5 DEF IpcIInv
<1>2. IpcIInv /\ [ipcNext]_ipcVars => IpcIInv'
  <2> SUFFICES ASSUME IpcIInv, [ipcNext]_ipcVars PROVE IpcIInv'
    OBVIOUS
  <2> USE DEF IpcIInv
  <2>1. IpcTypeOK' /\ IpcPlaces'
    BY IpcTypeStep
  <2>2. IpcFresh'
    BY IpcFreshStep
  <2>3. \A k \in Kinds : IpcFound(k)'
    BY IpcFoundStep
  <2>4. IpcSemLimit'
    <3>1. ASSUME NEW s \in Servers, serverStep(s) PROVE IpcSemLimit'
      BY <3>1, <2>1, IpcServerPosts, IpcFewerPosts
    <3>2. ASSUME NEW c \in Clients, clientStart(c) \/ clientStep(c) PROVE IpcSemLimit'
      BY <3>2, <2>1, IpcClientPosts
    <3>3. CASE UNCHANGED ipcVars
      BY <3>3 DEF ipcVars, IpcSemLimit, Posting, Valid
    <3> QED BY <3>1, <3>2, <3>3 DEF ipcNext
  <2> QED BY <2>1, <2>2, <2>3, <2>4
<1>3. IpcIInv => IpcInv
  BY IpcFoundThenGone DEF IpcIInv, IpcInv
<1> QED BY <1>1, <1>2, <1>3, PTL DEF ipcSpec

-----------------------------------------------------------------------------
(* What lies in a family of queues, and that nothing lies there twice. *)
InQueues(f) == UNION {Contents(f[t]) : t \in Tasks}
OneEach(f) ==
  \A t, u \in Tasks : \A i \in 1 .. Len(f[t]), j \in 1 .. Len(f[u]) :
     f[t][i] = f[u][j] => t = u /\ i = j
InHands(h) == {h[t] : t \in Tasks} \ {NoMsg}

(* The queues and the handlers share the heap out among them. *)
Owned ==
  /\ OneEach(rcv) /\ OneEach(ack)
  /\ \A t, u \in Tasks : hand[t] = hand[u] /\ hand[t] # NoMsg => t = u
  /\ InQueues(rcv) \cap InQueues(ack) = {}
  /\ (InQueues(rcv) \cup InQueues(ack)) \cap InHands(hand) = {}
  /\ DOMAIN heap = InQueues(rcv) \cup InQueues(ack) \cup InHands(hand)

Call == [op : {"none", "send", "broadcast", "flush", "waitcmd"}, to : Seq(Tasks),
         cmd : Cmds \cup {NoMsg}, wait : BOOLEAN, free : BOOLEAN, prm : Prms \cup {NoPrm},
         sent : SUBSET MsgIds, status : Statuses]

(* The call a task is in. *)
Sending(c) == c.op \in {"send", "broadcast"}
CallOK(c) ==
  /\ Sending(c) => c.cmd \in Cmds
  /\ ~Sending(c) => c.to = <<>> /\ c.prm = NoPrm /\ ~c.free /\ ~c.wait
  /\ ~c.wait => c.sent = {}
  /\ c.free <=> c.prm # NoPrm
  /\ c.free => c.prm \in prms
  /\ c.free /\ ~c.wait => Len(c.to) = 1
  /\ c.op = "send" => /\ c.to # <<>> => Len(c.to) = 1 /\ c.sent = {}
                      /\ \A m, n \in c.sent : m = n

(* A call waits for the messages that say so, and for no others. *)
Awaited ==
  /\ \A t \in Tasks : \A m \in call[t].sent :
        /\ m \in DOMAIN heap /\ heap[m].wait /\ heap[m].from = t
        /\ heap[m].prm = call[t].prm /\ heap[m].free = call[t].free
  /\ \A m \in DOMAIN heap : heap[m].wait => m \in call[heap[m].from].sent

(* A parameter belongs to one call and its messages; only messages of one  *)
(* call that waits share it.                                               *)
PrmAlive ==
  \A m \in DOMAIN heap : /\ heap[m].free <=> heap[m].prm # NoPrm
                         /\ heap[m].free => heap[m].prm \in prms
PrmShared ==
  \A m, n \in DOMAIN heap : heap[m].free /\ heap[m].prm = heap[n].prm /\ m # n
     => heap[m].wait /\ heap[n].wait /\ heap[m].from = heap[n].from
PrmOfCall ==
  \A m \in DOMAIN heap : \A t \in Tasks :
     call[t].prm # NoPrm /\ heap[m].prm = call[t].prm => m \in call[t].sent
PrmOfOne == \A t, u \in Tasks : call[t].prm # NoPrm /\ call[t].prm = call[u].prm => t = u
PrmUsed ==
  \A p \in prms : \/ \E m \in DOMAIN heap : heap[m].prm = p
                  \/ \E t \in Tasks : call[t].prm = p
PrmOwned == /\ prms \subseteq 1 .. calls /\ PrmAlive /\ PrmShared /\ PrmOfCall
            /\ PrmOfOne /\ PrmUsed

(* What a call has been answered is in its status or still in the queue. *)
Answered(t) ==
  IF Sending(call[t])
  THEN /\ \A m \in Contents(ack[t]) : heap[m].status \in given[t]
       /\ call[t].status = "EFAIL" => "EFAIL" \in given[t]
       /\ "EFAIL" \in given[t] => \/ call[t].status = "EFAIL"
                                  \/ \E m \in Contents(ack[t]) : heap[m].status = "EFAIL"
       /\ ~call[t].wait => given[t] = {}
  ELSE ret[t] = "SOK" <=> given[t] \subseteq {"SOK"}

MbxInv == /\ TypeOK /\ heap \in [DOMAIN heap -> Message] /\ ~freed
          /\ call \in [Tasks -> Call]
          /\ \A t \in Tasks : CallOK(call[t])
          /\ Owned /\ Awaited /\ PrmOwned /\ AcksExpected
          /\ \A t \in Tasks : Answered(t)

USE MailboxAssumption

-----------------------------------------------------------------------------
(* A message in the queues is in one of them. *)
LEMMA InQueue ==
  ASSUME NEW f, NEW x PROVE x \in InQueues(f) <=> \E u \in Tasks : x \in Contents(f[u])
BY DEF InQueues

(* A message is put into one of the queues. *)
Pushed(f, g, t, m) == g = [f EXCEPT ![t] = Append(@, m)]
LEMMA QueuePush ==
  ASSUME NEW f \in [Tasks -> Seq(MsgIds)], NEW t \in Tasks, NEW m \in MsgIds,
         m \notin InQueues(f), OneEach(f), NEW g, Pushed(f, g, t, m)
  PROVE  /\ g \in [Tasks -> Seq(MsgIds)] /\ OneEach(g)
         /\ InQueues(g) = InQueues(f) \cup {m}
         /\ Contents(g[t]) = Contents(f[t]) \cup {m}
         /\ Len(g[t]) = Len(f[t]) + 1
         /\ \A u \in Tasks : u # t => g[u] = f[u]
<1>1. /\ g \in [Tasks -> Seq(MsgIds)] /\ g[t] = Append(f[t], m)
      /\ \A u \in Tasks : u # t => g[u] = f[u]
  BY DEF Pushed
<1>2. /\ f[t] \in Seq(MsgIds) /\ Len(f[t]) \in Nat
      /\ Len(g[t]) = Len(f[t]) + 1
      /\ \A i \in 1 .. Len(f[t]) : g[t][i] = f[t][i]
      /\ g[t][Len(f[t]) + 1] = m
  BY <1>1, AppendProperties
<1>3. \A u \in Tasks : \A i \in 1 .. Len(f[u]) : f[u][i] # m
  BY DEF InQueues, Contents
<1>4. OneEach(g)
  <2> SUFFICES ASSUME NEW u \in Tasks, NEW v \in Tasks, NEW i \in 1 .. Len(g[u]),
                      NEW j \in 1 .. Len(g[v]), g[u][i] = g[v][j]
               PROVE  u = v /\ i = j
    BY DEF OneEach
  <2>1. ASSUME NEW w \in Tasks, NEW k \in 1 .. Len(g[w])
        PROVE  \/ k \in 1 .. Len(f[w]) /\ g[w][k] = f[w][k]
               \/ w = t /\ k = Len(f[t]) + 1 /\ g[w][k] = m
    <3>1. CASE w = t
      <4>1. k \in 1 .. Len(f[t]) \/ k = Len(f[t]) + 1
        BY <3>1, <1>2
      <4> QED BY <3>1, <4>1, <1>2
    <3>2. CASE w # t
      BY <3>2, <1>1
    <3> QED BY <3>1, <3>2
  <2>2. CASE i \in 1 .. Len(f[u]) /\ g[u][i] = f[u][i]
    <3>1. f[u][i] # m
      BY <2>2, <1>3
    <3>2. j \in 1 .. Len(f[v]) /\ g[v][j] = f[v][j]
      BY <2>1, <2>2, <3>1
    <3>3. f[u][i] = f[v][j]
      BY <2>2, <3>2
    <3> QED BY <2>2, <3>2, <3>3 DEF OneEach
  <2>3. CASE u = t /\ i = Len(f[t]) + 1 /\ g[u][i] = m
    <3>1. v = t /\ j = Len(f[t]) + 1
      BY <2>1, <2>3, <1>3
    <3> QED BY <2>3, <3>1
  <2> QED BY <2>1, <2>2, <2>3
<1>5. Contents(g[t]) = Contents(f[t]) \cup {m}
  <2>1. \A x \in Contents(g[t]) : x \in Contents(f[t]) \cup {m}
    <3>1. \A k \in 1 .. Len(g[t]) : k \in 1 .. Len(f[t]) \/ k = Len(f[t]) + 1
      BY <1>2
    <3> QED BY <1>2, <3>1 DEF Contents
  <2>2. \A x \in Contents(f[t]) : x \in Contents(g[t])
    BY <1>2 DEF Contents
  <2>3. m \in Contents(g[t])
    BY <1>2 DEF Contents
  <2> QED BY <2>1, <2>2, <2>3
<1>6. InQueues(g) = InQueues(f) \cup {m}
  <2>1. ASSUME NEW x PROVE x \in InQueues(g) <=> x \in InQueues(f) \cup {m}
    BY <1>1, <1>5, InQueue
  <2> QED BY <2>1
<1> QED BY <1>1, <1>2, <1>4, <1>5, <1>6

(* The oldest message of one of the queues leaves it. *)
Popped(f, g, t) == f[t] # <<>> /\ g = [f EXCEPT ![t] = Tail(@)]
LEMMA QueuePop ==
  ASSUME NEW f \in [Tasks -> Seq(MsgIds)], NEW t \in Tasks, OneEach(f), NEW g, Popped(f, g, t)
  PROVE  /\ g \in [Tasks -> Seq(MsgIds)] /\ OneEach(g)
         /\ Head(f[t]) \in MsgIds /\ Head(f[t]) \in Contents(f[t])
         /\ InQueues(g) = InQueues(f) \ {Head(f[t])}
         /\ Contents(g[t]) = Contents(f[t]) \ {Head(f[t])}
         /\ Len(g[t]) = Len(f[t]) - 1
         /\ \A u \in Tasks : u # t => g[u] = f[u]
<1>1. /\ f[t] \in Seq(MsgIds) /\ Len(f[t]) \in Nat /\ Len(f[t]) > 0
      /\ Tail(f[t]) \in Seq(MsgIds) /\ Len(Tail(f[t])) = Len(f[t]) - 1
      /\ \A i \in 1 .. Len(f[t]) - 1 : Tail(f[t])[i] = f[t][i + 1]
      /\ Head(f[t]) = f[t][1] /\ Head(f[t]) \in MsgIds
  BY HeadTailProperties DEF Popped
<1>2. /\ g \in [Tasks -> Seq(MsgIds)] /\ g[t] = Tail(f[t])
      /\ \A u \in Tasks : u # t => g[u] = f[u]
  BY <1>1 DEF Popped
<1>3. OneEach(g)
  <2> SUFFICES ASSUME NEW u \in Tasks, NEW v \in Tasks, NEW i \in 1 .. Len(g[u]),
                      NEW j \in 1 .. Len(g[v]), g[u][i] = g[v][j]
               PROVE  u = v /\ i = j
    BY DEF OneEach
  <2> DEFINE at(w, k) == IF w = t THEN k + 1 ELSE k
  <2>1. ASSUME NEW w \in Tasks, NEW k \in 1 .. Len(g[w])
        PROVE  at(w, k) \in 1 .. Len(f[w]) /\ g[w][k] = f[w][at(w, k)]
    <3>1. CASE w = t
      <4>1. k \in 1 .. Len(f[t]) - 1 /\ k + 1 \in 1 .. Len(f[t])
        BY <1>1, <1>2, <3>1
      <4>2. g[t][k] = f[t][k + 1]
        BY <1>1, <1>2, <4>1
      <4> QED BY <3>1, <4>1, <4>2
    <3>2. CASE w # t
      BY <1>2, <3>2
    <3> QED BY <3>1, <3>2
  <2>2. u = v /\ at(u, i) = at(v, j)
    <3>1. /\ at(u, i) \in 1 .. Len(f[u]) /\ at(v, j) \in 1 .. Len(f[v])
          /\ f[u][at(u, i)] = f[v][at(v, j)]
      BY <2>1
    <3>2. PICK x, y : x = at(u, i) /\ y = at(v, j)
      OBVIOUS
    <3>3. x \in 1 .. Len(f[u]) /\ y \in 1 .. Len(f[v]) /\ f[u][x] = f[v][y]
      BY ONLY <3>1, <3>2
    <3>4. u = v /\ x = y
      BY ONLY <3>3, u \in Tasks, v \in Tasks, OneEach(f) DEF OneEach
    <3> QED BY ONLY <3>2, <3>4
  <2>3. i \in Int /\ j \in Int
    OBVIOUS
  <2> QED BY <2>2, <2>3
<1>4. Head(f[t]) \in Contents(f[t])
  BY <1>1 DEF Contents
<1>5. Contents(g[t]) = Contents(f[t]) \ {Head(f[t])}
  <2>1. ASSUME NEW x \in Contents(g[t]) PROVE x \in Contents(f[t]) /\ x # Head(f[t])
    <3>1. PICK i \in 1 .. Len(f[t]) - 1 : x = f[t][i + 1]
      BY <1>1, <1>2 DEF Contents
    <3>2. i + 1 \in 1 .. Len(f[t]) /\ i + 1 # 1 /\ 1 \in 1 .. Len(f[t])
      BY <1>1
    <3> QED BY <1>1, <3>1, <3>2 DEF OneEach, Contents
  <2>2. ASSUME NEW x \in Contents(f[t]), x # Head(f[t]) PROVE x \in Contents(g[t])
    <3>1. PICK i \in 1 .. Len(f[t]) : x = f[t][i] /\ i # 1
      BY <2>2, <1>1 DEF Contents
    <3>2. i - 1 \in 1 .. Len(f[t]) - 1 /\ (i - 1) + 1 = i
      BY <1>1, <3>1
    <3>3. g[t][i - 1] = x /\ Len(g[t]) = Len(f[t]) - 1
      BY <1>1, <1>2, <3>1, <3>2
    <3> QED BY <3>2, <3>3 DEF Contents
  <2> QED BY <2>1, <2>2
<1>6. \A u \in Tasks : u # t => Head(f[t]) \notin Contents(f[u])
  BY <1>1, SMTT(30) DEF OneEach, Contents
<1>7. InQueues(g) = InQueues(f) \ {Head(f[t])}
  <2>1. ASSUME NEW x PROVE x \in InQueues(g) <=> x \in InQueues(f) /\ x # Head(f[t])
    <3>1. CASE x = Head(f[t])
      BY <3>1, <1>2, <1>5, <1>6, InQueue
    <3>2. CASE x # Head(f[t])
      BY <3>2, <1>2, <1>5, InQueue
    <3> QED BY <3>1, <3>2
  <2> QED BY <2>1
<1> QED BY <1>1, <1>2, <1>3, <1>4, <1>5, <1>7

-----------------------------------------------------------------------------
(* The initial state. *)
LEMMA MbxInit == Init => MbxInv
<1> SUFFICES ASSUME Init PROVE MbxInv
  OBVIOUS
<1> USE DEF Init
<1>1. DOMAIN heap = {}
  OBVIOUS
<1>2. InQueues(rcv) = {} /\ InQueues(ack) = {} /\ \A t \in Tasks : Contents(ack[t]) = {}
  BY DEF InQueues, Contents
<1>3. InHands(hand) = {}
  BY DEF InHands
<1>4. TypeOK
  <2>0. prms \subseteq Prms /\ calls \in 0 .. MaxCalls
    OBVIOUS
  <2>1. /\ ret \in [Tasks -> Statuses] /\ given \in [Tasks -> SUBSET Statuses]
        /\ hand \in [Tasks -> MsgIds \cup {NoMsg}] /\ freed \in BOOLEAN
    BY DEF Statuses
  <2>2. /\ rcv \in [Tasks -> Seq(MsgIds)] /\ ack \in [Tasks -> Seq(MsgIds)]
        /\ \A t \in Tasks : Len(rcv[t]) = 0 /\ Len(ack[t]) = 0
    OBVIOUS
  <2>3. \A t \in Tasks : call[t].sent = {}
    BY DEF NoCall
  <2> QED BY <1>1, <2>0, <2>1, <2>2, <2>3 DEF TypeOK
<1>5. OneEach(rcv) /\ OneEach(ack)
  BY DEF OneEach
<1>6. call \in [Tasks -> Call] /\ \A t \in Tasks : CallOK(call[t])
  <2>1. NoCall \in Call /\ CallOK(NoCall)
    BY DEF NoCall, Call, CallOK, Sending, Statuses
  <2> QED BY <2>1
<1>7. Owned /\ heap \in [DOMAIN heap -> Message]
  BY <1>1, <1>2, <1>3, <1>5 DEF Owned
<1>8. Awaited /\ AcksExpected
  BY <1>1, <1>2 DEF Awaited, AcksExpected, NoCall
<1>9. PrmOwned
  BY <1>1 DEF PrmOwned, PrmAlive, PrmShared, PrmOfCall, PrmOfOne, PrmUsed, NoCall
<1>10. \A t \in Tasks : Answered(t)
  BY DEF Answered, NoCall, Sending
<1> QED BY <1>4, <1>6, <1>7, <1>8, <1>9, <1>10 DEF MbxInv

(* The null call is a call, and one that asks for nothing. *)
LEMMA NoCallOK ==
  /\ NoCall \in Call /\ CallOK(NoCall)' /\ ~Sending(NoCall)
  /\ NoCall.sent = {} /\ NoCall.prm = NoPrm
BY DEF NoCall, Call, CallOK, Sending, Statuses

(* A task enters OSA_mbxSendMsg or OSA_mbxBroadcastMsg: the parameter it   *)
(* brings is a new one.                                                    *)
LEMMA StepCallWith ==
  ASSUME MbxInv, NEW t \in Tasks, MaySend(t),
         NEW op \in {"send", "broadcast"}, NEW to \in Seq(Tasks), NEW cmd \in Cmds,
         NEW wait \in BOOLEAN, NEW free \in BOOLEAN,
         free /\ ~wait => Len(to) = 1, op = "send" => Len(to) = 1,
         CallWith(t, op, to, cmd, wait, free)
  PROVE  MbxInv'
<1> USE DEF MbxInv
<1>1. PICK p : p = IF free THEN calls + 1 ELSE NoPrm
  OBVIOUS
<1>2. PICK c : c = [op |-> op, to |-> to, cmd |-> cmd, wait |-> wait,
                    free |-> free, prm |-> p, sent |-> {}, status |-> "SOK"]
  OBVIOUS
<1>3. /\ call' = [call EXCEPT ![t] = c] /\ prms' = prms \cup ({p} \ {NoPrm})
      /\ calls' = calls + 1 /\ given' = [given EXCEPT ![t] = {}]
      /\ UNCHANGED <<heap, rcv, ack, hand, ret, freed>>
  BY <1>1, <1>2 DEF CallWith
<1>4. /\ calls \in Nat /\ calls < MaxCalls /\ MaxCalls \in Nat /\ prms \subseteq 1 .. calls
  BY DEF MaySend, TypeOK, PrmOwned
<1>5. p \in Prms \cup {NoPrm} /\ p \notin prms /\ (free <=> p # NoPrm) /\ (free => p \in prms')
  BY <1>1, <1>3, <1>4 DEF Prms, NoPrm
<1>6. c \in Call /\ Sending(c)
  BY <1>2, <1>5 DEF Call, Statuses, Sending
<1>7. call'[t] = c /\ \A u \in Tasks : u # t => call'[u] = call[u]
  BY <1>3
<1>8. call' \in [Tasks -> Call]
  BY <1>3, <1>6
<1>9. call[t].sent = {} /\ call[t].prm = NoPrm
  BY DEF MaySend, CallOK, Sending
<1>10. TypeOK'
  <2>0. calls' \in 0 .. MaxCalls
    BY <1>3, <1>4
  <2>1. prms' \subseteq Prms
    BY <1>3, <1>5 DEF TypeOK
  <2>2. given' \in [Tasks -> SUBSET Statuses]
    BY <1>3 DEF TypeOK
  <2>3. \A u \in Tasks : call'[u].sent \subseteq MsgIds
    BY <1>8 DEF Call
  <2> QED BY <1>3, <2>0, <2>1, <2>2, <2>3 DEF TypeOK
<1>11. \A u \in Tasks : CallOK(call[u])'
  <2>1. CallOK(call[t])'
    BY <1>2, <1>5, <1>6, <1>7 DEF CallOK
  <2>2. ASSUME NEW u \in Tasks, u # t PROVE CallOK(call[u])'
    BY <2>2, <1>3, <1>7 DEF CallOK
  <2> QED BY <2>1, <2>2
<1>12. Owned'
  BY <1>3 DEF Owned
<1>13. Awaited' /\ AcksExpected'
  BY <1>2, <1>3, <1>7, <1>9 DEF Awaited, AcksExpected, TypeOK, Message
<1>14. PrmOwned'
  <2>1. prms' \subseteq 1 .. calls'
    BY <1>1, <1>3, <1>4 DEF NoPrm
  <2>2. \A m \in DOMAIN heap : heap[m].prm # p \/ p = NoPrm
    BY <1>5 DEF PrmOwned, PrmAlive
  <2>3. \A u \in Tasks : u # t => call[u].prm # p \/ p = NoPrm
    BY <1>5 DEF CallOK
  <2>4. call'[t].prm = p /\ call'[t].sent = {}
    BY <1>2, <1>7
  <2>5. PrmUsed'
    <3> SUFFICES ASSUME NEW q \in prms'
                 PROVE  (\E m \in DOMAIN heap' : heap'[m].prm = q) \/ \E u \in Tasks : call'[u].prm = q
      BY DEF PrmUsed
    <3>1. CASE q = p
      BY <3>1, <2>4
    <3>2. CASE q \in prms
      <4>1. q # NoPrm
        BY <3>2, <1>4 DEF NoPrm
      <4>2. (\E m \in DOMAIN heap : heap[m].prm = q) \/ \E u \in Tasks : call[u].prm = q
        BY <3>2 DEF PrmOwned, PrmUsed
      <4>3. \A u \in Tasks : call[u].prm = q => call'[u].prm = q
        BY <4>1, <1>7, <1>9
      <4> QED BY <4>2, <4>3, <1>3
    <3> QED BY <1>3, <3>1, <3>2
  <2>6. PrmOfCall'
    BY <1>3, <1>7, <2>2, <2>4 DEF PrmOwned, PrmOfCall
  <2>7. PrmOfOne'
    BY <1>7, <2>3, <2>4 DEF PrmOwned, PrmOfOne
  <2>8. PrmAlive'
    BY <1>3 DEF PrmOwned, PrmAlive
  <2>9. PrmShared'
    BY <1>3 DEF PrmOwned, PrmShared
  <2> QED BY <2>1, <2>5, <2>6, <2>7, <2>8, <2>9 DEF PrmOwned
<1>15. \A u \in Tasks : Answered(u)'
  <2>1. Contents(ack[t]) = {} /\ given'[t] = {} /\ call'[t].status = "SOK" /\ Sending(call'[t])
    BY <1>2, <1>3, <1>6, <1>7, <1>9 DEF AcksExpected, TypeOK
  <2>2. Answered(t)'
    BY <2>1, <1>3 DEF Answered
  <2>3. ASSUME NEW u \in Tasks, u # t PROVE Answered(u)'
    BY <2>3, <1>3, <1>7 DEF Answered, TypeOK
  <2> QED BY <2>2, <2>3
<1> QED BY <1>3, <1>8, <1>10, <1>11, <1>12, <1>13, <1>14, <1>15

(* A task leaves a call that asked for nothing, or enters one. *)
LEMMA StepQuietCall ==
  ASSUME MbxInv, NEW t \in Tasks, NEW c \in Call, ~Sending(call[t]), ~Sending(c), CallOK(c),
         call' = [call EXCEPT ![t] = c], calls' \in calls .. MaxCalls,
         UNCHANGED <<heap, prms, rcv, ack, hand, ret, given, freed>>
  PROVE  MbxInv'
<1> USE DEF MbxInv
<1>1. call'[t] = c /\ \A u \in Tasks : u # t => call'[u] = call[u]
  OBVIOUS
<1>2. /\ call[t].sent = {} /\ call[t].prm = NoPrm /\ c.sent = {} /\ c.prm = NoPrm
      /\ ~c.free /\ ~call[t].free
  BY DEF CallOK
<1>3. call' \in [Tasks -> Call]
  OBVIOUS
<1>4. calls \in Nat /\ calls' \in Nat /\ calls <= calls' /\ calls' \in 0 .. MaxCalls
  BY DEF TypeOK
<1>5. TypeOK'
  <2>1. \A u \in Tasks : call'[u].sent \subseteq MsgIds
    BY <1>3 DEF Call
  <2> QED BY <1>4, <2>1 DEF TypeOK
<1>6. \A u \in Tasks : CallOK(call[u])'
  <2>1. CallOK(c)'
    BY DEF CallOK
  <2>2. ASSUME NEW u \in Tasks, u # t PROVE CallOK(call[u])'
    BY <2>2, <1>1 DEF CallOK
  <2>3. CallOK(call[t])'
    BY <2>1, <1>1 DEF CallOK
  <2> QED BY <2>2, <2>3
<1>7. Owned'
  BY DEF Owned
<1>8. Awaited' /\ AcksExpected'
  BY <1>1, <1>2 DEF Awaited, AcksExpected, TypeOK, Message
<1>9. PrmOwned'
  <2>1. prms' \subseteq 1 .. calls'
    BY <1>4 DEF PrmOwned
  <2>2. \A u \in Tasks : call'[u].prm = call[u].prm /\ call'[u].sent = call[u].sent
    BY <1>1, <1>2
  <2>3. PrmOfCall' /\ PrmOfOne'
    BY <2>2 DEF PrmOwned, PrmOfCall, PrmOfOne
  <2>4. PrmUsed'
    BY <2>2 DEF PrmOwned, PrmUsed
  <2>5. PrmAlive' /\ PrmShared'
    BY DEF PrmOwned, PrmAlive, PrmShared
  <2> QED BY <2>1, <2>3, <2>4, <2>5 DEF PrmOwned
<1>10. \A u \in Tasks : Answered(u)'
  BY <1>1 DEF Answered
<1> QED BY <1>3, <1>5, <1>6, <1>7, <1>8, <1>9, <1>10

-----------------------------------------------------------------------------
(* The oldest message of a task's queue goes to its handler, which ends a  *)
(* call that waited for it.                                                *)
LEMMA StepTake ==
  ASSUME MbxInv, NEW t \in Tasks, hand[t] = NoMsg, rcv[t] # <<>>,
         hand' = [hand EXCEPT ![t] = Head(rcv[t])], rcv' = [rcv EXCEPT ![t] = Tail(@)],
         NEW c \in Call, ~Sending(call[t]), ~Sending(c), CallOK(c),
         call' = [call EXCEPT ![t] = c], UNCHANGED <<heap, prms, ack, ret, given, calls, freed>>
  PROVE  MbxInv'
<1> USE DEF MbxInv
<1>1. PICK m : m = Head(rcv[t])
  OBVIOUS
<1>2. /\ rcv \in [Tasks -> Seq(MsgIds)] /\ OneEach(rcv) /\ hand \in [Tasks -> MsgIds \cup {NoMsg}]
  BY DEF TypeOK, Owned
<1>3. /\ rcv' \in [Tasks -> Seq(MsgIds)] /\ OneEach(rcv') /\ m \in MsgIds
      /\ m \in Contents(rcv[t]) /\ InQueues(rcv') = InQueues(rcv) \ {m}
      /\ Len(rcv'[t]) = Len(rcv[t]) - 1
      /\ \A u \in Tasks : u # t => rcv'[u] = rcv[u]
  <2>1. Popped(rcv, rcv', t)
    BY DEF Popped
  <2> QED BY <1>1, <1>2, <2>1, QueuePop
<1>4. m \in InQueues(rcv) /\ m # NoMsg
  BY <1>3, InQueue DEF MsgIds
<1>5. /\ hand'[t] = m /\ \A u \in Tasks : u # t => hand'[u] = hand[u]
      /\ hand' \in [Tasks -> MsgIds \cup {NoMsg}]
  BY <1>1, <1>2, <1>3
<1>6. InHands(hand') = InHands(hand) \cup {m}
  BY <1>4, <1>5 DEF InHands
<1>7. Owned'
  <2>1. \A u \in Tasks : hand[u] # m
    BY <1>4 DEF Owned, InHands
  <2>2. \A u, v \in Tasks : hand'[u] = hand'[v] /\ hand'[u] # NoMsg => u = v
    BY <1>5, <2>1 DEF Owned
  <2>3. /\ InQueues(rcv') \cap InQueues(ack') = {}
        /\ (InQueues(rcv') \cup InQueues(ack')) \cap InHands(hand') = {}
        /\ DOMAIN heap' = InQueues(rcv') \cup InQueues(ack') \cup InHands(hand')
    <3>1. /\ InQueues(rcv) \cap InQueues(ack) = {}
          /\ (InQueues(rcv) \cup InQueues(ack)) \cap InHands(hand) = {}
          /\ DOMAIN heap = InQueues(rcv) \cup InQueues(ack) \cup InHands(hand)
          /\ ack' = ack /\ heap' = heap
      BY DEF Owned
    <3> QED BY ONLY <1>3, <1>4, <1>6, <3>1
  <2>4. OneEach(ack')
    BY DEF Owned
  <2> QED BY <1>3, <2>2, <2>3, <2>4 DEF Owned
<1>8. /\ call'[t] = c /\ \A u \in Tasks : u # t => call'[u] = call[u]
      /\ call' \in [Tasks -> Call]
  OBVIOUS
<1>9. /\ call[t].sent = {} /\ call[t].prm = NoPrm /\ c.sent = {} /\ c.prm = NoPrm
      /\ ~c.free /\ ~call[t].free
  BY DEF CallOK
<1>10. \A u \in Tasks : call'[u].prm = call[u].prm /\ call'[u].sent = call[u].sent
  BY <1>8, <1>9
<1>11. TypeOK'
  <2>1. \A u \in Tasks : Len(rcv'[u]) <= OSA_MSGQ_LEN_MAX
    <3>1. Len(rcv[t]) \in Nat /\ Len(rcv[t]) <= OSA_MSGQ_LEN_MAX
      BY <1>2 DEF TypeOK
    <3> QED BY <1>3, <3>1 DEF TypeOK
  <2> QED BY <1>3, <1>5, <1>10, <2>1 DEF TypeOK
<1>12. \A u \in Tasks : CallOK(call[u])'
  <2>1. ASSUME NEW u \in Tasks, u # t PROVE CallOK(call[u])'
    BY <2>1, <1>8 DEF CallOK
  <2>2. CallOK(call[t])'
    BY <1>8 DEF CallOK
  <2> QED BY <2>1, <2>2
<1>13. Awaited' /\ AcksExpected'
  BY <1>8, <1>9 DEF Awaited, AcksExpected, TypeOK, Message
<1>14. PrmOwned'
  <2>1. PrmOfCall' /\ PrmOfOne'
    BY <1>10 DEF PrmOwned, PrmOfCall, PrmOfOne
  <2>2. PrmUsed'
    BY <1>10 DEF PrmOwned, PrmUsed
  <2>3. PrmAlive' /\ PrmShared'
    BY DEF PrmOwned, PrmAlive, PrmShared
  <2> QED BY <2>1, <2>2, <2>3 DEF PrmOwned
<1>15. \A u \in Tasks : Answered(u)'
  BY <1>8 DEF Answered
<1> QED BY <1>7, <1>8, <1>11, <1>12, <1>13, <1>14, <1>15

(* The message OSA_msgqSendMsg makes, and what becomes of the call. *)
Sends(t, c, d, m) ==
  /\ heap' = [x \in DOMAIN heap \cup {m} |->
                IF x = m THEN [from |-> t, cmd |-> c.cmd, wait |-> c.wait, free |-> c.free,
                               prm |-> c.prm, status |-> "SOK"]
                         ELSE heap[x]]
  /\ rcv' = [rcv EXCEPT ![d] = Append(@, m)]
  /\ IF Len(c.to) = 1 /\ ~c.wait
     THEN call' = [call EXCEPT ![t] = NoCall] /\ ret' = [ret EXCEPT ![t] = "SOK"]
     ELSE /\ call' = [call EXCEPT ![t].to = Tail(@),
                                  ![t].sent = IF c.wait THEN @ \cup {m} ELSE @]
          /\ UNCHANGED ret

(* Every send makes one. *)
LEMMA SendIs ==
  ASSUME NEW t \in Tasks, OSA_msgqSendMsg(t), NEW c, c = call[t], NEW d, d = Head(c.to)
  PROVE  \E m \in MsgIds \ DOMAIN heap : Sends(t, c, d, m)
BY DEF OSA_msgqSendMsg, Sends

(* OSA_msgqSendMsg: the new message is in the receiver's queue, and its    *)
(* sender waits for it or is done with it.                                 *)
LEMMA StepSend ==
  ASSUME MbxInv, NEW t \in Tasks, OSA_msgqSendMsg(t) PROVE MbxInv'
<1> USE DEF MbxInv
<1>1. PICK c : c = call[t]
  OBVIOUS
<1>2. c \in Call /\ CallOK(c) /\ c.to # <<>> /\ Sending(c) /\ c.cmd \in Cmds
  <2>1. c \in Call /\ CallOK(c) /\ c.to # <<>>
    BY <1>1 DEF OSA_msgqSendMsg
  <2> QED BY <2>1 DEF CallOK
<1>3. PICK d : d = Head(c.to)
  OBVIOUS
<1>4. d \in Tasks /\ Tail(c.to) \in Seq(Tasks) /\ Len(Tail(c.to)) = Len(c.to) - 1 /\ Len(c.to) \in Nat
  <2>1. c.to \in Seq(Tasks)
    BY <1>2 DEF Call
  <2> QED BY <1>2, <1>3, <2>1, HeadTailProperties
<1>m. PICK m \in MsgIds \ DOMAIN heap : Sends(t, c, d, m)
  BY <1>1, <1>3, SendIs
<1>5. /\ heap' = [x \in DOMAIN heap \cup {m} |->
                    IF x = m THEN [from |-> t, cmd |-> c.cmd, wait |-> c.wait, free |-> c.free,
                                   prm |-> c.prm, status |-> "SOK"]
                             ELSE heap[x]]
      /\ rcv' = [rcv EXCEPT ![d] = Append(@, m)]
      /\ IF Len(c.to) = 1 /\ ~c.wait
         THEN call' = [call EXCEPT ![t] = NoCall] /\ ret' = [ret EXCEPT ![t] = "SOK"]
         ELSE /\ call' = [call EXCEPT ![t].to = Tail(@),
                                      ![t].sent = IF c.wait THEN @ \cup {m} ELSE @]
              /\ UNCHANGED ret
  BY <1>m DEF Sends
<1>6. UNCHANGED <<prms, ack, hand, given, calls, freed>> /\ Len(rcv[d]) < OSA_MSGQ_LEN_MAX
  BY <1>1, <1>3 DEF OSA_msgqSendMsg, Room
<1>7. /\ DOMAIN heap' = DOMAIN heap \cup {m} /\ m \notin DOMAIN heap
      /\ \A x \in DOMAIN heap : heap'[x] = heap[x]
      /\ heap'[m].from = t /\ heap'[m].wait = c.wait /\ heap'[m].free = c.free
      /\ heap'[m].prm = c.prm /\ heap'[m].status = "SOK" /\ heap'[m].cmd = c.cmd
  BY <1>5
<1>8. heap' \in [DOMAIN heap' -> Message]
  <2>1. [from |-> t, cmd |-> c.cmd, wait |-> c.wait, free |-> c.free,
         prm |-> c.prm, status |-> "SOK"] \in Message
    BY <1>2 DEF Message, Call, Statuses
  <2> QED BY <1>5, <1>7, <2>1 DEF TypeOK
<1>9. /\ rcv \in [Tasks -> Seq(MsgIds)] /\ OneEach(rcv) /\ m \notin InQueues(rcv)
      /\ m \notin InQueues(ack) /\ m \notin InHands(hand) /\ m \in MsgIds
  BY <1>7 DEF TypeOK, Owned
<1>10. /\ rcv' \in [Tasks -> Seq(MsgIds)] /\ OneEach(rcv')
       /\ InQueues(rcv') = InQueues(rcv) \cup {m}
       /\ Len(rcv'[d]) = Len(rcv[d]) + 1
       /\ \A u \in Tasks : u # d => rcv'[u] = rcv[u]
  <2>1. Pushed(rcv, rcv', d, m)
    BY <1>5 DEF Pushed
  <2>2. d \in Tasks
    BY <1>4
  <2> QED BY ONLY <1>9, <2>1, <2>2, QueuePush
<1>11. Owned'
  <2>1. /\ InQueues(rcv') \cap InQueues(ack') = {}
        /\ (InQueues(rcv') \cup InQueues(ack')) \cap InHands(hand') = {}
        /\ DOMAIN heap' = InQueues(rcv') \cup InQueues(ack') \cup InHands(hand')
    <3>1. /\ InQueues(rcv) \cap InQueues(ack) = {}
          /\ (InQueues(rcv) \cup InQueues(ack)) \cap InHands(hand) = {}
          /\ DOMAIN heap = InQueues(rcv) \cup InQueues(ack) \cup InHands(hand)
      BY DEF Owned
    <3> QED BY ONLY <1>6, <1>7, <1>9, <1>10, <3>1
  <2> QED BY <1>6, <1>10, <2>1 DEF Owned
(* What becomes of the call, in either case. *)
<1>12. PICK e : e = call'[t]
  OBVIOUS
<1>13. /\ call' \in [Tasks -> Call] /\ \A u \in Tasks : u # t => call'[u] = call[u]
       /\ \/ e = NoCall /\ ~c.wait /\ Len(c.to) = 1 /\ ret' = [ret EXCEPT ![t] = "SOK"]
          \/ /\ e.op = c.op /\ e.to = Tail(c.to) /\ e.cmd = c.cmd /\ e.wait = c.wait
             /\ e.free = c.free /\ e.prm = c.prm /\ e.status = c.status
             /\ e.sent = IF c.wait THEN c.sent \cup {m} ELSE c.sent
             /\ ~(Len(c.to) = 1 /\ ~c.wait) /\ ret' = ret
  <2>1. CASE Len(c.to) = 1 /\ ~c.wait
    BY <1>5, <1>12, <2>1, NoCallOK
  <2>2. CASE ~(Len(c.to) = 1 /\ ~c.wait)
    <3>1. PICK g : g = [c EXCEPT !.to = Tail(c.to), !.sent = IF c.wait THEN c.sent \cup {m} ELSE c.sent]
      OBVIOUS
    <3>2. /\ g \in Call
          /\ g.op = c.op /\ g.to = Tail(c.to) /\ g.cmd = c.cmd /\ g.wait = c.wait
          /\ g.free = c.free /\ g.prm = c.prm /\ g.status = c.status
          /\ g.sent = IF c.wait THEN c.sent \cup {m} ELSE c.sent
      BY <1>2, <1>4, <1>9, <3>1 DEF Call
    <3>3. call' = [call EXCEPT ![t] = g] /\ ret' = ret
      BY <1>1, <1>5, <2>2, <3>1
    <3> QED BY <1>12, <2>2, <3>2, <3>3
  <2> QED BY <2>1, <2>2
<1> DEFINE Over == e = NoCall /\ ~c.wait
           Goes == /\ e.op = c.op /\ e.to = Tail(c.to) /\ e.cmd = c.cmd /\ e.wait = c.wait
                   /\ e.free = c.free /\ e.prm = c.prm /\ e.status = c.status
                   /\ e.sent = IF c.wait THEN c.sent \cup {m} ELSE c.sent
                   /\ ~(Len(c.to) = 1 /\ ~c.wait)
<1>14. TypeOK'
  <2>1. \A u \in Tasks : Len(rcv'[u]) <= OSA_MSGQ_LEN_MAX
    <3>1. Len(rcv[d]) \in Nat
      BY <1>4, <1>9
    <3>2. \A u \in Tasks : Len(rcv[u]) <= OSA_MSGQ_LEN_MAX
      BY DEF TypeOK
    <3>3. Len(rcv'[d]) <= OSA_MSGQ_LEN_MAX
      BY <1>6, <1>10, <3>1
    <3> QED BY <1>10, <3>2, <3>3
  <2>2. \A u \in Tasks : call'[u].sent \subseteq MsgIds
    BY <1>13 DEF Call
  <2>3. ret' \in [Tasks -> Statuses]
    BY <1>13 DEF TypeOK, Statuses
  <2>4. DOMAIN heap' \subseteq MsgIds
    BY <1>7, <1>9 DEF TypeOK
  <2> QED BY <1>6, <1>8, <1>10, <2>1, <2>2, <2>3, <2>4 DEF TypeOK
<1>15. \A u \in Tasks : CallOK(call[u])'
  <2>1. ASSUME NEW u \in Tasks, u # t PROVE CallOK(call[u])'
    BY <2>1, <1>6, <1>13 DEF CallOK
  <2>2. ASSUME Over PROVE CallOK(call[t])'
    <3>1. CallOK(e)'
      BY <2>2, NoCallOK
    <3> QED BY <3>1, <1>12 DEF CallOK
  <2>3. ASSUME Goes PROVE CallOK(call[t])'
    <3>1. /\ Sending(e) /\ e.cmd \in Cmds
          /\ ~e.wait => e.sent = {}
          /\ e.free <=> e.prm # NoPrm
          /\ e.free => e.prm \in prms'
          /\ ~(e.free /\ ~e.wait)
      BY <2>3, <1>2, <1>6 DEF CallOK, Sending
    <3>2. ASSUME e.op = "send" PROVE e.to = <<>> /\ \A x, y \in e.sent : x = y
      <4>1. Len(c.to) = 1 /\ c.sent = {}
        BY <2>3, <3>2, <1>2 DEF CallOK
      <4>2. Len(e.to) = 0 /\ e.to \in Seq(Tasks)
        BY <2>3, <4>1, <1>4
      <4>3. e.to = <<>>
        BY <4>2
      <4>4. e.sent \subseteq {m}
        BY <2>3, <4>1
      <4> QED BY <4>3, <4>4
    <3>3. CallOK(e)'
      BY <3>1, <3>2 DEF CallOK
    <3> QED BY <3>3, <1>12 DEF CallOK
  <2> QED BY <2>1, <2>2, <2>3, <1>13
<1>16. c.sent \subseteq e.sent /\ (c.wait => m \in e.sent) /\ \A x \in e.sent : x \in c.sent \/ (x = m /\ c.wait)
  BY <1>2, <1>13, NoCallOK DEF CallOK
<1>17. e.prm \in {c.prm, NoPrm} /\ (e.prm # NoPrm => c.prm # NoPrm /\ c.wait)
  BY <1>2, <1>13, NoCallOK DEF CallOK
<1>18. Awaited'
  <2>1. \A x \in e.sent : e.prm = c.prm /\ e.free = c.free
    BY <1>2, <1>13, NoCallOK DEF CallOK
  <2>2. ASSUME NEW u \in Tasks, NEW x \in call'[u].sent
        PROVE  /\ x \in DOMAIN heap' /\ heap'[x].wait /\ heap'[x].from = u
               /\ heap'[x].prm = call'[u].prm /\ heap'[x].free = call'[u].free
    <3>1. CASE u # t
      BY <2>2, <3>1, <1>7, <1>13 DEF Awaited
    <3>2. CASE u = t /\ x \in c.sent
      BY <3>2, <2>1, <2>2, <1>1, <1>7, <1>12, <1>16 DEF Awaited
    <3>3. CASE u = t /\ x = m /\ c.wait
      BY <3>3, <2>1, <2>2, <1>7, <1>12, <1>16
    <3> QED BY <2>2, <3>1, <3>2, <3>3, <1>12, <1>16
  <2>3. ASSUME NEW x \in DOMAIN heap', heap'[x].wait PROVE x \in call'[heap'[x].from].sent
    <3>1. CASE x = m
      BY <2>3, <3>1, <1>7, <1>12, <1>16
    <3>2. CASE x \in DOMAIN heap
      <4>1. x \in call[heap[x].from].sent /\ heap[x].from \in Tasks
        BY <2>3, <3>2, <1>7 DEF Awaited, TypeOK, Message
      <4> QED BY <4>1, <3>2, <1>1, <1>7, <1>12, <1>13, <1>16
    <3> QED BY <1>7, <3>1, <3>2
  <2> QED BY <2>2, <2>3 DEF Awaited
<1>19. PrmOwned'
  <2>0. \A x \in DOMAIN heap : c.prm # NoPrm /\ heap[x].prm = c.prm => x \in c.sent
    BY <1>1 DEF PrmOwned, PrmOfCall
  <2>1. PrmAlive'
    <3>1. (c.free <=> c.prm # NoPrm) /\ (c.free => c.prm \in prms)
      BY <1>2 DEF CallOK
    <3>2. ASSUME NEW x \in DOMAIN heap'
          PROVE  (heap'[x].free <=> heap'[x].prm # NoPrm) /\ (heap'[x].free => heap'[x].prm \in prms')
      <4>1. CASE x = m
        BY <4>1, <3>1, <1>6, <1>7
      <4>2. CASE x \in DOMAIN heap
        BY <4>2, <1>6, <1>7 DEF PrmOwned, PrmAlive
      <4> QED BY <1>7, <4>1, <4>2
    <3> QED BY <3>2 DEF PrmAlive
  <2>2. PrmShared'
    <3>1. ASSUME NEW x \in DOMAIN heap, heap[x].prm = c.prm, c.prm # NoPrm
          PROVE  heap[x].wait /\ heap[x].from = t /\ c.wait
      BY <3>1, <2>0, <1>1, <1>2 DEF Awaited, CallOK
    <3>2. ASSUME NEW x \in DOMAIN heap', NEW y \in DOMAIN heap',
                 heap'[x].free, heap'[x].prm = heap'[y].prm, x # y
          PROVE  heap'[x].wait /\ heap'[y].wait /\ heap'[x].from = heap'[y].from
      <4>1. heap'[x].prm # NoPrm
        BY <3>2, <2>1 DEF PrmAlive
      <4>2. CASE x = m
        BY <4>1, <4>2, <3>1, <3>2, <1>7
      <4>3. CASE y = m
        BY <4>1, <4>3, <3>1, <3>2, <1>7
      <4>4. CASE x # m /\ y # m
        BY <4>4, <3>2, <1>7 DEF PrmOwned, PrmShared
      <4> QED BY <4>2, <4>3, <4>4
    <3> QED BY <3>2 DEF PrmShared
  <2>3. PrmOfOne'
    BY <1>1, <1>12, <1>13, <1>17 DEF PrmOwned, PrmOfOne
  <2>4. PrmOfCall'
    <3>1. ASSUME NEW x \in DOMAIN heap', NEW u \in Tasks,
                 call'[u].prm # NoPrm, heap'[x].prm = call'[u].prm
          PROVE  x \in call'[u].sent
      <4>1. CASE u = t /\ x = m
        BY <4>1, <3>1, <1>12, <1>16, <1>17
      <4>2. CASE u = t /\ x # m
        BY <4>2, <3>1, <2>0, <1>7, <1>12, <1>16, <1>17
      <4>3. CASE u # t /\ x = m
        BY <4>3, <3>1, <1>1, <1>7, <1>13 DEF PrmOwned, PrmOfOne
      <4>4. CASE u # t /\ x # m
        BY <4>4, <3>1, <1>7, <1>13 DEF PrmOwned, PrmOfCall
      <4> QED BY <4>1, <4>2, <4>3, <4>4
    <3> QED BY <3>1 DEF PrmOfCall
  <2>5. PrmUsed'
    <3>1. ASSUME NEW q \in prms
          PROVE  (\E x \in DOMAIN heap' : heap'[x].prm = q) \/ \E u \in Tasks : call'[u].prm = q
      <4>1. CASE \E x \in DOMAIN heap : heap[x].prm = q
        BY <4>1, <1>7
      <4>2. CASE c.prm = q
        BY <4>2, <1>7
      <4>3. CASE \E u \in Tasks : u # t /\ call[u].prm = q
        BY <4>3, <1>13
      <4> QED BY <4>1, <4>2, <4>3, <1>1 DEF PrmOwned, PrmUsed
    <3> QED BY <3>1, <1>6 DEF PrmUsed
  <2> QED BY <2>1, <2>2, <2>3, <2>4, <2>5, <1>6 DEF PrmOwned
<1>20. AcksExpected'
  BY <1>1, <1>6, <1>12, <1>13, <1>16 DEF AcksExpected
<1>21. \A u \in Tasks : Answered(u)'
  <2>1. \A u \in Tasks : \A x \in Contents(ack[u]) : x \in DOMAIN heap /\ heap'[x] = heap[x]
    BY <1>7, InQueue DEF Owned
  <2>2. ASSUME NEW u \in Tasks, u # t PROVE Answered(u)'
    <3>1. call'[u] = call[u] /\ ret'[u] = ret[u]
      BY <2>2, <1>13 DEF TypeOK
    <3> QED BY <3>1, <2>1, <1>6 DEF Answered
  <2>3. CASE Over /\ ret' = [ret EXCEPT ![t] = "SOK"]
    <3>1. given[t] = {} /\ ret'[t] = "SOK"
      BY <2>3, <1>1, <1>2 DEF Answered, TypeOK
    <3> QED BY <3>1, <2>2, <2>3, <1>6, <1>12, NoCallOK DEF Answered
  <2>4. CASE Goes /\ ret' = ret
    <3>1. Sending(e)
      BY <2>4, <1>2 DEF Sending
    <3> QED BY <3>1, <2>1, <2>2, <2>4, <1>1, <1>2, <1>6, <1>12 DEF Answered
  <2> QED BY <2>3, <2>4, <1>13
<1> QED BY <1>6, <1>8, <1>11, <1>13, <1>14, <1>15, <1>18, <1>19, <1>20, <1>21

-----------------------------------------------------------------------------
(* A message leaves the queue it was received in, or the handler. *)
Leaves(m) ==
  /\ rcv' \in [Tasks -> Seq(MsgIds)] /\ hand' \in [Tasks -> MsgIds \cup {NoMsg}]
  /\ OneEach(rcv') /\ \A u \in Tasks : Len(rcv'[u]) <= OSA_MSGQ_LEN_MAX
  /\ \A t, u \in Tasks : hand'[t] = hand'[u] /\ hand'[t] # NoMsg => t = u
  /\ InQueues(rcv') = InQueues(rcv) \ {m} /\ InHands(hand') = InHands(hand) \ {m}

(* The handler is done with its message. *)
LEMMA HandLeaves ==
  ASSUME MbxInv, NEW t \in Tasks, hand[t] # NoMsg,
         hand' = [hand EXCEPT ![t] = NoMsg], UNCHANGED rcv
  PROVE  Leaves(hand[t]) /\ hand[t] \in DOMAIN heap /\ hand[t] \notin InQueues(ack)
<1> USE DEF MbxInv
<1>1. hand \in [Tasks -> MsgIds \cup {NoMsg}] /\ rcv \in [Tasks -> Seq(MsgIds)]
  BY DEF TypeOK
<1>2. /\ hand'[t] = NoMsg /\ \A u \in Tasks : u # t => hand'[u] = hand[u]
      /\ hand' \in [Tasks -> MsgIds \cup {NoMsg}]
  BY <1>1
<1>3. hand[t] \in InHands(hand)
  BY DEF InHands
<1>4. \A u \in Tasks : u # t => hand[u] # hand[t]
  BY DEF Owned
<1>5. InHands(hand') = InHands(hand) \ {hand[t]}
  BY <1>2, <1>4 DEF InHands
<1>6. \A u, v \in Tasks : hand'[u] = hand'[v] /\ hand'[u] # NoMsg => u = v
  BY <1>2 DEF Owned
<1>7. hand[t] \in DOMAIN heap /\ hand[t] \notin InQueues(ack) /\ hand[t] \notin InQueues(rcv)
  BY <1>3 DEF Owned
<1>8. OneEach(rcv') /\ \A u \in Tasks : Len(rcv'[u]) <= OSA_MSGQ_LEN_MAX
  BY DEF Owned, TypeOK
<1>9. InQueues(rcv') = InQueues(rcv) \ {hand[t]}
  BY <1>7
<1> QED BY <1>1, <1>2, <1>5, <1>6, <1>7, <1>8, <1>9 DEF Leaves

(* A message is answered out of the queue (OSA_mbxFlush, OSA_mbxWaitCmd). *)
LEMMA HeadLeaves ==
  ASSUME MbxInv, NEW t \in Tasks, rcv[t] # <<>>, rcv' = [rcv EXCEPT ![t] = Tail(@)],
         UNCHANGED hand
  PROVE  /\ Leaves(Head(rcv[t])) /\ Head(rcv[t]) \in DOMAIN heap
         /\ Head(rcv[t]) \notin InQueues(ack)
<1> USE DEF MbxInv
<1>1. PICK m : m = Head(rcv[t])
  OBVIOUS
<1>2. rcv \in [Tasks -> Seq(MsgIds)] /\ OneEach(rcv) /\ Popped(rcv, rcv', t)
  BY DEF TypeOK, Owned, Popped
<1>3. /\ rcv' \in [Tasks -> Seq(MsgIds)] /\ OneEach(rcv') /\ m \in MsgIds
      /\ m \in Contents(rcv[t]) /\ InQueues(rcv') = InQueues(rcv) \ {m}
      /\ Len(rcv'[t]) = Len(rcv[t]) - 1
      /\ \A u \in Tasks : u # t => rcv'[u] = rcv[u]
  BY <1>1, <1>2, QueuePop
<1>4. m \in InQueues(rcv)
  BY <1>3, InQueue
<1>5. m \in DOMAIN heap /\ m \notin InQueues(ack) /\ m \notin InHands(hand)
  BY <1>4 DEF Owned
<1>6. \A u \in Tasks : Len(rcv'[u]) <= OSA_MSGQ_LEN_MAX
  <2>1. Len(rcv[t]) \in Nat /\ Len(rcv[t]) <= OSA_MSGQ_LEN_MAX
    BY <1>2 DEF TypeOK
  <2> QED BY <1>3, <2>1 DEF TypeOK
<1>7. hand' = hand /\ hand \in [Tasks -> MsgIds \cup {NoMsg}]
  BY DEF TypeOK
<1>8. \A u, v \in Tasks : hand'[u] = hand'[v] /\ hand'[u] # NoMsg => u = v
  BY <1>7 DEF Owned
<1>9. InHands(hand') = InHands(hand) \ {m}
  BY <1>5, <1>7
<1> QED BY <1>1, <1>3, <1>5, <1>6, <1>7, <1>8, <1>9 DEF Leaves

(* OSA_mbxAckOrFreeMsg of a message whose sender waits: it is now in the   *)
(* sender's ack queue, with the answer.                                    *)
LEMMA StepAck ==
  ASSUME MbxInv, NEW m \in DOMAIN heap, Leaves(m), m \notin InQueues(ack), heap[m].wait,
         NEW s, s = heap[m].from, NEW status \in Statuses, Room(ack[s]),
         heap' = [heap EXCEPT ![m].status = status],
         ack' = [ack EXCEPT ![s] = Append(@, m)],
         given' = [given EXCEPT ![s] = @ \cup {status}],
         UNCHANGED <<prms, freed, call, ret, calls>>
  PROVE  MbxInv'
<1> USE DEF MbxInv
<1>1. s \in Tasks /\ m \in MsgIds /\ heap[m] \in Message
  BY DEF TypeOK, Message
<1>2. /\ DOMAIN heap' = DOMAIN heap /\ heap' \in [DOMAIN heap -> Message]
      /\ \A x \in DOMAIN heap : /\ heap'[x].wait = heap[x].wait /\ heap'[x].free = heap[x].free
                                /\ heap'[x].prm = heap[x].prm /\ heap'[x].from = heap[x].from
                                /\ x # m => heap'[x] = heap[x]
      /\ heap'[m].status = status
  <2>1. PICK r : r = [heap[m] EXCEPT !.status = status]
    OBVIOUS
  <2>2. /\ r \in Message /\ r.wait = heap[m].wait /\ r.free = heap[m].free /\ r.prm = heap[m].prm
        /\ r.from = heap[m].from /\ r.status = status
    BY <1>1, <2>1 DEF Message
  <2>3. heap' = [heap EXCEPT ![m] = r]
    BY <2>1
  <2> QED BY <2>2, <2>3
<1>3. m \in call[s].sent /\ Sending(call[s]) /\ call[s].wait
  BY <1>1 DEF Awaited, CallOK
<1>4. ack \in [Tasks -> Seq(MsgIds)] /\ OneEach(ack) /\ Pushed(ack, ack', s, m)
  BY DEF TypeOK, Owned, Pushed
<1>5. /\ ack' \in [Tasks -> Seq(MsgIds)] /\ OneEach(ack')
      /\ InQueues(ack') = InQueues(ack) \cup {m}
      /\ Contents(ack'[s]) = Contents(ack[s]) \cup {m}
      /\ Len(ack'[s]) = Len(ack[s]) + 1
      /\ \A u \in Tasks : u # s => ack'[u] = ack[u]
  <2>1. m \notin InQueues(ack)
    OBVIOUS
  <2> QED BY ONLY <1>1, <1>4, <2>1, QueuePush
<1>6. Owned'
  <2>1. /\ InQueues(rcv) \cap InQueues(ack) = {}
        /\ (InQueues(rcv) \cup InQueues(ack)) \cap InHands(hand) = {}
        /\ DOMAIN heap = InQueues(rcv) \cup InQueues(ack) \cup InHands(hand)
    BY DEF Owned
  <2>2. InQueues(rcv') = InQueues(rcv) \ {m} /\ InHands(hand') = InHands(hand) \ {m}
    BY DEF Leaves
  <2>3. /\ InQueues(rcv') \cap InQueues(ack') = {}
        /\ (InQueues(rcv') \cup InQueues(ack')) \cap InHands(hand') = {}
        /\ DOMAIN heap' = InQueues(rcv') \cup InQueues(ack') \cup InHands(hand')
    <3>1. m \notin InQueues(ack) /\ m \in DOMAIN heap
      OBVIOUS
    <3> QED BY ONLY <1>2, <1>5, <2>1, <2>2, <3>1
  <2> QED BY <1>5, <2>3 DEF Owned, Leaves
<1>7. given' \in [Tasks -> SUBSET Statuses] /\ given'[s] = given[s] \cup {status}
      /\ \A u \in Tasks : u # s => given'[u] = given[u]
  BY <1>1 DEF TypeOK
<1>8. TypeOK'
  <2>1. \A u \in Tasks : Len(ack'[u]) <= OSA_MSGQ_LEN_MAX
    <3>1. Len(ack[s]) \in Nat /\ Len(ack[s]) < OSA_MSGQ_LEN_MAX
      BY <1>1, <1>4 DEF Room
    <3>2. \A u \in Tasks : Len(ack[u]) <= OSA_MSGQ_LEN_MAX
      BY DEF TypeOK
    <3>3. Len(ack'[s]) <= OSA_MSGQ_LEN_MAX
      BY <1>5, <3>1
    <3> QED BY <1>5, <3>2, <3>3
  <2> QED BY <1>2, <1>5, <1>7, <2>1 DEF TypeOK, Leaves
<1>9. \A u \in Tasks : CallOK(call[u])'
  BY DEF CallOK
<1>10. Awaited'
  BY <1>2 DEF Awaited
<1>11. AcksExpected'
  BY <1>3, <1>5 DEF AcksExpected
<1>12. PrmOwned'
  <2>1. PrmAlive' /\ PrmShared'
    BY <1>2 DEF PrmOwned, PrmAlive, PrmShared
  <2>2. PrmOfCall' /\ PrmOfOne'
    BY <1>2 DEF PrmOwned, PrmOfCall, PrmOfOne
  <2>3. PrmUsed'
    BY <1>2 DEF PrmOwned, PrmUsed
  <2> QED BY <2>1, <2>2, <2>3 DEF PrmOwned
<1>13. \A u \in Tasks : Answered(u)'
  <2>1. \A u \in Tasks : \A x \in Contents(ack[u]) : x \in DOMAIN heap /\ x # m /\ heap'[x] = heap[x]
    BY <1>2, InQueue DEF Owned
  <2>2. ASSUME NEW u \in Tasks, u # s PROVE Answered(u)'
    BY <2>1, <2>2, <1>5, <1>7 DEF Answered
  <2>3. Answered(s)'
    <3>1. /\ \A x \in Contents(ack[s]) : heap[x].status \in given[s]
          /\ call[s].status = "EFAIL" => "EFAIL" \in given[s]
          /\ "EFAIL" \in given[s] => \/ call[s].status = "EFAIL"
                                     \/ \E x \in Contents(ack[s]) : heap[x].status = "EFAIL"
      BY <1>1, <1>3 DEF Answered
    <3>2. \A x \in Contents(ack'[s]) : heap'[x].status \in given'[s]
      BY <1>1, <1>2, <1>5, <1>7, <2>1, <3>1
    <3>3. call[s].status = "EFAIL" => "EFAIL" \in given'[s]
      BY <1>7, <3>1
    <3>4. "EFAIL" \in given'[s] => \/ call[s].status = "EFAIL"
                                   \/ \E x \in Contents(ack'[s]) : heap'[x].status = "EFAIL"
      <4>1. CASE status = "EFAIL"
        BY <4>1, <1>2, <1>5
      <4>2. CASE "EFAIL" \in given[s]
        BY <4>2, <3>1, <2>1, <1>1, <1>5
      <4> QED BY <4>1, <4>2, <1>7
    <3> QED BY <1>3, <3>2, <3>3, <3>4 DEF Answered
  <2> QED BY <2>2, <2>3
<1> QED BY <1>2, <1>6, <1>8, <1>9, <1>10, <1>11, <1>12, <1>13

(* The heap without one message. *)
LEMMA MinusOne ==
  ASSUME heap \in [DOMAIN heap -> Message], NEW m \in DOMAIN heap, heap' = Minus(heap, {m})
  PROVE  /\ DOMAIN heap' = DOMAIN heap \ {m} /\ heap' \in [DOMAIN heap' -> Message]
         /\ \A x \in DOMAIN heap : x # m => x \in DOMAIN heap' /\ heap'[x] = heap[x]
BY DEF Minus

(* OSA_mbxAckOrFreeMsg of a message nobody waits for: it is freed, with    *)
(* its parameter, which no other message and no call has.                  *)
LEMMA StepFree ==
  ASSUME MbxInv, NEW m \in DOMAIN heap, Leaves(m), m \notin InQueues(ack), ~heap[m].wait,
         OSA_mbxFreeMsg({m}), UNCHANGED <<ack, given, call, ret, calls>>
  PROVE  MbxInv'
<1> USE DEF MbxInv
<1>1. PICK P : P = IF heap[m].free THEN {heap[m].prm} ELSE {}
  OBVIOUS
<1>2. PrmOf(m) = P /\ P \subseteq prms /\ NoPrm \notin P
  <2>1. heap[m].free => heap[m].prm # NoPrm /\ heap[m].prm \in prms
    BY DEF PrmOwned, PrmAlive
  <2> QED BY <1>1, <2>1 DEF PrmOf
<1>3. heap' = Minus(heap, {m}) /\ prms' = prms \ P /\ freed' = FALSE
  <2>1. UNION {PrmOf(x) : x \in {m}} = P
    BY <1>2
  <2>2. heap' = Minus(heap, {m}) /\ prms' = prms \ P
        /\ freed' = (freed \/ ~({m} \subseteq DOMAIN heap) \/ ~(P \subseteq prms))
    BY <2>1 DEF OSA_mbxFreeMsg, Release
  <2>3. {m} \subseteq DOMAIN heap /\ ~freed
    OBVIOUS
  <2> QED BY <1>2, <2>2, <2>3
<1>4. /\ DOMAIN heap' = DOMAIN heap \ {m} /\ heap' \in [DOMAIN heap' -> Message]
      /\ \A x \in DOMAIN heap : x # m => x \in DOMAIN heap' /\ heap'[x] = heap[x]
  BY <1>3, MinusOne
<1>5. \A u \in Tasks : m \notin call[u].sent
  BY DEF Awaited
<1>6. \A x \in DOMAIN heap : x # m => heap[x].prm \notin P
  BY <1>1, <1>2 DEF PrmOwned, PrmShared
<1>7. \A u \in Tasks : call[u].prm \notin P
  BY <1>1, <1>2, <1>5 DEF PrmOwned, PrmOfCall
<1>8. Owned'
  <2>1. /\ InQueues(rcv) \cap InQueues(ack) = {}
        /\ (InQueues(rcv) \cup InQueues(ack)) \cap InHands(hand) = {}
        /\ DOMAIN heap = InQueues(rcv) \cup InQueues(ack) \cup InHands(hand)
        /\ m \notin InQueues(ack) /\ m \in DOMAIN heap /\ ack' = ack
    BY DEF Owned
  <2>2. InQueues(rcv') = InQueues(rcv) \ {m} /\ InHands(hand') = InHands(hand) \ {m}
    BY DEF Leaves
  <2>3. /\ InQueues(rcv') \cap InQueues(ack') = {}
        /\ (InQueues(rcv') \cup InQueues(ack')) \cap InHands(hand') = {}
        /\ DOMAIN heap' = InQueues(rcv') \cup InQueues(ack') \cup InHands(hand')
    BY ONLY <1>4, <2>1, <2>2
  <2>4. OneEach(ack')
    BY DEF Owned
  <2> QED BY <2>3, <2>4 DEF Owned, Leaves
<1>9. TypeOK'
  BY <1>3, <1>4 DEF TypeOK, Leaves
<1>10. \A u \in Tasks : CallOK(call[u])'
  BY <1>3, <1>7 DEF CallOK
<1>11. Awaited'
  <2>1. ASSUME NEW u \in Tasks, NEW x \in call'[u].sent
        PROVE  /\ x \in DOMAIN heap' /\ heap'[x].wait /\ heap'[x].from = u
               /\ heap'[x].prm = call'[u].prm /\ heap'[x].free = call'[u].free
    BY <2>1, <1>4, <1>5 DEF Awaited
  <2>2. ASSUME NEW x \in DOMAIN heap', heap'[x].wait PROVE x \in call'[heap'[x].from].sent
    BY <2>2, <1>4 DEF Awaited
  <2> QED BY <2>1, <2>2 DEF Awaited
<1>12. AcksExpected'
  BY DEF AcksExpected
<1>13. PrmOwned'
  <2>1. PrmAlive'
    BY <1>3, <1>4, <1>6 DEF PrmOwned, PrmAlive
  <2>2. PrmShared'
    BY <1>4 DEF PrmOwned, PrmShared
  <2>3. PrmOfCall' /\ PrmOfOne'
    BY <1>4 DEF PrmOwned, PrmOfCall, PrmOfOne
  <2>4. PrmUsed'
    <3> SUFFICES ASSUME NEW q \in prms, q \notin P
                 PROVE  (\E x \in DOMAIN heap' : heap'[x].prm = q) \/ \E u \in Tasks : call[u].prm = q
      BY <1>3 DEF PrmUsed
    <3>1. q # NoPrm
      BY DEF PrmOwned, NoPrm
    <3>2. heap[m].prm # q
      BY <1>1, <3>1 DEF PrmOwned, PrmAlive
    <3> QED BY <3>2, <1>4 DEF PrmOwned, PrmUsed
  <2> QED BY <1>3, <2>1, <2>2, <2>3, <2>4 DEF PrmOwned
<1>14. \A u \in Tasks : Answered(u)'
  <2>1. \A u \in Tasks : \A x \in Contents(ack[u]) : x \in DOMAIN heap /\ x # m /\ heap'[x] = heap[x]
    BY <1>4, InQueue DEF Owned
  <2> QED BY <2>1 DEF Answered
<1> QED BY <1>3, <1>4, <1>8, <1>9, <1>10, <1>11, <1>12, <1>13, <1>14

(* OSA_mbxAckOrFreeMsg, either way. *)
LEMMA StepAckOrFree ==
  ASSUME MbxInv, NEW m \in DOMAIN heap, Leaves(m), m \notin InQueues(ack),
         NEW status \in Statuses, AckOrFree(m, status), UNCHANGED <<call, ret, calls>>
  PROVE  MbxInv'
<1>1. CASE heap[m].wait
  BY <1>1, StepAck DEF AckOrFree, MustAck
<1>2. CASE ~heap[m].wait
  BY <1>2, StepFree DEF AckOrFree, MustAck
<1> QED BY <1>1, <1>2

-----------------------------------------------------------------------------
(* An acknowledgement comes back: the message is freed, and with the last  *)
(* one of a call the parameter they share.                                 *)
LEMMA StepWaitAck ==
  ASSUME MbxInv, NEW t \in Tasks, WaitAck(t) PROVE MbxInv'
<1> USE DEF MbxInv
<1>1. PICK c : c = call[t]
  OBVIOUS
<1>2. PICK m : m = Head(ack[t])
  OBVIOUS
<1>3. PICK e : e = call'[t]
  OBVIOUS
<1>4. PICK k : k = IF c.status = "SOK" THEN heap[m].status ELSE c.status
  OBVIOUS
<1>5. PICK P : P = IF c.free /\ c.sent = {m} THEN {c.prm} ELSE {}
  OBVIOUS
<1>6. /\ ack \in [Tasks -> Seq(MsgIds)] /\ OneEach(ack) /\ Popped(ack, ack', t)
      /\ UNCHANGED <<rcv, hand, given, calls>>
  BY DEF WaitAck, Popped, TypeOK, Owned
<1>7. /\ ack' \in [Tasks -> Seq(MsgIds)] /\ OneEach(ack') /\ m \in MsgIds
      /\ m \in Contents(ack[t]) /\ InQueues(ack') = InQueues(ack) \ {m}
      /\ Contents(ack'[t]) = Contents(ack[t]) \ {m}
      /\ Len(ack'[t]) = Len(ack[t]) - 1
      /\ \A u \in Tasks : u # t => ack'[u] = ack[u]
  <2>1. ack \in [Tasks -> Seq(MsgIds)] /\ OneEach(ack) /\ Popped(ack, ack', t)
    BY <1>6
  <2>2. /\ ack' \in [Tasks -> Seq(MsgIds)] /\ OneEach(ack')
        /\ Head(ack[t]) \in MsgIds /\ Head(ack[t]) \in Contents(ack[t])
        /\ InQueues(ack') = InQueues(ack) \ {Head(ack[t])}
        /\ Contents(ack'[t]) = Contents(ack[t]) \ {Head(ack[t])}
        /\ Len(ack'[t]) = Len(ack[t]) - 1
        /\ \A u \in Tasks : u # t => ack'[u] = ack[u]
    BY <2>1, QueuePop, ZenonT(30)
  <2> QED BY <1>2, <2>2
<1>8. /\ c \in Call /\ CallOK(c) /\ c.to = <<>> /\ m \in c.sent
      /\ Contents(ack[t]) \subseteq c.sent
  BY <1>1, <1>7 DEF WaitAck, AcksExpected
<1>9. /\ Sending(c) /\ c.wait /\ c.cmd \in Cmds /\ (c.free <=> c.prm # NoPrm)
      /\ (c.free => c.prm \in prms) /\ (c.op = "send" => c.sent = {m})
  BY <1>8 DEF CallOK
<1>10. /\ m \in DOMAIN heap /\ heap[m] \in Message /\ heap[m].wait /\ heap[m].from = t
       /\ heap[m].prm = c.prm /\ heap[m].free = c.free
  BY <1>1, <1>8 DEF Awaited, TypeOK
<1>11. P \subseteq prms /\ NoPrm \notin P
  BY <1>5, <1>9
<1>12. heap' = Minus(heap, {m}) /\ prms' = prms \ P /\ freed' = FALSE
  <2>1. Release({m}, P)
    <3>1. CASE c.op = "send"
      <4>1. PrmOf(m) = P
        BY <3>1, <1>5, <1>9, <1>10 DEF PrmOf
      <4>2. UNION {PrmOf(x) : x \in {m}} = P
        BY <4>1
      <4>3. OSA_mbxFreeMsg({m})
        BY <3>1, <1>1, <1>2 DEF WaitAck, AckReceived
      <4> QED BY <4>2, <4>3 DEF OSA_mbxFreeMsg
    <3>2. CASE c.op # "send"
      BY <3>2, <1>1, <1>2, <1>5, <1>8 DEF WaitAck, AckReceived
    <3> QED BY <3>1, <3>2
  <2>2. {m} \subseteq DOMAIN heap /\ ~freed
    BY <1>10
  <2> QED BY <1>11, <2>1, <2>2 DEF Release
<1>13. /\ DOMAIN heap' = DOMAIN heap \ {m} /\ heap' \in [DOMAIN heap' -> Message]
       /\ \A x \in DOMAIN heap : x # m => x \in DOMAIN heap' /\ heap'[x] = heap[x]
  BY <1>10, <1>12, MinusOne
<1>14. k \in Statuses
  BY <1>4, <1>8, <1>10 DEF Call, Message
<1> DEFINE Over == e = NoCall /\ c.sent = {m} /\ ret' = [ret EXCEPT ![t] = k]
           Goes == /\ e.op = c.op /\ e.to = c.to /\ e.cmd = c.cmd /\ e.wait = c.wait
                   /\ e.free = c.free /\ e.prm = c.prm /\ e.status = k
                   /\ e.sent = c.sent \ {m} /\ c.sent # {m} /\ ret' = ret
<1>15. /\ call' \in [Tasks -> Call] /\ \A u \in Tasks : u # t => call'[u] = call[u]
       /\ Over \/ Goes
  <2>1. StatusAfter(t, m) = k /\ StillWaited(t, m) = c.sent \ {m}
    BY <1>1, <1>4, <1>8 DEF StatusAfter, StillWaited
  <2>2. CASE c.sent = {m}
    <3>1. call' = [call EXCEPT ![t] = NoCall] /\ ret' = [ret EXCEPT ![t] = k]
      BY <1>2, <2>1, <2>2 DEF WaitAck
    <3> QED BY <1>3, <2>2, <3>1, NoCallOK
  <2>3. CASE c.sent # {m}
    <3>1. PICK g : g = [c EXCEPT !.sent = c.sent \ {m}, !.status = k]
      OBVIOUS
    <3>2. /\ g \in Call /\ g.op = c.op /\ g.to = c.to /\ g.cmd = c.cmd /\ g.wait = c.wait
          /\ g.free = c.free /\ g.prm = c.prm /\ g.status = k /\ g.sent = c.sent \ {m}
      BY <1>8, <1>14, <3>1 DEF Call
    <3>3. c.sent \ {m} # {}
      BY <1>8, <2>3
    <3>4. call' = [call EXCEPT ![t] = g] /\ ret' = ret
      BY <1>1, <1>2, <2>1, <3>1, <3>3 DEF WaitAck
    <3> QED BY <1>3, <2>3, <3>2, <3>4
  <2> QED BY <2>2, <2>3
<1>16. e.sent = c.sent \ {m} /\ \A x \in e.sent : e.prm = c.prm /\ e.free = c.free
  BY <1>15, NoCallOK
<1>17. Owned'
  <2>1. /\ InQueues(rcv) \cap InQueues(ack) = {}
        /\ (InQueues(rcv) \cup InQueues(ack)) \cap InHands(hand) = {}
        /\ DOMAIN heap = InQueues(rcv) \cup InQueues(ack) \cup InHands(hand)
    BY DEF Owned
  <2>2. m \in InQueues(ack)
    BY <1>7, InQueue
  <2>3. /\ InQueues(rcv') \cap InQueues(ack') = {}
        /\ (InQueues(rcv') \cup InQueues(ack')) \cap InHands(hand') = {}
        /\ DOMAIN heap' = InQueues(rcv') \cup InQueues(ack') \cup InHands(hand')
    <3>1. rcv' = rcv /\ hand' = hand
      BY <1>6
    <3> QED BY ONLY <1>7, <1>13, <2>1, <2>2, <3>1
  <2> QED BY <1>6, <1>7, <2>3 DEF Owned
<1>18. TypeOK'
  <2>1. \A u \in Tasks : Len(ack'[u]) <= OSA_MSGQ_LEN_MAX
    <3>1. Len(ack[t]) \in Nat /\ Len(ack[t]) <= OSA_MSGQ_LEN_MAX
      BY <1>6 DEF TypeOK
    <3>2. \A u \in Tasks : Len(ack[u]) <= OSA_MSGQ_LEN_MAX
      BY DEF TypeOK
    <3>3. Len(ack'[t]) <= OSA_MSGQ_LEN_MAX
      BY <1>7, <3>1
    <3> QED BY <1>7, <3>2, <3>3
  <2>2. \A u \in Tasks : call'[u].sent \subseteq MsgIds
    BY <1>15 DEF Call
  <2>3. ret' \in [Tasks -> Statuses]
    BY <1>14, <1>15 DEF TypeOK
  <2> QED BY <1>6, <1>7, <1>12, <1>13, <2>1, <2>2, <2>3 DEF TypeOK
<1>19. ASSUME NEW u \in Tasks, u # t PROVE call[u].prm \notin P
  BY <1>1, <1>5, <1>9, <1>19 DEF PrmOwned, PrmOfOne
<1>20. \A u \in Tasks : CallOK(call[u])'
  <2>1. ASSUME NEW u \in Tasks, u # t PROVE CallOK(call[u])'
    BY <2>1, <1>12, <1>15, <1>19 DEF CallOK
  <2>2. ASSUME Over PROVE CallOK(call[t])'
    <3>1. CallOK(e)'
      BY <2>2, NoCallOK
    <3> QED BY <3>1, <1>3 DEF CallOK
  <2>3. ASSUME Goes PROVE CallOK(call[t])'
    <3>1. Sending(e) /\ P = {} /\ e.wait /\ e.op # "send"
      BY <2>3, <1>5, <1>9 DEF Sending
    <3>2. CallOK(e)'
      BY <2>3, <3>1, <1>9, <1>12 DEF CallOK
    <3> QED BY <3>2, <1>3 DEF CallOK
  <2> QED BY <2>1, <2>2, <2>3, <1>15
<1>21. Awaited'
  <2>1. ASSUME NEW u \in Tasks, NEW x \in call'[u].sent
        PROVE  /\ x \in DOMAIN heap' /\ heap'[x].wait /\ heap'[x].from = u
               /\ heap'[x].prm = call'[u].prm /\ heap'[x].free = call'[u].free
    <3>1. CASE u # t
      <4>1. x \in call[u].sent /\ x # m
        BY <3>1, <2>1, <1>10, <1>15 DEF Awaited
      <4> QED BY <4>1, <3>1, <1>13, <1>15 DEF Awaited
    <3>2. CASE u = t
      <4>1. x \in e.sent /\ x \in c.sent /\ x # m /\ call'[u] = e
        BY <2>1, <3>2, <1>3, <1>16
      <4> QED BY <4>1, <3>2, <1>1, <1>13, <1>16 DEF Awaited
    <3> QED BY <3>1, <3>2
  <2>2. ASSUME NEW x \in DOMAIN heap', heap'[x].wait PROVE x \in call'[heap'[x].from].sent
    <3>1. x \in DOMAIN heap /\ x # m /\ heap'[x] = heap[x]
      BY <1>13
    <3>2. x \in call[heap[x].from].sent /\ heap[x].from \in Tasks
      BY <2>2, <3>1 DEF Awaited, TypeOK, Message
    <3> QED BY <3>1, <3>2, <1>1, <1>3, <1>15, <1>16
  <2> QED BY <2>1, <2>2 DEF Awaited
<1>22. PrmOwned'
  <2>1. \A x \in DOMAIN heap : x # m => heap[x].prm \notin P
    BY <1>1, <1>5, <1>9 DEF PrmOwned, PrmOfCall
  <2>2. PrmAlive'
    BY <1>12, <1>13, <2>1 DEF PrmOwned, PrmAlive
  <2>3. PrmShared'
    BY <1>13 DEF PrmOwned, PrmShared
  <2>4. e.prm # NoPrm => e.prm = c.prm
    BY <1>15, NoCallOK
  <2>5. PrmOfCall'
    <3>1. ASSUME NEW x \in DOMAIN heap', NEW u \in Tasks,
                 call'[u].prm # NoPrm, heap'[x].prm = call'[u].prm
          PROVE  x \in call'[u].sent
      <4>1. x \in DOMAIN heap /\ x # m /\ heap'[x] = heap[x]
        BY <1>13
      <4>2. CASE u = t
        BY <3>1, <4>1, <4>2, <2>4, <1>1, <1>3, <1>16 DEF PrmOwned, PrmOfCall
      <4>3. CASE u # t
        BY <3>1, <4>1, <4>3, <1>15 DEF PrmOwned, PrmOfCall
      <4> QED BY <4>2, <4>3
    <3> QED BY <3>1 DEF PrmOfCall
  <2>6. PrmOfOne'
    BY <1>1, <1>3, <1>15, <2>4 DEF PrmOwned, PrmOfOne
  <2>7. PrmUsed'
    <3>1. ASSUME NEW q \in prms, q \notin P
          PROVE  (\E x \in DOMAIN heap' : heap'[x].prm = q) \/ \E u \in Tasks : call'[u].prm = q
      <4>0. q # NoPrm
        BY DEF PrmOwned, NoPrm
      <4>1. CASE \E x \in DOMAIN heap : x # m /\ heap[x].prm = q
        BY <4>1, <1>13
      <4>2. CASE c.prm = q
        <5>1. Goes
          BY <4>0, <4>2, <3>1, <1>5, <1>9, <1>15
        <5> QED BY <5>1, <4>2, <1>3
      <4>3. CASE \E u \in Tasks : u # t /\ call[u].prm = q
        BY <4>3, <1>15
      <4> QED BY <4>1, <4>2, <4>3, <1>1, <1>10 DEF PrmOwned, PrmUsed
    <3> QED BY <3>1, <1>12 DEF PrmUsed
  <2> QED BY <2>2, <2>3, <2>5, <2>6, <2>7, <1>6, <1>12 DEF PrmOwned
<1>23. AcksExpected'
  BY <1>3, <1>7, <1>8, <1>15, <1>16 DEF AcksExpected
<1>24. \A u \in Tasks : Answered(u)'
  <2>1. \A u \in Tasks : \A x \in Contents(ack'[u]) : /\ x \in Contents(ack[u]) /\ x # m
                                                       /\ x \in DOMAIN heap /\ heap'[x] = heap[x]
    <3>1. ASSUME NEW u \in Tasks, NEW x \in Contents(ack'[u]) PROVE x \in Contents(ack[u]) /\ x # m
      <4>1. x \in InQueues(ack')
        BY InQueue
      <4>2. x # m
        BY <4>1, <1>7
      <4>3. x \in Contents(ack[u])
        BY <1>7
      <4> QED BY <4>2, <4>3
    <3>2. \A u \in Tasks : \A x \in Contents(ack[u]) : x \in DOMAIN heap
      BY InQueue DEF Owned
    <3> QED BY <3>1, <3>2, <1>13
  <2>2. ASSUME NEW u \in Tasks, u # t PROVE Answered(u)'
    <3>1. call'[u] = call[u] /\ ret'[u] = ret[u] /\ ack'[u] = ack[u] /\ given'[u] = given[u]
      BY <2>2, <1>6, <1>7, <1>15 DEF TypeOK
    <3>2. \A x \in Contents(ack[u]) : heap'[x] = heap[x]
      BY <2>1, <3>1
    <3> QED BY <3>1, <3>2 DEF Answered
  <2>3. /\ \A x \in Contents(ack[t]) : heap[x].status \in given[t]
        /\ c.status = "EFAIL" => "EFAIL" \in given[t]
        /\ "EFAIL" \in given[t] => \/ c.status = "EFAIL"
                                   \/ \E x \in Contents(ack[t]) : heap[x].status = "EFAIL"
    BY <1>1, <1>9 DEF Answered
  <2>4. k = "EFAIL" <=> c.status = "EFAIL" \/ heap[m].status = "EFAIL"
    BY <1>4, <1>8, <1>10 DEF Call, Message, Statuses
  <2>5. CASE Over
    <3>1. ret'[t] = k /\ ~Sending(call'[t])
      BY <2>5, <1>3, NoCallOK DEF TypeOK
    <3>2. k = "EFAIL" <=> "EFAIL" \in given[t]
      <4>1. \A x \in Contents(ack[t]) : x = m
        BY <2>5, <1>8
      <4> QED BY <4>1, <2>3, <2>4, <1>7
    <3>3. given[t] \subseteq {"SOK", "EFAIL"} /\ k \in {"SOK", "EFAIL"}
      BY <1>14 DEF TypeOK, Statuses
    <3>4. k = "SOK" <=> given[t] \subseteq {"SOK"}
      BY <3>2, <3>3
    <3>5. Answered(t)'
      BY <3>1, <3>4, <1>6 DEF Answered
    <3> QED BY <3>5, <2>2
  <2>6. CASE Goes
    <3>1. Sending(e) /\ e.status = k /\ e.wait
      BY <2>6, <1>9 DEF Sending
    <3>2. \A x \in Contents(ack'[t]) : heap'[x].status \in given[t]
      BY <2>1, <2>3
    <3>3. k = "EFAIL" => "EFAIL" \in given[t]
      BY <2>3, <2>4, <1>7
    <3>4. "EFAIL" \in given[t] => \/ k = "EFAIL"
                                  \/ \E x \in Contents(ack'[t]) : heap'[x].status = "EFAIL"
      <4> SUFFICES ASSUME "EFAIL" \in given[t], k # "EFAIL"
                   PROVE  \E x \in Contents(ack'[t]) : heap'[x].status = "EFAIL"
        OBVIOUS
      <4>1. PICK x \in Contents(ack[t]) : heap[x].status = "EFAIL"
        BY <2>3, <2>4
      <4>2. x # m
        BY <2>4, <4>1
      <4>3. x \in Contents(ack'[t])
        BY <4>2, <1>7
      <4> QED BY <4>1, <4>3, <2>1
    <3>5. Answered(t)'
      BY <3>1, <3>2, <3>3, <3>4, <1>3, <1>6 DEF Answered
    <3> QED BY <3>5, <2>2
  <2> QED BY <2>5, <2>6, <1>15
<1> QED BY <1>12, <1>13, <1>15, <1>17, <1>18, <1>20, <1>21, <1>22, <1>23, <1>24

(* OSA_mbxFlush finds no acknowledgement left: only a call that waits has  *)
(* any, and none waits while it flushes.                                   *)
LEMMA StepFlush ==
  ASSUME MbxInv, NEW t \in Tasks, OSA_mbxFlush(t) PROVE MbxInv'
<1> USE DEF MbxInv
<1>1. ~Sending(call[t])
  BY DEF OSA_mbxFlush, Sending
<1>2. Contents(ack[t]) = {}
  BY <1>1 DEF CallOK, AcksExpected
<1>3. ack[t] = <<>>
  <2>1. ack[t] \in Seq(MsgIds)
    BY DEF TypeOK
  <2>2. Len(ack[t]) \in Nat /\ 1 \notin 1 .. Len(ack[t])
    <3>1. \A i \in 1 .. Len(ack[t]) : ack[t][i] \in Contents(ack[t])
      BY DEF Contents
    <3> QED BY <1>2, <2>1, <3>1
  <2> QED BY <2>1, <2>2, EmptySeq
<1>4. ack' = ack
  BY <1>3 DEF OSA_mbxFlush, TypeOK
<1>5. heap' = heap /\ prms' = prms /\ freed' = freed
  <2>1. UNION {PrmOf(m) : m \in {}} = {}
    OBVIOUS
  <2>2. Release({}, {})
    BY <1>2, <2>1 DEF OSA_mbxFlush, OSA_mbxFreeMsg
  <2>3. Minus(heap, {}) = heap
    BY DEF Minus
  <2>4. freed' = (freed \/ ~({} \subseteq DOMAIN heap) \/ ~({} \subseteq prms)) /\ ~freed
    BY <2>2 DEF Release
  <2>5. {} \subseteq DOMAIN heap /\ {} \subseteq prms
    OBVIOUS
  <2>6. freed' = FALSE /\ freed = FALSE
    BY <2>4, <2>5 DEF TypeOK
  <2> QED BY <2>2, <2>3, <2>6 DEF Release
<1>6. /\ call' = [call EXCEPT ![t] = NoCall] /\ calls' \in calls .. MaxCalls
      /\ UNCHANGED <<heap, prms, rcv, ack, hand, ret, given, freed>>
  BY <1>4, <1>5 DEF OSA_mbxFlush, TypeOK
<1>7. CallOK(NoCall) /\ NoCall \in Call /\ ~Sending(NoCall)
  BY NoCallOK DEF NoCall, CallOK, Sending
<1> QED BY <1>1, <1>6, <1>7, StepQuietCall

(* A task that flushes, or waits for a command, handles no message. *)
Idle == \A t \in Tasks : call[t].op \in {"flush", "waitcmd"} => hand[t] = NoMsg

(* Every step keeps the invariant. *)
LEMMA MbxStep == MbxInv /\ Idle /\ [Next]_vars => MbxInv'
<1> SUFFICES ASSUME MbxInv, Idle, [Next]_vars PROVE MbxInv'
  OBVIOUS
<1> USE DEF MbxInv
<1>0. CallOK(NoCall) /\ NoCall \in Call /\ ~Sending(NoCall)
  BY NoCallOK DEF NoCall, CallOK, Sending
<1>1. ASSUME NEW t \in Tasks, OSA_mbxSendMsg(t) PROVE MbxInv'
  <2>1. PICK d \in Below[t], c \in Cmds, wait \in BOOLEAN, free \in BOOLEAN :
          CallWith(t, "send", <<d>>, c, wait, free)
    BY <1>1 DEF OSA_mbxSendMsg
  <2>2. MaySend(t) /\ <<d>> \in Seq(Tasks) /\ Len(<<d>>) = 1
    BY <1>1 DEF OSA_mbxSendMsg
  <2>3. PICK to \in Seq(Tasks) : to = <<d>> /\ Len(to) = 1
    BY ONLY <2>2
  <2>4. CallWith(t, "send", to, c, wait, free) /\ "send" \in {"send", "broadcast"}
    BY ONLY <2>1, <2>3
  <2> QED BY ONLY <2>2, <2>3, <2>4, t \in Tasks, c \in Cmds, wait \in BOOLEAN, free \in BOOLEAN,
             MbxInv, StepCallWith, ZenonT(30)
<1>2. ASSUME NEW t \in Tasks, OSA_mbxBroadcastMsg(t) PROVE MbxInv'
  <2>1. PICK to \in Lists(Below[t]), c \in Cmds, wait \in BOOLEAN, free \in BOOLEAN :
          (free /\ ~wait => Len(to) = 1) /\ CallWith(t, "broadcast", to, c, wait, free)
    BY <1>2 DEF OSA_mbxBroadcastMsg
  <2>2. MaySend(t) /\ to \in Seq(Tasks)
    <3>1. Below[t] \subseteq Tasks
      OBVIOUS
    <3>2. ASSUME NEW a \in Tasks PROVE <<a>> \in Seq(Tasks)
      OBVIOUS
    <3>3. ASSUME NEW a \in Tasks, NEW b \in Tasks PROVE <<a, b>> \in Seq(Tasks)
      OBVIOUS
    <3>4. \/ \E a \in Below[t] : to = <<a>>
          \/ \E p \in Below[t] \X Below[t] : to = <<p[1], p[2]>>
      BY DEF Lists
    <3>5. to \in Seq(Tasks)
      <4>1. CASE \E a \in Below[t] : to = <<a>>
        BY <3>1, <3>2, <4>1
      <4>2. CASE \E p \in Below[t] \X Below[t] : to = <<p[1], p[2]>>
        <5>1. PICK p \in Below[t] \X Below[t] : to = <<p[1], p[2]>>
          BY <4>2
        <5>2. p[1] \in Tasks /\ p[2] \in Tasks
          BY <3>1
        <5> QED BY <3>3, <5>1, <5>2
      <4> QED BY <3>4, <4>1, <4>2
    <3> QED BY <1>2, <3>5 DEF OSA_mbxBroadcastMsg
  <2> QED BY <2>1, <2>2, StepCallWith
<1>3. ASSUME NEW t \in Tasks, NEW op \in {"flush", "waitcmd"}, NEW cmd \in Cmds \cup {NoMsg},
             Enter(t, op, cmd)
      PROVE  MbxInv'
  <2>1. PICK c : c = [NoCall EXCEPT !.op = op, !.cmd = cmd]
    OBVIOUS
  <2>2. c \in Call /\ ~Sending(c) /\ CallOK(c)
    <3>1. c = [op |-> op, to |-> <<>>, cmd |-> cmd, wait |-> FALSE, free |-> FALSE,
               prm |-> NoPrm, sent |-> {}, status |-> "SOK"]
      BY <2>1 DEF NoCall
    <3>2. c \in Call
      BY <3>1 DEF Call, Statuses
    <3>3. ~Sending(c)
      BY <3>1 DEF Sending
    <3> QED BY <3>1, <3>2, <3>3 DEF CallOK
  <2>3. ~Sending(call[t]) /\ call' = [call EXCEPT ![t] = c]
    BY <1>3, <2>1 DEF Enter, Sending
  <2>4. calls' \in calls .. MaxCalls
    BY <1>3 DEF Enter, TypeOK
  <2> QED BY <1>3, <2>2, <2>3, <2>4, StepQuietCall DEF Enter
<1>4. ASSUME NEW t \in Tasks, OSA_mbxWaitMsg(t) PROVE MbxInv'
  <2>1. call[t] \in Call /\ ~Sending(call[t]) /\ CallOK(call[t])
    BY <1>4 DEF OSA_mbxWaitMsg, Sending
  <2>2. call' = [call EXCEPT ![t] = call[t]]
    BY <1>4 DEF OSA_mbxWaitMsg
  <2> QED BY <1>4, <2>1, <2>2, StepTake DEF OSA_mbxWaitMsg
<1>5. ASSUME NEW t \in Tasks, OSA_mbxWaitCmd(t) PROVE MbxInv'
  <2>1. hand[t] = NoMsg /\ ~Sending(call[t])
    BY <1>5 DEF OSA_mbxWaitCmd, Idle, Sending
  <2> QED BY <1>0, <1>5, <2>1, StepTake DEF OSA_mbxWaitCmd
<1>6. ASSUME NEW t \in Tasks, OSA_tskAckOrFreeMsg(t) PROVE MbxInv'
  <2>1. PICK status \in Statuses : AckOrFree(hand[t], status)
    BY <1>6 DEF OSA_tskAckOrFreeMsg
  <2>2. Leaves(hand[t]) /\ hand[t] \in DOMAIN heap /\ hand[t] \notin InQueues(ack)
    BY <1>6, HandLeaves DEF OSA_tskAckOrFreeMsg
  <2> QED BY <1>6, <2>1, <2>2, StepAckOrFree DEF OSA_tskAckOrFreeMsg
<1>7. ASSUME NEW t \in Tasks, Skip(t) PROVE MbxInv'
  <2>1. /\ Leaves(Head(rcv[t])) /\ Head(rcv[t]) \in DOMAIN heap
        /\ Head(rcv[t]) \notin InQueues(ack)
    BY <1>7, HeadLeaves DEF Skip
  <2>2. "SOK" \in Statuses
    BY DEF Statuses
  <2> QED BY <1>7, <2>1, <2>2, StepAckOrFree DEF Skip
<1>8. CASE UNCHANGED vars
  <2>1. TypeOK' /\ Owned'
    BY <1>8 DEF vars, TypeOK, Owned
  <2>2. Awaited' /\ AcksExpected'
    BY <1>8 DEF vars, Awaited, AcksExpected
  <2>3. PrmOwned'
    BY <1>8 DEF vars, PrmOwned, PrmAlive, PrmShared, PrmOfCall, PrmOfOne, PrmUsed
  <2>4. \A t \in Tasks : CallOK(call[t])' /\ Answered(t)'
    BY <1>8 DEF vars, CallOK, Answered
  <2> QED BY <1>8, <2>1, <2>2, <2>3, <2>4 DEF vars
<1>9. CASE Next
  <2>1. PICK t \in Tasks : \/ OSA_mbxSendMsg(t) \/ OSA_mbxBroadcastMsg(t)
                           \/ Enter(t, "flush", NoMsg)
                           \/ \E c \in Cmds : Enter(t, "waitcmd", c)
                           \/ Progress(t)
    BY <1>9 DEF Next
  <2>2. CASE Progress(t)
    BY <2>2, <1>4, <1>5, <1>6, <1>7, StepSend, StepWaitAck, StepFlush DEF Progress
  <2> QED BY <2>1, <2>2, <1>1, <1>2, <1>3
<1> QED BY <1>8, <1>9

(* Every step leaves a task that waits for its command without a message. *)
LEMMA IdleStep == MbxInv /\ Idle /\ [Next]_vars => Idle'
<1> SUFFICES ASSUME MbxInv, Idle, [Next]_vars PROVE Idle'
  OBVIOUS
<1>1. call \in [Tasks -> Call] /\ hand \in [Tasks -> MsgIds \cup {NoMsg}]
  BY DEF MbxInv, TypeOK
<1>2. NoCall.op = "none"
  BY DEF NoCall
<1>3. CASE UNCHANGED vars
  BY <1>3 DEF vars, Idle
<1>4. ASSUME NEW t \in Tasks,
             \A u \in Tasks : u # t => call'[u].op = call[u].op /\ hand'[u] = hand[u],
             call'[t].op \in {"flush", "waitcmd"} => hand'[t] = NoMsg
      PROVE  Idle'
  BY <1>4 DEF Idle
<1>5. ASSUME NEW t \in Tasks, OSA_mbxSendMsg(t) \/ OSA_mbxBroadcastMsg(t) PROVE Idle'
  <2>1. hand' = hand /\ call'[t].op \in {"send", "broadcast"}
        /\ \A u \in Tasks : u # t => call'[u].op = call[u].op
    BY <1>1, <1>5 DEF OSA_mbxSendMsg, OSA_mbxBroadcastMsg, CallWith
  <2> QED BY <2>1, <1>4
<1>6. ASSUME NEW t \in Tasks, NEW op, NEW cmd, Enter(t, op, cmd) PROVE Idle'
  <2>1. hand' = hand /\ hand[t] = NoMsg /\ \A u \in Tasks : u # t => call'[u].op = call[u].op
    BY <1>1, <1>6 DEF Enter
  <2> QED BY <2>1, <1>4
<1>7. ASSUME hand' = hand, \A u \in Tasks : call'[u].op = call[u].op \/ call'[u].op = "none"
      PROVE  Idle'
  BY <1>7 DEF Idle
<1>8. ASSUME NEW t \in Tasks, OSA_msgqSendMsg(t) \/ WaitAck(t) PROVE Idle'
  <2>1. hand' = hand
    BY <1>8 DEF OSA_msgqSendMsg, WaitAck
  <2>2. CASE call' = [call EXCEPT ![t] = NoCall]
    <3>1. \A u \in Tasks : call'[u].op = call[u].op \/ call'[u].op = "none"
      BY <1>1, <1>2, <2>2
    <3> QED BY <1>7, <2>1, <3>1
  <2>3. ASSUME NEW a, NEW b, call' = [call EXCEPT ![t].to = a, ![t].sent = b] PROVE Idle'
    <3>1. PICK g : g = [call[t] EXCEPT !.to = a, !.sent = b]
      OBVIOUS
    <3>2. g.op = call[t].op
      BY <1>1, <3>1 DEF Call
    <3>3. call' = [call EXCEPT ![t] = g]
      BY <1>1, <2>3, <3>1
    <3>4. \A u \in Tasks : call'[u].op = call[u].op
      BY <1>1, <3>2, <3>3
    <3> QED BY <1>7, <2>1, <3>4
  <2>4. ASSUME NEW a, NEW b, call' = [call EXCEPT ![t].sent = a, ![t].status = b] PROVE Idle'
    <3>1. PICK g : g = [call[t] EXCEPT !.sent = a, !.status = b]
      OBVIOUS
    <3>2. g.op = call[t].op
      BY <1>1, <3>1 DEF Call
    <3>3. call' = [call EXCEPT ![t] = g]
      BY <1>1, <2>4, <3>1
    <3>4. \A u \in Tasks : call'[u].op = call[u].op
      BY <1>1, <3>2, <3>3
    <3> QED BY <1>7, <2>1, <3>4
  <2>5. CASE OSA_msgqSendMsg(t)
    <3>1. PICK m : \/ call' = [call EXCEPT ![t] = NoCall]
                   \/ call' = [call EXCEPT ![t].to = Tail(@),
                                           ![t].sent = IF call[t].wait THEN @ \cup {m} ELSE @]
      BY <2>5 DEF OSA_msgqSendMsg
    <3>2. \/ call' = [call EXCEPT ![t] = NoCall]
          \/ call' = [call EXCEPT ![t].to = Tail(call[t].to),
                        ![t].sent = IF call[t].wait THEN call[t].sent \cup {m} ELSE call[t].sent]
      BY <3>1
    <3> QED BY <3>2, <2>2, <2>3
  <2>6. CASE WaitAck(t)
    BY <2>6, <2>2, <2>4 DEF WaitAck
  <2> QED BY <1>8, <2>5, <2>6
<1>9. ASSUME NEW t \in Tasks, OSA_mbxWaitMsg(t) \/ OSA_tskAckOrFreeMsg(t) PROVE Idle'
  <2>1. /\ call' = call /\ call[t].op = "none"
        /\ \A u \in Tasks : u # t => hand'[u] = hand[u]
    BY <1>1, <1>9 DEF OSA_mbxWaitMsg, OSA_tskAckOrFreeMsg
  <2> QED BY <2>1, <1>4
<1>10. ASSUME NEW t \in Tasks, Skip(t) PROVE Idle'
  BY <1>10 DEF Skip, Idle
<1>11. ASSUME NEW t \in Tasks, OSA_mbxFlush(t) \/ OSA_mbxWaitCmd(t) PROVE Idle'
  <2>1. /\ call'[t].op = "none"
        /\ \A u \in Tasks : u # t => call'[u].op = call[u].op /\ hand'[u] = hand[u]
    BY <1>1, <1>2, <1>11 DEF OSA_mbxFlush, OSA_mbxWaitCmd
  <2> QED BY <2>1, <1>4
<1> QED BY <1>3, <1>5, <1>6, <1>8, <1>9, <1>10, <1>11 DEF Next, Progress

-----------------------------------------------------------------------------
(* What the invariant says of places: the queues and handlers, each        *)
(* position of them, hold the heap between them without repetition.        *)
LEMMA EveryMessageHasOnePlace == MbxInv => OneOwner
<1> SUFFICES ASSUME MbxInv PROVE OneOwner
  OBVIOUS
<1> USE DEF MbxInv
<1>1. OSA_MSGQ_LEN_MAX \in Nat /\ 1 \in 1 .. OSA_MSGQ_LEN_MAX
  OBVIOUS
<1>2. /\ rcv \in [Tasks -> Seq(MsgIds)] /\ ack \in [Tasks -> Seq(MsgIds)]
      /\ \A t \in Tasks : Len(rcv[t]) \in 0 .. OSA_MSGQ_LEN_MAX /\ Len(ack[t]) \in 0 .. OSA_MSGQ_LEN_MAX
  BY <1>1 DEF TypeOK
<1>3. ASSUME NEW p \in Places
      PROVE  /\ p[2] \in Tasks /\ p[3] \in 1 .. OSA_MSGQ_LEN_MAX /\ p = <<p[1], p[2], p[3]>>
             /\ \/ /\ p[1] = "rcv" /\ p[3] \in 1 .. Len(rcv[p[2]]) /\ Held(p) = rcv[p[2]][p[3]]
                   /\ Held(p) \in InQueues(rcv)
                \/ /\ p[1] = "ack" /\ p[3] \in 1 .. Len(ack[p[2]]) /\ Held(p) = ack[p[2]][p[3]]
                   /\ Held(p) \in InQueues(ack)
                \/ /\ p[1] = "hand" /\ p[3] = 1 /\ Held(p) = hand[p[2]] /\ Held(p) # NoMsg
                   /\ Held(p) \in InHands(hand)
  <2>1. /\ p[1] \in {"rcv", "ack", "hand"} /\ p[2] \in Tasks /\ p[3] \in 1 .. OSA_MSGQ_LEN_MAX
        /\ p = <<p[1], p[2], p[3]>>
    BY DEF Places
  <2>2. ASSUME p[1] = "rcv"
        PROVE  /\ p[3] \in 1 .. Len(rcv[p[2]]) /\ Held(p) = rcv[p[2]][p[3]] /\ Held(p) \in InQueues(rcv)
    <3>1. p[3] <= Len(rcv[p[2]]) /\ Held(p) = rcv[p[2]][p[3]]
      BY <2>2 DEF Places, Held
    <3> QED BY <1>2, <2>1, <3>1 DEF InQueues, Contents
  <2>3. ASSUME p[1] = "ack"
        PROVE  /\ p[3] \in 1 .. Len(ack[p[2]]) /\ Held(p) = ack[p[2]][p[3]] /\ Held(p) \in InQueues(ack)
    <3>1. p[3] <= Len(ack[p[2]]) /\ Held(p) = ack[p[2]][p[3]]
      BY <2>3 DEF Places, Held
    <3> QED BY <1>2, <2>1, <3>1 DEF InQueues, Contents
  <2>4. ASSUME p[1] = "hand"
        PROVE  p[3] = 1 /\ Held(p) = hand[p[2]] /\ Held(p) # NoMsg /\ Held(p) \in InHands(hand)
    <3>1. p[3] = 1 /\ hand[p[2]] # NoMsg /\ Held(p) = hand[p[2]]
      BY <2>4 DEF Places, Held
    <3> QED BY <2>1, <3>1 DEF InHands
  <2> QED BY <2>1, <2>2, <2>3, <2>4
<1>4. \A p \in Places : Held(p) \in DOMAIN heap
  BY <1>3 DEF Owned
<1>5. ASSUME NEW p \in Places, NEW r \in Places, Held(p) = Held(r) PROVE p = r
  <2>1. CASE p[1] = "rcv"
    <3>1. r[1] = "rcv"
      BY <1>3, <1>5, <2>1 DEF Owned
    <3>2. p[2] = r[2] /\ p[3] = r[3]
      BY <1>3, <1>5, <2>1, <3>1, SMTT(30) DEF Owned, OneEach
    <3> QED BY <1>3, <2>1, <3>1, <3>2
  <2>2. CASE p[1] = "ack"
    <3>1. r[1] = "ack"
      BY <1>3, <1>5, <2>2 DEF Owned
    <3>2. p[2] = r[2] /\ p[3] = r[3]
      BY <1>3, <1>5, <2>2, <3>1, SMTT(30) DEF Owned, OneEach
    <3> QED BY <1>3, <2>2, <3>1, <3>2
  <2>3. CASE p[1] = "hand"
    <3>1. r[1] = "hand"
      BY <1>3, <1>5, <2>3 DEF Owned
    <3>2. p[2] = r[2] /\ p[3] = r[3]
      BY <1>3, <1>5, <2>3, <3>1 DEF Owned
    <3> QED BY <1>3, <2>3, <3>1, <3>2
  <2> QED BY <1>3, <2>1, <2>2, <2>3
<1>6. ASSUME NEW m \in DOMAIN heap PROVE \E p \in Places : Held(p) = m
  <2>1. CASE m \in InQueues(rcv)
    <3>0. PICK u \in Tasks : m \in Contents(rcv[u])
      BY <2>1, InQueue
    <3>1. PICK i \in 1 .. Len(rcv[u]) : m = rcv[u][i]
      BY <3>0 DEF Contents
    <3>2. PICK p : p = <<"rcv", u, i>>
      OBVIOUS
    <3>3. i \in 1 .. OSA_MSGQ_LEN_MAX /\ i <= Len(rcv[u])
      BY <1>1, <1>2, <3>1
    <3>4. p \in Places
      BY <3>2, <3>3 DEF Places
    <3>5. Held(p) = m
      BY <3>1, <3>2 DEF Held
    <3> QED BY <3>4, <3>5
  <2>2. CASE m \in InQueues(ack)
    <3>0. PICK u \in Tasks : m \in Contents(ack[u])
      BY <2>2, InQueue
    <3>1. PICK i \in 1 .. Len(ack[u]) : m = ack[u][i]
      BY <3>0 DEF Contents
    <3>2. PICK p : p = <<"ack", u, i>>
      OBVIOUS
    <3>3. i \in 1 .. OSA_MSGQ_LEN_MAX /\ i <= Len(ack[u])
      BY <1>1, <1>2, <3>1
    <3>4. p \in Places
      BY <3>2, <3>3 DEF Places
    <3>5. Held(p) = m
      BY <3>1, <3>2 DEF Held
    <3> QED BY <3>4, <3>5
  <2>3. CASE m \in InHands(hand)
    <3>1. PICK u \in Tasks : m = hand[u] /\ m # NoMsg
      BY <2>3 DEF InHands
    <3>2. PICK p : p = <<"hand", u, 1>>
      OBVIOUS
    <3>3. p \in Places /\ Held(p) = m
      BY <1>1, <3>1, <3>2 DEF Places, Held
    <3> QED BY <3>3
  <2> QED BY <2>1, <2>2, <2>3 DEF Owned
<1> QED BY <1>4, <1>5, <1>6 DEF OneOwner

(* The inductive invariant holds in every state of the mailboxes. *)
LEMMA MbxInvariant == Spec => [](MbxInv /\ Idle)
<1>1. Init => MbxInv /\ Idle
  <2>1. Init => Idle
    BY DEF Init, Idle, NoCall
  <2> QED BY <2>1, MbxInit
<1> QED BY <1>1, MbxStep, IdleStep, PTL DEF Spec

(* The heap of the mailboxes, for any tasks, queue length and heap: every  *)
(* message is in one place, nothing is freed twice or used after its end,  *)
(* and a parameter lives as long as what carries it (osa_mbx.c).           *)
THEOREM HeapInvariant == Spec => []HeapInv
<1>1. MbxInv => HeapInv
  <2>1. MbxInv => PrmOutlivesMessages
    BY DEF MbxInv, PrmOwned, PrmAlive, PrmUsed, PrmOutlivesMessages
  <2> QED BY <2>1, EveryMessageHasOnePlace DEF HeapInv, MbxInv
<1> QED BY <1>1, MbxInvariant, PTL

(* A waiting call meets only its own acknowledgements, and what it returns *)
(* is what they said, whatever the receivers do meanwhile.                 *)
THEOREM AckInvariant == Spec => []AckInv
<1>1. MbxInv => AckInv
  <2>1. MbxInv => AnswerIsTrue
    BY DEF MbxInv, Answered, AnswerIsTrue, Sending
  <2> QED BY <2>1 DEF AckInv, MbxInv
<1> QED BY <1>1, MbxInvariant, PTL
=============================================================================
