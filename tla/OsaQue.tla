------------------------------- MODULE OsaQue -------------------------------
(***************************************************************************)
(* The blocking queue of utils/osa/src/osa_que.c: a ring of `len` entries, *)
(* a mutex, and the condition variables condRd (a getter waits for an      *)
(* entry) and condWr (a putter waits for room).                            *)
(*                                                                         *)
(* A thread touches the queue only while it holds hndl->lock, so one turn  *)
(* of the while(1) loop (from the moment the mutex is held to the unlock   *)
(* or to the sleep in pthread_cond_wait) is one step.  Between two turns a *)
(* thread is in one of three places, recorded by pc:                       *)
(*   "put", "get"       it competes for the mutex (it just called, or it   *)
(*                      was woken and has to re-acquire the mutex);        *)
(*   "condWr", "condRd" it sleeps on that condition variable;              *)
(*   "idle"             it is outside the queue.                           *)
(***************************************************************************)
EXTENDS Naturals, Sequences, FiniteSets

CONSTANTS Threads,   \* the threads that share the queue
          Values,    \* the Int32 values they store
          len,       \* maxLen of OSA_queCreate
          NoValue    \* contents of an entry before the first write to it

ASSUME LenAssumption     == len \in Nat \ {0}
ASSUME ThreadsAssumption == IsFiniteSet(Threads)
ASSUME NoValueAssumption == NoValue \notin Values

VARIABLES queue, curRd, curWr, count,   \* the fields of OSA_QueHndl
          pc,                           \* where each thread is
          arg,                          \* the arguments of its current call
          ret                           \* what its last call returned

ring == <<queue, curRd, curWr, count>>
vars == <<queue, curRd, curWr, count, pc, arg, ret>>

Timeouts == {"NONE", "FOREVER"}
NoArg    == [val |-> NoValue, timeout |-> "FOREVER"]

Places == {"idle", "put", "get", "condWr", "condRd"}

(* The threads at place p, under a control state f and now. *)
Where(f, p) == {t \in Threads : f[t] = p}
At(p)       == Where(pc, p)

-----------------------------------------------------------------------------
(* OSA_queCreate *)
Init == /\ queue = [i \in 0 .. len - 1 |-> NoValue]
        /\ curRd = 0 /\ curWr = 0 /\ count = 0
        /\ pc  = [t \in Threads |-> "idle"]
        /\ arg = [t \in Threads |-> NoArg]
        /\ ret = [t \in Threads |-> [status |-> "SOK", val |-> NoValue]]

(* A thread calls OSA_quePut or OSA_queGet. *)
CallPut(t) == /\ pc[t] = "idle"
              /\ \E v \in Values, to \in Timeouts :
                    arg' = [arg EXCEPT ![t] = [val |-> v, timeout |-> to]]
              /\ pc' = [pc EXCEPT ![t] = "put"]
              /\ UNCHANGED <<queue, curRd, curWr, count, ret>>

CallGet(t) == /\ pc[t] = "idle"
              /\ \E to \in Timeouts :
                    arg' = [arg EXCEPT ![t] = [val |-> NoValue, timeout |-> to]]
              /\ pc' = [pc EXCEPT ![t] = "get"]
              /\ UNCHANGED <<queue, curRd, curWr, count, ret>>

(* pthread_cond_signal(cond) by a thread that then returns: at most one    *)
(* sleeper, any one, leaves `cond` and goes back to the loop of `op`.      *)
LeaveAndSignal(t, cond, op) ==
  /\ IF At(cond) = {}
     THEN pc' = [pc EXCEPT ![t] = "idle"]
     ELSE \E u \in At(cond) : pc' = [pc EXCEPT ![t] = "idle", ![u] = op]
  /\ arg' = [arg EXCEPT ![t] = NoArg]

Return(t, status, val) == ret' = [ret EXCEPT ![t] = [status |-> status, val |-> val]]

(* One turn of the loop that cannot proceed: fail or wait. *)
GiveUp(t) == /\ arg[t].timeout = "NONE"
             /\ pc' = [pc EXCEPT ![t] = "idle"]
             /\ arg' = [arg EXCEPT ![t] = NoArg]
             /\ Return(t, "EFAIL", NoValue)
             /\ UNCHANGED ring

Sleep(t, cond) == /\ arg[t].timeout # "NONE"
                  /\ pc' = [pc EXCEPT ![t] = cond]
                  /\ UNCHANGED <<queue, curRd, curWr, count, arg, ret>>

-----------------------------------------------------------------------------
(* Mutants of the operations below: a signal to the wrong side, the count  *)
(* not updated, the newest entry read, a signal only when the ring was     *)
(* full.                                                                   *)
EnqueueWrongCond(t) == /\ count < len
                       /\ queue' = [queue EXCEPT ![curWr] = arg[t].val]
                       /\ curWr' = (curWr + 1) % len
                       /\ count' = count + 1
                       /\ LeaveAndSignal(t, "condWr", "put")
                       /\ Return(t, "SOK", NoValue)
                       /\ UNCHANGED curRd

DequeueReadsNewest(t) == /\ count > 0
                         /\ Return(t, "SOK", queue[(curWr + len - 1) % len])
                         /\ curRd' = (curRd + 1) % len
                         /\ count' = count - 1
                         /\ LeaveAndSignal(t, "condWr", "put")
                         /\ UNCHANGED <<queue, curWr>>

DequeueKeepsCount(t) == /\ count > 0
                        /\ Return(t, "SOK", queue[curRd])
                        /\ curRd' = (curRd + 1) % len
                        /\ LeaveAndSignal(t, "condWr", "put")
                        /\ UNCHANGED <<queue, curWr, count>>

DequeueSignalsWhenFull(t) == /\ count > 0
                             /\ Return(t, "SOK", queue[curRd])
                             /\ curRd' = (curRd + 1) % len
                             /\ count' = count - 1
                             /\ IF count = len
                                THEN LeaveAndSignal(t, "condWr", "put")
                                ELSE /\ pc' = [pc EXCEPT ![t] = "idle"]
                                     /\ arg' = [arg EXCEPT ![t] = NoArg]
                             /\ UNCHANGED <<queue, curWr>>

-----------------------------------------------------------------------------
(* A turn that succeeds. *)
Enqueue(t) == /\ count < len
              /\ queue' = [queue EXCEPT ![curWr] = arg[t].val]
              /\ curWr' = (curWr + 1) % len
              /\ count' = count + 1
              /\ LeaveAndSignal(t, "condRd", "get")
              /\ Return(t, "SOK", NoValue)
              /\ UNCHANGED curRd

Dequeue(t) == /\ count > 0
              /\ Return(t, "SOK", queue[curRd])
              /\ curRd' = (curRd + 1) % len
              /\ count' = count - 1
              /\ LeaveAndSignal(t, "condWr", "put")
              /\ UNCHANGED <<queue, curWr>>

(* OSA_quePut, OSA_queGet: one turn of the loop. *)
PutTurn(t) == /\ pc[t] = "put"
              /\ \/ Enqueue(t)
                 \/ count = len /\ GiveUp(t)
                 \/ count = len /\ Sleep(t, "condWr")

GetTurn(t) == /\ pc[t] = "get"
              /\ \/ Dequeue(t)
                 \/ count = 0 /\ GiveUp(t)
                 \/ count = 0 /\ Sleep(t, "condRd")

(* POSIX lets pthread_cond_wait return without a signal. *)
SpuriousWakeup(t) ==
  /\ \/ pc[t] = "condRd" /\ pc' = [pc EXCEPT ![t] = "get"]
     \/ pc[t] = "condWr" /\ pc' = [pc EXCEPT ![t] = "put"]
  /\ UNCHANGED <<queue, curRd, curWr, count, arg, ret>>

Turn(t) == PutTurn(t) \/ GetTurn(t)

Next == \E t \in Threads : CallPut(t) \/ CallGet(t) \/ Turn(t) \/ SpuriousWakeup(t)

Spec == Init /\ [][Next]_vars

(* A thread that competes for the mutex eventually holds it: every critical *)
(* section is finite.  Nobody is obliged to call, and no wake-up comes      *)
(* without a signal.                                                        *)
FairSpec == Spec /\ \A t \in Threads : WF_vars(Turn(t))

-----------------------------------------------------------------------------
Results == [status : {"SOK", "EFAIL"}, val : Values \cup {NoValue}]

(* Every field of the handle and every thread's call stay in range: in     *)
(* particular the two indices never leave the allocated ring.              *)
TypeOK ==
  /\ queue \in [0 .. len - 1 -> Values \cup {NoValue}]
  /\ curRd \in 0 .. len - 1 /\ curWr \in 0 .. len - 1 /\ count \in 0 .. len
  /\ pc \in [Threads -> Places]
  /\ arg \in [Threads -> [val : Values \cup {NoValue}, timeout : Timeouts]]
  /\ ret \in [Threads -> Results]
  /\ \A t \in Threads : pc[t] \in {"put", "condWr"} => arg[t].val \in Values

(* The entries between curRd and curRd + count, modulo len. *)
Held(i) == \/ curRd <= i /\ i < curRd + count
           \/ i + len < curRd + count

(* The two indices stay `count` apart on the ring, and every entry between *)
(* them has been written: OSA_queGet never returns an entry of the         *)
(* uninitialised memory OSA_queCreate allocated.                           *)
RingOK == /\ curWr = curRd + count \/ curWr + len = curRd + count
          /\ \A i \in 0 .. len - 1 : Held(i) => queue[i] \in Values

(* pthread_cond_signal wakes one thread per stored (or freed) entry, and   *)
(* another thread may take the entry before the woken one holds the mutex. *)
(* Still no wake-up is lost: while a getter sleeps there are at least as   *)
(* many getters awake as entries stored, and while a putter sleeps at      *)
(* least as many putters awake as entries free.                            *)
NoLostWakeup ==
  /\ At("condRd") # {} => count <= Cardinality(At("get"))
  /\ At("condWr") # {} => len - count <= Cardinality(At("put"))

(* No getter sleeps for ever beside a queue that stays non-empty, and no   *)
(* putter beside one that stays non-full, although neither OSA_quePut nor  *)
(* OSA_queGet ever broadcasts.                                             *)
SleepersHaveReason ==
  /\ []<>(At("condRd") = {} \/ count = 0)
  /\ []<>(At("condWr") = {} \/ count = len)

-----------------------------------------------------------------------------
(* The abstract queue this module implements: what lies between curRd and  *)
(* curWr, oldest first, and the calls that have not returned yet.          *)
Contents == [k \in 1 .. count |-> queue[(curRd + k - 1) % len]]

Pending == [t \in Threads |->
              [op |-> CASE pc[t] = "idle"              -> "none"
                        [] pc[t] \in {"put", "condWr"} -> "put"
                        [] pc[t] \in {"get", "condRd"} -> "get",
               val |-> arg[t].val, timeout |-> arg[t].timeout]]

Fifo == INSTANCE OsaQueSpec WITH q <- Contents, call <- Pending

(* The ring, its mutex and its condition variables implement the bounded   *)
(* FIFO: every value put is returned once, in order, whoever sleeps.       *)
FifoSpec == Fifo!Spec
=============================================================================
