------------------------------- MODULE OsaIpc -------------------------------
(***************************************************************************)
(* System V message box, shared memory and semaphore: osa_ipc.c, as the    *)
(* server and the clients of osa_test_ipc.c use them.  The objects belong  *)
(* to the system and outlive the processes: a server that is killed leaves *)
(* them behind, a second server finds them.  A handle keeps the identifier *)
(* of the object it was opened for, and its calls fail once that is        *)
(* removed.                                                                *)
(***************************************************************************)
EXTENDS Naturals, Sequences, FiniteSets

CONSTANTS Servers, Clients, SemMaxVal,   \* OSA_TEST_IPC_SEM_MAX_VALUE
          MaxIds,                        \* bound on the objects ever made
          MaxRuns                        \* bound on the runs of clients

ASSUME IpcAssumption == /\ Servers \cap Clients = {} /\ IsFiniteSet(Clients)
                        /\ SemMaxVal \in Nat \ {0} /\ MaxIds \in Nat

Kinds == {"mbx", "shm", "sem"}
NoId  == 0

VARIABLES obj,     \* the identifier under each key, or NoId
          nextId,
          box,     \* messages in the message box
          val,     \* the value of the semaphore
          pc, hndl,\* where a process is, and its handles
          runs     \* number of client runs so far

ipcVars == <<obj, nextId, box, val, pc, hndl, runs>>
Procs == Servers \cup Clients
Texts == {"shm", "quit", "semlock", "semunlock"}   \* "shm" for any other text, too

NoHandles == [k \in Kinds |-> NoId]

ipcInit == /\ obj = [k \in Kinds |-> NoId]
           /\ nextId = 1
           /\ box = <<>>
           /\ val = 0
           /\ pc = [p \in Procs |-> "off"]
           /\ hndl = [p \in Procs |-> NoHandles]
           /\ runs = 0

Goto(p, l) == pc' = [pc EXCEPT ![p] = l]
Keep(p, k, id) == hndl' = [hndl EXCEPT ![p][k] = id]
End(p, l) == /\ Goto(p, l) /\ hndl' = [hndl EXCEPT ![p] = NoHandles]
             /\ UNCHANGED <<obj, nextId>>
Valid(p, k) == hndl[p][k] # NoId /\ hndl[p][k] = obj[k]

(* OSA_ipcMbxOpen, OSA_ipcShmOpen, OSA_ipcSemOpen with                     *)
(* OSA_IPC_FLAG_CREATE: exclusive, so it fails if the object exists.  A    *)
(* new semaphore gets its value in a second system call.                   *)
Create(s, k) ==
  /\ obj[k] = NoId /\ nextId <= MaxIds
  /\ obj' = [obj EXCEPT ![k] = nextId]
  /\ nextId' = nextId + 1
  /\ Keep(s, k, nextId)
  /\ box' = IF k = "mbx" THEN <<>> ELSE box
  /\ UNCHANGED val

(* The same calls without the flag: fail if there is no object. *)
Open(p, k) ==
  /\ obj[k] # NoId
  /\ Keep(p, k, obj[k])
  /\ UNCHANGED <<obj, nextId, box, val>>

Untouched == UNCHANGED <<obj, nextId, box, val, hndl>>

(* The places of a process at one of the three objects. *)
NewAt   == [mbx |-> "new_mbx", shm |-> "new_shm", sem |-> "new_sem"]
OpenAt  == [mbx |-> "open_mbx", shm |-> "open_shm", sem |-> "open_sem"]
CloseAt == [mbx |-> "close_mbx", shm |-> "close_shm", sem |-> "close_sem"]

(* OSA_TEST_ipcServerMain opens one after the other: create, and if that   *)
(* fails, open, and if that fails, because the object was removed in       *)
(* between, close what is open already.                                    *)
AfterOpen == [mbx |-> "new_shm", shm |-> "new_sem", sem |-> "recv"]
OnError   == [mbx |-> "off", shm |-> "close_mbx", sem |-> "close_shm"]

Ended == {"off", "killed"}
serverStart(s) == pc[s] \in Ended /\ Goto(s, "new_mbx") /\ Untouched

serverCreate(s, k) ==
  /\ pc[s] = NewAt[k]
  /\ \/ Create(s, k) /\ Goto(s, IF k = "sem" THEN "setval" ELSE AfterOpen[k])
     \/ obj[k] # NoId /\ Goto(s, OpenAt[k]) /\ Untouched

serverSetVal(s) ==
  /\ pc[s] = "setval"
  /\ val' = IF Valid(s, "sem") THEN 0 ELSE val
  /\ Goto(s, "recv")
  /\ UNCHANGED <<obj, nextId, box, hndl>>

serverOpen(s, k) ==
  /\ pc[s] = OpenAt[k]
  /\ \/ Open(s, k) /\ Goto(s, AfterOpen[k])
     \/ obj[k] = NoId /\ Goto(s, OnError[k]) /\ Untouched

(* The loop: OSA_ipcMbxRecv waits for a message, or fails with the box.    *)
Handler == [shm |-> "recv", semunlock |-> "recv",
            semlock |-> "lock", quit |-> "close_sem"]
serverRecv(s) ==
  /\ pc[s] = "recv"
  /\ \/ /\ Valid(s, "mbx") /\ box # <<>>
        /\ box' = Tail(box)
        /\ Goto(s, Handler[Head(box)])
        /\ UNCHANGED <<obj, nextId, val, hndl>>
     \/ ~Valid(s, "mbx") /\ Goto(s, "close_sem") /\ Untouched

CanLock(v) == v > 0

(* OSA_ipcSemLock sleeps at 0; its failure is not looked at. *)
serverLock(s) ==
  /\ pc[s] = "lock"
  /\ \/ Valid(s, "sem") /\ CanLock(val) /\ val' = val - 1 /\ UNCHANGED <<obj, nextId, box, hndl>>
     \/ ~Valid(s, "sem") /\ Untouched
  /\ Goto(s, "recv")

(* IPC_RMID on the handle: nothing happens if another removed the object. *)
Remove(s, k) == [obj EXCEPT ![k] = IF Valid(s, k) THEN NoId ELSE @]

(* The order of the end of OSA_TEST_ipcServerMain; a mutant forgets one. *)
AfterCloseSkips == [sem |-> "close_mbx", shm |-> "close_mbx", mbx |-> "off"]
AfterClose      == [sem |-> "close_shm", shm |-> "close_mbx", mbx |-> "off"]
serverClose(s, k) ==
  /\ pc[s] = CloseAt[k]
  /\ obj' = Remove(s, k)
  /\ box' = IF k = "mbx" /\ Valid(s, k) THEN <<>> ELSE box
  /\ Goto(s, AfterClose[k])
  /\ hndl' = [hndl EXCEPT ![s] = IF AfterClose[k] = "off" THEN NoHandles ELSE @]
  /\ UNCHANGED <<nextId, val>>

(* The only server is killed: the objects stay. *)
serverKill(s) == /\ pc[s] \notin Ended /\ \A r \in Servers \ {s} : pc[r] \in Ended
                 /\ End(s, "killed") /\ UNCHANGED <<box, val>>

-----------------------------------------------------------------------------
(* OSA_TEST_ipcClientMain opens all three or gives up, and sends its text; *)
(* "semunlock" first releases the semaphore.                               *)
clientStart(c) == /\ pc[c] = "off" /\ runs < MaxRuns
                  /\ runs' = runs + 1
                  /\ Goto(c, "open_mbx") /\ Untouched

AfterClientOpen == [mbx |-> "open_shm", shm |-> "open_sem", sem |-> "choose"]
clientOpen(c, k) ==
  /\ pc[c] = OpenAt[k]
  /\ \/ Open(c, k) /\ Goto(c, AfterClientOpen[k])
     \/ obj[k] = NoId /\ End(c, "off") /\ UNCHANGED <<box, val>>

SendAt == [shm |-> "send_shm", quit |-> "send_quit", semlock |-> "send_semlock",
           semunlock |-> "send_semunlock"]
clientChoose(c) ==
  /\ pc[c] = "choose"
  /\ \E x \in Texts : Goto(c, IF x = "semunlock" THEN "getval" ELSE SendAt[x])
  /\ Untouched

(* OSA_ipcSemUnlock: read the value (-1 without the object), return if it  *)
(* is at the limit, else post; two system calls.                           *)
BelowLimit(v) == v < SemMaxVal
clientGetVal(c) ==
  /\ pc[c] = "getval"
  /\ Goto(c, IF Valid(c, "sem") /\ ~BelowLimit(val) THEN "send_semunlock" ELSE "post")
  /\ Untouched

clientPost(c) ==
  /\ pc[c] = "post"
  /\ \/ /\ Valid(c, "sem") /\ val' = val + 1
        /\ Goto(c, "send_semunlock") /\ UNCHANGED <<obj, nextId, box, hndl>>
     \/ ~Valid(c, "sem") /\ End(c, "off") /\ UNCHANGED <<box, val>>

clientSend(c) ==
  \E x \in Texts :
    /\ pc[c] = SendAt[x]
    /\ box' = IF Valid(c, "mbx") THEN Append(box, x) ELSE box
    /\ End(c, "off")
    /\ UNCHANGED val

serverStep(s) == \/ serverStart(s) \/ serverSetVal(s) \/ serverRecv(s) \/ serverLock(s) \/ serverKill(s)
                 \/ \E k \in Kinds : serverCreate(s, k) \/ serverOpen(s, k) \/ serverClose(s, k)

clientStep(c) == \/ clientChoose(c) \/ clientGetVal(c) \/ clientPost(c) \/ clientSend(c)
                 \/ \E k \in Kinds : clientOpen(c, k)

ipcNext == \/ \E s \in Servers : serverStep(s) /\ UNCHANGED runs
           \/ \E c \in Clients : clientStart(c) \/ (clientStep(c) /\ UNCHANGED runs)

ipcSpec == ipcInit /\ [][ipcNext]_ipcVars

-----------------------------------------------------------------------------
IpcTypeOK == /\ obj \in [Kinds -> 0 .. MaxIds] /\ nextId \in 1 .. MaxIds + 1
             /\ box \in Seq(Texts) /\ val \in Nat
             /\ hndl \in [Procs -> [Kinds -> 0 .. MaxIds]]

(* When every server has ended by itself no object is left in the system,  *)
(* whatever servers and clients did at the same time, with servers that    *)
(* found an object removed half way through opening it, and with a server  *)
(* killed at any point and started again.  (Killed while another server    *)
(* is closing, it can leave an object that no restart finds.)              *)
IpcNothingLeft == (\A s \in Servers : pc[s] = "off") => \A k \in Kinds : obj[k] = NoId

(* The value of the semaphore exceeds its limit by less than the number of *)
(* clients that run at the same time: the test in OSA_ipcSemUnlock and the *)
(* post are two calls.                                                     *)
Posting == {c \in Clients : pc[c] = "post" /\ Valid(c, "sem")}
IpcSemLimit == val + Cardinality(Posting) <= SemMaxVal - 1 + Cardinality(Clients)

(* The System V objects: they go with the last server, and two posts at    *)
(* once pass the limit by no more than that (osa_ipc.c).                   *)
IpcInv == IpcTypeOK /\ IpcNothingLeft /\ IpcSemLimit
=============================================================================
