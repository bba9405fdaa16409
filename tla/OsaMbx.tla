------------------------------- MODULE OsaMbx -------------------------------
(***************************************************************************)
(* Mailboxes and tasks: utils/osa/src/osa_msgq.c, osa_mbx.c, osa_tsk.c.    *)
(*                                                                         *)
(* A mailbox has a receive queue and an acknowledgement queue.  A message  *)
(* is a heap block that travels: the sender allocates it, the receiver     *)
(* frees it, or sends it back through the ack queue when the sender waits  *)
(* for it, and then the sender frees it.  A malloc'ed parameter travels    *)
(* with it, and a broadcast shares one parameter among its messages.       *)
(*                                                                         *)
(* The ring of osa_msgq.c is that of osa_que.c, line by line, so a queue   *)
(* is a bounded FIFO here (OsaQueSpec) and each call on it one step.       *)
(***************************************************************************)
EXTENDS Naturals, Sequences, FiniteSets

CONSTANTS Tasks,              \* the threads, each with its own mailbox
          Mains,              \* those that only send (gOSA_testMbx's owner)
          Below,              \* Below[t]: the tasks t sends to
          Cmds,               \* command codes
          OSA_MSGQ_LEN_MAX,   \* length of every queue
          NumMsgs,            \* size of the message heap
          MaxCalls,           \* bound on the mailbox calls made
          NoMsg               \* a null message pointer

ASSUME MailboxAssumption == /\ Mains \subseteq Tasks
                            /\ Below \in [Tasks -> SUBSET Tasks]
                            /\ OSA_MSGQ_LEN_MAX \in Nat \ {0}
                            /\ NumMsgs \in Nat /\ MaxCalls \in Nat
                            /\ NoMsg \notin 1 .. NumMsgs

VARIABLES heap,    \* the live messages, a function on a subset of MsgIds
          prms,    \* the live malloc'ed parameters
          rcv,     \* rcvMbx of each mailbox
          ack,     \* ackMbx of each mailbox
          hand,    \* the message a task's handler works on
          call,    \* the mailbox call a task is in
          ret,     \* what its last send or broadcast returned
          given,   \* history: the answers given to its current call
          calls,   \* number of mailbox calls so far
          freed    \* history: TRUE once something was freed twice

vars == <<heap, prms, rcv, ack, hand, call, ret, given, calls, freed>>

MsgIds == 1 .. NumMsgs
Prms   == 1 .. MaxCalls
NoPrm  == 0
Statuses == {"SOK", "EFAIL"}
NoCall == [op |-> "none", to |-> <<>>, cmd |-> NoMsg, wait |-> FALSE, free |-> FALSE,
           prm |-> NoPrm, sent |-> {}, status |-> "SOK"]

Contents(q) == {q[i] : i \in 1 .. Len(q)}
Minus(f, S) == [x \in DOMAIN f \ S |-> f[x]]

(* OSA_mbxCreate, OSA_tskCreate *)
Init == /\ heap = <<>>
        /\ prms = {}
        /\ rcv = [t \in Tasks |-> <<>>]
        /\ ack = [t \in Tasks |-> <<>>]
        /\ hand = [t \in Tasks |-> NoMsg]
        /\ call = [t \in Tasks |-> NoCall]
        /\ ret = [t \in Tasks |-> "SOK"]
        /\ given = [t \in Tasks |-> {}]
        /\ calls = 0
        /\ freed = FALSE

(* OSA_memFree of messages M and parameters P. *)
Release(M, P) == /\ heap' = Minus(heap, M)
                 /\ prms' = prms \ P
                 /\ freed' = (freed \/ ~(M \subseteq DOMAIN heap) \/ ~(P \subseteq prms))

(* OSA_mbxFreeMsg frees the parameter as well when the message says so. *)
PrmOf(m) == IF heap[m].free THEN {heap[m].prm} \ {NoPrm} ELSE {}
OSA_mbxFreeMsg(M) == Release(M, UNION {PrmOf(m) : m \in M})

-----------------------------------------------------------------------------
(* OSA_mbxSendMsg (one receiver) and OSA_mbxBroadcastMsg are called: the   *)
(* assertions on the flags, the list of receivers.  A parameter to be      *)
(* freed without acknowledgement may go to one receiver only.              *)
Lists(S) == {<<a>> : a \in S} \cup {<<p[1], p[2]>> : p \in {r \in S \X S : r[1] # r[2]}}

MaySend(t) == /\ call[t].op = "none"
              /\ t \in Mains \/ hand[t] # NoMsg
              /\ calls < MaxCalls

CallWith(t, op, to, cmd, wait, free) ==
  LET p == IF free THEN calls + 1 ELSE NoPrm IN
  /\ call' = [call EXCEPT ![t] = [op |-> op, to |-> to, cmd |-> cmd, wait |-> wait,
                                  free |-> free, prm |-> p, sent |-> {}, status |-> "SOK"]]
  /\ prms' = prms \cup ({p} \ {NoPrm})
  /\ calls' = calls + 1
  /\ given' = [given EXCEPT ![t] = {}]
  /\ UNCHANGED <<heap, rcv, ack, hand, ret, freed>>

OSA_mbxSendMsg(t) ==
  /\ MaySend(t)
  /\ \E d \in Below[t], c \in Cmds, wait, free \in BOOLEAN :
        CallWith(t, "send", <<d>>, c, wait, free)

OSA_mbxBroadcastMsg(t) ==
  /\ MaySend(t)
  /\ \E to \in Lists(Below[t]), c \in Cmds, wait, free \in BOOLEAN :
        /\ free /\ ~wait => Len(to) = 1
        /\ CallWith(t, "broadcast", to, c, wait, free)

Room(q) == Len(q) < OSA_MSGQ_LEN_MAX

(* OSA_msgqSendMsg: allocate the message and put it into the receiver's    *)
(* queue, blocking while the queue is full.  After the last one a call     *)
(* that waits for no acknowledgement returns.                              *)
OSA_msgqSendMsg(t) ==
  LET c == call[t]  d == Head(call[t].to) IN
  /\ c.to # <<>>
  /\ Room(rcv[d])
  /\ \E m \in MsgIds \ DOMAIN heap :
        /\ \A n \in MsgIds \ DOMAIN heap : m <= n
        /\ heap' = [x \in DOMAIN heap \cup {m} |->
                      IF x = m THEN [from |-> t, cmd |-> c.cmd, wait |-> c.wait, free |-> c.free,
                                     prm |-> c.prm, status |-> "SOK"]
                               ELSE heap[x]]
        /\ rcv' = [rcv EXCEPT ![d] = Append(@, m)]
        /\ IF Len(c.to) = 1 /\ ~c.wait
           THEN call' = [call EXCEPT ![t] = NoCall] /\ ret' = [ret EXCEPT ![t] = "SOK"]
           ELSE /\ call' = [call EXCEPT ![t].to = Tail(@),
                                        ![t].sent = IF c.wait THEN @ \cup {m} ELSE @]
                /\ UNCHANGED ret
  /\ UNCHANGED <<prms, ack, hand, given, calls, freed>>

-----------------------------------------------------------------------------
(* Mutants: an acknowledgement of which the parameter is freed although    *)
(* other messages of the broadcast share it; one that is not freed;        *)
(* a status overwritten by a later one.                                    *)
AckReceivedFreesPrm(t, m) ==
  IF call[t].op = "send" \/ m \notin call[t].sent
  THEN OSA_mbxFreeMsg({m})
  ELSE Release({m}, IF call[t].free THEN {call[t].prm} ELSE {})

StatusAfterLast(t, m) == heap[m].status

-----------------------------------------------------------------------------
(* An acknowledgement is taken from the ack queue.  OSA_mbxSendMsg frees   *)
(* message and parameter; OSA_mbxBroadcastMsg frees an unknown message     *)
(* likewise, but of its own only the handle, and the parameter once all    *)
(* have come back.                                                         *)
AckReceived(t, m) ==
  IF call[t].op = "send" \/ m \notin call[t].sent
  THEN OSA_mbxFreeMsg({m})
  ELSE Release({m}, IF call[t].free /\ call[t].sent = {m} THEN {call[t].prm} ELSE {})

(* The first answer other than OSA_SOK is the answer of a broadcast. *)
StatusAfter(t, m) ==
  IF m \in call[t].sent /\ call[t].status = "SOK" THEN heap[m].status ELSE call[t].status

StillWaited(t, m) == call[t].sent \ {m}

WaitAck(t) ==
  LET m == Head(ack[t]) IN
  /\ call[t].to = <<>> /\ call[t].sent # {}
  /\ ack[t] # <<>>
  /\ ack' = [ack EXCEPT ![t] = Tail(@)]
  /\ AckReceived(t, m)
  /\ IF StillWaited(t, m) = {}
     THEN call' = [call EXCEPT ![t] = NoCall] /\ ret' = [ret EXCEPT ![t] = StatusAfter(t, m)]
     ELSE /\ call' = [call EXCEPT ![t].sent = StillWaited(t, m), ![t].status = StatusAfter(t, m)]
          /\ UNCHANGED ret
  /\ UNCHANGED <<rcv, hand, given, calls>>

(* Mutant: nobody is taken for a waiting sender. *)
AckNobody(m) == FALSE

MustAck(m) == heap[m].wait

(* OSA_mbxAckOrFreeMsg: return the message to a sender that waits, which   *)
(* may block, or free it.                                                  *)
AckOrFree(m, status) ==
  LET s == heap[m].from IN
  \/ /\ MustAck(m)
     /\ Room(ack[s])
     /\ heap' = [heap EXCEPT ![m].status = status]
     /\ ack' = [ack EXCEPT ![s] = Append(@, m)]
     /\ given' = [given EXCEPT ![s] = @ \cup {status}]
     /\ UNCHANGED <<prms, freed>>
  \/ /\ ~MustAck(m)
     /\ OSA_mbxFreeMsg({m})
     /\ UNCHANGED <<ack, given>>

(* OSA_mbxWaitMsg, OSA_mbxCheckMsg, OSA_tskThrMain: a task without work    *)
(* takes the oldest message and enters its handler.                        *)
OSA_mbxWaitMsg(t) ==
  /\ t \notin Mains /\ call[t].op = "none" /\ hand[t] = NoMsg
  /\ rcv[t] # <<>>
  /\ hand' = [hand EXCEPT ![t] = Head(rcv[t])]
  /\ rcv' = [rcv EXCEPT ![t] = Tail(@)]
  /\ UNCHANGED <<heap, prms, ack, call, ret, given, calls, freed>>

(* The handler is done with its message. *)
OSA_tskAckOrFreeMsg(t) ==
  /\ hand[t] # NoMsg /\ call[t].op = "none"
  /\ \E status \in Statuses : AckOrFree(hand[t], status)
  /\ hand' = [hand EXCEPT ![t] = NoMsg]
  /\ UNCHANGED <<rcv, call, ret, calls>>

(* OSA_mbxFlush and OSA_mbxWaitCmd answer whatever they find: the first    *)
(* until both queues are empty, the second until the command comes.        *)
Enter(t, op, cmd) ==
  /\ t \notin Mains /\ call[t].op = "none" /\ hand[t] = NoMsg
  /\ calls < MaxCalls
  /\ call' = [call EXCEPT ![t] = [NoCall EXCEPT !.op = op, !.cmd = cmd]]
  /\ calls' = calls + 1
  /\ UNCHANGED <<heap, prms, rcv, ack, hand, ret, given, freed>>

Skip(t) ==
  LET m == Head(rcv[t]) IN
  /\ call[t].op \in {"flush", "waitcmd"} /\ rcv[t] # <<>>
  /\ call[t].op = "waitcmd" => heap[m].cmd # call[t].cmd
  /\ AckOrFree(m, "SOK")
  /\ rcv' = [rcv EXCEPT ![t] = Tail(@)]
  /\ UNCHANGED <<hand, call, ret, calls>>

OSA_mbxFlush(t) ==
  /\ call[t].op = "flush" /\ rcv[t] = <<>>
  /\ OSA_mbxFreeMsg(Contents(ack[t]))
  /\ ack' = [ack EXCEPT ![t] = <<>>]
  /\ call' = [call EXCEPT ![t] = NoCall]
  /\ UNCHANGED <<rcv, hand, ret, given, calls>>

OSA_mbxWaitCmd(t) ==
  /\ call[t].op = "waitcmd" /\ rcv[t] # <<>>
  /\ heap[Head(rcv[t])].cmd = call[t].cmd
  /\ hand' = [hand EXCEPT ![t] = Head(rcv[t])]
  /\ rcv' = [rcv EXCEPT ![t] = Tail(@)]
  /\ call' = [call EXCEPT ![t] = NoCall]
  /\ UNCHANGED <<heap, prms, ack, ret, given, calls, freed>>

-----------------------------------------------------------------------------
(* What a task does by itself once it is in a call or has a message. *)
Progress(t) == \/ OSA_msgqSendMsg(t) \/ WaitAck(t) \/ OSA_mbxWaitMsg(t)
               \/ OSA_tskAckOrFreeMsg(t) \/ Skip(t) \/ OSA_mbxFlush(t) \/ OSA_mbxWaitCmd(t)

Next == \E t \in Tasks : \/ OSA_mbxSendMsg(t) \/ OSA_mbxBroadcastMsg(t)
                         \/ Enter(t, "flush", NoMsg)
                         \/ \E c \in Cmds : Enter(t, "waitcmd", c)
                         \/ Progress(t)

Spec == Init /\ [][Next]_vars

(* Handlers end, and a task in OSA_tskThrMain takes its messages. *)
FairSpec == Spec /\ \A t \in Tasks : WF_vars(Progress(t))

-----------------------------------------------------------------------------
Message == [from : Tasks, cmd : Cmds, wait : BOOLEAN, free : BOOLEAN,
            prm : Prms \cup {NoPrm}, status : Statuses]

TypeOK == /\ DOMAIN heap \subseteq MsgIds
          /\ \A m \in DOMAIN heap : heap[m] \in Message
          /\ prms \subseteq Prms /\ calls \in 0 .. MaxCalls
          /\ rcv \in [Tasks -> Seq(MsgIds)] /\ ack \in [Tasks -> Seq(MsgIds)]
          /\ \A t \in Tasks : /\ Len(rcv[t]) <= OSA_MSGQ_LEN_MAX /\ Len(ack[t]) <= OSA_MSGQ_LEN_MAX
                              /\ call[t].sent \subseteq MsgIds
          /\ hand \in [Tasks -> MsgIds \cup {NoMsg}]
          /\ ret \in [Tasks -> Statuses] /\ given \in [Tasks -> SUBSET Statuses]
          /\ freed \in BOOLEAN

(* The places a message can be: a queue position or a handler. *)
Places == {p \in {"rcv", "ack", "hand"} \X Tasks \X (1 .. OSA_MSGQ_LEN_MAX) :
             CASE p[1] = "rcv" -> p[3] <= Len(rcv[p[2]])
               [] p[1] = "ack" -> p[3] <= Len(ack[p[2]])
               [] p[1] = "hand" -> p[3] = 1 /\ hand[p[2]] # NoMsg}
Held(p) == CASE p[1] = "rcv" -> rcv[p[2]][p[3]]
             [] p[1] = "ack" -> ack[p[2]][p[3]]
             [] p[1] = "hand" -> hand[p[2]]

(* Every allocated message is in exactly one place and nothing in a queue  *)
(* or a handler has been freed: no message is lost, freed twice or used    *)
(* after its end, whichever of sender, receiver and flush gets it.         *)
OneOwner == /\ ~freed
            /\ \A p \in Places : Held(p) \in DOMAIN heap
            /\ \A p, r \in Places : Held(p) = Held(r) => p = r
            /\ \A m \in DOMAIN heap : \E p \in Places : Held(p) = m

(* A malloc'ed parameter lives as long as a message that carries it, and   *)
(* not longer than the call or the messages it was made for.               *)
PrmOutlivesMessages ==
  /\ \A m \in DOMAIN heap : heap[m].free => heap[m].prm \in prms
  /\ \A p \in prms : \/ \E m \in DOMAIN heap : heap[m].prm = p
                     \/ \E t \in Tasks : call[t].prm = p

(* What lies in an ack queue is what the owner of the mailbox waits for.   *)
(* The loops that look for the right acknowledgement, and the second loop  *)
(* of OSA_mbxFlush, never meet another.                                    *)
AcksExpected == \A t \in Tasks : Contents(ack[t]) \subseteq call[t].sent

(* A call that waits returns OSA_SOK exactly if everybody who got its      *)
(* message answered OSA_SOK (OSA_mbxFlush and OSA_mbxWaitCmd do).          *)
AnswerIsTrue == \A t \in Tasks :
                  call[t].op = "none" => (ret[t] = "SOK" <=> given[t] \subseteq {"SOK"})

(* Every send and every broadcast returns, although queues fill up and     *)
(* receivers may be waiting for acknowledgements of their own.             *)
CallsReturn == \A t \in Tasks :
                 call[t].op \in {"send", "broadcast"} ~> call[t].op = "none"

(* The heap of the mailboxes: messages and parameters have owners who free *)
(* them once (OSA_mbxSendMsg, BroadcastMsg, AckOrFreeMsg, FlushMsg).       *)
HeapInv == TypeOK /\ OneOwner /\ PrmOutlivesMessages

(* A waiting call meets only its own acknowledgements and returns what     *)
(* they say (osa_mbx.c:68, 155).                                           *)
AckInv == AcksExpected /\ AnswerIsTrue
=============================================================================
