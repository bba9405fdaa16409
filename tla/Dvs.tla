-------------------------------- MODULE Dvs --------------------------------
(***************************************************************************)
(* The threads of the server process and how they start and stop: main     *)
(* (core/src/main.c), the session thread and its sub-session threads       *)
(* (core/src/session.c), the video encoder (core/src/videoEncode.c), the   *)
(* audio encoder and the alarm thread; the rendezvous at which the four    *)
(* worker threads meet (utils/osa/inc/rendezvous.h) and the pipes through  *)
(* which frames travel (utils/osa/inc/fifoutil.h).                         *)
(*                                                                         *)
(* A step is what a thread does between two operations other threads can   *)
(* see: a test of the quit flag, a put, a get, a meet, a join.  pc[t] says *)
(* where a thread is and i[t] is its loop counter.  What send_to_client    *)
(* does to the tables is the subject of ClientMgr.                         *)
(***************************************************************************)
EXTENDS Integers, Sequences

CONSTANTS chs, CHS_PER_SESSION,
          refCh,            \* chId of videoEncodeThrFxn: the channel that is read
          PIPE_CAP,         \* elements a pipe holds before a write blocks
          MaxFrames,        \* bound on the frames read
          SpuriousWakeups,  \* pthread_cond_wait may return without a signal
          InitMayFail,      \* malloc or pipe() may fail at start
          LateStart         \* a sub-session thread may take more than the
                            \* 10 ms of usleep before it reads its argument

NG     == chs \div CHS_PER_SESSION
Groups == 0 .. NG - 1
Chans  == 0 .. chs - 1

(* In the order in which main creates and joins them. *)
NUM_OF_THREADS == 4
hThread == [k \in 0 .. NUM_OF_THREADS - 1 |->
              IF k = 0 THEN "session" ELSE IF k = 1 THEN "video"
              ELSE IF k = 2 THEN "audio" ELSE "alarm"]
Workers == {"session", "video", "audio", "alarm"}
Loops   == {"main", "session", "video"}

ASSUME SizesAssumption ==
  /\ CHS_PER_SESSION \in Nat \ {0} /\ NG \in Nat \ {0} /\ chs = NG * CHS_PER_SESSION
  /\ refCh \in Chans /\ PIPE_CAP \in Nat \ {0} /\ MaxFrames \in Nat
ASSUME SwitchesAssumption ==
  {SpuriousWakeups, InitMayFail, LateStart} \subseteq BOOLEAN

VARIABLES pc, i,      \* main and the four worker threads
          sub,        \* the sub-session threads: [pc, id, elt]
          count,      \* rendezvousInit
          fifo, pipe, \* g_NetSessionFifos: state, and the elements inside
          buf,        \* video_encoded_frame_buf: the frame each buffer holds
          frame,      \* frames read so far
          overrun,    \* the encoder has once been faster than a sub-session thread
          exiting, quit, rtpUp, nsent

vars == <<pc, i, sub, count, fifo, pipe, buf, frame, overrun, exiting, quit, rtpUp, nsent>>
data == <<sub, fifo, pipe, buf, frame, overrun, nsent>>
flags == <<exiting, quit, rtpUp>>

(* SessionElement; n, the frame the writer meant, is not in the code, where *)
(* the element carries the address of buf[ch].                              *)
NoElt  == [cmd |-> "none", ch |-> 0, n |-> 0]
Flush  == [cmd |-> "flush", ch |-> 0, n |-> 0]
Buffer(c, n) == [cmd |-> "buffer", ch |-> c, n |-> n]

-----------------------------------------------------------------------------
Init == /\ pc = [t \in Workers \cup {"main"} |-> IF t = "main" THEN "create" ELSE "none"]
        /\ i = [t \in Loops |-> 0]
        /\ sub = [g \in Groups |-> [pc |-> "none", id |-> 0, elt |-> NoElt]]
        /\ count = NUM_OF_THREADS
        /\ fifo = [g \in Groups |-> "unopened"] /\ pipe = [g \in Groups |-> <<>>]
        /\ buf = [c \in Chans |-> 0] /\ frame = 0 /\ overrun = FALSE
        /\ exiting = FALSE /\ quit = FALSE /\ rtpUp = TRUE /\ nsent = 0

Goto(t, p) == pc' = [pc EXCEPT ![t] = p]

-----------------------------------------------------------------------------
(* rendezvous.h *)

(* Where a thread goes on after the meeting. *)
Started(t) == IF t = "session" THEN "create" ELSE IF t = "video" THEN "top" ELSE "loop"

(* pthread_cond_broadcast *)
Unblock(p) == [t \in DOMAIN p |-> IF p[t] = "wait" THEN Started(t) ELSE p[t]]

(* Mutant: the last but one to arrive opens the barrier. *)
MeetOffByOne(t) ==
  /\ pc[t] = "meet"
  /\ count' = count - 1
  /\ pc' = IF count' > 1 THEN [pc EXCEPT ![t] = "wait"]
                         ELSE Unblock([pc EXCEPT ![t] = "wait"])
  /\ UNCHANGED <<i, data, flags>>

Rendezvous_meet(t) ==
  /\ pc[t] = "meet"
  /\ count' = count - 1
  /\ pc' = IF count' > 0 THEN [pc EXCEPT ![t] = "wait"]
                         ELSE Unblock([pc EXCEPT ![t] = "wait"])
  /\ UNCHANGED <<i, data, flags>>

(* The wait is not in a loop: a thread woken for no reason leaves. *)
SpuriousWakeup(t) ==
  /\ SpuriousWakeups /\ pc[t] = "wait"
  /\ Goto(t, Started(t))
  /\ UNCHANGED <<i, count, data, flags>>

-----------------------------------------------------------------------------
(* main.c *)

CreateThread ==
  /\ pc["main"] = "create"
  /\ LET t == hThread[i["main"]] IN
     pc' = [pc EXCEPT ![t] = IF t \in {"session", "video"} THEN "init" ELSE "meet",
                      !["main"] = IF i["main"] + 1 = NUM_OF_THREADS THEN "poll" ELSE "create"]
  /\ i' = [i EXCEPT !["main"] = (@ + 1) % NUM_OF_THREADS]
  /\ UNCHANGED <<count, data, flags>>

(* pthread_create fails: main returns, and with it the process ends. *)
CreateFails ==
  /\ pc["main"] = "create"
  /\ Goto("main", "exited")
  /\ UNCHANGED <<i, count, data, flags>>

(* The operator, or a client's RESET_BOARD or SET_RESOLUTION. *)
gblSetExitState ==
  /\ ~exiting
  /\ exiting' = TRUE
  /\ UNCHANGED <<pc, i, count, data, quit, rtpUp>>

SetQuit ==
  /\ pc["main"] = "poll" /\ exiting
  /\ quit' = TRUE
  /\ Goto("main", "join")
  /\ UNCHANGED <<i, count, data, exiting, rtpUp>>

AfterJoin == IF i["main"] + 1 = NUM_OF_THREADS THEN "rtp_exit" ELSE "join"

(* Mutant: the threads are not waited for, only cancelled. *)
JoinSkips ==
  /\ pc["main"] = "join"
  /\ Goto("main", AfterJoin)
  /\ i' = [i EXCEPT !["main"] = (@ + 1) % NUM_OF_THREADS]
  /\ UNCHANGED <<count, data, flags>>

(* OSA_thrJoin, and for the alarm thread OSA_thrDelete: it is cancelled,   *)
(* wherever it is, and joined.                                             *)
OSA_thrJoin ==
  /\ pc["main"] = "join"
  /\ LET t == hThread[i["main"]] IN
     /\ t # "alarm" => pc[t] = "exited"
     /\ pc' = [pc EXCEPT ![t] = "exited", !["main"] = AfterJoin]
  /\ i' = [i EXCEPT !["main"] = (@ + 1) % NUM_OF_THREADS]
  /\ UNCHANGED <<count, data, flags>>

rtp_exit ==
  /\ pc["main"] = "rtp_exit"
  /\ rtpUp' = FALSE
  /\ Goto("main", "clean")
  /\ UNCHANGED <<i, count, data, exiting, quit>>

(* clean_tcp_listen_thread, clean_uart_tcp_listen_thread, return. *)
Clean ==
  /\ pc["main"] = "clean"
  /\ Goto("main", "exited")
  /\ UNCHANGED <<i, count, data, flags>>

main == CreateThread \/ SetQuit \/ OSA_thrJoin \/ rtp_exit \/ Clean

-----------------------------------------------------------------------------
(* session.c *)

init_session_tsk ==
  /\ pc["session"] = "init"
  /\ fifo' = [g \in Groups |-> "open"]
  /\ Goto("session", "meet")
  /\ UNCHANGED <<i, sub, count, pipe, buf, frame, overrun, flags, nsent>>

(* FifoUtil_open fails at group k: the thread returns, meeting nobody. *)
init_session_fails ==
  /\ InitMayFail /\ pc["session"] = "init"
  /\ \E k \in Groups : fifo' = [g \in Groups |-> IF g < k THEN "open" ELSE "unopened"]
  /\ Goto("session", "exited")
  /\ UNCHANGED <<i, sub, count, pipe, buf, frame, overrun, flags, nsent>>

CreateSub ==
  LET g == i["session"] IN
  /\ pc["session"] = "create" /\ g < NG
  /\ sub' = [sub EXCEPT ![g].pc = "start"]
  /\ Goto("session", "usleep")
  /\ UNCHANGED <<i, count, fifo, pipe, buf, frame, overrun, flags, nsent>>

(* Mutant: no pause between two creations. *)
NextSubAtOnce ==
  /\ pc["session"] = "usleep"
  /\ i' = [i EXCEPT !["session"] = @ + 1]
  /\ Goto("session", "create")
  /\ UNCHANGED <<count, data, flags>>

(* The usleep gives the new thread time to read i. *)
NextSub ==
  /\ pc["session"] = "usleep"
  /\ LateStart \/ sub[i["session"]].pc # "start"
  /\ i' = [i EXCEPT !["session"] = @ + 1]
  /\ Goto("session", "create")
  /\ UNCHANGED <<count, data, flags>>

StartJoins ==
  /\ pc["session"] = "create" /\ i["session"] = NG
  /\ i' = [i EXCEPT !["session"] = 0]
  /\ Goto("session", "join")
  /\ UNCHANGED <<count, data, flags>>

(* Mutant: a thread that has not exited is not waited for. *)
JoinSubSkips ==
  LET g == i["session"] IN
  /\ pc["session"] = "join" /\ g < NG
  /\ i' = [i EXCEPT !["session"] = g + 1]
  /\ UNCHANGED <<pc, count, data, flags>>

JoinSub ==
  LET g == i["session"] IN
  /\ pc["session"] = "join" /\ g < NG
  /\ sub[g].pc = "exited"
  /\ i' = [i EXCEPT !["session"] = g + 1]
  /\ UNCHANGED <<pc, count, data, flags>>

(* delete_session_tsk: the clients go and Rendezvous_force is called, then *)
(* the fifos are closed one by one.                                        *)
delete_session_tsk ==
  /\ pc["session"] = "join" /\ i["session"] = NG
  /\ count' = 0
  /\ pc' = Unblock([pc EXCEPT !["session"] = "close"])
  /\ i' = [i EXCEPT !["session"] = 0]
  /\ UNCHANGED <<data, flags>>

FifoUtil_close ==
  LET g == i["session"] IN
  /\ pc["session"] = "close"
  /\ fifo' = [fifo EXCEPT ![g] = "closed"]
  /\ i' = [i EXCEPT !["session"] = g + 1]
  /\ Goto("session", IF g + 1 = NG THEN "exited" ELSE "close")
  /\ UNCHANGED <<sub, count, pipe, buf, frame, overrun, flags, nsent>>

sessionThrFxn == \/ init_session_tsk \/ init_session_fails \/ Rendezvous_meet("session")
                 \/ CreateSub \/ NextSub \/ StartJoins \/ JoinSub
                 \/ delete_session_tsk \/ FifoUtil_close

(* The thread's argument is the address of the session thread's i, which   *)
(* it reads now.                                                           *)
SubStart(g) ==
  /\ sub[g].pc = "start"
  /\ sub' = [sub EXCEPT ![g].pc = "top", ![g].id = i["session"]]
  /\ UNCHANGED <<pc, i, count, fifo, pipe, buf, frame, overrun, flags, nsent>>

SubTop(g) ==
  /\ sub[g].pc = "top"
  /\ sub' = [sub EXCEPT ![g].pc = IF quit THEN "exited" ELSE "get"]
  /\ UNCHANGED <<pc, i, count, fifo, pipe, buf, frame, overrun, flags, nsent>>

(* FifoUtil_get blocks on an empty pipe, whatever the quit flag says.  A   *)
(* thread with an id of NG reads from a fifo nobody opened: what it then   *)
(* does is not followed further.                                           *)
SubGet(g) ==
  LET id == sub[g].id IN
  /\ sub[g].pc = "get" /\ id \in Groups
  /\ fifo[id] = "open" /\ pipe[id] # <<>>
  /\ pipe' = [pipe EXCEPT ![id] = Tail(@)]
  /\ LET e == Head(pipe[id]) IN
     sub' = [sub EXCEPT ![g].pc = IF e.cmd = "flush" THEN "exited" ELSE "send",
                        ![g].elt = IF e.cmd = "flush" THEN NoElt ELSE e]
  /\ UNCHANGED <<pc, i, count, fifo, buf, frame, overrun, flags, nsent>>

send_to_client(g) ==
  /\ sub[g].pc = "send"
  /\ sub' = [sub EXCEPT ![g].pc = "top", ![g].elt = NoElt]
  /\ nsent' = nsent + 1
  /\ UNCHANGED <<pc, i, count, fifo, pipe, buf, frame, overrun, flags>>

subSessionThrFxn(g) == SubStart(g) \/ SubTop(g) \/ SubGet(g) \/ send_to_client(g)

-----------------------------------------------------------------------------
(* videoEncode.c *)

videoEncodeInit ==
  /\ pc["video"] = "init"
  /\ \/ Goto("video", "meet")
     \/ InitMayFail /\ Goto("video", "exited")
  /\ UNCHANGED <<i, count, data, flags>>

(* The test of the quit flag and readEncodedFrameInFile; at the end of the *)
(* file it reads nothing and the loop goes round.                          *)
ReadFrame ==
  /\ pc["video"] = "top" /\ ~quit
  /\ frame < MaxFrames
  /\ frame' = frame + 1
  /\ buf' = [buf EXCEPT ![refCh] = frame + 1]
  /\ Goto("video", "put")
  /\ UNCHANGED <<i, sub, count, fifo, pipe, overrun, flags, nsent>>

SeeQuit ==
  /\ pc["video"] = "top" /\ quit
  /\ Goto("video", "flush")
  /\ UNCHANGED <<i, count, data, flags>>

(* FifoUtil_put: blocks on a full pipe, fails on a closed one; the caller  *)
(* does not look at the answer.                                            *)
FifoUtil_put(g, e) ==
  /\ fifo[g] = "open" => Len(pipe[g]) < PIPE_CAP
  /\ pipe' = IF fifo[g] = "open" THEN [pipe EXCEPT ![g] = Append(@, e)] ELSE pipe

(* Mutant: only the buffers behind the one that was read are filled. *)
CopyBehind(c) == IF c > refCh THEN [buf EXCEPT ![c] = buf[refCh]] ELSE buf

(* The memcpy of the frame into the buffer of channel c. *)
CopyFrame(c) == IF c # refCh THEN [buf EXCEPT ![c] = buf[refCh]] ELSE buf

PutFrame ==
  LET c == i["video"] IN
  /\ pc["video"] = "put"
  /\ buf' = CopyFrame(c)
  /\ FifoUtil_put(c \div CHS_PER_SESSION, Buffer(c, frame))
  /\ i' = [i EXCEPT !["video"] = (c + 1) % chs]
  /\ Goto("video", IF c + 1 = chs THEN "sleep" ELSE "put")
  /\ UNCHANGED <<sub, count, fifo, frame, overrun, flags, nsent>>

(* usleep(40000), during which the frames should have been sent. *)
Drained(g) == \/ sub[g].pc = "exited"
              \/ pipe[g] = <<>> /\ sub[g].pc \in {"top", "get"}

Awake ==
  /\ pc["video"] = "sleep"
  /\ overrun' = (overrun \/ \E g \in Groups : ~Drained(g))
  /\ Goto("video", "top")
  /\ UNCHANGED <<i, sub, count, fifo, pipe, buf, frame, flags, nsent>>

(* Mutant: one FLUSH for all. *)
PutFlushOnce ==
  /\ pc["video"] = "flush"
  /\ FifoUtil_put(0, Flush)
  /\ Goto("video", "exited")
  /\ UNCHANGED <<i, sub, count, fifo, buf, frame, overrun, flags, nsent>>

PutFlush ==
  LET g == i["video"] IN
  /\ pc["video"] = "flush"
  /\ FifoUtil_put(g, Flush)
  /\ i' = [i EXCEPT !["video"] = g + 1]
  /\ Goto("video", IF g + 1 = NG THEN "exited" ELSE "flush")
  /\ UNCHANGED <<sub, count, fifo, buf, frame, overrun, flags, nsent>>

videoEncodeThrFxn == \/ videoEncodeInit \/ Rendezvous_meet("video")
                     \/ ReadFrame \/ SeeQuit \/ PutFrame \/ Awake \/ PutFlush

(* audioEncodeThrFxn, alarmInputThrFxn: nothing but waiting for the end, as *)
(* far as this module goes.                                                 *)
LoopEnds(t) ==
  /\ t \in {"audio", "alarm"} /\ pc[t] = "loop" /\ quit
  /\ Goto(t, "exited")
  /\ UNCHANGED <<i, count, data, flags>>

OtherThrFxn(t) == Rendezvous_meet(t) \/ LoopEnds(t)

-----------------------------------------------------------------------------
Running == \/ main \/ CreateFails \/ gblSetExitState
           \/ sessionThrFxn \/ videoEncodeThrFxn
           \/ \E t \in {"audio", "alarm"} : OtherThrFxn(t)
           \/ \E g \in Groups : subSessionThrFxn(g)
           \/ \E t \in Workers : SpuriousWakeup(t)

(* The process is gone. *)
Ended == pc["main"] = "exited" /\ UNCHANGED vars

Next == (pc["main"] # "exited" /\ Running) \/ Ended

Spec == Init /\ [][Next]_vars

(* Every thread that can proceed is scheduled eventually.  Nobody is       *)
(* obliged to ask for the end, and nothing has to fail.                    *)
Alive(A) == pc["main"] # "exited" /\ A

FairSpec ==
  /\ Spec
  /\ WF_vars(Alive(main)) /\ WF_vars(Alive(sessionThrFxn)) /\ WF_vars(Alive(videoEncodeThrFxn))
  /\ \A t \in {"audio", "alarm"} : WF_vars(Alive(OtherThrFxn(t)))
  /\ \A g \in Groups : WF_vars(Alive(subSessionThrFxn(g)))

-----------------------------------------------------------------------------
Elements == {NoElt, Flush} \cup {Buffer(c, n) : c \in Chans, n \in 1 .. MaxFrames}

(* Every thread is at one of its places, every counter within its loop, and *)
(* no pipe holds more than it can.                                          *)
TypeOK ==
  /\ pc \in [Workers \cup {"main"} ->
               {"none", "init", "meet", "wait", "create", "usleep", "join", "close", "top", "put",
                "sleep", "flush", "loop", "poll", "rtp_exit", "clean", "exited"}]
  /\ i["main"] \in 0 .. NUM_OF_THREADS - 1 /\ i["session"] \in 0 .. NG /\ i["video"] \in 0 .. chs
  /\ sub \in [Groups -> [pc : {"none", "start", "top", "get", "send", "exited"},
                         id : 0 .. NG, elt : Elements]]
  /\ count \in -NUM_OF_THREADS .. NUM_OF_THREADS
  /\ fifo \in [Groups -> {"unopened", "open", "closed"}]
  /\ \A g \in Groups : Len(pipe[g]) <= PIPE_CAP /\ \A k \in 1 .. Len(pipe[g]) : pipe[g][k] \in Elements
  /\ buf \in [Chans -> 0 .. MaxFrames] /\ frame \in 0 .. MaxFrames
  /\ {overrun, exiting, quit, rtpUp} \subseteq BOOLEAN /\ nsent \in Nat

(* rendezvous.h:65-67: Rendezvous_meet blocks the caller until the others  *)
(* are done initialising: none works while another is not initialised.     *)
InitBarrier ==
  (\E t \in Workers : pc[t] \notin {"none", "init", "meet", "wait", "exited"})
     => \A t \in Workers : pc[t] \notin {"none", "init", "meet"}

(* A sub-session thread only reads from a fifo that is open: the session   *)
(* thread has opened it before and joins the reader before closing it.     *)
NoGetAfterClose ==
  \A g \in Groups : sub[g].pc = "get" => sub[g].id \in Groups /\ fifo[sub[g].id] = "open"

(* fifoutil.h:6-7: only one reader per fifo is supported, so no two        *)
(* sub-session threads have the same id, and each has a fifo of its own.   *)
OneReaderPerFifo ==
  \A g, h \in Groups :
     sub[g].pc \in {"top", "get", "send"} =>
       /\ sub[g].id \in Groups
       /\ sub[h].pc \in {"top", "get", "send"} /\ sub[g].id = sub[h].id => g = h

(* fifoutil.h:65: "No API calls can be made on this fifo after this": the  *)
(* encoder never puts into a fifo the session thread has closed.           *)
NoPutAfterClose ==
  /\ pc["video"] = "put" => fifo[i["video"] \div CHS_PER_SESSION] # "closed"
  /\ pc["video"] = "flush" => fifo[i["video"]] # "closed"

(* The fifos' readers: each fifo has one, which reads only while it is     *)
(* open, also when initialisations fail and pipes are full (session.c).    *)
FifoInv == TypeOK /\ NoGetAfterClose /\ OneReaderPerFifo

(* When main calls rtp_exit no worker and no sub-session thread is left    *)
(* that could still use the RTP library.                                   *)
NoThreadOutlivesRtpExit ==
  pc["main"] \in {"rtp_exit", "clean"} =>
    /\ \A t \in Workers : pc[t] = "exited"
    /\ \A g \in Groups : sub[g].pc \in {"none", "exited"}

(* The frame a sub-session thread sends is the one that was queued, for the *)
(* channel's only buffer has not been filled again: the pause of 40 ms after *)
(* each frame is all this takes, as long as it has always sufficed.          *)
FrameIntact ==
  ~overrun => \A g \in Groups : sub[g].pc = "send" => buf[sub[g].elt.ch] = sub[g].elt.n

(* Once an exit has been asked for, the process ends: no thread waits for  *)
(* ever for a frame, for the rendezvous or for another thread.             *)
ShutdownCompletes == exiting ~> (pc["main"] = "exited")

-----------------------------------------------------------------------------
SessionState == IF pc["session"] \in {"none", "init"} THEN "starting"
                ELSE IF pc["session"] \in {"close", "exited"} THEN "deleted" ELSE "running"

Life == INSTANCE ServerLife WITH sessionThr <- SessionState

(* The threads implement the life of the server that ClientMgr relies on:  *)
(* frames are sent only while the client table is valid, the clients are   *)
(* deleted only after the quit flag is set, and rtp_exit comes last.       *)
LifeSpec == Life!Spec
=============================================================================
