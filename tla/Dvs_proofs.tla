----------------------------- MODULE Dvs_proofs -----------------------------
(***************************************************************************)
(* The threads of the server, whatever the number of channels, groups and  *)
(* frames.  Whatever fails, nobody uses RTP after rtp_exit, and every      *)
(* pipe, counter and place stays in range.  The rendezvous holds as long   *)
(* as pthread_cond_wait only returns when it has been signalled.  A fifo   *)
(* has one reader, which sends the frames that were queued, as long as a   *)
(* sub-session thread starts within the pause that its creator makes.  If  *)
(* the initialisations succeed, the threads implement ServerLife, on which *)
(* the client tables rely.                                                 *)
(***************************************************************************)
EXTENDS Dvs, TLAPS

Before == {"none", "init", "meet"}
Places == {"none", "init", "meet", "wait", "create", "usleep", "join", "close", "top", "put",
           "sleep", "flush", "loop", "poll", "rtp_exit", "clean", "exited"}

(* 1 for a thread that has not yet arrived at the rendezvous, by itself or *)
(* because its initialisation failed; 0 for one that waits there.          *)
Missing(p, t) == IF p[t] = "wait" THEN 0 ELSE 1

(* Before it opens, the count is the number of threads still missing, and  *)
(* the audio and alarm threads, whose start cannot fail, have not exited.  *)
Shut(p, n) ==
  /\ \A t \in Workers : p[t] \in Before \cup {"wait", "exited"}
  /\ p["audio"] # "exited" /\ p["alarm"] # "exited"
  /\ n = Missing(p, "session") + Missing(p, "video") + Missing(p, "audio") + Missing(p, "alarm")

(* Afterwards nobody is in front of it any more. *)
Opened(p) == \A t \in Workers : p[t] \notin Before \cup {"wait"}

(* main cancels the alarm thread only after it has joined the audio thread, *)
(* and has created every thread before it joins the first.                  *)
MainInv ==
  /\ i["main"] \in 0 .. NUM_OF_THREADS - 1
  /\ pc["main"] \in {"create", "poll", "join", "rtp_exit", "clean", "exited"}
  /\ pc["main"] = "create" => \A k \in i["main"] .. NUM_OF_THREADS - 1 : pc[hThread[k]] = "none"
  /\ pc["main"] = "join" /\ i["main"] = 3 => pc["audio"] = "exited"
  /\ pc["main"] = "poll" => i["main"] = 0

IInv == /\ pc \in [Workers \cup {"main"} -> Places]
        /\ i \in [Loops -> Nat]
        /\ MainInv
        /\ Shut(pc, count) \/ Opened(pc)

(* A step of one worker that stays in front of the rendezvous. *)
LEMMA MoveBefore ==
  ASSUME NEW p \in [Workers \cup {"main"} -> Places], NEW n, Shut(p, n) \/ Opened(p),
         NEW t \in Workers, p[t] \in Before, NEW q \in Before \cup {"exited"},
         q = "exited" => t \in {"session", "video"}
  PROVE  Shut([p EXCEPT ![t] = q], n)
BY DEF Workers, Places, Shut, Opened, Before, Missing

(* A step of one worker behind it. *)
LEMMA MoveBehind ==
  ASSUME NEW p \in [Workers \cup {"main"} -> Places], NEW n, Shut(p, n) \/ Opened(p),
         NEW t \in Workers, p[t] \notin Before \cup {"wait", "exited"},
         NEW q \in Places \ (Before \cup {"wait"})
  PROVE  Opened([p EXCEPT ![t] = q])
BY DEF Workers, Places, Shut, Opened, Before

(* No worker thread works while another has yet to arrive: the rendezvous  *)
(* of rendezvous.h, although a single `if` guards its wait, is a barrier   *)
(* when there are no spurious wake-ups.                                    *)
THEOREM BarrierInvariant == ASSUME ~SpuriousWakeups PROVE Spec => []InitBarrier
<1>1. Init => IInv
  BY DEF Init, IInv, MainInv, Shut, Missing, Before, hThread, Workers, Loops, NUM_OF_THREADS, Places
<1>2. ASSUME IInv, [Next]_vars PROVE IInv'
  <2>t. pc \in [Workers \cup {"main"} -> Places] /\ i \in [Loops -> Nat]
    BY <1>2 DEF IInv
  <2>b. Shut(pc, count) \/ Opened(pc)
    BY <1>2 DEF IInv
  <2>m. MainInv
    BY <1>2 DEF IInv
  (* A worker that moves alone does not disturb what is said of main. *)
  <2>w. ASSUME NEW t \in Workers, NEW q \in Places, pc' = [pc EXCEPT ![t] = q],
               i' \in [Loops -> Nat], i'["main"] = i["main"], pc[t] \notin {"none", "exited"},
               count' = count,
               \/ q \in Before \cup {"exited"} /\ pc[t] \in Before
                    /\ (q = "exited" => t \in {"session", "video"})
               \/ q \notin Before \cup {"wait"} /\ pc[t] \notin Before \cup {"wait"}
        PROVE  IInv'
    <3>1. MainInv'
      BY <2>t, <2>m, <2>w DEF MainInv, hThread, NUM_OF_THREADS, Workers, Places
    <3>2. (Shut(pc, count) \/ Opened(pc))'
      BY <2>t, <2>b, <2>w, MoveBefore, MoveBehind
    <3>3. pc' \in [Workers \cup {"main"} -> Places]
      BY <2>t, <2>w
    <3> QED
      BY <2>w, <3>1, <3>2, <3>3 DEF IInv
  <2>1. ASSUME NEW t \in Workers, Rendezvous_meet(t) PROVE IInv'
    <3>0. pc[t] = "meet" /\ i' = i /\ count' = count - 1
      BY <2>1 DEF Rendezvous_meet
    <3>1. Shut(pc, count)
      BY <2>b, <3>0 DEF Opened, Before
    <3>2. CASE count' > 0
      <4>1. pc' = [pc EXCEPT ![t] = "wait"]
        BY <2>1, <3>2 DEF Rendezvous_meet
      <4>2. Shut(pc', count')
        BY <2>t, <3>0, <3>1, <4>1 DEF Shut, Missing, Workers, Before, Places
      <4>3. MainInv'
        BY <2>t, <2>m, <3>0, <4>1 DEF MainInv, hThread, NUM_OF_THREADS, Workers, Places
      <4> QED
        BY <2>t, <3>0, <4>1, <4>2, <4>3 DEF IInv, Places
    <3>3. CASE ~(count' > 0)
      <4>1. \A u \in Workers \ {t} : pc[u] = "wait"
        BY <2>t, <3>0, <3>1, <3>3 DEF Shut, Missing, Workers, Before
      <4>2. pc' = Unblock([pc EXCEPT ![t] = "wait"])
        BY <2>1, <3>3 DEF Rendezvous_meet
      <4>3. /\ pc' \in [Workers \cup {"main"} -> Places]
            /\ \A u \in Workers : pc'[u] = Started(u)
            /\ pc'["main"] = pc["main"]
        <5>1. pc["main"] # "wait"
          BY <2>m DEF MainInv
        <5> QED
          BY <2>t, <4>1, <4>2, <5>1 DEF Unblock, Started, Workers, Places
      <4>4. Opened(pc')
        BY <4>3 DEF Opened, Started, Workers, Before
      <4>5. MainInv'
        <5>1. pc["main"] # "create" /\ ~(pc["main"] = "join" /\ i["main"] = 3)
          <6>1. pc["alarm"] # "none" /\ pc["audio"] # "exited"
            BY <3>0, <3>1, <4>1 DEF Shut, Workers
          <6>2. pc["main"] = "create" => pc[hThread[3]] = "none"
            BY <2>m DEF MainInv, NUM_OF_THREADS
          <6>3. hThread[3] = "alarm"
            BY DEF hThread, NUM_OF_THREADS
          <6> QED
            BY <2>m, <6>1, <6>2, <6>3 DEF MainInv
        <5> QED
          BY <2>m, <3>0, <4>3, <5>1 DEF MainInv, NUM_OF_THREADS
      <4> QED
        BY <2>t, <3>0, <4>3, <4>4, <4>5 DEF IInv
    <3> QED
      BY <3>2, <3>3
  <2>2. CASE CreateThread
    <3> DEFINE k == i["main"]
               t == hThread[k]
               q == IF t \in {"session", "video"} THEN "init" ELSE "meet"
    <3>1. /\ pc["main"] = "create" /\ k \in 0 .. 3 /\ t \in Workers /\ pc[t] = "none"
          /\ q \in Before /\ count' = count
          /\ i' = [i EXCEPT !["main"] = (@ + 1) % NUM_OF_THREADS]
          /\ pc' = [pc EXCEPT ![t] = q, !["main"] = IF k + 1 = NUM_OF_THREADS THEN "poll" ELSE "create"]
      BY <2>2, <2>m DEF CreateThread, MainInv, hThread, NUM_OF_THREADS, Workers, Before
    <3>2. Shut([pc EXCEPT ![t] = q], count)
      BY <2>t, <2>b, <3>1, MoveBefore DEF Before
    <3>3. Shut(pc', count')
      BY <2>t, <3>1, <3>2 DEF Shut, Missing, Workers
    <3>4. i' \in [Loops -> Nat] /\ pc' \in [Workers \cup {"main"} -> Places]
      BY <2>t, <3>1 DEF Places, Before, Loops, NUM_OF_THREADS
    <3>5. MainInv'
      <4>1. CASE k = 3
        <5>1. i'["main"] = 0 /\ pc'["main"] = "poll"
          BY <2>t, <3>1, <4>1 DEF NUM_OF_THREADS, Workers, Loops
        <5> QED
          BY <5>1 DEF MainInv, NUM_OF_THREADS
      <4>2. CASE k # 3
        <5>1. i'["main"] = k + 1 /\ pc'["main"] = "create"
          BY <2>t, <3>1, <4>2 DEF NUM_OF_THREADS, Workers, Loops
        <5>2. \A j \in k + 1 .. 3 : hThread[j] # t /\ hThread[j] \in Workers
          BY <3>1 DEF hThread, NUM_OF_THREADS, Workers
        <5>3. \A j \in k + 1 .. 3 : pc[hThread[j]] = "none"
          BY <2>m, <3>1 DEF MainInv, NUM_OF_THREADS
        <5>4. \A j \in k + 1 .. 3 : pc'[hThread[j]] = "none"
          BY <2>t, <3>1, <5>2, <5>3 DEF Workers
        <5> QED
          <6>1. \A j \in i'["main"] .. 3 : pc'[hThread[j]] = "none"
            BY <5>1, <5>4
          <6>2. i'["main"] \in 0 .. 3
            BY <3>1, <4>2, <5>1
          <6> QED
            BY <5>1, <6>1, <6>2 DEF MainInv, NUM_OF_THREADS
      <4> QED
        BY <4>1, <4>2
    <3> QED
      BY <3>3, <3>4, <3>5 DEF IInv
  <2>3. CASE OSA_thrJoin
    <3> DEFINE k == i["main"]
               t == hThread[k]
    <3>1. /\ pc["main"] = "join" /\ k \in 0 .. 3 /\ t \in Workers /\ count' = count
          /\ (t # "alarm" => pc[t] = "exited") /\ (t = "alarm" <=> k = 3) /\ (t = "audio" <=> k = 2)
          /\ i' = [i EXCEPT !["main"] = (@ + 1) % NUM_OF_THREADS]
          /\ pc' = [pc EXCEPT ![t] = "exited", !["main"] = AfterJoin]
      BY <2>3, <2>m DEF OSA_thrJoin, MainInv, hThread, NUM_OF_THREADS, Workers
    <3>2. i' \in [Loops -> Nat] /\ pc' \in [Workers \cup {"main"} -> Places]
      BY <2>t, <3>1 DEF Places, AfterJoin, Loops, NUM_OF_THREADS
    <3>3. MainInv'
      BY <2>t, <2>m, <3>1, SMT DEF MainInv, AfterJoin, NUM_OF_THREADS, Workers, Loops
    <3>4. Shut(pc', count') \/ Opened(pc')
      <4>1. CASE Opened(pc)
        BY <2>t, <3>1, <4>1 DEF Opened, Workers, Before
      <4>2. CASE Shut(pc, count)
        <5>1. k # 3
          BY <2>m, <3>1, <4>2 DEF MainInv, Shut
        <5>2. \A u \in Workers : pc'[u] = pc[u]
          BY <2>t, <3>1, <5>1 DEF Workers
        <5> QED
          BY <3>1, <4>2, <5>2 DEF Shut, Missing, Workers
      <4> QED
        BY <2>b, <4>1, <4>2
    <3> QED
      BY <3>2, <3>3, <3>4 DEF IInv
  (* Steps of main that concern nobody else. *)
  <2>o. ASSUME NEW q \in {"join", "clean", "exited"}, pc' = [pc EXCEPT !["main"] = q],
               i' = i, count' = count, q = "join" => i["main"] = 0
        PROVE  IInv'
    <3>1. \A u \in Workers : pc'[u] = pc[u]
      BY <2>t, <2>o DEF Workers
    <3>2. Shut(pc', count') \/ Opened(pc')
      BY <2>b, <2>o, <3>1 DEF Shut, Opened, Missing, Workers
    <3>3. pc'["main"] = q /\ pc' \in [Workers \cup {"main"} -> Places]
      BY <2>t, <2>o DEF Places
    <3>4. MainInv'
      BY <2>m, <2>o, <3>3 DEF MainInv
    <3> QED
      BY <2>t, <2>o, <3>2, <3>3, <3>4 DEF IInv
  <2>4. CASE CreateFails \/ SetQuit \/ rtp_exit \/ Clean
    BY <2>4, <2>m, <2>o DEF CreateFails, SetQuit, rtp_exit, Clean, Goto, MainInv
  <2>5. CASE gblSetExitState \/ JoinSub \/ UNCHANGED vars
    <3>1. pc' = pc /\ count' = count /\ i'["main"] = i["main"] /\ i' \in [Loops -> Nat]
      BY <2>5, <2>t DEF gblSetExitState, JoinSub, vars, Loops
    <3> QED
      BY <1>2, <3>1 DEF IInv, MainInv, Shut, Opened, Missing
  <2>6. CASE delete_session_tsk
    <3>1. pc["session"] = "join" /\ i' = [i EXCEPT !["session"] = 0]
          /\ pc' = Unblock([pc EXCEPT !["session"] = "close"])
      BY <2>6 DEF delete_session_tsk
    <3>2. Opened(pc)
      BY <2>b, <3>1 DEF Shut, Workers, Before
    <3>3. pc' = [pc EXCEPT !["session"] = "close"]
      <4>1. \A u \in Workers \cup {"main"} : pc[u] # "wait"
        BY <2>m, <3>2 DEF Opened, MainInv
      <4>2. DOMAIN pc = Workers \cup {"main"}
        BY <2>t
      <4> QED
        BY <2>t, <3>1, <4>1, <4>2 DEF Unblock, Workers
    <3>4. Opened(pc')
      BY <2>t, <3>2, <3>3 DEF Opened, Workers, Before
    <3>5. MainInv'
      <4>1. /\ pc'["main"] = pc["main"] /\ pc'["audio"] = pc["audio"] /\ i'["main"] = i["main"]
        BY <2>t, <3>1, <3>3 DEF Workers, Loops
      <4>2. pc["main"] # "create"
        <5>1. pc["main"] = "create" => pc[hThread[3]] = "none"
          BY <2>m DEF MainInv, NUM_OF_THREADS
        <5>2. hThread[3] = "alarm" /\ pc["alarm"] # "none"
          BY <3>2 DEF hThread, NUM_OF_THREADS, Opened, Workers, Before
        <5> QED
          BY <5>1, <5>2
      <4> QED
        BY <2>m, <4>1, <4>2 DEF MainInv
    <3> QED
      BY <2>t, <3>1, <3>3, <3>4, <3>5 DEF IInv, Places, Loops
  <2>7. CASE init_session_tsk \/ init_session_fails
    BY <2>7, <2>t, <2>w DEF init_session_tsk, init_session_fails, Goto, Workers, Places, Before
  <2>8. CASE CreateSub \/ NextSub \/ StartJoins \/ FifoUtil_close
    <3> DEFINE q == pc'["session"]
    <3>1. /\ q \in Places /\ pc' = [pc EXCEPT !["session"] = q] /\ count' = count
          /\ q \notin Before \cup {"wait"}
          /\ pc["session"] \notin Before \cup {"wait", "none", "exited"}
      BY <2>8, <2>t DEF CreateSub, NextSub, StartJoins, FifoUtil_close, Goto, Workers, Places, Before
    <3>2. i' \in [Loops -> Nat] /\ i'["main"] = i["main"]
      BY <2>8, <2>t DEF CreateSub, NextSub, StartJoins, FifoUtil_close, Loops
    <3> QED
      BY <2>w, <3>1, <3>2 DEF Workers
  <2>9. ASSUME NEW g \in Groups, subSessionThrFxn(g) PROVE IInv'
    <3>1. UNCHANGED <<pc, i, count>>
      BY <2>9 DEF subSessionThrFxn, SubStart, SubTop, SubGet, send_to_client
    <3> QED
      BY <1>2, <3>1 DEF IInv, MainInv
  <2>10. CASE videoEncodeInit
    BY <2>10, <2>t, <2>w DEF videoEncodeInit, Goto, Workers, Places, Before
  <2>11. CASE ReadFrame \/ SeeQuit \/ PutFrame \/ Awake \/ PutFlush
    <3> DEFINE q == pc'["video"]
    <3>1. /\ q \in Places /\ pc' = [pc EXCEPT !["video"] = q] /\ count' = count
          /\ q \notin Before \cup {"wait"}
          /\ pc["video"] \notin Before \cup {"wait", "none", "exited"}
      BY <2>11, <2>t DEF ReadFrame, SeeQuit, PutFrame, Awake, PutFlush, Goto, Workers, Places, Before
    <3>2. i' \in [Loops -> Nat] /\ i'["main"] = i["main"]
      <4>1. \A c \in Nat : (c + 1) % chs \in Nat
        BY SizesAssumption
      <4> QED
        BY <2>11, <2>t, <4>1 DEF ReadFrame, SeeQuit, PutFrame, Awake, PutFlush, Loops
    <3> QED
      BY <2>w, <3>1, <3>2 DEF Workers
  <2>12. ASSUME NEW t \in {"audio", "alarm"}, LoopEnds(t) PROVE IInv'
    BY <2>12, <2>t, <2>w DEF LoopEnds, Goto, Workers, Places, Before
  <2>13. ASSUME NEW t \in Workers, SpuriousWakeup(t) PROVE IInv'
    BY <2>13 DEF SpuriousWakeup
  <2> QED
    BY <1>2, <2>1, <2>2, <2>3, <2>4, <2>5, <2>6, <2>7, <2>8, <2>9, <2>10, <2>11, <2>12, <2>13
       DEF Next, Running, Ended, main, sessionThrFxn, videoEncodeThrFxn, OtherThrFxn, Workers
<1>3. IInv => InitBarrier
  BY DEF IInv, InitBarrier, Shut, Opened, Before, Workers
<1> QED
  BY <1>1, <1>2, <1>3, PTL DEF Spec

-----------------------------------------------------------------------------
(* The places of each thread. *)
Waiting == {"none", "init", "meet", "wait"}
PlacesOK ==
  /\ pc \in [Workers \cup {"main"} -> Places] /\ i \in [Loops -> Nat]
  /\ pc["main"] \in {"create", "poll", "join", "rtp_exit", "clean", "exited"}
  /\ pc["session"] \in Waiting \cup {"create", "usleep", "join", "close", "exited"}
  /\ pc["video"] \in Waiting \cup {"top", "put", "sleep", "flush", "exited"}
  /\ pc["audio"] \in {"none", "meet", "wait", "loop", "exited"}
  /\ pc["alarm"] \in {"none", "meet", "wait", "loop", "exited"}

(* main creates the threads in order, joins them in order, and sets the    *)
(* quit flag in between.                                                   *)
MainOK ==
  /\ i["main"] \in 0 .. 3
  /\ pc["main"] = "create" => /\ i["main"] <= 0 => pc["session"] = "none"
                              /\ i["main"] <= 1 => pc["video"] = "none"
                              /\ i["main"] <= 2 => pc["audio"] = "none"
                              /\ pc["alarm"] = "none"
  /\ pc["main"] = "poll" => i["main"] = 0
  /\ pc["main"] = "join" => /\ i["main"] >= 1 => pc["session"] = "exited"
                            /\ i["main"] >= 2 => pc["video"] = "exited"
                            /\ i["main"] >= 3 => pc["audio"] = "exited"
  /\ pc["main"] \in {"rtp_exit", "clean"} => \A t \in Workers : pc[t] = "exited"
  /\ quit => pc["main"] \in {"join", "rtp_exit", "clean", "exited"}
  /\ pc["main"] \notin {"clean", "exited"} => rtpUp

(* The fifos are open from the end of init_session_tsk to the first        *)
(* FifoUtil_close.                                                         *)
SessionOK ==
  /\ i["session"] <= NG
  /\ pc["session"] \in Waiting => i["session"] = 0
  /\ pc["session"] \in {"usleep", "close"} => i["session"] < NG
  /\ pc["session"] \in {"meet", "wait", "create", "usleep", "join"} =>
        \A g \in Groups : fifo[g] = "open"

VideoOK ==
  /\ pc["video"] \in Waiting \cup {"top", "sleep"} => i["video"] = 0
  /\ pc["video"] \in Waiting => frame = 0
  /\ pc["video"] = "put" => i["video"] < chs /\ frame >= 1
  /\ pc["video"] = "flush" => i["video"] < NG /\ quit
  /\ pc["video"] = "exited" => i["video"] <= NG

(* The rendezvous count is never lower than minus the number of threads    *)
(* that have come by.                                                      *)
Passed(t) == IF pc[t] \in Before THEN 0 ELSE 1
CountOK == /\ count \in Int /\ count <= NUM_OF_THREADS
           /\ count >= -(Passed("session") + Passed("video") + Passed("audio") + Passed("alarm"))

Queued == Elements \ {NoElt}
SubPlaces  == {"none", "start", "top", "get", "send", "exited"}
SubThreads == [pc : SubPlaces, id : 0 .. NG, elt : Elements]
DataOK ==
  /\ sub \in [Groups -> SubThreads]
  /\ fifo \in [Groups -> {"unopened", "open", "closed"}]
  /\ pipe \in [Groups -> Seq(Queued)] /\ \A g \in Groups : Len(pipe[g]) <= PIPE_CAP
  /\ buf \in [Chans -> 0 .. MaxFrames] /\ frame \in 0 .. MaxFrames
  /\ overrun \in BOOLEAN /\ exiting \in BOOLEAN /\ quit \in BOOLEAN /\ rtpUp \in BOOLEAN
  /\ nsent \in Nat

(* The sub-session threads live within the session thread's loops, and     *)
(* they, and the FLUSH that ends them, are the end's doing.                *)
SubOK ==
  /\ \A g \in Groups : sub[g].pc \notin {"none", "exited"} =>
                         pc["session"] \in {"create", "usleep", "join"}
  /\ pc["session"] = "join" => \A g \in 0 .. i["session"] - 1 : sub[g].pc = "exited"
  /\ \A g \in Groups : sub[g].pc = "exited" => quit
  /\ \A g \in Groups : \A k \in 1 .. Len(pipe[g]) : pipe[g][k].cmd = "flush" => quit

DvsInv == PlacesOK /\ MainOK /\ SessionOK /\ VideoOK /\ CountOK /\ DataOK /\ SubOK

(* A sub-session thread that starts in time has its own number. *)
IdsOK ==
  /\ \A g \in Groups : sub[g].pc \in {"top", "get", "send", "exited"} => sub[g].id = g
  /\ \A g \in Groups : sub[g].pc = "start" => pc["session"] = "usleep" /\ i["session"] = g
  /\ \A g \in Groups : \/ pc["session"] \in Waiting \cup {"create"} /\ g >= i["session"]
                       \/ pc["session"] = "usleep" /\ g > i["session"]
                       => sub[g].pc = "none"

Good(e) == /\ e.n = frame /\ buf[e.ch] = frame
           /\ pc["video"] = "put" => e.ch < i["video"]
GoodPipe(g) == \A k \in 1 .. Len(pipe[g]) : pipe[g][k].cmd = "buffer" => Good(pipe[g][k])
GoodGroup(g) ==
  /\ GoodPipe(g)
  /\ sub[g].pc = "send" => Good(sub[g].elt)
  /\ pc["video"] \in Waiting \cup {"top"} => pipe[g] = <<>> /\ sub[g].pc # "send"
FrameOK == /\ pc["video"] = "put" => buf[refCh] = frame
           /\ ~overrun => \A g \in Groups : sub[g].pc = "exited" \/ GoodGroup(g)

-----------------------------------------------------------------------------
(* The threads by number, as main creates and joins them. *)
LEMMA ThreadNumbers ==
  /\ hThread[0] = "session" /\ hThread[1] = "video" /\ hThread[2] = "audio" /\ hThread[3] = "alarm"
  /\ \A k \in 0 .. 3 : hThread[k] \in Workers
BY DEF hThread, NUM_OF_THREADS, Workers

(* Every channel has its group, and there are no more groups than channels. *)
LEMMA GroupOfChannel ==
  /\ CHS_PER_SESSION \in Nat \ {0} /\ NG \in Nat \ {0} /\ chs \in Nat \ {0} /\ NG <= chs
  /\ \A c \in Chans : c \div CHS_PER_SESSION \in Groups
<1>1. CHS_PER_SESSION \in Nat \ {0} /\ NG \in Nat \ {0} /\ chs = NG * CHS_PER_SESSION
  BY SizesAssumption
<1> HIDE DEF NG
<1>2. chs \in Nat \ {0} /\ NG <= chs
  BY <1>1
<1>3. ASSUME NEW c \in Chans PROVE c \div CHS_PER_SESSION \in Groups
  <2>1. PICK q \in Int : q = c \div CHS_PER_SESSION
    BY <1>1, <1>2 DEF Chans
  <2>2. q >= 0 /\ CHS_PER_SESSION * q <= c
    BY <1>1, <1>2, <2>1 DEF Chans
  <2>3. q < NG
    <3>1. ASSUME q >= NG PROVE FALSE
      <4>1. CHS_PER_SESSION * q >= CHS_PER_SESSION * NG
        BY <1>1, <3>1
      <4>2. CHS_PER_SESSION * NG = chs
        BY <1>1
      <4> QED
        <5> DEFINE m == CHS_PER_SESSION * q
        <5>1. m \in Int /\ c \in Int /\ c < chs
          BY <1>1, <1>2 DEF Chans
        <5>2. m <= c /\ m >= chs
          BY <2>2, <4>1, <4>2
        <5> HIDE DEF m
        <5> QED
          BY <1>2, <5>1, <5>2
    <3> QED
      BY <1>1, <3>1
  <2> QED
    BY <1>1, <2>1, <2>2, <2>3 DEF Groups
<1> QED
  BY <1>1, <1>2, <1>3

(* Every step of the process, by the function it is a step of. *)
LEMMA DvsSteps ==
  ASSUME [Next]_vars
  PROVE  \/ CreateThread \/ CreateFails \/ SetQuit \/ OSA_thrJoin \/ rtp_exit \/ Clean
         \/ gblSetExitState
         \/ \E t \in Workers : Rendezvous_meet(t) \/ SpuriousWakeup(t)
         \/ init_session_tsk \/ init_session_fails \/ CreateSub \/ NextSub \/ StartJoins
         \/ JoinSub \/ delete_session_tsk \/ FifoUtil_close
         \/ \E g \in Groups : SubStart(g) \/ SubTop(g) \/ SubGet(g) \/ send_to_client(g)
         \/ videoEncodeInit \/ ReadFrame \/ SeeQuit \/ PutFrame \/ Awake \/ PutFlush
         \/ LoopEnds("audio") \/ LoopEnds("alarm")
         \/ UNCHANGED vars
BY DEF Next, Running, Ended, main, sessionThrFxn, videoEncodeThrFxn, OtherThrFxn,
       subSessionThrFxn, Workers

(* A thread arrives at the rendezvous, or leaves it: the others stay where *)
(* they are or leave it too.                                               *)
Comes(u) == pc[u] \in {"meet", "wait"} /\ pc'[u] \in {"wait", Started(u)}

LEMMA RendezvousMoves ==
  ASSUME PlacesOK, NEW t \in Workers, Rendezvous_meet(t) \/ SpuriousWakeup(t)
  PROVE  /\ pc' \in [Workers \cup {"main"} -> Places] /\ pc'["main"] = pc["main"]
         /\ UNCHANGED <<i, data, flags>>
         /\ \A u \in Workers : pc'[u] = pc[u] \/ Comes(u)
<1>1. pc \in [Workers \cup {"main"} -> Places] /\ pc["main"] # "wait" /\ "main" \notin Workers
  BY DEF PlacesOK, Workers
<1>2. \A u \in Workers : Started(u) \in Places
  BY DEF Started, Workers, Places
<1>3. CASE SpuriousWakeup(t)
  BY <1>1, <1>2, <1>3 DEF SpuriousWakeup, Goto, Comes, Places
<1>4. CASE Rendezvous_meet(t)
  <2>1. pc[t] = "meet" /\ UNCHANGED <<i, data, flags>>
    BY <1>4 DEF Rendezvous_meet
  <2> DEFINE p == [pc EXCEPT ![t] = "wait"]
  <2>2. p \in [Workers \cup {"main"} -> Places] /\ p["main"] = pc["main"]
    BY <1>1 DEF Places
  <2>3. \A u \in Workers : p[u] = IF u = t THEN "wait" ELSE pc[u]
    BY <1>1
  <2>4. pc' = p \/ pc' = Unblock(p)
    BY <1>4 DEF Rendezvous_meet
  <2> HIDE DEF p
  <2>5. CASE pc' = p
    BY <2>1, <2>2, <2>3, <2>5 DEF Comes
  <2>6. CASE pc' = Unblock(p)
    <3>1. /\ pc' \in [Workers \cup {"main"} -> Places] /\ pc'["main"] = pc["main"]
          /\ \A u \in Workers : pc'[u] = IF p[u] = "wait" THEN Started(u) ELSE p[u]
      BY <1>1, <1>2, <2>2, <2>6 DEF Unblock
    <3> QED
      BY <2>1, <2>3, <3>1 DEF Comes
  <2> QED
    BY <2>4, <2>5, <2>6
<1> QED
  BY <1>3, <1>4

(* Rendezvous_force in delete_session_tsk lets everybody go. *)
LEMMA DeleteMoves ==
  ASSUME PlacesOK, delete_session_tsk
  PROVE  /\ pc' \in [Workers \cup {"main"} -> Places] /\ pc'["main"] = pc["main"]
         /\ pc["session"] = "join" /\ pc'["session"] = "close"
         /\ i["session"] = NG /\ i' = [i EXCEPT !["session"] = 0] /\ count' = 0
         /\ UNCHANGED <<data, flags>>
         /\ \A u \in Workers \ {"session"} : pc'[u] = pc[u] \/ Comes(u)
<1>1. pc \in [Workers \cup {"main"} -> Places] /\ pc["main"] # "wait" /\ "main" \notin Workers
  BY DEF PlacesOK, Workers
<1>2. \A u \in Workers : Started(u) \in Places
  BY DEF Started, Workers, Places
<1> DEFINE p == [pc EXCEPT !["session"] = "close"]
<1>3. /\ p \in [Workers \cup {"main"} -> Places] /\ p["main"] = pc["main"] /\ p["session"] = "close"
      /\ \A u \in Workers \ {"session"} : p[u] = pc[u]
  BY <1>1 DEF Places, Workers
<1>4. pc' = Unblock(p)
  BY DEF delete_session_tsk
<1> HIDE DEF p
<1>5. /\ pc' \in [Workers \cup {"main"} -> Places] /\ pc'["main"] = pc["main"]
      /\ \A u \in Workers : pc'[u] = IF p[u] = "wait" THEN Started(u) ELSE p[u]
  BY <1>1, <1>2, <1>3, <1>4 DEF Unblock
<1>6. pc'["session"] = "close"
  BY <1>3, <1>5 DEF Workers
<1> QED
  BY <1>3, <1>5, <1>6 DEF delete_session_tsk, Comes

(* Every thread stays within its own places. *)
LEMMA PlacesStep == ASSUME PlacesOK, MainOK, [Next]_vars PROVE PlacesOK'
<1>t. /\ pc \in [Workers \cup {"main"} -> Places] /\ i \in [Loops -> Nat]
      /\ i["main"] \in 0 .. 3
  BY DEF PlacesOK, MainOK
<1>1. ASSUME NEW t \in Workers, Rendezvous_meet(t) \/ SpuriousWakeup(t) PROVE PlacesOK'
  BY <1>1, RendezvousMoves DEF PlacesOK, Comes, Started, Workers, Waiting
<1>2. CASE delete_session_tsk
  <2>1. i' \in [Loops -> Nat]
    BY <1>t, <1>2 DEF delete_session_tsk, Loops
  <2> QED
    BY <1>2, <2>1, DeleteMoves DEF PlacesOK, Comes, Started, Workers, Waiting
<1>3. CASE CreateThread
  <2>1. i' \in [Loops -> Nat]
    BY <1>t, <1>3 DEF CreateThread, Loops, NUM_OF_THREADS
  <2>2. PICK t \in Workers : t = hThread[i["main"]]
    BY <1>t, ThreadNumbers
  <2>3. /\ pc["main"] = "create"
        /\ \E q \in {"poll", "create"} :
              pc' = [pc EXCEPT ![t] = IF t \in {"session", "video"} THEN "init" ELSE "meet",
                               !["main"] = q]
    BY <1>3, <2>2 DEF CreateThread
  <2> QED
    BY <2>1, <2>3 DEF PlacesOK, Places, Workers, Waiting
<1>4. CASE OSA_thrJoin
  <2>1. i' \in [Loops -> Nat]
    BY <1>t, <1>4 DEF OSA_thrJoin, Loops, NUM_OF_THREADS
  <2>2. PICK t \in Workers : t = hThread[i["main"]]
    BY <1>t, ThreadNumbers
  <2>3. \E q \in {"rtp_exit", "join"} : pc' = [pc EXCEPT ![t] = "exited", !["main"] = q]
    BY <1>4, <2>2 DEF OSA_thrJoin, AfterJoin
  <2> QED
    BY <2>1, <2>3 DEF PlacesOK, Places, Workers, Waiting
<1>5. CASE CreateFails \/ SetQuit \/ rtp_exit \/ Clean \/ gblSetExitState
  BY <1>5 DEF CreateFails, SetQuit, rtp_exit, Clean, gblSetExitState, Goto, PlacesOK, Places, Workers
<1>6. CASE init_session_tsk \/ init_session_fails \/ CreateSub \/ NextSub \/ StartJoins
           \/ JoinSub \/ FifoUtil_close
  <2>1. i' \in [Loops -> Nat]
    BY <1>t, <1>6 DEF init_session_tsk, init_session_fails, CreateSub, NextSub, StartJoins,
                      JoinSub, FifoUtil_close, Loops
  <2>2. \/ pc' = pc
        \/ \E q \in {"meet", "create", "usleep", "join", "close", "exited"} :
              pc' = [pc EXCEPT !["session"] = q]
    BY <1>6 DEF init_session_tsk, init_session_fails, CreateSub, NextSub, StartJoins,
                JoinSub, FifoUtil_close, Goto
  <2> QED
    BY <2>1, <2>2 DEF PlacesOK, Places, Workers, Waiting
<1>7. ASSUME NEW g \in Groups, SubStart(g) \/ SubTop(g) \/ SubGet(g) \/ send_to_client(g)
      PROVE  PlacesOK'
  BY <1>7 DEF SubStart, SubTop, SubGet, send_to_client, PlacesOK
<1>8. CASE videoEncodeInit \/ ReadFrame \/ SeeQuit \/ PutFrame \/ Awake \/ PutFlush
  <2>1. i' \in [Loops -> Nat]
    <3>1. \A c \in Nat : (c + 1) % chs \in Nat
      BY GroupOfChannel
    <3> QED
      BY <1>t, <1>8, <3>1 DEF videoEncodeInit, ReadFrame, SeeQuit, PutFrame, Awake, PutFlush, Loops
  <2>2. \E q \in {"meet", "put", "sleep", "top", "flush", "exited"} :
           pc' = [pc EXCEPT !["video"] = q]
    BY <1>8 DEF videoEncodeInit, ReadFrame, SeeQuit, PutFrame, Awake, PutFlush, Goto
  <2> QED
    BY <2>1, <2>2 DEF PlacesOK, Places, Workers, Waiting
<1>9. CASE LoopEnds("audio") \/ LoopEnds("alarm")
  BY <1>9 DEF LoopEnds, Goto, PlacesOK, Places, Workers
<1>10. CASE UNCHANGED vars
  BY <1>10 DEF vars, PlacesOK
<1> QED
  BY <1>1, <1>2, <1>3, <1>4, <1>5, <1>6, <1>7, <1>8, <1>9, <1>10, DvsSteps

(* A step of the session thread alone, of the video thread alone. *)
SessionAlone == /\ \A u \in (Workers \cup {"main"}) \ {"session"} : pc'[u] = pc[u]
                /\ i'["main"] = i["main"] /\ i'["video"] = i["video"]
                /\ pc["session"] \notin {"none", "exited", "wait"} /\ pc'["session"] # "none"
                /\ pc'["session"] \in Before => pc["session"] \in Before
                /\ UNCHANGED <<count, flags>>
VideoAlone == /\ \A u \in (Workers \cup {"main"}) \ {"video"} : pc'[u] = pc[u]
              /\ i'["main"] = i["main"] /\ i'["session"] = i["session"]
              /\ pc["video"] \notin {"none", "exited", "wait"} /\ pc'["video"] # "none"
              /\ pc'["video"] \in Before => pc["video"] \in Before
              /\ UNCHANGED <<count, flags>>

(* sessionThrFxn, apart from the rendezvous and delete_session_tsk. *)
LEMMA SessionMoves ==
  ASSUME PlacesOK, \/ init_session_tsk \/ init_session_fails \/ CreateSub \/ NextSub
                   \/ StartJoins \/ JoinSub \/ FifoUtil_close
  PROVE  SessionAlone
<1>1. pc \in [Workers \cup {"main"} -> Places] /\ i \in [Loops -> Nat]
  BY DEF PlacesOK
<1>2. i'["main"] = i["main"] /\ i'["video"] = i["video"]
  BY <1>1 DEF init_session_tsk, init_session_fails, CreateSub, NextSub, StartJoins, JoinSub,
              FifoUtil_close, Loops
<1>3. /\ \A u \in (Workers \cup {"main"}) \ {"session"} : pc'[u] = pc[u]
      /\ pc["session"] \notin {"none", "exited", "wait"} /\ pc'["session"] # "none"
      /\ pc'["session"] \in Before => pc["session"] \in Before
  BY <1>1 DEF init_session_tsk, init_session_fails, CreateSub, NextSub, StartJoins, JoinSub,
              FifoUtil_close, Goto, Workers, Before
<1>4. UNCHANGED <<count, flags>>
  BY DEF init_session_tsk, init_session_fails, CreateSub, NextSub, StartJoins, JoinSub,
         FifoUtil_close
<1> QED
  BY <1>2, <1>3, <1>4 DEF SessionAlone

(* videoEncodeThrFxn, apart from the rendezvous. *)
LEMMA VideoMoves ==
  ASSUME PlacesOK, videoEncodeInit \/ ReadFrame \/ SeeQuit \/ PutFrame \/ Awake \/ PutFlush
  PROVE  VideoAlone
<1>1. pc \in [Workers \cup {"main"} -> Places] /\ i \in [Loops -> Nat]
  BY DEF PlacesOK
<1>2. i'["main"] = i["main"] /\ i'["session"] = i["session"]
  BY <1>1 DEF videoEncodeInit, ReadFrame, SeeQuit, PutFrame, Awake, PutFlush, Loops
<1>3. /\ \A u \in (Workers \cup {"main"}) \ {"video"} : pc'[u] = pc[u]
      /\ pc["video"] \notin {"none", "exited", "wait"} /\ pc'["video"] # "none"
      /\ pc'["video"] \in Before => pc["video"] \in Before
  BY <1>1 DEF videoEncodeInit, ReadFrame, SeeQuit, PutFrame, Awake, PutFlush, Goto, Workers, Before
<1>4. UNCHANGED <<count, flags>>
  BY DEF videoEncodeInit, ReadFrame, SeeQuit, PutFrame, Awake, PutFlush
<1> QED
  BY <1>2, <1>3, <1>4 DEF VideoAlone

(* What main does to the other threads. *)
LEMMA MainMoves ==
  ASSUME PlacesOK, MainOK
  PROVE  /\ CreateThread => \E t \in Workers :
              /\ t = hThread[i["main"]] /\ pc[t] = "none" /\ pc["main"] = "create"
              /\ pc'[t] = IF t \in {"session", "video"} THEN "init" ELSE "meet"
              /\ \A u \in Workers \ {t} : pc'[u] = pc[u]
              /\ pc'["main"] = IF i["main"] = 3 THEN "poll" ELSE "create"
              /\ i'["main"] = IF i["main"] = 3 THEN 0 ELSE i["main"] + 1
              /\ i'["session"] = i["session"] /\ i'["video"] = i["video"]
              /\ UNCHANGED <<count, data, flags>>
         /\ OSA_thrJoin => \E t \in Workers :
              /\ t = hThread[i["main"]] /\ pc["main"] = "join"
              /\ t # "alarm" => pc[t] = "exited"
              /\ pc'[t] = "exited" /\ \A u \in Workers \ {t} : pc'[u] = pc[u]
              /\ pc'["main"] = IF i["main"] = 3 THEN "rtp_exit" ELSE "join"
              /\ i'["main"] = IF i["main"] = 3 THEN 0 ELSE i["main"] + 1
              /\ i'["session"] = i["session"] /\ i'["video"] = i["video"]
              /\ UNCHANGED <<count, data, flags>>
<1>1. /\ pc \in [Workers \cup {"main"} -> Places] /\ i \in [Loops -> Nat]
      /\ i["main"] \in 0 .. 3 /\ "main" \notin Workers
  BY DEF PlacesOK, MainOK, Workers
<1>2. PICK t \in Workers : t = hThread[i["main"]]
  BY <1>1, ThreadNumbers
<1>3. (i["main"] + 1) % NUM_OF_THREADS = IF i["main"] = 3 THEN 0 ELSE i["main"] + 1
  BY <1>1 DEF NUM_OF_THREADS
<1>4. i["main"] + 1 = NUM_OF_THREADS <=> i["main"] = 3
  BY <1>1 DEF NUM_OF_THREADS
<1>5. pc["main"] = "create" => pc[t] = "none"
  BY <1>1, <1>2, ThreadNumbers DEF MainOK
<1>6. ASSUME CreateThread
      PROVE  /\ pc["main"] = "create" /\ UNCHANGED <<count, data, flags>>
             /\ pc' = [pc EXCEPT ![t] = IF t \in {"session", "video"} THEN "init" ELSE "meet",
                                 !["main"] = IF i["main"] = 3 THEN "poll" ELSE "create"]
             /\ i' = [i EXCEPT !["main"] = IF i["main"] = 3 THEN 0 ELSE i["main"] + 1]
  BY <1>2, <1>3, <1>4, <1>6 DEF CreateThread
<1>7. ASSUME OSA_thrJoin
      PROVE  /\ pc["main"] = "join" /\ UNCHANGED <<count, data, flags>>
             /\ t # "alarm" => pc[t] = "exited"
             /\ pc' = [pc EXCEPT ![t] = "exited",
                                 !["main"] = IF i["main"] = 3 THEN "rtp_exit" ELSE "join"]
             /\ i' = [i EXCEPT !["main"] = IF i["main"] = 3 THEN 0 ELSE i["main"] + 1]
  BY <1>2, <1>3, <1>4, <1>7 DEF OSA_thrJoin, AfterJoin
<1>8. ASSUME CreateThread
      PROVE  /\ pc'[t] = IF t \in {"session", "video"} THEN "init" ELSE "meet"
             /\ \A u \in Workers \ {t} : pc'[u] = pc[u]
             /\ pc'["main"] = IF i["main"] = 3 THEN "poll" ELSE "create"
             /\ i'["main"] = IF i["main"] = 3 THEN 0 ELSE i["main"] + 1
             /\ i'["session"] = i["session"] /\ i'["video"] = i["video"]
  BY <1>1, <1>6, <1>8 DEF Loops
<1>9. ASSUME OSA_thrJoin
      PROVE  /\ pc'[t] = "exited" /\ \A u \in Workers \ {t} : pc'[u] = pc[u]
             /\ pc'["main"] = IF i["main"] = 3 THEN "rtp_exit" ELSE "join"
             /\ i'["main"] = IF i["main"] = 3 THEN 0 ELSE i["main"] + 1
             /\ i'["session"] = i["session"] /\ i'["video"] = i["video"]
  BY <1>1, <1>7, <1>9 DEF Loops
<1> QED
  BY <1>2, <1>5, <1>6, <1>7, <1>8, <1>9

(* main's own order. *)
LEMMA MainStep == ASSUME PlacesOK, MainOK, [Next]_vars PROVE MainOK'
<1>t. pc \in [Workers \cup {"main"} -> Places] /\ i \in [Loops -> Nat] /\ i["main"] \in 0 .. 3
  BY DEF PlacesOK, MainOK
<1>1. ASSUME NEW t \in Workers, Rendezvous_meet(t) \/ SpuriousWakeup(t) PROVE MainOK'
  BY <1>1, RendezvousMoves DEF MainOK, Comes, Workers, flags
<1>2. CASE delete_session_tsk
  <2>1. i'["main"] = i["main"]
    BY <1>t, <1>2 DEF delete_session_tsk, Loops
  <2> QED
    BY <1>2, <2>1, DeleteMoves DEF MainOK, Comes, Workers, flags
<1>3. CASE CreateThread
  BY <1>3, <1>t, MainMoves, ThreadNumbers DEF MainOK, Workers, flags
<1>4. CASE OSA_thrJoin
  BY <1>4, <1>t, MainMoves, ThreadNumbers DEF MainOK, Workers, flags
<1>5. CASE CreateFails \/ SetQuit \/ rtp_exit \/ Clean \/ gblSetExitState
  BY <1>5, <1>t DEF CreateFails, SetQuit, rtp_exit, Clean, gblSetExitState, Goto, MainOK,
                    Workers, flags
<1>6. CASE SessionAlone
  BY <1>6, <1>t DEF SessionAlone, MainOK, Workers, flags
<1>7. ASSUME NEW g \in Groups, SubStart(g) \/ SubTop(g) \/ SubGet(g) \/ send_to_client(g)
      PROVE  MainOK'
  BY <1>7 DEF SubStart, SubTop, SubGet, send_to_client, MainOK, flags
<1>8. CASE VideoAlone
  BY <1>8, <1>t DEF VideoAlone, MainOK, Workers, flags
<1>9. CASE LoopEnds("audio") \/ LoopEnds("alarm")
  BY <1>9, <1>t DEF LoopEnds, Goto, MainOK, Workers, flags
<1>10. CASE UNCHANGED vars
  BY <1>10 DEF vars, MainOK
<1> QED
  BY <1>1, <1>2, <1>3, <1>4, <1>5, <1>6, <1>7, <1>8, <1>9, <1>10, DvsSteps, SessionMoves, VideoMoves

(* Everything a step may do with the threads' places and main's counter,   *)
(* for the threads other than the session thread (the video thread).       *)
LEMMA SessionKept ==
  ASSUME PlacesOK, MainOK,
         \/ CreateThread \/ OSA_thrJoin \/ CreateFails \/ SetQuit \/ rtp_exit \/ Clean
         \/ gblSetExitState \/ (\E t \in Workers : Rendezvous_meet(t) \/ SpuriousWakeup(t))
         \/ (\E g \in Groups : SubStart(g) \/ SubTop(g) \/ SubGet(g) \/ send_to_client(g))
         \/ VideoAlone \/ LoopEnds("audio") \/ LoopEnds("alarm") \/ UNCHANGED vars
  PROVE  /\ i'["session"] = i["session"]
         /\ \/ pc'["session"] = pc["session"]
            \/ pc["session"] = "none" /\ pc'["session"] = "init"
            \/ pc["session"] \in {"meet", "wait"} /\ pc'["session"] \in {"wait", "create"}
<1>t. pc \in [Workers \cup {"main"} -> Places] /\ i \in [Loops -> Nat] /\ i["main"] \in 0 .. 3
  BY DEF PlacesOK, MainOK
<1>1. ASSUME NEW t \in Workers, Rendezvous_meet(t) \/ SpuriousWakeup(t)
      PROVE  /\ i' = i
             /\ \/ pc'["session"] = pc["session"]
                \/ pc["session"] \in {"meet", "wait"} /\ pc'["session"] \in {"wait", "create"}
  BY <1>1, RendezvousMoves DEF Comes, Started, Workers
<1>2. CASE CreateThread
  BY <1>2, MainMoves DEF Workers
<1>3. CASE OSA_thrJoin
  BY <1>3, MainMoves DEF Workers
<1>4. CASE \/ CreateFails \/ SetQuit \/ rtp_exit \/ Clean \/ gblSetExitState
           \/ LoopEnds("audio") \/ LoopEnds("alarm") \/ UNCHANGED vars
  BY <1>4, <1>t DEF CreateFails, SetQuit, rtp_exit, Clean, gblSetExitState, LoopEnds, Goto, vars,
                    Workers
<1>5. ASSUME NEW g \in Groups, SubStart(g) \/ SubTop(g) \/ SubGet(g) \/ send_to_client(g)
      PROVE  UNCHANGED <<pc, i>>
  BY <1>5 DEF SubStart, SubTop, SubGet, send_to_client
<1>6. CASE VideoAlone
  BY <1>6 DEF VideoAlone, Workers
<1> QED
  BY <1>1, <1>2, <1>3, <1>4, <1>5, <1>6

(* The same for the video thread. *)
LEMMA VideoKept ==
  ASSUME PlacesOK, MainOK,
         \/ CreateThread \/ OSA_thrJoin \/ CreateFails \/ SetQuit \/ rtp_exit \/ Clean
         \/ gblSetExitState \/ (\E t \in Workers : Rendezvous_meet(t) \/ SpuriousWakeup(t))
         \/ (\E g \in Groups : SubStart(g) \/ SubTop(g) \/ SubGet(g) \/ send_to_client(g))
         \/ SessionAlone \/ delete_session_tsk
         \/ LoopEnds("audio") \/ LoopEnds("alarm") \/ UNCHANGED vars
  PROVE  /\ i'["video"] = i["video"]
         /\ \/ pc'["video"] = pc["video"]
            \/ pc["video"] = "none" /\ pc'["video"] = "init"
            \/ pc["video"] \in {"meet", "wait"} /\ pc'["video"] \in {"wait", "top"}
<1>t. pc \in [Workers \cup {"main"} -> Places] /\ i \in [Loops -> Nat] /\ i["main"] \in 0 .. 3
  BY DEF PlacesOK, MainOK
<1>1. ASSUME NEW t \in Workers, Rendezvous_meet(t) \/ SpuriousWakeup(t)
      PROVE  /\ i' = i
             /\ \/ pc'["video"] = pc["video"]
                \/ pc["video"] \in {"meet", "wait"} /\ pc'["video"] \in {"wait", "top"}
  BY <1>1, RendezvousMoves DEF Comes, Started, Workers
<1>2. CASE CreateThread
  BY <1>2, MainMoves DEF Workers
<1>3. CASE OSA_thrJoin
  BY <1>3, MainMoves DEF Workers
<1>4. CASE \/ CreateFails \/ SetQuit \/ rtp_exit \/ Clean \/ gblSetExitState
           \/ LoopEnds("audio") \/ LoopEnds("alarm") \/ UNCHANGED vars
  BY <1>4, <1>t DEF CreateFails, SetQuit, rtp_exit, Clean, gblSetExitState, LoopEnds, Goto, vars,
                    Workers
<1>5. ASSUME NEW g \in Groups, SubStart(g) \/ SubTop(g) \/ SubGet(g) \/ send_to_client(g)
      PROVE  UNCHANGED <<pc, i>>
  BY <1>5 DEF SubStart, SubTop, SubGet, send_to_client
<1>6. CASE SessionAlone
  BY <1>6 DEF SessionAlone, Workers
<1>7. CASE delete_session_tsk
  <2>1. i'["video"] = i["video"]
    BY <1>t, <1>7 DEF delete_session_tsk, Loops
  <2> QED
    BY <1>7, <2>1, DeleteMoves DEF Comes, Started, Workers
<1> QED
  BY <1>1, <1>2, <1>3, <1>4, <1>5, <1>6, <1>7

(* The quit flag stays up. *)
LEMMA QuitStays == ASSUME [Next]_vars, quit PROVE quit'
<1>1. ASSUME NEW t \in Workers, Rendezvous_meet(t) \/ SpuriousWakeup(t) PROVE UNCHANGED flags
  BY <1>1 DEF Rendezvous_meet, SpuriousWakeup
<1>2. ASSUME NEW g \in Groups, SubStart(g) \/ SubTop(g) \/ SubGet(g) \/ send_to_client(g)
      PROVE UNCHANGED flags
  BY <1>2 DEF SubStart, SubTop, SubGet, send_to_client
<1> QED
  BY <1>1, <1>2, DvsSteps
     DEF flags, vars, CreateThread, CreateFails, SetQuit, OSA_thrJoin, rtp_exit, Clean,
         gblSetExitState, init_session_tsk, init_session_fails, CreateSub, NextSub, StartJoins,
         JoinSub, delete_session_tsk, FifoUtil_close, videoEncodeInit, ReadFrame, SeeQuit,
         PutFrame, Awake, PutFlush, LoopEnds

(* The session thread's counter, and the fifos it has opened. *)
LEMMA SessionStep ==
  ASSUME PlacesOK, MainOK, SessionOK, DataOK, [Next]_vars
  PROVE  SessionOK'
<1>t. /\ pc \in [Workers \cup {"main"} -> Places] /\ i \in [Loops -> Nat]
      /\ NG \in Nat \ {0} /\ fifo \in [Groups -> {"unopened", "open", "closed"}]
  BY GroupOfChannel DEF PlacesOK, DataOK
<1>1. CASE init_session_tsk \/ init_session_fails
  BY <1>1, <1>t DEF init_session_tsk, init_session_fails, Goto, SessionOK, Waiting, Workers
<1>2. CASE CreateSub \/ NextSub \/ StartJoins \/ JoinSub
  BY <1>2, <1>t DEF CreateSub, NextSub, StartJoins, JoinSub, Goto, SessionOK, Waiting, Workers,
                    Loops, data
<1>3. CASE FifoUtil_close
  BY <1>3, <1>t DEF FifoUtil_close, Goto, SessionOK, Waiting, Workers, Loops
<1>4. CASE delete_session_tsk
  BY <1>4, <1>t, DeleteMoves DEF SessionOK, Waiting, Loops
<1>5. CASE \/ CreateThread \/ OSA_thrJoin \/ CreateFails \/ SetQuit \/ rtp_exit \/ Clean
           \/ gblSetExitState \/ (\E t \in Workers : Rendezvous_meet(t) \/ SpuriousWakeup(t))
           \/ (\E g \in Groups : SubStart(g) \/ SubTop(g) \/ SubGet(g) \/ send_to_client(g))
           \/ videoEncodeInit \/ ReadFrame \/ SeeQuit \/ PutFrame \/ Awake \/ PutFlush
           \/ LoopEnds("audio") \/ LoopEnds("alarm") \/ UNCHANGED vars
  <2>1. fifo' = fifo
    <3>1. ASSUME NEW t \in Workers, Rendezvous_meet(t) \/ SpuriousWakeup(t) PROVE fifo' = fifo
      BY <3>1 DEF Rendezvous_meet, SpuriousWakeup, data
    <3>2. ASSUME NEW g \in Groups, SubStart(g) \/ SubTop(g) \/ SubGet(g) \/ send_to_client(g)
          PROVE fifo' = fifo
      BY <3>2 DEF SubStart, SubTop, SubGet, send_to_client
    <3> QED
      BY <1>5, <3>1, <3>2
         DEF CreateThread, OSA_thrJoin, CreateFails, SetQuit, rtp_exit, Clean, gblSetExitState,
             videoEncodeInit, ReadFrame, SeeQuit, PutFrame, Awake, PutFlush, LoopEnds, vars, data
  <2>2. /\ i'["session"] = i["session"]
        /\ \/ pc'["session"] = pc["session"]
           \/ pc["session"] = "none" /\ pc'["session"] = "init"
           \/ pc["session"] \in {"meet", "wait"} /\ pc'["session"] \in {"wait", "create"}
    BY <1>5, SessionKept, VideoMoves
  <2> QED
    BY <2>1, <2>2, <1>t DEF SessionOK, Waiting
<1> QED
  BY <1>1, <1>2, <1>3, <1>4, <1>5, DvsSteps

(* The encoder's counter. *)
LEMMA VideoStep ==
  ASSUME PlacesOK, MainOK, VideoOK, DataOK, [Next]_vars
  PROVE  VideoOK'
<1>t. /\ pc \in [Workers \cup {"main"} -> Places] /\ i \in [Loops -> Nat] /\ frame \in Nat
      /\ NG \in Nat \ {0} /\ chs \in Nat \ {0} /\ NG <= chs
  BY GroupOfChannel DEF PlacesOK, DataOK
<1>1. CASE videoEncodeInit \/ SeeQuit \/ Awake
  BY <1>1, <1>t DEF videoEncodeInit, SeeQuit, Awake, Goto, VideoOK, Waiting, Workers, data, flags
<1>2. CASE ReadFrame
  BY <1>2, <1>t DEF ReadFrame, Goto, VideoOK, Waiting, Workers
<1>3. CASE PutFrame
  <2>1. i["video"] \in 0 .. chs - 1
    BY <1>3, <1>t DEF PutFrame, VideoOK, Loops
  <2>2. (i["video"] + 1) % chs = IF i["video"] + 1 = chs THEN 0 ELSE i["video"] + 1
    BY <1>t, <2>1
  <2> QED
    BY <1>3, <1>t, <2>1, <2>2 DEF PutFrame, Goto, VideoOK, Waiting, Workers, Loops
<1>4. CASE PutFlush
  BY <1>4, <1>t DEF PutFlush, Goto, VideoOK, Waiting, Workers, Loops, flags
<1>5. CASE \/ CreateThread \/ OSA_thrJoin \/ CreateFails \/ SetQuit \/ rtp_exit \/ Clean
           \/ gblSetExitState \/ (\E t \in Workers : Rendezvous_meet(t) \/ SpuriousWakeup(t))
           \/ (\E g \in Groups : SubStart(g) \/ SubTop(g) \/ SubGet(g) \/ send_to_client(g))
           \/ init_session_tsk \/ init_session_fails \/ CreateSub \/ NextSub \/ StartJoins
           \/ JoinSub \/ FifoUtil_close \/ delete_session_tsk
           \/ LoopEnds("audio") \/ LoopEnds("alarm") \/ UNCHANGED vars
  <2>1. frame' = frame
    <3>1. ASSUME NEW t \in Workers, Rendezvous_meet(t) \/ SpuriousWakeup(t) PROVE frame' = frame
      BY <3>1 DEF Rendezvous_meet, SpuriousWakeup, data
    <3>2. ASSUME NEW g \in Groups, SubStart(g) \/ SubTop(g) \/ SubGet(g) \/ send_to_client(g)
          PROVE frame' = frame
      BY <3>2 DEF SubStart, SubTop, SubGet, send_to_client
    <3> QED
      BY <1>5, <3>1, <3>2
         DEF CreateThread, OSA_thrJoin, CreateFails, SetQuit, rtp_exit, Clean, gblSetExitState,
             init_session_tsk, init_session_fails, CreateSub, NextSub, StartJoins, JoinSub,
             FifoUtil_close, delete_session_tsk, LoopEnds, vars, data
  <2>2. /\ i'["video"] = i["video"]
        /\ \/ pc'["video"] = pc["video"]
           \/ pc["video"] = "none" /\ pc'["video"] = "init"
           \/ pc["video"] \in {"meet", "wait"} /\ pc'["video"] \in {"wait", "top"}
    BY <1>5, VideoKept, SessionMoves
  <2> QED
    BY <2>1, <2>2, <1>t, QuitStays DEF VideoOK, Waiting
<1> QED
  BY <1>1, <1>2, <1>3, <1>4, <1>5, DvsSteps

(* The count: every thread takes one from it at most once. *)
LEMMA CountStep ==
  ASSUME PlacesOK, MainOK, CountOK, [Next]_vars
  PROVE  CountOK'
<1>t. /\ pc \in [Workers \cup {"main"} -> Places] /\ i["main"] \in 0 .. 3
      /\ \A u \in Workers : Started(u) \notin Before
  BY DEF PlacesOK, MainOK, Started, Workers, Before
<1>1. ASSUME NEW t \in Workers, Rendezvous_meet(t) PROVE CountOK'
  <2>1. pc[t] = "meet" /\ count' = count - 1
    BY <1>1 DEF Rendezvous_meet
  <2>2. pc'[t] \notin Before
    BY <1>1, <1>t DEF Rendezvous_meet, Unblock, Before
  <2>3. \A u \in Workers : pc'[u] = pc[u] \/ pc'[u] \notin Before
    BY <1>1, <1>t, RendezvousMoves DEF Comes, Before
  <2> QED
    BY <2>1, <2>2, <2>3 DEF CountOK, Passed, Workers, Before, NUM_OF_THREADS
<1>2. ASSUME NEW t \in Workers, SpuriousWakeup(t) PROVE CountOK'
  <2>1. \A u \in Workers : pc'[u] = pc[u] \/ pc'[u] \notin Before
    BY <1>2, <1>t, RendezvousMoves DEF Comes, Before
  <2> QED
    BY <1>2, <2>1 DEF SpuriousWakeup, CountOK, Passed, Workers
<1>3. CASE delete_session_tsk
  BY <1>3, DeleteMoves DEF CountOK, Passed, NUM_OF_THREADS
<1>4. CASE CreateThread \/ OSA_thrJoin
  <2>1. count' = count /\ \A u \in Workers : \/ pc'[u] = pc[u] \/ pc[u] \in Before
                                            \/ pc'[u] = "exited"
    BY <1>4, MainMoves DEF Before
  <2>2. \A u \in Workers : pc[u] \notin Before => pc'[u] \notin Before
    BY <2>1 DEF Before
  <2> QED
    BY <2>1, <2>2 DEF CountOK, Passed, Workers
<1>5. CASE SessionAlone \/ VideoAlone
  BY <1>5 DEF SessionAlone, VideoAlone, CountOK, Passed, Workers
<1>6. CASE \/ CreateFails \/ SetQuit \/ rtp_exit \/ Clean \/ gblSetExitState
           \/ LoopEnds("audio") \/ LoopEnds("alarm") \/ UNCHANGED vars
  <2>1. count' = count
    BY <1>6 DEF CreateFails, SetQuit, rtp_exit, Clean, gblSetExitState, LoopEnds, vars
  <2>2. \A u \in Workers : pc[u] \notin Before => pc'[u] \notin Before
    BY <1>6, <1>t DEF CreateFails, SetQuit, rtp_exit, Clean, gblSetExitState, LoopEnds, Goto, vars,
                      Workers, Before
  <2> QED
    BY <2>1, <2>2 DEF CountOK, Passed, Workers
<1>7. ASSUME NEW g \in Groups, SubStart(g) \/ SubTop(g) \/ SubGet(g) \/ send_to_client(g)
      PROVE  CountOK'
  BY <1>7 DEF SubStart, SubTop, SubGet, send_to_client, CountOK, Passed
<1> QED
  BY <1>1, <1>2, <1>3, <1>4, <1>5, <1>6, <1>7, DvsSteps, SessionMoves, VideoMoves

(* A step of one sub-session thread, to place p with number d and element e. *)
SubTo(g, p, d, e) == /\ sub' \in [Groups -> SubThreads]
                     /\ sub'[g].pc = p /\ sub'[g].id = d /\ sub'[g].elt = e
                     /\ \A h \in Groups \ {g} : sub'[h] = sub[h]

(* What is written into a thread's record. *)
LEMMA SubWrites ==
  ASSUME sub \in [Groups -> SubThreads], NEW g \in Groups,
         NEW p \in SubPlaces, NEW d \in 0 .. NG, NEW e \in Elements
  PROVE  /\ sub' = [sub EXCEPT ![g].pc = p] => SubTo(g, p, sub[g].id, sub[g].elt)
         /\ sub' = [sub EXCEPT ![g].pc = p, ![g].id = d] => SubTo(g, p, d, sub[g].elt)
         /\ sub' = [sub EXCEPT ![g].pc = p, ![g].elt = e] => SubTo(g, p, sub[g].id, e)
<1>1. sub[g] \in SubThreads
  OBVIOUS
<1>2. ASSUME sub' = [sub EXCEPT ![g].pc = p] PROVE SubTo(g, p, sub[g].id, sub[g].elt)
  BY <1>1, <1>2 DEF SubTo, SubThreads
<1>3. ASSUME sub' = [sub EXCEPT ![g].pc = p, ![g].id = d] PROVE SubTo(g, p, d, sub[g].elt)
  <2> DEFINE m == [sub EXCEPT ![g].pc = p]
  <2>1. /\ m \in [Groups -> SubThreads] /\ m[g].elt = sub[g].elt /\ m[g].pc = p
        /\ \A h \in Groups \ {g} : m[h] = sub[h]
    BY <1>1 DEF SubThreads
  <2>2. sub' = [m EXCEPT ![g].id = d]
    BY <1>3
  <2> HIDE DEF m
  <2> QED
    BY <2>1, <2>2 DEF SubTo, SubThreads
<1>4. ASSUME sub' = [sub EXCEPT ![g].pc = p, ![g].elt = e] PROVE SubTo(g, p, sub[g].id, e)
  <2> DEFINE m == [sub EXCEPT ![g].pc = p]
  <2>1. /\ m \in [Groups -> SubThreads] /\ m[g].id = sub[g].id /\ m[g].pc = p
        /\ \A h \in Groups \ {g} : m[h] = sub[h]
    BY <1>1 DEF SubThreads
  <2>2. sub' = [m EXCEPT ![g].elt = e]
    BY <1>4
  <2> HIDE DEF m
  <2> QED
    BY <2>1, <2>2 DEF SubTo, SubThreads
<1> QED
  BY <1>2, <1>3, <1>4

(* The steps that write them. *)
LEMMA SubMoves ==
  ASSUME PlacesOK, SessionOK, DataOK
  PROVE  /\ CreateSub => /\ i["session"] \in Groups
                         /\ SubTo(i["session"], "start", sub[i["session"]].id, sub[i["session"]].elt)
         /\ \A g \in Groups :
              /\ SubStart(g) => SubTo(g, "top", i["session"], sub[g].elt)
              /\ SubTop(g) => SubTo(g, IF quit THEN "exited" ELSE "get", sub[g].id, sub[g].elt)
              /\ send_to_client(g) => SubTo(g, "top", sub[g].id, NoElt)
              /\ SubGet(g) =>
                   LET e == Head(pipe[sub[g].id]) IN
                   /\ e \in Queued /\ Tail(pipe[sub[g].id]) \in Seq(Queued)
                   /\ Len(Tail(pipe[sub[g].id])) = Len(pipe[sub[g].id]) - 1
                   /\ SubTo(g, IF e.cmd = "flush" THEN "exited" ELSE "send", sub[g].id,
                            IF e.cmd = "flush" THEN NoElt ELSE e)
<1>1. /\ NG \in Nat \ {0} /\ i["session"] \in 0 .. NG /\ NoElt \in Elements
      /\ sub \in [Groups -> SubThreads] /\ {"start", "top", "exited", "get", "send"} \subseteq SubPlaces
  BY GroupOfChannel DEF PlacesOK, SessionOK, DataOK, Loops, Elements, SubPlaces
<1>2. ASSUME CreateSub
      PROVE  /\ i["session"] \in Groups
             /\ SubTo(i["session"], "start", sub[i["session"]].id, sub[i["session"]].elt)
  <2>1. i["session"] \in Groups /\ sub' = [sub EXCEPT ![i["session"]].pc = "start"]
    BY <1>1, <1>2 DEF CreateSub, Groups
  <2> QED
    BY <1>1, <2>1, SubWrites
<1>3. ASSUME NEW g \in Groups, SubStart(g) PROVE SubTo(g, "top", i["session"], sub[g].elt)
  BY <1>1, <1>3, SubWrites DEF SubStart
<1>4. ASSUME NEW g \in Groups, SubTop(g)
      PROVE  SubTo(g, IF quit THEN "exited" ELSE "get", sub[g].id, sub[g].elt)
  <2>1. PICK p \in SubPlaces : p = IF quit THEN "exited" ELSE "get"
    BY <1>1
  <2>2. sub' = [sub EXCEPT ![g].pc = p]
    BY <1>4, <2>1 DEF SubTop
  <2> QED
    BY <1>1, <2>1, <2>2, SubWrites
<1>5. ASSUME NEW g \in Groups, send_to_client(g) PROVE SubTo(g, "top", sub[g].id, NoElt)
  BY <1>1, <1>5, SubWrites DEF send_to_client
<1>6. ASSUME NEW g \in Groups, SubGet(g)
      PROVE  LET e == Head(pipe[sub[g].id]) IN
             /\ e \in Queued /\ Tail(pipe[sub[g].id]) \in Seq(Queued)
             /\ Len(Tail(pipe[sub[g].id])) = Len(pipe[sub[g].id]) - 1
             /\ SubTo(g, IF e.cmd = "flush" THEN "exited" ELSE "send", sub[g].id,
                      IF e.cmd = "flush" THEN NoElt ELSE e)
  <2> DEFINE e == Head(pipe[sub[g].id])
  <2>1. pipe[sub[g].id] \in Seq(Queued) /\ pipe[sub[g].id] # <<>>
    BY <1>6 DEF SubGet, DataOK
  <2>2. /\ e \in Queued /\ Tail(pipe[sub[g].id]) \in Seq(Queued)
        /\ Len(Tail(pipe[sub[g].id])) = Len(pipe[sub[g].id]) - 1
    BY <2>1
  <2>3. PICK p \in SubPlaces : p = IF e.cmd = "flush" THEN "exited" ELSE "send"
    BY <1>1
  <2>4. PICK x \in Elements : x = IF e.cmd = "flush" THEN NoElt ELSE e
    BY <1>1, <2>2 DEF Queued
  <2>5. sub' = [sub EXCEPT ![g].pc = p, ![g].elt = x]
    BY <1>6, <2>3, <2>4 DEF SubGet
  <2>6. SubTo(g, p, sub[g].id, x)
    BY <1>1, <2>5, SubWrites
  <2> QED
    BY <2>2, <2>3, <2>4, <2>6
<1> QED
  BY <1>2, <1>3, <1>4, <1>5, <1>6

(* The frame the encoder is about to put has a channel, a group, a number. *)
LEMMA FrameToPut ==
  ASSUME PlacesOK, VideoOK, DataOK, PutFrame
  PROVE  /\ i["video"] \in Chans /\ frame \in 1 .. MaxFrames
         /\ i["video"] \div CHS_PER_SESSION \in Groups
         /\ Buffer(i["video"], frame) \in Queued
         /\ FifoUtil_put(i["video"] \div CHS_PER_SESSION, Buffer(i["video"], frame))
<1>1. chs \in Nat /\ MaxFrames \in Nat /\ i["video"] \in Nat
  BY GroupOfChannel, SizesAssumption DEF PlacesOK, Loops
<1>2. i["video"] \in Chans /\ frame \in 1 .. MaxFrames
  BY <1>1 DEF PutFrame, VideoOK, DataOK, Chans
<1>3. i["video"] \div CHS_PER_SESSION \in Groups
  BY <1>2, GroupOfChannel
<1>4. Buffer(i["video"], frame) \in Queued
  BY <1>2 DEF Queued, Elements, Buffer, NoElt
<1> QED
  BY <1>2, <1>3, <1>4 DEF PutFrame

(* The data: what is in a pipe fits, and is an element. *)
LEMMA DataStep ==
  ASSUME PlacesOK, MainOK, SessionOK, VideoOK, DataOK, [Next]_vars
  PROVE  DataOK'
<1>t. /\ NG \in Nat \ {0} /\ chs \in Nat \ {0} /\ NG <= chs /\ PIPE_CAP \in Nat \ {0}
      /\ MaxFrames \in Nat /\ refCh \in Chans /\ i \in [Loops -> Nat]
  BY GroupOfChannel, SizesAssumption DEF PlacesOK
<1>2. ASSUME NEW t \in Workers, Rendezvous_meet(t) \/ SpuriousWakeup(t) PROVE DataOK'
  BY <1>2 DEF Rendezvous_meet, SpuriousWakeup, DataOK, data, flags
<1>3. CASE \/ CreateThread \/ CreateFails \/ SetQuit \/ OSA_thrJoin \/ rtp_exit \/ Clean
           \/ gblSetExitState \/ NextSub \/ StartJoins \/ JoinSub \/ delete_session_tsk
           \/ videoEncodeInit \/ SeeQuit \/ LoopEnds("audio") \/ LoopEnds("alarm") \/ UNCHANGED vars
  BY <1>3 DEF CreateThread, CreateFails, SetQuit, OSA_thrJoin, rtp_exit, Clean, gblSetExitState,
              NextSub, StartJoins, JoinSub, delete_session_tsk, videoEncodeInit, SeeQuit, LoopEnds,
              vars, DataOK, data, flags
<1>4. CASE init_session_tsk \/ init_session_fails \/ FifoUtil_close \/ Awake
  BY <1>4 DEF init_session_tsk, init_session_fails, FifoUtil_close, Awake, DataOK, flags
<1>5. CASE CreateSub
  BY <1>5, SubMoves DEF CreateSub, SubTo, DataOK, flags
<1>6. ASSUME NEW g \in Groups, SubStart(g) \/ SubTop(g) \/ send_to_client(g) PROVE DataOK'
  <2>1. sub' \in [Groups -> SubThreads]
    BY <1>6, SubMoves DEF SubTo
  <2> QED
    BY <1>6, <2>1 DEF SubStart, SubTop, send_to_client, DataOK, flags
<1>7. ASSUME NEW g \in Groups, SubGet(g) PROVE DataOK'
  <2>1. PICK d \in Groups : d = sub[g].id
    BY <1>7 DEF SubGet
  <2>2. /\ sub' \in [Groups -> SubThreads] /\ Tail(pipe[d]) \in Seq(Queued)
        /\ Len(Tail(pipe[d])) = Len(pipe[d]) - 1
    BY <1>7, <2>1, SubMoves DEF SubTo
  <2>3. pipe' = [pipe EXCEPT ![d] = Tail(pipe[d])]
    BY <1>7, <2>1 DEF SubGet
  <2>4. pipe[d] \in Seq(Queued) /\ Len(pipe[d]) <= PIPE_CAP
    BY DEF DataOK
  <2>5. Len(Tail(pipe[d])) <= PIPE_CAP
    BY <1>t, <2>2, <2>4
  <2>6. pipe' \in [Groups -> Seq(Queued)] /\ \A h \in Groups : Len(pipe'[h]) <= PIPE_CAP
    BY <2>2, <2>3, <2>5 DEF DataOK
  <2> QED
    BY <1>7, <2>2, <2>6 DEF SubGet, DataOK, flags
<1>8. CASE ReadFrame
  BY <1>8, <1>t DEF ReadFrame, DataOK, flags
<1>9. ASSUME NEW g \in Groups, NEW e \in Queued, FifoUtil_put(g, e)
      PROVE  pipe' \in [Groups -> Seq(Queued)] /\ \A h \in Groups : Len(pipe'[h]) <= PIPE_CAP
  <2>1. pipe[g] \in Seq(Queued)
    BY DEF DataOK
  <2>2. Append(pipe[g], e) \in Seq(Queued) /\ Len(Append(pipe[g], e)) = Len(pipe[g]) + 1
    BY <2>1
  <2>3. CASE fifo[g] = "open"
    <3>1. Len(pipe[g]) < PIPE_CAP /\ pipe' = [pipe EXCEPT ![g] = Append(pipe[g], e)]
      BY <1>9, <2>3 DEF FifoUtil_put
    <3>2. Len(Append(pipe[g], e)) <= PIPE_CAP
      BY <1>t, <2>1, <2>2, <3>1
    <3> QED
      BY <2>2, <3>1, <3>2 DEF DataOK
  <2>4. CASE fifo[g] # "open"
    BY <1>9, <2>4 DEF FifoUtil_put, DataOK
  <2> QED
    BY <2>3, <2>4
<1>10. CASE PutFrame
  <2>1. i["video"] \in Chans
    BY <1>10, FrameToPut
  <2>4. pipe' \in [Groups -> Seq(Queued)] /\ \A h \in Groups : Len(pipe'[h]) <= PIPE_CAP
    BY <1>9, <1>10, FrameToPut
  <2>5. buf' \in [Chans -> 0 .. MaxFrames]
    BY <1>10, <1>t, <2>1 DEF PutFrame, CopyFrame, DataOK
  <2> QED
    BY <1>10, <2>4, <2>5 DEF PutFrame, DataOK, flags
<1>11. CASE PutFlush
  <2>1. i["video"] \in Groups /\ Flush \in Queued
    BY <1>11, <1>t DEF PutFlush, VideoOK, Groups, Loops, Queued, Elements, Flush, NoElt
  <2>2. pipe' \in [Groups -> Seq(Queued)] /\ \A h \in Groups : Len(pipe'[h]) <= PIPE_CAP
    BY <1>9, <1>11, <2>1 DEF PutFlush
  <2> QED
    BY <1>11, <2>2 DEF PutFlush, DataOK, flags
<1> QED
  BY <1>2, <1>3, <1>4, <1>5, <1>6, <1>7, <1>8, <1>10, <1>11, DvsSteps

(* Steps that leave the pipes and the sub-session threads alone. *)
LEMMA Elsewhere ==
  ASSUME \/ CreateThread \/ OSA_thrJoin \/ CreateFails \/ SetQuit \/ rtp_exit \/ Clean
         \/ gblSetExitState \/ (\E t \in Workers : Rendezvous_meet(t) \/ SpuriousWakeup(t))
         \/ init_session_tsk \/ init_session_fails \/ NextSub \/ StartJoins \/ JoinSub
         \/ delete_session_tsk \/ FifoUtil_close
         \/ videoEncodeInit \/ ReadFrame \/ SeeQuit \/ Awake
         \/ LoopEnds("audio") \/ LoopEnds("alarm") \/ UNCHANGED vars
  PROVE  UNCHANGED <<sub, pipe, nsent>>
<1>1. ASSUME NEW t \in Workers, Rendezvous_meet(t) \/ SpuriousWakeup(t)
      PROVE  UNCHANGED <<sub, pipe, nsent>>
  BY <1>1 DEF Rendezvous_meet, SpuriousWakeup, data
<1> QED
  BY <1>1 DEF CreateThread, OSA_thrJoin, CreateFails, SetQuit, rtp_exit, Clean, gblSetExitState,
              init_session_tsk, init_session_fails, NextSub, StartJoins, JoinSub,
              delete_session_tsk, FifoUtil_close, videoEncodeInit, ReadFrame, SeeQuit, Awake,
              LoopEnds, vars, data

(* A put adds the element, or nothing. *)
LEMMA PutAdds ==
  ASSUME DataOK, NEW g \in Groups, NEW e \in Queued, FifoUtil_put(g, e)
  PROVE  \A h \in Groups : \A k \in 1 .. Len(pipe'[h]) :
            \/ k \in 1 .. Len(pipe[h]) /\ pipe'[h][k] = pipe[h][k]
            \/ h = g /\ pipe'[h][k] = e
<1>1. pipe \in [Groups -> Seq(Queued)]
  BY DEF DataOK
<1>2. CASE fifo[g] = "open"
  <2>1. pipe' = [pipe EXCEPT ![g] = Append(pipe[g], e)]
    BY <1>2 DEF FifoUtil_put
  <2>2. pipe[g] \in Seq(Queued)
    BY <1>1
  <2>3. /\ Len(Append(pipe[g], e)) = Len(pipe[g]) + 1 /\ Len(pipe[g]) \in Nat
        /\ \A k \in 1 .. Len(pipe[g]) : Append(pipe[g], e)[k] = pipe[g][k]
        /\ Append(pipe[g], e)[Len(pipe[g]) + 1] = e
    BY <2>2
  <2> QED
    BY <1>1, <2>1, <2>3
<1>3. CASE fifo[g] # "open"
  BY <1>3 DEF FifoUtil_put
<1> QED
  BY <1>2, <1>3

(* A get takes the first element away. *)
LEMMA GetTakes ==
  ASSUME DataOK, NEW g \in Groups, SubGet(g)
  PROVE  /\ \A h \in Groups : \A k \in 1 .. Len(pipe'[h]) :
              \E j \in 1 .. Len(pipe[h]) : pipe'[h][k] = pipe[h][j]
         /\ 1 \in 1 .. Len(pipe[sub[g].id]) /\ Head(pipe[sub[g].id]) = pipe[sub[g].id][1]
<1>1. PICK d \in Groups : d = sub[g].id
  BY DEF SubGet
<1>2. pipe \in [Groups -> Seq(Queued)] /\ pipe[d] \in Seq(Queued) /\ pipe[d] # <<>>
  BY <1>1 DEF DataOK, SubGet
<1>3. pipe' = [pipe EXCEPT ![d] = Tail(pipe[d])]
  BY <1>1 DEF SubGet
<1>4. /\ Len(Tail(pipe[d])) = Len(pipe[d]) - 1 /\ Len(pipe[d]) \in Nat \ {0}
      /\ \A k \in 1 .. Len(pipe[d]) - 1 : Tail(pipe[d])[k] = pipe[d][k + 1]
      /\ Head(pipe[d]) = pipe[d][1]
  BY <1>2
<1>5. ASSUME NEW k \in 1 .. Len(Tail(pipe[d]))
      PROVE  \E j \in 1 .. Len(pipe[d]) : Tail(pipe[d])[k] = pipe[d][j]
  <2>1. k + 1 \in 1 .. Len(pipe[d]) /\ Tail(pipe[d])[k] = pipe[d][k + 1]
    BY <1>4
  <2> QED
    BY <2>1
<1>6. \A h \in Groups : \A k \in 1 .. Len(pipe'[h]) :
        \E j \in 1 .. Len(pipe[h]) : pipe'[h][k] = pipe[h][j]
  BY <1>2, <1>3, <1>5
<1> QED
  BY <1>1, <1>4, <1>6

(* The sub-session threads. *)
LEMMA SubStep ==
  ASSUME PlacesOK, MainOK, SessionOK, VideoOK, DataOK, SubOK, [Next]_vars
  PROVE  SubOK'
<1>t. /\ pc \in [Workers \cup {"main"} -> Places] /\ i \in [Loops -> Nat]
      /\ NG \in Nat \ {0} /\ sub \in [Groups -> SubThreads]
  BY GroupOfChannel DEF PlacesOK, DataOK
<1>1. CASE \/ CreateThread \/ OSA_thrJoin \/ CreateFails \/ SetQuit \/ rtp_exit \/ Clean
           \/ gblSetExitState \/ (\E t \in Workers : Rendezvous_meet(t) \/ SpuriousWakeup(t))
           \/ videoEncodeInit \/ ReadFrame \/ SeeQuit \/ Awake
           \/ LoopEnds("audio") \/ LoopEnds("alarm") \/ UNCHANGED vars
  <2>1. UNCHANGED <<sub, pipe>>
    BY <1>1, Elsewhere
  <2>2. /\ i'["session"] = i["session"]
        /\ \/ pc'["session"] = pc["session"]
           \/ pc["session"] = "none" /\ pc'["session"] = "init"
           \/ pc["session"] \in {"meet", "wait"} /\ pc'["session"] \in {"wait", "create"}
    BY <1>1, SessionKept, VideoMoves
  <2> QED
    BY <2>1, <2>2, QuitStays DEF SubOK
<1>2. CASE init_session_tsk \/ init_session_fails \/ NextSub \/ StartJoins \/ JoinSub \/ FifoUtil_close
  <2>1. UNCHANGED <<sub, pipe>>
    BY <1>2, Elsewhere
  <2>2. \A g \in Groups : sub[g].pc \notin {"none", "exited"} =>
                            pc'["session"] \in {"create", "usleep", "join"}
    BY <1>2, <1>t DEF init_session_tsk, init_session_fails, NextSub, StartJoins, JoinSub,
                      FifoUtil_close, Goto, SubOK, Workers
  <2>3. pc'["session"] = "join" => \A g \in 0 .. i'["session"] - 1 : sub[g].pc = "exited"
    BY <1>2, <1>t DEF init_session_tsk, init_session_fails, NextSub, StartJoins, JoinSub,
                      FifoUtil_close, Goto, SubOK, Workers, Loops
  <2> QED
    BY <2>1, <2>2, <2>3, QuitStays DEF SubOK
<1>3. CASE delete_session_tsk
  <2>1. UNCHANGED <<sub, pipe>> /\ pc'["session"] = "close"
    BY <1>3, Elsewhere, DeleteMoves
  <2>2. \A g \in Groups : sub[g].pc = "exited"
    BY <1>3, <1>t, DeleteMoves DEF SubOK, Groups
  <2> QED
    BY <2>1, <2>2, QuitStays DEF SubOK
<1>4. CASE CreateSub
  <2>1. /\ i["session"] \in Groups /\ sub'[i["session"]].pc = "start" /\ pipe' = pipe
        /\ \A h \in Groups \ {i["session"]} : sub'[h] = sub[h]
    BY <1>4, SubMoves DEF CreateSub, SubTo
  <2>2. pc["session"] = "create" /\ pc'["session"] = "usleep"
    BY <1>4, <1>t DEF CreateSub, Goto, Workers
  <2> QED
    BY <2>1, <2>2, QuitStays DEF SubOK
<1>5. ASSUME NEW g \in Groups, SubStart(g) \/ SubTop(g) \/ SubGet(g) \/ send_to_client(g)
      PROVE  SubOK'
  <2>1. UNCHANGED <<pc, i, flags>>
    BY <1>5 DEF SubStart, SubTop, SubGet, send_to_client
  <2>2. sub[g].pc \notin {"none", "exited"}
    BY <1>5 DEF SubStart, SubTop, SubGet, send_to_client
  <2>3. \A h \in Groups \ {g} : sub'[h] = sub[h]
    BY <1>5, SubMoves DEF SubTo
  <2>4. sub'[g].pc = "exited" => quit
    <3>1. CASE SubStart(g) \/ SubTop(g) \/ send_to_client(g)
      BY <3>1, SubMoves DEF SubTo
    <3>2. CASE SubGet(g)
      <4>1. sub'[g].pc = "exited" => Head(pipe[sub[g].id]).cmd = "flush"
        BY <3>2, SubMoves DEF SubTo
      <4>2. sub[g].id \in Groups /\ 1 \in 1 .. Len(pipe[sub[g].id])
            /\ Head(pipe[sub[g].id]) = pipe[sub[g].id][1]
        BY <3>2, GetTakes DEF SubGet
      <4> QED
        BY <4>1, <4>2 DEF SubOK
    <3> QED
      BY <1>5, <3>1, <3>2
  <2>5. \A h \in Groups : \A k \in 1 .. Len(pipe'[h]) : pipe'[h][k].cmd = "flush" => quit
    <3>1. CASE SubStart(g) \/ SubTop(g) \/ send_to_client(g)
      BY <3>1 DEF SubStart, SubTop, send_to_client, SubOK
    <3>2. CASE SubGet(g)
      BY <3>2, GetTakes DEF SubOK
    <3> QED
      BY <1>5, <3>1, <3>2
  <2>6. pc["session"] = "join" => \A h \in 0 .. i["session"] - 1 : sub'[h].pc = "exited"
    <3>1. pc["session"] = "join" => g \notin 0 .. i["session"] - 1
      BY <2>2 DEF SubOK
    <3>2. i["session"] \in 0 .. NG
      BY <1>t DEF SessionOK, Loops
    <3> QED
      BY <1>t, <2>3, <3>1, <3>2 DEF SubOK, Groups
  <2> QED
    BY <2>1, <2>2, <2>3, <2>4, <2>5, <2>6 DEF SubOK, flags
<1>6. CASE PutFrame \/ PutFlush
  <2>1. sub' = sub /\ UNCHANGED flags
    BY <1>6 DEF PutFrame, PutFlush
  <2>2. pc'["session"] = pc["session"] /\ i'["session"] = i["session"]
    BY <1>6, VideoMoves DEF VideoAlone, Workers
  <2>3. \A h \in Groups : \A k \in 1 .. Len(pipe'[h]) : pipe'[h][k].cmd = "flush" => quit
    <3>1. CASE PutFrame
      <4>1. Buffer(i["video"], frame).cmd # "flush"
        BY DEF Buffer
      <4> QED
        BY <3>1, <4>1, FrameToPut, PutAdds DEF SubOK
    <3>2. CASE PutFlush
      <4>1. quit
        BY <3>2 DEF PutFlush, VideoOK
      <4> QED
        BY <4>1
    <3> QED
      BY <1>6, <3>1, <3>2
  <2> QED
    BY <2>1, <2>2, <2>3 DEF SubOK, flags
<1> QED
  BY <1>1, <1>2, <1>3, <1>4, <1>5, <1>6, DvsSteps

(* The invariant that the properties below rest on. *)
LEMMA DvsInvariant == Spec => []DvsInv
<1>1. Init => DvsInv
  <2> SUFFICES ASSUME Init PROVE DvsInv
    OBVIOUS
  <2>n. NG \in Nat \ {0} /\ chs \in Nat \ {0} /\ MaxFrames \in Nat /\ PIPE_CAP \in Nat
    BY GroupOfChannel, SizesAssumption
  <2>1. PlacesOK /\ MainOK
    BY DEF Init, PlacesOK, MainOK, Workers, Loops, Places, Waiting
  <2>2. SessionOK /\ VideoOK /\ CountOK
    BY <2>n DEF Init, SessionOK, VideoOK, CountOK, Passed, Workers, Loops, Waiting, NUM_OF_THREADS,
                Before
  <2>3. DataOK
    <3>1. sub \in [Groups -> SubThreads]
      <4>1. 0 \in 0 .. NG /\ NoElt \in Elements /\ "none" \in SubPlaces
        BY <2>n DEF Elements, SubPlaces
      <4> QED
        BY <4>1 DEF Init, SubThreads
    <3>2. pipe \in [Groups -> Seq(Queued)] /\ \A g \in Groups : Len(pipe[g]) <= PIPE_CAP
      BY <2>n DEF Init
    <3>3. buf \in [Chans -> 0 .. MaxFrames] /\ frame \in 0 .. MaxFrames /\ nsent \in Nat
      BY <2>n DEF Init
    <3>4. /\ fifo \in [Groups -> {"unopened", "open", "closed"}]
          /\ overrun \in BOOLEAN /\ exiting \in BOOLEAN /\ quit \in BOOLEAN /\ rtpUp \in BOOLEAN
      BY DEF Init
    <3> QED
      BY <3>1, <3>2, <3>3, <3>4 DEF DataOK
  <2>4. SubOK
    BY <2>n DEF Init, SubOK, Workers
  <2> QED
    BY <2>1, <2>2, <2>3, <2>4 DEF DvsInv
<1>2. DvsInv /\ [Next]_vars => DvsInv'
  BY PlacesStep, MainStep, SessionStep, VideoStep, CountStep, DataStep, SubStep DEF DvsInv
<1> QED
  BY <1>1, <1>2, PTL DEF Spec

(* Every thread stays at its places, every counter within its loop and     *)
(* every pipe within its capacity, whatever fails and however threads are  *)
(* woken.                                                                  *)
THEOREM TypeInvariant == Spec => []TypeOK
<1>1. DvsInv => TypeOK
  <2> SUFFICES ASSUME DvsInv PROVE TypeOK
    OBVIOUS
  <2>n. NG \in Nat \ {0} /\ chs \in Nat \ {0} /\ NG <= chs
    BY GroupOfChannel
  <2>1. /\ i["main"] \in 0 .. NUM_OF_THREADS - 1 /\ i["session"] \in 0 .. NG
        /\ count \in -NUM_OF_THREADS .. NUM_OF_THREADS
    BY <2>n DEF DvsInv, PlacesOK, MainOK, SessionOK, CountOK, Passed, NUM_OF_THREADS, Loops
  <2>2. i["video"] \in 0 .. chs
    BY <2>n DEF DvsInv, PlacesOK, VideoOK, Loops, Waiting
  <2>3. \A g \in Groups : Len(pipe[g]) <= PIPE_CAP
                          /\ \A k \in 1 .. Len(pipe[g]) : pipe[g][k] \in Elements
    BY DEF DvsInv, DataOK, Queued
  <2>4. pc \in [Workers \cup {"main"} -> Places]
    BY DEF DvsInv, PlacesOK
  <2>5. /\ sub \in [Groups -> SubThreads] /\ fifo \in [Groups -> {"unopened", "open", "closed"}]
        /\ buf \in [Chans -> 0 .. MaxFrames] /\ frame \in 0 .. MaxFrames
        /\ overrun \in BOOLEAN /\ exiting \in BOOLEAN /\ quit \in BOOLEAN /\ rtpUp \in BOOLEAN
        /\ nsent \in Nat
    BY DEF DvsInv, DataOK
  <2> QED
    BY <2>1, <2>2, <2>3, <2>4, <2>5 DEF TypeOK, Places, SubThreads, SubPlaces
<1> QED
  BY <1>1, DvsInvariant, PTL

(* rtp_exit is called when no thread is left that could use the library:   *)
(* the session thread joins every sub-session thread it has created before *)
(* it exits, and main joins the session thread.                            *)
THEOREM RtpExitInvariant == Spec => []NoThreadOutlivesRtpExit
<1>1. DvsInv => NoThreadOutlivesRtpExit
  BY DEF DvsInv, MainOK, SubOK, NoThreadOutlivesRtpExit, Workers
<1> QED
  BY <1>1, DvsInvariant, PTL

(* A sub-session thread that reads its argument within the 10 ms has its   *)
(* own number.                                                             *)
LEMMA IdsStep ==
  ASSUME ~LateStart, DvsInv, IdsOK, [Next]_vars
  PROVE  IdsOK'
<1>t. /\ PlacesOK /\ MainOK /\ SessionOK /\ VideoOK /\ DataOK /\ SubOK
      /\ pc \in [Workers \cup {"main"} -> Places] /\ i \in [Loops -> Nat]
      /\ NG \in Nat \ {0} /\ i["session"] \in Nat
  BY GroupOfChannel DEF DvsInv, PlacesOK, Loops
<1>1. CASE \/ CreateThread \/ OSA_thrJoin \/ CreateFails \/ SetQuit \/ rtp_exit \/ Clean
           \/ gblSetExitState \/ (\E t \in Workers : Rendezvous_meet(t) \/ SpuriousWakeup(t))
           \/ videoEncodeInit \/ ReadFrame \/ SeeQuit \/ PutFrame \/ Awake \/ PutFlush
           \/ LoopEnds("audio") \/ LoopEnds("alarm") \/ UNCHANGED vars
  <2>1. sub' = sub
    BY <1>1, Elsewhere DEF PutFrame, PutFlush
  <2>2. /\ i'["session"] = i["session"]
        /\ \/ pc'["session"] = pc["session"]
           \/ pc["session"] = "none" /\ pc'["session"] = "init"
           \/ pc["session"] \in {"meet", "wait"} /\ pc'["session"] \in {"wait", "create"}
    BY <1>1, <1>t, SessionKept, VideoMoves
  <2> QED
    BY <2>1, <2>2 DEF IdsOK, Waiting
<1>2. CASE init_session_tsk \/ init_session_fails \/ StartJoins \/ JoinSub \/ FifoUtil_close
  <2>1. sub' = sub
    BY <1>2, Elsewhere
  <2> QED
    BY <1>2, <1>t, <2>1
       DEF init_session_tsk, init_session_fails, StartJoins, JoinSub, FifoUtil_close, Goto, IdsOK,
           Waiting, Workers, Loops
<1>3. CASE delete_session_tsk
  <2>1. sub' = sub
    BY <1>3, Elsewhere
  <2> QED
    BY <1>3, <1>t, <2>1, DeleteMoves DEF IdsOK, Waiting
<1>4. CASE CreateSub
  <2>1. /\ i["session"] \in Groups /\ sub'[i["session"]].pc = "start" /\ i' = i
        /\ \A h \in Groups \ {i["session"]} : sub'[h] = sub[h]
    BY <1>4, <1>t, SubMoves DEF CreateSub, SubTo
  <2>2. pc["session"] = "create" /\ pc'["session"] = "usleep"
    BY <1>4, <1>t DEF CreateSub, Goto, Workers
  <2> QED
    BY <1>t, <2>1, <2>2 DEF IdsOK, Waiting, Groups
<1>5. CASE NextSub
  <2>1. /\ sub' = sub /\ i'["session"] = i["session"] + 1
        /\ pc["session"] = "usleep" /\ pc'["session"] = "create"
        /\ sub[i["session"]].pc # "start"
    BY <1>5, <1>t, Elsewhere DEF NextSub, Goto, Workers, Loops
  <2> QED
    BY <1>t, <2>1 DEF IdsOK, Waiting, Groups
<1>6. ASSUME NEW g \in Groups, SubStart(g) \/ SubTop(g) \/ SubGet(g) \/ send_to_client(g)
      PROVE  IdsOK'
  <2>1. UNCHANGED <<pc, i>> /\ sub[g].pc # "none"
    BY <1>6 DEF SubStart, SubTop, SubGet, send_to_client
  <2>2. \A h \in Groups \ {g} : sub'[h] = sub[h]
    BY <1>6, <1>t, SubMoves DEF SubTo
  <2>3. sub'[g].pc \in {"top", "get", "send", "exited"} /\ sub'[g].id = g
    <3>1. CASE SubStart(g)
      BY <3>1, <1>t, SubMoves DEF SubStart, SubTo, IdsOK
    <3>2. CASE SubTop(g) \/ send_to_client(g)
      BY <3>2, <1>t, SubMoves DEF SubTop, send_to_client, SubTo, IdsOK
    <3>3. CASE SubGet(g)
      <4>1. sub[g].pc = "get"
        BY <3>3 DEF SubGet
      <4>2. sub'[g].pc \in {"exited", "send"} /\ sub'[g].id = sub[g].id
        BY <3>3, <1>t, SubMoves DEF SubTo
      <4> QED
        BY <4>1, <4>2 DEF IdsOK
    <3> QED
      BY <1>6, <3>1, <3>2, <3>3
  <2> QED
    BY <2>1, <2>2, <2>3 DEF IdsOK
<1> QED
  BY <1>1, <1>2, <1>3, <1>4, <1>5, <1>6, DvsSteps

(* So it has at every moment. *)
LEMMA IdsInvariant == ASSUME ~LateStart PROVE Spec => []IdsOK
<1>1. Init => IdsOK
  BY DEF Init, IdsOK
<1>2. DvsInv /\ IdsOK /\ [Next]_vars => IdsOK'
  BY IdsStep
<1> QED
  BY <1>1, <1>2, DvsInvariant, PTL DEF Spec

(* Each fifo has one reader, which reads only while it is open, although   *)
(* initialisations may fail, pipes fill up and wake-ups be spurious, as    *)
(* long as every sub-session thread reads its number within the usleep     *)
(* after its creation (session.c).                                         *)
THEOREM FifoInvariant == ASSUME ~LateStart PROVE Spec => []FifoInv
<1>1. DvsInv /\ IdsOK => NoGetAfterClose /\ OneReaderPerFifo
  BY DEF DvsInv, IdsOK, SubOK, SessionOK, NoGetAfterClose, OneReaderPerFifo
<1> QED
  BY <1>1, DvsInvariant, IdsInvariant, TypeInvariant, PTL DEF FifoInv

-----------------------------------------------------------------------------
(* The threads implement ServerLife, the life that ClientMgr relies on, if *)
(* the initialisations succeed: frames are sent only between               *)
(* init_session_tsk and delete_session_tsk, the clients are deleted only   *)
(* after the quit flag is set, for every sub-session thread has seen it or *)
(* got a FLUSH, and rtp_exit comes after both and once.                    *)
THEOREM ImplementsLife == ASSUME ~InitMayFail PROVE Spec => LifeSpec
<1>1. Init => Life!Init
  BY DEF Init, Life!Init, SessionState, Workers
<1>2. ASSUME DvsInv, [Next]_vars PROVE [Life!Next]_Life!vars
  <2>t. /\ PlacesOK /\ MainOK /\ SessionOK /\ VideoOK /\ DataOK /\ SubOK
        /\ pc \in [Workers \cup {"main"} -> Places] /\ NG \in Nat \ {0}
    BY <1>2, GroupOfChannel DEF DvsInv, PlacesOK
  <2>s. ASSUME \/ pc'["session"] = pc["session"]
               \/ pc["session"] = "none" /\ pc'["session"] = "init"
               \/ pc["session"] \in {"meet", "wait"} /\ pc'["session"] \in {"wait", "create"}
        PROVE  SessionState' = SessionState
    BY <2>s DEF SessionState
  <2>1. CASE \/ CreateThread \/ OSA_thrJoin \/ CreateFails \/ Clean
             \/ (\E t \in Workers : Rendezvous_meet(t) \/ SpuriousWakeup(t))
             \/ videoEncodeInit \/ ReadFrame \/ SeeQuit \/ PutFrame \/ Awake \/ PutFlush
             \/ LoopEnds("audio") \/ LoopEnds("alarm") \/ UNCHANGED vars
    <3>1. SessionState' = SessionState
      BY <2>1, <2>s, <2>t, SessionKept, VideoMoves
    <3>2. UNCHANGED <<exiting, quit, rtpUp, nsent>>
      <4>1. ASSUME NEW t \in Workers, Rendezvous_meet(t) \/ SpuriousWakeup(t)
            PROVE  UNCHANGED <<exiting, quit, rtpUp, nsent>>
        BY <4>1 DEF Rendezvous_meet, SpuriousWakeup, data, flags
      <4> QED
        BY <2>1, <4>1 DEF CreateThread, OSA_thrJoin, CreateFails, Clean, videoEncodeInit, ReadFrame,
                          SeeQuit, PutFrame, Awake, PutFlush, LoopEnds, vars, data, flags
    <3> QED
      BY <3>1, <3>2 DEF Life!vars
  <2>2. CASE gblSetExitState
    <3>1. SessionState' = SessionState
      BY <2>2, <2>s DEF gblSetExitState
    <3> QED
      BY <2>2, <3>1 DEF gblSetExitState, Life!Next, Life!RequestExit, data
  <2>3. CASE SetQuit
    <3>1. SessionState' = SessionState
      BY <2>3, <2>s, <2>t, SessionKept
    <3>2. ~quit
      BY <2>3, <2>t DEF SetQuit, MainOK
    <3> QED
      BY <2>3, <3>1, <3>2 DEF SetQuit, Life!Next, Life!SetQuit, data
  <2>4. CASE rtp_exit
    <3>1. SessionState' = SessionState
      BY <2>4, <2>s, <2>t, SessionKept
    <3>2. rtpUp /\ SessionState = "deleted"
      BY <2>4, <2>t DEF rtp_exit, MainOK, SessionState, Workers
    <3> QED
      BY <2>4, <3>1, <3>2 DEF rtp_exit, Life!Next, Life!RtpExit, data
  <2>5. CASE init_session_tsk
    BY <2>5, <2>t DEF init_session_tsk, Goto, SessionState, Life!Next, Life!InitSession, flags, Workers
  <2>6. CASE CreateSub \/ NextSub \/ StartJoins \/ JoinSub \/ FifoUtil_close
    <3>1. SessionState' = SessionState
      BY <2>6, <2>t DEF CreateSub, NextSub, StartJoins, JoinSub, FifoUtil_close, Goto, SessionState,
                        Workers
    <3> QED
      BY <2>6, <3>1 DEF CreateSub, NextSub, StartJoins, JoinSub, FifoUtil_close, Life!vars, data, flags
  <2>7. CASE delete_session_tsk
    <3>1. SessionState = "running" /\ SessionState' = "deleted"
      BY <2>7, <2>t, DeleteMoves DEF SessionState
    <3>2. quit
      <4>1. 0 \in Groups /\ sub[0].pc = "exited"
        BY <2>7, <2>t, DeleteMoves DEF SubOK, Groups
      <4> QED
        BY <2>t, <4>1 DEF SubOK
    <3> QED
      BY <2>7, <3>1, <3>2 DEF delete_session_tsk, Life!Next, Life!DeleteSession, data, flags
  <2>8. ASSUME NEW g \in Groups, SubStart(g) \/ SubTop(g) \/ SubGet(g) PROVE UNCHANGED Life!vars
    <3>1. SessionState' = SessionState
      BY <2>8, <2>s DEF SubStart, SubTop, SubGet
    <3> QED
      BY <2>8, <3>1 DEF SubStart, SubTop, SubGet, Life!vars, flags
  <2>9. ASSUME NEW g \in Groups, send_to_client(g) PROVE Life!Next
    <3>1. SessionState' = SessionState
      BY <2>9, <2>s DEF send_to_client
    <3>2. SessionState = "running"
      BY <2>9, <2>t DEF send_to_client, SubOK, SessionState
    <3> QED
      BY <2>9, <3>1, <3>2 DEF send_to_client, Life!Next, Life!Send, flags
  <2>10. ~init_session_fails
    BY DEF init_session_fails
  <2> QED
    BY <1>2, <2>1, <2>2, <2>3, <2>4, <2>5, <2>6, <2>7, <2>8, <2>9, <2>10, DvsSteps
<1> QED
  BY <1>1, <1>2, DvsInvariant, PTL DEF Spec, LifeSpec, Life!Spec

-----------------------------------------------------------------------------
(* What an element is. *)
LEMMA ElementFields ==
  /\ \A e \in Elements : e.ch \in Chans
  /\ \A e \in Queued : e.cmd = "flush" \/ e.cmd = "buffer"
<1>1. 0 \in Chans
  BY GroupOfChannel DEF Chans
<1> QED
  BY <1>1 DEF Elements, Queued, NoElt, Flush, Buffer

(* The buffers are filled again only when everything queued has been sent. *)
LEMMA FrameStep ==
  ASSUME DvsInv, IdsOK, FrameOK, [Next]_vars
  PROVE  FrameOK'
<1>t. /\ PlacesOK /\ MainOK /\ SessionOK /\ VideoOK /\ DataOK /\ SubOK
      /\ pc \in [Workers \cup {"main"} -> Places] /\ i \in [Loops -> Nat]
      /\ chs \in Nat \ {0} /\ NG \in Nat \ {0} /\ refCh \in Chans /\ i["video"] \in Nat
      /\ buf \in [Chans -> 0 .. MaxFrames] /\ frame \in Nat /\ "video" \in Workers
  BY GroupOfChannel, SizesAssumption DEF DvsInv, PlacesOK, DataOK, Loops, Workers
(* Nothing but the place of the encoder changes, and not to the rewriting. *)
<1>k. ASSUME UNCHANGED <<sub, pipe, buf, frame, overrun>>, i'["video"] = i["video"],
             \/ pc'["video"] = pc["video"]
             \/ pc["video"] \in Waiting \cup {"top"} /\ pc'["video"] # "put"
      PROVE  FrameOK'
  <2>1. \A e : Good(e) => Good(e)'
    BY <1>k DEF Good
  <2>2. \A g \in Groups : GoodGroup(g) => GoodGroup(g)'
    BY <1>k, <2>1 DEF GoodGroup, GoodPipe, Waiting
  <2> QED
    BY <1>k, <2>2 DEF FrameOK
<1>1. CASE \/ CreateThread \/ OSA_thrJoin \/ CreateFails \/ SetQuit \/ rtp_exit \/ Clean
           \/ gblSetExitState \/ (\E t \in Workers : Rendezvous_meet(t) \/ SpuriousWakeup(t))
           \/ init_session_tsk \/ init_session_fails \/ NextSub \/ StartJoins \/ JoinSub
           \/ delete_session_tsk \/ FifoUtil_close
           \/ LoopEnds("audio") \/ LoopEnds("alarm") \/ UNCHANGED vars
  <2>1. UNCHANGED <<sub, pipe, buf, frame, overrun>>
    <3>1. ASSUME NEW t \in Workers, Rendezvous_meet(t) \/ SpuriousWakeup(t)
          PROVE  UNCHANGED <<sub, pipe, buf, frame, overrun>>
      BY <3>1 DEF Rendezvous_meet, SpuriousWakeup, data
    <3> QED
      BY <1>1, <3>1
         DEF CreateThread, OSA_thrJoin, CreateFails, SetQuit, rtp_exit, Clean, gblSetExitState,
             init_session_tsk, init_session_fails, NextSub, StartJoins, JoinSub,
             delete_session_tsk, FifoUtil_close, LoopEnds, vars, data
  <2>2. /\ i'["video"] = i["video"]
        /\ \/ pc'["video"] = pc["video"]
           \/ pc["video"] = "none" /\ pc'["video"] = "init"
           \/ pc["video"] \in {"meet", "wait"} /\ pc'["video"] \in {"wait", "top"}
    BY <1>1, <1>t, VideoKept, SessionMoves
  <2> QED
    BY <1>k, <2>1, <2>2 DEF Waiting
<1>2. CASE videoEncodeInit \/ SeeQuit
  BY <1>2, <1>k, <1>t DEF videoEncodeInit, SeeQuit, Goto, Waiting, data
(* Steps of the sub-session threads that leave the pipes alone. *)
<1>s. ASSUME NEW g \in Groups, sub[g].pc # "exited", sub'[g].pc # "send",
             \A h \in Groups \ {g} : sub'[h] = sub[h],
             UNCHANGED <<pipe, buf, frame, overrun>>, pc'["video"] = pc["video"],
             i'["video"] = i["video"]
      PROVE  FrameOK'
  <2>1. \A e : Good(e) => Good(e)'
    BY <1>s DEF Good
  <2>2. \A h \in Groups : GoodGroup(h) => GoodGroup(h)'
    BY <1>s, <2>1 DEF GoodGroup, GoodPipe
  <2> QED
    BY <1>s, <2>2 DEF FrameOK
<1>3. CASE CreateSub
  <2>1. PICK g \in Groups : g = i["session"]
    BY <1>3, <1>t, SubMoves
  <2>2. sub'[g].pc = "start" /\ \A h \in Groups \ {g} : sub'[h] = sub[h]
    BY <1>3, <1>t, <2>1, SubMoves DEF SubTo
  <2>3. sub[g].pc = "none"
    BY <1>3, <1>t, <2>1 DEF CreateSub, IdsOK, Groups
  <2>4. pc'["video"] = pc["video"] /\ i' = i
    BY <1>3, <1>t DEF CreateSub, Goto, Workers
  <2> QED
    BY <1>3, <1>s, <2>2, <2>3, <2>4 DEF CreateSub
<1>4. ASSUME NEW g \in Groups, SubStart(g) \/ SubTop(g) \/ send_to_client(g) PROVE FrameOK'
  <2>1. sub'[g].pc # "send" /\ \A h \in Groups \ {g} : sub'[h] = sub[h]
    BY <1>4, <1>t, SubMoves DEF SubTo
  <2>2. /\ sub[g].pc # "exited" /\ UNCHANGED <<pipe, buf, frame, overrun>>
        /\ pc'["video"] = pc["video"] /\ i'["video"] = i["video"]
    BY <1>4 DEF SubStart, SubTop, send_to_client
  <2> QED
    BY <1>s, <2>1, <2>2
<1>5. ASSUME NEW g \in Groups, SubGet(g) PROVE FrameOK'
  <2>1. sub[g].pc = "get" /\ sub[g].id = g /\ pipe[g] # <<>> /\ pipe' = [pipe EXCEPT ![g] = Tail(@)]
    BY <1>5 DEF SubGet, IdsOK
  <2>2. UNCHANGED <<pc, i, buf, frame, overrun>>
    BY <1>5 DEF SubGet
  <2>3. /\ pipe \in [Groups -> Seq(Queued)]
        /\ \A h \in Groups : \A k \in 1 .. Len(pipe'[h]) :
              \E j \in 1 .. Len(pipe[h]) : pipe'[h][k] = pipe[h][j]
        /\ 1 \in 1 .. Len(pipe[g]) /\ Head(pipe[g]) = pipe[g][1]
    BY <1>5, <1>t, <2>1, GetTakes DEF DataOK
  <2>4. PICK e : e = Head(pipe[g])
    OBVIOUS
  <2>5. /\ e \in Queued
        /\ e.cmd = "flush" => sub'[g].pc = "exited"
        /\ e.cmd # "flush" => sub'[g].pc = "send" /\ sub'[g].elt = e
        /\ \A h \in Groups \ {g} : sub'[h] = sub[h]
    BY <1>5, <1>t, <2>1, <2>4, SubMoves DEF SubTo
  <2>6. \A x : Good(x) => Good(x)'
    BY <2>2 DEF Good
  <2>7. ASSUME ~overrun PROVE sub'[g].pc = "exited" \/ GoodGroup(g)'
    <3>1. GoodGroup(g)
      BY <2>1, <2>7 DEF FrameOK
    <3>2. GoodPipe(g)'
      <4>1. \A k \in 1 .. Len(pipe'[g]) : pipe'[g][k].cmd = "buffer" =>
              /\ pipe'[g][k].n = frame /\ buf[pipe'[g][k].ch] = frame
              /\ pc["video"] = "put" => pipe'[g][k].ch < i["video"]
        <5> TAKE k \in 1 .. Len(pipe'[g])
        <5>1. PICK j \in 1 .. Len(pipe[g]) : pipe'[g][k] = pipe[g][j]
          BY <2>3
        <5>2. pipe[g][j].cmd = "buffer" => Good(pipe[g][j])
          BY <3>1 DEF GoodGroup, GoodPipe
        <5> QED
          BY <5>1, <5>2 DEF Good
      <4> QED
        BY <2>2, <4>1 DEF GoodPipe, Good
    <3>3. e.cmd # "flush" => Good(e)'
      BY <2>3, <2>4, <2>5, <2>6, <3>1, ElementFields DEF GoodGroup, GoodPipe
    <3>4. pc["video"] \notin Waiting \cup {"top"}
      BY <2>1, <3>1 DEF GoodGroup
    <3>5. sub'[g].pc = "send" => Good(sub[g].elt)'
      BY <2>5, <3>3 DEF Good
    <3> QED
      BY <2>2, <2>5, <3>2, <3>4, <3>5 DEF GoodGroup
  <2>8. ASSUME NEW h \in Groups, h # g, GoodGroup(h) PROVE GoodGroup(h)'
    <3>1. pipe'[h] = pipe[h] /\ sub'[h] = sub[h]
      BY <2>1, <2>3, <2>5, <2>8
    <3> QED
      BY <2>2, <2>6, <2>8, <3>1 DEF GoodGroup, GoodPipe
  <2> QED
    BY <2>2, <2>5, <2>7, <2>8 DEF FrameOK
<1>6. CASE ReadFrame
  <2>1. pc["video"] = "top" /\ UNCHANGED <<sub, pipe, overrun>>
    BY <1>6 DEF ReadFrame
  <2>2. pc'["video"] = "put" /\ buf'[refCh] = frame'
    BY <1>6, <1>t DEF ReadFrame, Goto
  <2>3. ASSUME NEW g \in Groups, GoodGroup(g) PROVE GoodGroup(g)'
    BY <2>1, <2>2, <2>3 DEF GoodGroup, GoodPipe, Waiting
  <2> QED
    BY <2>1, <2>2, <2>3 DEF FrameOK
<1>7. CASE PutFrame
  <2>1. PICK c \in Chans : c = i["video"]
    BY <1>7, <1>t, FrameToPut
  <2>2. PICK e \in Queued : e = Buffer(c, frame)
    BY <1>7, <1>t, <2>1, FrameToPut
  <2>3. \A h \in Groups : \A k \in 1 .. Len(pipe'[h]) :
           \/ k \in 1 .. Len(pipe[h]) /\ pipe'[h][k] = pipe[h][k]
           \/ pipe'[h][k] = e
    BY <1>7, <1>t, <2>1, <2>2, FrameToPut, PutAdds
  <2>4. pc["video"] = "put" /\ buf' = CopyFrame(c) /\ UNCHANGED <<sub, frame, overrun>>
    BY <1>7, <2>1 DEF PutFrame
  <2>5. buf[refCh] = frame
    BY <2>4 DEF FrameOK
  <2>6. buf'[c] = frame /\ buf'[refCh] = frame /\ \A x \in Chans \ {c} : buf'[x] = buf[x]
    BY <1>t, <2>4, <2>5 DEF CopyFrame
  <2>7. /\ pc'["video"] = IF c + 1 = chs THEN "sleep" ELSE "put"
        /\ c + 1 # chs => i'["video"] = c + 1
    <3>1. c \in Nat /\ c < chs
      BY <1>t DEF Chans
    <3>2. c + 1 # chs => (c + 1) % chs = c + 1
      BY <1>t, <3>1
    <3> QED
      BY <1>7, <1>t, <2>1, <3>2 DEF PutFrame, Goto, Loops
  <2>8. ASSUME NEW x \in Elements, Good(x) PROVE Good(x)'
    <3>1. x.ch \in Chans /\ x.ch < c /\ x.n = frame /\ buf[x.ch] = frame
      BY <2>1, <2>4, <2>8, ElementFields DEF Good
    <3>2. c \in Nat /\ x.ch \in Nat
      BY <1>t, <3>1 DEF Chans
    <3> QED
      BY <2>4, <2>6, <2>7, <3>1, <3>2 DEF Good
  <2>9. Good(e)'
    <3>1. e.n = frame /\ e.ch = c /\ c \in Nat
      BY <1>t, <2>2 DEF Buffer, Chans
    <3> QED
      BY <2>4, <2>6, <2>7, <3>1 DEF Good
  <2>10. ASSUME NEW g \in Groups, GoodGroup(g) PROVE GoodGroup(g)'
    <3>1. GoodPipe(g)'
      <4>1. \A k \in 1 .. Len(pipe[g]) : pipe[g][k] \in Elements
        BY <1>t DEF DataOK, Queued
      <4>2. \A k \in 1 .. Len(pipe[g]) : pipe[g][k].cmd = "buffer" => Good(pipe[g][k])
        BY <2>10 DEF GoodGroup, GoodPipe
      <4>3. \A x \in Elements : Good(x) => /\ x.n = frame' /\ buf'[x.ch] = frame'
                                           /\ pc'["video"] = "put" => x.ch < i'["video"]
        BY <2>8 DEF Good
      <4>4. /\ e.n = frame' /\ buf'[e.ch] = frame'
            /\ pc'["video"] = "put" => e.ch < i'["video"]
        BY <2>9 DEF Good
      <4>5. \A k \in 1 .. Len(pipe'[g]) : pipe'[g][k].cmd = "buffer" =>
              /\ pipe'[g][k].n = frame' /\ buf'[pipe'[g][k].ch] = frame'
              /\ pc'["video"] = "put" => pipe'[g][k].ch < i'["video"]
        <5> TAKE k \in 1 .. Len(pipe'[g])
        <5>1. CASE k \in 1 .. Len(pipe[g]) /\ pipe'[g][k] = pipe[g][k]
          <6>1. PICK x \in Elements : x = pipe[g][k]
            BY <4>1, <5>1
          <6>2. x.cmd = "buffer" => Good(x)
            BY <4>2, <5>1, <6>1
          <6>3. x.cmd = "buffer" => /\ x.n = frame' /\ buf'[x.ch] = frame'
                                    /\ pc'["video"] = "put" => x.ch < i'["video"]
            BY <4>3, <6>2
          <6> QED
            BY <5>1, <6>1, <6>3
        <5>2. CASE pipe'[g][k] = e
          BY <4>4, <5>2
        <5> QED
          BY <2>3, <5>1, <5>2
      <4> QED
        BY <4>5 DEF GoodPipe, Good
    <3>2. sub[g].pc = "send" => Good(sub[g].elt)'
      <4>1. PICK x \in Elements : x = sub[g].elt
        BY <1>t DEF DataOK, SubThreads
      <4>2. Good(x) => Good(x)'
        BY <2>8
      <4> QED
        BY <2>4, <2>10, <4>1, <4>2 DEF GoodGroup, Good
    <3> QED
      BY <2>4, <2>7, <3>1, <3>2 DEF GoodGroup, GoodPipe, Waiting
  <2> QED
    BY <2>4, <2>6, <2>10 DEF FrameOK
<1>8. CASE Awake
  <2>1. /\ pc["video"] = "sleep" /\ pc'["video"] = "top"
        /\ UNCHANGED <<sub, pipe, buf, frame, i>>
        /\ ~overrun' => ~overrun /\ \A g \in Groups : Drained(g)
    BY <1>8, <1>t DEF Awake, Goto
  <2>2. ASSUME NEW g \in Groups, Drained(g), sub[g].pc # "exited" PROVE GoodGroup(g)'
    BY <2>1, <2>2 DEF Drained, GoodGroup, GoodPipe
  <2> QED
    BY <2>1, <2>2 DEF FrameOK
<1>9. CASE PutFlush
  <2>1. /\ i["video"] \in Groups /\ Flush \in Queued /\ Flush.cmd # "buffer"
    BY <1>9, <1>t DEF PutFlush, VideoOK, Groups, Queued, Elements, Flush, NoElt
  <2>2. /\ FifoUtil_put(i["video"], Flush) /\ UNCHANGED <<sub, buf, frame, overrun>>
        /\ pc["video"] = "flush" /\ pc'["video"] \in {"flush", "exited"}
    BY <1>9, <1>t DEF PutFlush, Goto
  <2>3. \A h \in Groups : \A k \in 1 .. Len(pipe'[h]) :
           \/ k \in 1 .. Len(pipe[h]) /\ pipe'[h][k] = pipe[h][k]
           \/ pipe'[h][k].cmd # "buffer"
    BY <1>t, <2>1, <2>2, PutAdds
  <2>4. \A x : Good(x) => Good(x)'
    BY <2>2 DEF Good
  <2>5. ASSUME NEW g \in Groups, GoodGroup(g) PROVE GoodGroup(g)'
    <3>1. GoodPipe(g)'
      BY <2>2, <2>3, <2>5 DEF GoodGroup, GoodPipe, Good
    <3> QED
      BY <2>2, <2>4, <2>5, <3>1 DEF GoodGroup, GoodPipe, Waiting
  <2> QED
    BY <2>2, <2>5 DEF FrameOK
<1> QED
  BY <1>1, <1>2, <1>3, <1>4, <1>5, <1>6, <1>7, <1>8, <1>9, DvsSteps

(* The frame a sub-session thread sends is the one that was queued for it, *)
(* whatever the number of channels and groups, as long as each pause of    *)
(* 40 ms and of 10 ms has sufficed: buf[c] is filled while the elements    *)
(* that point to it are still unread only after an overrun.                *)
THEOREM FrameInvariant == ASSUME ~LateStart PROVE Spec => []FrameIntact
<1>1. Init => FrameOK
  BY DEF Init, FrameOK, GoodGroup, GoodPipe, Workers
<1>2. DvsInv /\ IdsOK /\ FrameOK /\ [Next]_vars => FrameOK'
  BY FrameStep
<1>3. FrameOK => FrameIntact
  BY DEF FrameOK, FrameIntact, GoodGroup, Good
<1> QED
  BY <1>1, <1>2, <1>3, DvsInvariant, IdsInvariant, PTL DEF Spec
=============================================================================
