--------------------------- MODULE OrtpScheduler ---------------------------
(***************************************************************************)
(* The oRTP scheduler (scheduler.c), the wait points through which         *)
(* rtp_session_sendm_with_ts and rtp_session_recvm_with_ts are paced       *)
(* (rtpsession.c) and session_set_select (sessionset.c).                   *)
(*                                                                         *)
(* A session is used in one direction: the ones in Senders wait until it   *)
(* is time for the packet and then transmit it, the others first take a    *)
(* packet (the operation of OrtpRecv) and then wait until the time asked   *)
(* for is over.  The scheduler has a thread of its own.  An application    *)
(* either has a thread for each session, in blocking mode (sel.st is then  *)
(* "nobody"), or one thread that uses all sessions and waits for them in   *)
(* session_set_select.                                                     *)
(*                                                                         *)
(* One pass of the scheduler over its list holds the scheduler's lock.     *)
(* The lock of a wait point is held by the session's thread from the test  *)
(* of the time to the update of the session set, the sleep apart, and by   *)
(* the scheduler while it checks that session.  The session sets have no   *)
(* lock of their own: setting a bit reads a word and writes it back.       *)
(*                                                                         *)
(* Abstractions: a sleeping thread is only woken by a signal; the network  *)
(* takes or loses a packet, no property tells the two apart.  One session  *)
(* is used by one thread, and is destroyed only while that thread is out   *)
(* of the library, as its callers must see to.  Scheduled mode is entered  *)
(* and left before the first call; calls outside it have no part here.     *)
(***************************************************************************)
EXTENDS Integers, Sequences, FiniteSets, SequencesExt, FiniteSetsExt, Functions

CONSTANTS
    Sessions,       \* the memory of the sessions
    Senders,        \* those opened with RTP_SESSION_SENDONLY
    MaxSessions,    \* max_sessions, the bits of a SessionSet
    TimeMod,        \* 2^32 milliseconds, the range of time_
    TsMod,          \* 2^32, the range of a timestamp
    TsPerTime,      \* clock_rate / 1000
    TimerInc,       \* timer_inc
    LongAfter,      \* the scheduler's time when the first session is opened
    FirstTs,        \* the timestamp an application begins with
    TsSteps,        \* what an application adds to its timestamp per call
    MaxCalls,       \* bound: calls of all the sessions' threads
    MaxTicks,       \* bound: passes after which the time stands still
    LastCall,       \* bound: passes after which no new call begins
    LateDestroy,    \* a session may be destroyed after set_scheduling_mode(FALSE)
    Idle            \* "no session", "no copy"

ASSUME SchedulerConstants ==
    /\ IsFiniteSet(Sessions) /\ Senders \subseteq Sessions
    /\ MaxSessions \in Nat /\ Cardinality(Sessions) <= MaxSessions
    /\ TimeMod \in Nat \ {0} /\ TsMod \in Nat \ {0}
    /\ TsPerTime \in Nat \ {0} /\ TimerInc \in Nat \ {0}
    /\ LongAfter \in 0 .. TimeMod - 1
    /\ TsSteps \subseteq Nat
    /\ MaxCalls \in Nat /\ MaxTicks \in Nat /\ LastCall \in Nat
    /\ FirstTs \in Nat
    /\ LateDestroy \in BOOLEAN
    /\ Idle \notin Sessions

VARIABLES
    sched,          \* where rtp_scheduler_schedule is
    running,        \* thread_running
    time,           \* time_
    ticks,          \* the passes so far: the time that does not wrap
    list,           \* the scheduled sessions, list
    todo,           \* the sessions the pass has still to process
    schedCopy,      \* the word the scheduler has read to set a bit
    all,            \* all_sessions, as bit positions
    ready,          \* w_sessions for a sender, r_sessions for a receiver
    pos,            \* mask_pos
    flags,          \* the session's flags, and whether it is alive
    wp,             \* send_wp or recv_wp
    off,            \* snd_ts_offset / rcv_query_ts_offset and *_time_offset
    pc,             \* where the session's thread is
    app,            \* the application's timestamp, its calls, its first call
    copy,           \* the word the session's thread has read
    early,          \* a packet has left before its time
    sel             \* the thread in session_set_select

schedVars == <<sched, running, time, ticks, list, todo, schedCopy>>
sessVars  == <<pos, flags, wp, off, pc, app, copy, early>>
schedulerVars == <<schedVars, all, ready, sessVars, sel>>

Positions == 0 .. MaxSessions - 1

(* The two session sets a call can be in. *)
SetOf(s) == IF s \in Senders THEN "w" ELSE "r"

(* The comparisons of rtp.h, on a circle of m values. *)
NewerThan(t1, t2, m) == 2 * ((t1 - t2) % m) < m
StrictlyNewerThan(t1, t2, m) == NewerThan(t1, t2, m) /\ t1 # t2

(* rtp_session_ts_to_time: the double division is exact enough to be the  *)
(* quotient, the cast drops the fraction.                                  *)
TsToTime(ts) == ts \div TsPerTime

NoSession == [alive |-> FALSE, inSched |-> FALSE, scheduled |-> FALSE,
              blocking |-> FALSE, notStarted |-> TRUE]

(* wait_point_init *)
NoWait == [time |-> 0, wakeup |-> FALSE]

NoCall == [ts |-> FirstTs, calls |-> 0, ts0 |-> 0, at0 |-> 0]

SchedulerInit ==
    /\ sched = "none" /\ running = FALSE /\ time = 0 /\ ticks = 0
    /\ list = <<>> /\ todo = <<>> /\ schedCopy = Idle
    /\ all = {} /\ ready = [d \in {"r", "w"} |-> {}]
    /\ pos = [s \in Sessions |-> 0]
    /\ flags = [s \in Sessions |-> NoSession]
    /\ wp = [s \in Sessions |-> NoWait]
    /\ off = [s \in Sessions |-> [ts |-> 0, time |-> 0]]
    /\ pc = [s \in Sessions |-> "out"]
    /\ app = [s \in Sessions |-> NoCall]
    /\ copy = [s \in Sessions |-> Idle]
    /\ early = FALSE
    /\ \E st \in {"out", "nobody"} :
          sel = [st |-> st, dir |-> "w", watch |-> {}, word |-> {}]

-----------------------------------------------------------------------------
(* The life of the scheduler. *)

(* ortp_scheduler_init: the static flag lets it work only once, after      *)
(* ortp_exit too.  rtp_scheduler_start keeps the lock until it waits for   *)
(* the new thread's signal.                                                *)
ortp_scheduler_init ==
    /\ sched = "none"
    /\ sched' = "starting" /\ running' = TRUE
    /\ UNCHANGED <<time, ticks, list, todo, schedCopy, all, ready, sessVars, sel>>

(* The new thread's first lock and signal, the starter's return, and the   *)
(* passes without a session, which change only the time, until the         *)
(* application begins.                                                     *)
ThreadStarts ==
    /\ sched = "starting"
    /\ sched' = "test" /\ time' = LongAfter
    /\ UNCHANGED <<running, ticks, list, todo, schedCopy, all, ready, sessVars, sel>>

(* while (thread_running) *)
LoopsOn == running

(* The loop's test, and the lock taken for a pass. *)
PassBegins ==
    /\ sched = "test" /\ LoopsOn /\ sel.st # "and"
    /\ sched' = "pass" /\ todo' = list
    /\ UNCHANGED <<running, time, ticks, list, schedCopy, all, ready, sessVars, sel>>

DueUnwrapped(s, t) == wp[s].wakeup /\ t >= wp[s].time

(* wait_point_check *)
Due(s, t) == wp[s].wakeup /\ NewerThan(t, wp[s].time, TimeMod)

(* The thread holds the lock of its wait point. *)
HasWaitPoint(s) == pc[s] \in {"set", "clear"}

(* rtp_session_process up to the read of the session set. *)
ProcessChecks ==
    /\ sched = "pass" /\ todo # <<>> /\ schedCopy = Idle
    /\ LET s == Head(todo) IN
       /\ ~HasWaitPoint(s)
       /\ IF Due(s, time)
          THEN /\ wp' = [wp EXCEPT ![s].wakeup = FALSE]
               /\ schedCopy' = ready[SetOf(s)]
               /\ todo' = todo
          ELSE /\ todo' = Tail(todo)
               /\ UNCHANGED <<wp, schedCopy>>
    /\ UNCHANGED <<sched, running, time, ticks, list, all, ready, pos, flags,
                   off, pc, app, copy, early, sel>>

WokenNot(s) == pc

Woken(s) == [pc EXCEPT ![s] = IF @ = "asleep" THEN "signalled" ELSE @]

(* The rest of it: the bit is written back and the sleeper signalled. *)
ProcessWakes ==
    /\ sched = "pass" /\ schedCopy # Idle
    /\ LET s == Head(todo) IN
       /\ ready' = [ready EXCEPT ![SetOf(s)] = schedCopy \cup {pos[s]}]
       /\ pc' = Woken(s)
    /\ schedCopy' = Idle /\ todo' = Tail(todo)
    /\ UNCHANGED <<sched, running, time, ticks, list, all, pos, flags, wp, off,
                   app, copy, early, sel>>

UnblockOnce == [sel EXCEPT !.st = IF @ = "asleep" /\ ticks = 0 THEN "woken" ELSE @]

(* cond_broadcast(unblock_select_cond) *)
UnblockSelect == [sel EXCEPT !.st = IF @ = "asleep" THEN "woken" ELSE @]

(* The broadcast to the threads in select, and the unlock. *)
PassEnds ==
    /\ sched = "pass" /\ todo = <<>>
    /\ sched' = "sleep"
    /\ sel' = UnblockSelect
    /\ UNCHANGED <<running, time, ticks, list, todo, schedCopy, all, ready, sessVars>>

(* time_ += timer_inc, in 32 bits *)
TimeAfterTick == (time + TimerInc) % TimeMod

(* timer_do has slept until the next multiple of timer_inc. *)
TimerDo ==
    /\ sched = "sleep"
    /\ sched' = "test"
    /\ IF ticks < MaxTicks THEN /\ ticks' = ticks + 1
                                /\ time' = TimeAfterTick
                           ELSE UNCHANGED <<ticks, time>>
    /\ UNCHANGED <<running, list, todo, schedCopy, all, ready, sessVars, sel>>

(* ortp_exit is the last call of the application. *)
ortp_exit ==
    /\ sched \notin {"none", "starting", "gone"} /\ running
    /\ \A s \in Sessions : ~flags[s].alive
    /\ sel.st \in {"out", "nobody"}
    /\ running' = FALSE
    /\ UNCHANGED <<sched, time, ticks, list, todo, schedCopy, all, ready, sessVars, sel>>

(* The thread leaves its loop, which the join of rtp_scheduler_stop awaits. *)
ThreadLeaves ==
    /\ sched = "test" /\ ~LoopsOn
    /\ sched' = "gone"
    /\ UNCHANGED <<running, time, ticks, list, todo, schedCopy, all, ready, sessVars, sel>>

-----------------------------------------------------------------------------
(* Sessions. *)

(* The application's one thread is free, or there is one per session. *)
MayCall == sel.st # "nobody" => sel.st = "out" /\ \A s \in Sessions : pc[s] = "out"

(* rtp_session_new, in memory that another session may have had. *)
rtp_session_new(s) ==
    /\ MayCall
    /\ running /\ sched # "starting" /\ ~flags[s].alive /\ app[s].calls = 0
    /\ flags' = [flags EXCEPT ![s] = [NoSession EXCEPT !.alive = TRUE]]
    /\ UNCHANGED <<schedVars, all, ready, pos, wp, off, pc, app, copy, early, sel>>

(* Nobody holds the scheduler's lock. *)
LockFree == sched # "pass" /\ sel.st # "and"

(* The first free bit of the mask. *)
FreeBit == CHOOSE i \in Positions \ all : \A j \in Positions \ all : i <= j

(* rtp_scheduler_add_session behind the flags of set_scheduling_mode(TRUE). *)
set_scheduling_mode(s) ==
    /\ MayCall
    /\ LockFree /\ pc[s] = "out"
    /\ flags[s].alive /\ flags[s].notStarted /\ ~flags[s].scheduled
    /\ flags' = [flags EXCEPT ![s].scheduled = TRUE, ![s].inSched = TRUE]
    /\ IF flags[s].inSched
       THEN UNCHANGED <<list, pos, all, ready>>
       ELSE /\ list' = <<s>> \o list
            /\ pos' = [pos EXCEPT ![s] = FreeBit]
            /\ all' = all \cup {FreeBit}
            /\ ready' = [ready EXCEPT ![SetOf(s)] = @ \cup {FreeBit}]
    /\ UNCHANGED <<sched, running, time, ticks, todo, schedCopy, wp, off, pc,
                   app, copy, early, sel>>

(* set_scheduling_mode(FALSE) clears a flag and leaves the list alone. *)
unset_scheduling_mode(s) ==
    /\ MayCall
    /\ pc[s] = "out" /\ flags[s].scheduled /\ flags[s].notStarted
    /\ flags' = [flags EXCEPT ![s].scheduled = FALSE]
    /\ UNCHANGED <<schedVars, all, ready, pos, wp, off, pc, app, copy, early, sel>>

set_blocking_mode(s) ==
    /\ MayCall
    /\ flags[s].scheduled /\ flags[s].notStarted /\ pc[s] = "out"
    /\ ~flags[s].blocking /\ sel.st = "nobody"
    /\ flags' = [flags EXCEPT ![s].blocking = TRUE]
    /\ UNCHANGED <<schedVars, all, ready, pos, wp, off, pc, app, copy, early, sel>>

RemovedHead(s) == IF Head(list) = s THEN Tail(list) ELSE list

(* rtp_scheduler_remove_session unlinks the session where it finds it.  The *)
(* bits of ready are left as they are.                                     *)
Removed(s) == RemoveAt(list, CHOOSE k \in DOMAIN list : list[k] = s)

(* rtp_session_destroy: the session leaves the scheduler only if it is     *)
(* still in scheduled mode; its memory is freed in any case, and shown as  *)
(* the rtp_session_init of its next owner leaves it.                       *)
rtp_session_destroy(s) ==
    /\ MayCall
    /\ flags[s].alive /\ pc[s] = "out"
    /\ flags[s].scheduled \/ ~flags[s].inSched \/ LateDestroy
    /\ IF flags[s].scheduled /\ flags[s].inSched
       THEN /\ LockFree
            /\ list' = Removed(s)
            /\ all' = all \ {pos[s]}
       ELSE UNCHANGED <<list, all>>
    /\ flags' = [flags EXCEPT ![s] = NoSession]
    /\ pos' = [pos EXCEPT ![s] = 0]
    /\ wp' = [wp EXCEPT ![s] = NoWait]
    /\ off' = [off EXCEPT ![s] = [ts |-> 0, time |-> 0]]
    /\ app' = [app EXCEPT ![s] = [NoCall EXCEPT !.calls = app[s].calls]]
    /\ UNCHANGED <<sched, running, time, ticks, todo, schedCopy, ready, pc, copy,
                   early, sel>>

(* rtp_session_reset: the next call starts the stream anew. *)
rtp_session_reset(s) ==
    /\ MayCall
    /\ flags[s].alive /\ ~flags[s].notStarted
    /\ pc[s] \in {"out", "asleep"}
    /\ flags' = [flags EXCEPT ![s].notStarted = TRUE]
    /\ off' = [off EXCEPT ![s] = [ts |-> 0, time |-> 0]]
    /\ UNCHANGED <<schedVars, all, ready, pos, wp, pc, app, copy, early, sel>>

-----------------------------------------------------------------------------
(* rtp_session_sendm_with_ts and the end of rtp_session_recvm_with_ts. *)

Calls == FoldFunctionOnSet(+, 0, [s \in Sessions |-> app[s].calls], Sessions)

(* The beginning of the call: the offsets of a stream that starts. *)
CallBegins(s) ==
    /\ MayCall
    /\ pc[s] = "out"
    /\ flags[s].scheduled /\ (flags[s].blocking <=> sel.st = "nobody")
    /\ Calls < MaxCalls /\ ticks <= LastCall
    /\ pc' = [pc EXCEPT ![s] = "begun"]
    /\ \E d \in TsSteps : app' = [app EXCEPT
          ![s].ts = @ + d, ![s].calls = @ + 1,
          ![s].ts0 = IF flags[s].notStarted THEN app[s].ts + d ELSE @,
          ![s].at0 = IF flags[s].notStarted THEN ticks ELSE @]
    /\ off' = IF flags[s].notStarted
              THEN [off EXCEPT ![s] = [ts |-> app'[s].ts % TsMod, time |-> time]]
              ELSE off
    /\ flags' = [flags EXCEPT ![s].notStarted = FALSE]
    /\ UNCHANGED <<schedVars, all, ready, pos, wp, copy, early, sel>>

(* packet_time *)
PacketTime(s) ==
    (TsToTime((app[s].ts - off[s].ts) % TsMod) + off[s].time) % TimeMod

MustWait(s) == StrictlyNewerThan(PacketTime(s), time, TimeMod)

(* The scheduler is inside the lock of this wait point. *)
BeingChecked(s) == schedCopy # Idle /\ Head(todo) = s

(* The test of the time under the lock of the wait point, with             *)
(* wait_point_wakeup_at.                                                   *)
CallDecides(s) ==
    /\ pc[s] = "begun" /\ ~BeingChecked(s)
    /\ IF MustWait(s)
       THEN /\ wp' = [wp EXCEPT ![s] = [time |-> PacketTime(s), wakeup |-> TRUE]]
            /\ pc' = [pc EXCEPT ![s] = IF flags[s].blocking THEN "asleep" ELSE "clear"]
       ELSE /\ pc' = [pc EXCEPT ![s] = "set"]
            /\ UNCHANGED wp
    /\ UNCHANGED <<schedVars, all, ready, pos, flags, off, app, copy, early, sel>>

(* cond_wait returns: there is no loop around it. *)
CallWakes(s) ==
    /\ pc[s] = "signalled" /\ ~BeingChecked(s)
    /\ pc' = [pc EXCEPT ![s] = "clear"]
    /\ UNCHANGED <<schedVars, all, ready, pos, flags, wp, off, app, copy, early, sel>>

(* session_set_clr or session_set_set, a read ... *)
CallReadsSet(s) ==
    /\ pc[s] \in {"set", "clear"} /\ copy[s] = Idle
    /\ copy' = [copy EXCEPT ![s] = ready[SetOf(s)]]
    /\ UNCHANGED <<schedVars, all, ready, pos, flags, wp, off, pc, app, early, sel>>

(* ... and a write, with the unlock of the wait point. *)
CallWritesSet(s) ==
    /\ copy[s] # Idle
    /\ ready' = [ready EXCEPT ![SetOf(s)] =
                    IF pc[s] = "set" THEN copy[s] \cup {pos[s]} ELSE copy[s] \ {pos[s]}]
    /\ copy' = [copy EXCEPT ![s] = Idle]
    /\ pc' = [pc EXCEPT ![s] = "done"]
    /\ UNCHANGED <<schedVars, all, pos, flags, wp, off, app, early, sel>>

(* The time since the stream's first call is too short for this packet. *)
TooSoon(s) == (ticks - app[s].at0) * TimerInc < TsToTime(app[s].ts - app[s].ts0)

(* A sender transmits its packet, a receiver returns the one it has. *)
CallEnds(s) ==
    /\ pc[s] = "done"
    /\ pc' = [pc EXCEPT ![s] = "out"]
    /\ early' = (early \/ (flags[s].blocking /\ TooSoon(s)))
    /\ UNCHANGED <<schedVars, all, ready, pos, flags, wp, off, app, copy, sel>>

-----------------------------------------------------------------------------
(* session_set_select for one of the two sets. *)

(* The application selects among the sessions it has scheduled. *)
SelectBegins ==
    /\ running /\ sel.st = "out" /\ MayCall
    /\ \E d \in {"r", "w"} :
          LET ss == {s \in Sessions : flags[s].scheduled /\ SetOf(s) = d}
          IN  /\ ss # {}
              /\ sel' = [st |-> "woken", dir |-> d, watch |-> {pos[s] : s \in ss},
                         word |-> {}]
    /\ UNCHANGED <<schedVars, all, ready, sessVars>>

(* session_set_and reads the scheduler's word, with the lock held ... *)
SelectReads ==
    /\ sel.st = "woken" /\ sched # "pass"
    /\ sel' = [sel EXCEPT !.st = "and", !.word = ready[sel.dir]]
    /\ UNCHANGED <<schedVars, all, ready, sessVars>>

Hits == sel.word \cap sel.watch

(* ... and writes it back without the sessions it reports.  Without any,   *)
(* the thread waits for the scheduler's next pass.                         *)
SelectWrites ==
    /\ sel.st = "and"
    /\ ready' = [ready EXCEPT ![sel.dir] = sel.word \ Hits]
    /\ sel' = IF Hits # {} THEN [sel EXCEPT !.st = "out", !.watch = Hits, !.word = {}]
                           ELSE [sel EXCEPT !.st = "asleep", !.word = {}]
    /\ UNCHANGED <<schedVars, all, sessVars>>

-----------------------------------------------------------------------------
SchedulerNext ==
    \/ ortp_scheduler_init \/ ThreadStarts \/ PassBegins \/ ProcessChecks
    \/ ProcessWakes \/ PassEnds \/ TimerDo \/ ortp_exit \/ ThreadLeaves
    \/ SelectBegins \/ SelectReads \/ SelectWrites
    \/ \E s \in Sessions :
          \/ rtp_session_new(s) \/ set_scheduling_mode(s) \/ unset_scheduling_mode(s)
          \/ set_blocking_mode(s) \/ rtp_session_destroy(s) \/ rtp_session_reset(s)
          \/ CallBegins(s) \/ CallDecides(s) \/ CallWakes(s) \/ CallReadsSet(s)
          \/ CallWritesSet(s) \/ CallEnds(s)

SchedulerSpec == SchedulerInit /\ [][SchedulerNext]_schedulerVars

(* The steps of a thread inside the library; what the application calls    *)
(* is up to it.                                                            *)
ThreadStep(s) ==
    CallDecides(s) \/ CallWakes(s) \/ CallReadsSet(s) \/ CallWritesSet(s) \/ CallEnds(s)

SchedulerStep ==
    ThreadStarts \/ PassBegins \/ ProcessChecks \/ ProcessWakes \/ PassEnds \/ TimerDo
    \/ ThreadLeaves

(* Each thread inside the library goes on when it can; the scheduler and   *)
(* a thread in select get the lock they compete for again and again.       *)
SchedulerFairness ==
    /\ SF_schedulerVars(SchedulerStep)
    /\ SF_schedulerVars(SelectReads) /\ WF_schedulerVars(SelectWrites)
    /\ \A s \in Sessions : WF_schedulerVars(ThreadStep(s))

-----------------------------------------------------------------------------
(* Every variable has values of its type. *)
SchedulerTypeOK ==
    /\ sched \in {"none", "starting", "test", "pass", "sleep", "gone"}
    /\ running \in BOOLEAN /\ early \in BOOLEAN
    /\ time \in 0 .. TimeMod - 1 /\ ticks \in 0 .. MaxTicks
    /\ list \in Seq(Sessions) /\ todo \in Seq(Sessions)
    /\ all \subseteq Positions
    /\ \A d \in {"r", "w"} : ready[d] \subseteq Positions
    /\ \A s \in Sessions : pos[s] \in Positions /\ wp[s].time \in 0 .. TimeMod - 1

(* The scheduler's list, the flags of the sessions and the mask agree:     *)
(* every session is once in the list exactly if it is flagged so, and has  *)
(* a bit of its own in all_sessions (scheduler.c add and remove).          *)
ListMatchesMask ==
    /\ ToSet(list) = {s \in Sessions : flags[s].inSched}
    /\ IsInjective(list)
    /\ all = {pos[s] : s \in ToSet(list)}
    /\ Cardinality(all) = Len(list)

(* The scheduler processes no session whose memory has been freed          *)
(* (scheduler.c's loop over list, rtp_session_destroy).                    *)
ListIsAlive == \A s \in ToSet(list) \cup ToSet(todo) : flags[s].alive

(* In blocking mode a call returns, and a packet leaves, no earlier than   *)
(* its timestamp says, counted from the stream's first call, also when     *)
(* the scheduler's time and the timestamps pass the end of their range.    *)
NotBeforeTime == ~early

(* Every call of rtp_session_send_with_ts or recv_with_ts returns: the     *)
(* scheduler signals each sleeper in the pass in which its time has come.  *)
CallsPaced == \A s \in Sessions : pc[s] # "out" ~> pc[s] = "out"

(* A thread in session_set_select comes back while one of the sessions it  *)
(* watches stays ready: the broadcast after each pass is not missed.       *)
SelectSees ==
    (sel.st = "asleep" /\ ready[sel.dir] \cap sel.watch # {})
       ~> (sel.st = "out" \/ ready[sel.dir] \cap sel.watch = {})

(* The scheduler's list: it agrees with flags and mask and holds only      *)
(* sessions that are alive (scheduler.c).                                  *)
ListInv == SchedulerTypeOK /\ ListMatchesMask /\ ListIsAlive
=============================================================================
