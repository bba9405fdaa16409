------------------------------ MODULE OrtpRecv ------------------------------
(***************************************************************************)
(* The receiving side of an oRTP session: rtp_recv and rtp_parse, the      *)
(* reordering queue (rtpmod.c, rtpparse.c), the jitter buffer of           *)
(* rtp_session_recvm_with_ts, the copy into the user's buffer of           *)
(* rtp_session_recv_with_ts, and the reception report of rtcp.c.           *)
(*                                                                         *)
(* A sender has numbered its packets 1 .. N; packet n has the sequence     *)
(* number SnOf(n) and the timestamp TsOf(n), both on a circle.  The       *)
(* network loses, repeats and reorders packets, and brings datagrams that  *)
(* are too short to be one.  A call of the application reads the socket    *)
(* until it is empty or an error ends the reading, so that a whole call is *)
(* one step: a packet that arrives meanwhile is one that arrived before.   *)
(*                                                                         *)
(* Abstractions: clock rate 1 (milliseconds and timestamp units agree);    *)
(* the payload is no continuous audio; the sums of bytes are left out; a   *)
(* payload fills the user's buffer once or twice.                          *)
(***************************************************************************)
EXTENDS Integers, Sequences, FiniteSets, SequencesExt

CONSTANTS
    N,              \* the packets of the sender
    SnMod,         \* 2^16
    ExtMod,         \* 2^32, the extended sequence numbers
    TsMod,          \* 2^32
    WrapWindow,     \* 200, the width of the test for a looping number
    FirstSeq, FirstTs,
    TsStep,         \* the timestamp units of a frame
    PerFrame,       \* packets with the same timestamp
    Tev,            \* the packets that are telephone events
    Bad,            \* those with another version number
    Empty,          \* those without data
    Unknown,        \* those with a payload type the profile does not have
    Long,           \* those that need two reads into the user's buffer
    MaxRq,          \* max_rq_size
    Jitter,         \* the compensation an application sets, or none
    JumpLimit,      \* rtp_session_set_time_jump_limit, in timestamp units
    Interval,       \* rtcp_report_snt_interval
    SockSize,       \* the packets the socket buffers
    MaxArrivals,    \* bound: packets that arrive
    MaxGap,         \* bound: packets lost or overtaken in a row
    MaxCalls        \* bound: calls of the application

ASSUME RecvConstants ==
    /\ {N, SnMod, ExtMod, TsMod, WrapWindow, TsStep, PerFrame, MaxRq, SockSize}
          \subseteq Nat \ {0}
    /\ {FirstSeq, FirstTs, JumpLimit, Interval, MaxArrivals, MaxGap, MaxCalls} \subseteq Nat
    /\ Jitter \subseteq Nat
    /\ UNION {Tev, Bad, Empty, Unknown, Long} \subseteq 1 .. N
    /\ FirstSeq < SnMod /\ FirstSeq + N < ExtMod
    \* numbers and timestamps stay within half of their circle
    /\ 2 * N < SnMod /\ 2 * (N * TsStep + MaxCalls * TsStep) < TsMod
    /\ MaxGap < WrapWindow /\ 3 * WrapWindow <= SnMod

VARIABLES
    sock,           \* the packets in the socket, and the runts
    rs,             \* the session's receive state and statistics
    user,           \* the application's timestamp and the calls it has made
    given,          \* the packets handed to the application
    net             \* what the network has done: the arrivals, the highest

recvVars == <<sock, rs, user, given, net>>

Packets == 1 .. N
Runt == 0           \* a datagram shorter than an RTP header
SnOf(n) == (FirstSeq + n) % SnMod
TsOf(n) == (FirstTs + ((n - 1) \div PerFrame) * TsStep) % TsMod
PayType(n) == IF n \in Tev THEN "tev" ELSE IF n \in Unknown THEN "unknown" ELSE "known"

(* The comparisons of rtp.h and rtpmod.c. *)
TsNewer(a, b) == 2 * ((a - b) % TsMod) < TsMod
TsStrictlyNewer(a, b) == TsNewer(a, b) /\ a # b
SeqGreater(a, b) == 2 * ((a - b) % SnMod) < SnMod

(* rtp_session_init.  The payload type is undefined when it sets the       *)
(* default jitter compensation, which is thereby not set.  The application *)
(* may have a handler for timestamp_jump that resets the session (resets). *)
(* Only for the properties: runts and kept count what packet_recv leaves   *)
(* out, the runts and what a reset found; fresh says that the last call    *)
(* reset the session, missed that a packet got past the test for old ones. *)
RecvInit ==
    /\ sock = <<>>
    /\ \E h \in BOOLEAN :
       rs = [rq |-> <<>>, tev |-> <<>>, part |-> {}, sync |-> TRUE,
             pt |-> "none", hwPt |-> "none", comp |-> 0, jitt |-> 0,
             diff |-> 0, hwDiff |-> 0, last |-> 0,
             hi |-> 0, lo |-> 0, since |-> 0, atSR |-> 0, cum |-> 0, lastReport |-> 0,
             recv |-> 0, bad |-> 0, discarded |-> 0, outoftime |-> 0, skipped |-> 0,
             twice |-> 0, freed |-> 0, kept |-> 0, base |-> 0, sinceBase |-> 0,
             runts |-> 0, resets |-> h, fresh |-> FALSE, missed |-> FALSE]
    /\ user = [ts |-> 0, calls |-> 0]
    /\ given = <<>>
    /\ net = [arrivals |-> 0, top |-> 0, inOrder |-> TRUE, calm |-> TRUE]

-----------------------------------------------------------------------------
(* rtp_putq: a repeated number is dropped, any other packet goes behind    *)
(* the last one that has a smaller number.                                 *)
Putq(q, n) ==
    LET smaller == {i \in DOMAIN q : SeqGreater(SnOf(n), SnOf(q[i]))}
        place == IF smaller = {} THEN 1
                 ELSE 1 + CHOOSE i \in smaller : \A j \in smaller : j <= i
    IN  IF \E i \in DOMAIN q : SnOf(q[i]) = SnOf(n) THEN q ELSE InsertAt(q, place, n)

(* split_and_queue: the field is the queue, rq or tev; what exceeds its    *)
(* maximum leaves at the old end.                                          *)
Excess(q) == IF Len(q) > MaxRq THEN Len(q) - MaxRq ELSE 0

SplitAndQueue(r, f, n) ==
    LET q == Putq(r[f], n)
        x == Excess(q)
    IN  IF n \in Empty THEN [r EXCEPT !.discarded = @ + 1]
        ELSE [r EXCEPT ![f] = SubSeq(q, x + 1, Len(q)), !.discarded = @ + x,
                       !.part = @ \ ToSet(SubSeq(q, 1, x)),
                       !.twice = @ + IF q = r[f] THEN 1 ELSE 0]

(* The extended highest sequence number, with the test for a looping one. *)
ExtSeqNoLoop(r, n) == IF SnOf(n) > r.lo THEN [r EXCEPT !.lo = SnOf(n)] ELSE r

ExtSeq(r, n) ==
    LET s == SnOf(n) IN
    IF s > r.lo THEN [r EXCEPT !.lo = s]
    ELSE IF s < WrapWindow /\ r.lo > SnMod - WrapWindow
         THEN [r EXCEPT !.lo = s, !.hi = @ + 1]
    ELSE r

(* rtp_session_update_payload_type: a known type sets the jitter buffer's  *)
(* delay in timestamp units (jitter_control_set_payload).                  *)
UpdatePayloadType(r, pt) ==
    IF r.hwPt = pt THEN r
    ELSE [r EXCEPT !.hwPt = pt, !.jitt = IF pt = "known" THEN r.comp ELSE @]

(* The packet is older than what the application has got. *)
OutOfTimeStrict(r, n) == TsStrictlyNewer(r.last, TsOf(n))

OutOfTime(r, n) == TsNewer(r.last, TsOf(n))

(* The packet is in the far future.  A limit of zero is to switch the test *)
(* off and puts the far future at the other side of the circle, where the  *)
(* old packets are.                                                        *)
TsJump == IF JumpLimit = 0 THEN TsMod \div 2 ELSE JumpLimit
Jump(r, n) == TsNewer(TsOf(n), (r.last + TsJump) % TsMod)

(* rtp_session_reset: the queue of the telephone events, the delay and     *)
(* the number at the last report stay; x packets are in nobody's count.    *)
Reset(r, x) ==
    [r EXCEPT !.rq = <<>>, !.sync = TRUE, !.part = {}, !.diff = 0, !.last = 0,
              !.hi = 0, !.lo = 0, !.since = 0, !.cum = 0,
              !.recv = 0, !.kept = Len(r.tev) + x, !.bad = 0, !.discarded = 0, !.outoftime = 0,
              !.skipped = 0, !.twice = 0, !.freed = 0, !.runts = 0, !.missed = FALSE]

(* The handlers of timestamp_jump, before the packet is queued. *)
OnJump(r, n) ==
    IF r.resets THEN [Reset(r, 1) EXCEPT !.fresh = TRUE]
    ELSE [r EXCEPT !.missed = @ \/ OutOfTime(r, n)]

(* rtp_parse of one packet.  Without adaptation jitter_control_new_packet  *)
(* leaves no slide and the delay of the payload type.                      *)
rtp_parse(r0, n) ==
    LET r == [r0 EXCEPT !.recv = @ + 1, !.since = @ + 1, !.sinceBase = @ + 1]
        e == ExtSeq(r, n)
        u == UpdatePayloadType(e, PayType(n))
        j == IF u.sync THEN u ELSE [u EXCEPT !.diff = (u.hwDiff - u.jitt) % TsMod]
    IN  IF n \in Bad THEN [r EXCEPT !.bad = @ + 1]
        ELSE IF n \in Tev THEN SplitAndQueue(e, "tev", n)
        ELSE IF ~j.sync /\ Jump(j, n) THEN SplitAndQueue(OnJump(j, n), "rq", n)
        ELSE IF ~j.sync /\ OutOfTime(j, n) THEN [j EXCEPT !.outoftime = @ + 1]
        ELSE SplitAndQueue(j, "rq", n)

(* rtp_recv: datagrams are read until the socket is empty, or recv fails   *)
(* or returns zero after m of them.  A runt never gets to rtp_parse.       *)
ReadOne(r, x) == IF x = Runt THEN [r EXCEPT !.bad = @ + 1, !.runts = @ + 1] ELSE rtp_parse(r, x)

rtp_recv(r, m) ==
    LET read[k \in 0 .. m] == IF k = 0 THEN [r EXCEPT !.fresh = FALSE] ELSE ReadOne(read[k - 1], sock[k])
    IN  read[m]

-----------------------------------------------------------------------------
(* The first packet telephone events are reported from is taken out. *)
TakeTev(r) ==
    IF r.tev = <<>> THEN r ELSE [r EXCEPT !.tev = Tail(@), !.freed = @ + 1]

(* The queue spans the jitter compensation. *)
Buffered(r) ==
    /\ r.rq # <<>>
    /\ (TsOf(Last(r.rq)) - TsOf(Head(r.rq))) % TsMod >= r.jitt

(* rtp_getq goes on at packet i: it is not newer than the timestamp, and   *)
(* has not the timestamp of the packet before it.                          *)
GetqGoesOn(q, ts, i) ==
    /\ TsNewer(ts, TsOf(q[i]))
    /\ i > 1 => TsOf(q[i]) # TsOf(q[i - 1])

(* The number of packets it takes out. *)
Taken(q, ts) ==
    CHOOSE k \in 0 .. Len(q) :
        /\ \A i \in 1 .. k : GetqGoesOn(q, ts, i)
        /\ k < Len(q) => ~GetqGoesOn(q, ts, k + 1)

SkippedAll(k) == k

(* All the packets taken but the last are skipped. *)
Skipped(k) == IF k = 0 THEN 0 ELSE k - 1

(* rtp_session_recvm_with_ts up to its wait: the new state and the packet, *)
(* a sequence of at most one.                                              *)
RecvmFirst(r, ts) ==
    LET n == Head(r.rq)
        d == (TsOf(n) - ts) % TsMod
    IN  [r |-> [r EXCEPT !.rq = Tail(@), !.sync = FALSE, !.diff = d,
                         !.hwDiff = (d + r.jitt) % TsMod, !.last = TsOf(n)],
         mp |-> <<n>>]

RecvmNext(r, ts) ==
    LET t == (ts + r.diff) % TsMod
        k == Taken(r.rq, t)
    IN  [r |-> [r EXCEPT !.last = t, !.rq = SubSeq(@, k + 1, Len(@)),
                         !.skipped = @ + Skipped(k),
                         !.part = @ \ ToSet(SubSeq(r.rq, 1, k - 1))],
         mp |-> IF k = 0 THEN <<>> ELSE <<r.rq[k]>>]

RecvmGet(r, ts) ==
    IF ~r.sync THEN RecvmNext(r, ts)
    ELSE IF Buffered(r) THEN RecvmFirst(r, ts)
    ELSE [r |-> r, mp |-> <<>>]

(* payload_type_changed_notify *)
Notify(g) == IF g.mp = <<>> THEN g ELSE [g EXCEPT !.r.pt = PayType(g.mp[1])]

(* The packets lost since the last report, in unsigned arithmetic. *)
Loss(r) == (r.hi * SnMod + r.lo - r.atSR - r.since) % ExtMod

(* rtp_session_rtcp_process with report_block_init. *)
RtcpProcess(r, ts) ==
    LET ext == r.hi * SnMod + r.lo IN
    IF (ts - r.lastReport) % TsMod > Interval
    THEN [r EXCEPT !.lastReport = ts, !.since = 0, !.atSR = ext,
                   !.cum = IF r.atSR # 0 THEN @ + Loss(r) ELSE @,
                   !.base = IF r.atSR # 0 THEN @ ELSE ext,
                   !.sinceBase = IF r.atSR # 0 THEN @ ELSE 0]
    ELSE r

Recvm(ts, m) ==
    LET g == Notify(RecvmGet(TakeTev(rtp_recv(rs, m)), ts))
    IN  [g EXCEPT !.r = RtcpProcess(g.r, ts)]

-----------------------------------------------------------------------------
(* A packet arrives: it is no more than MaxGap behind or in front of the   *)
(* highest one so far.                                                     *)
Arrives(n) ==
    /\ net.arrivals < MaxArrivals /\ Len(sock) < SockSize
    /\ n <= net.top + MaxGap /\ net.top <= n + MaxGap
    /\ sock' = Append(sock, n)
    /\ net' = [arrivals |-> net.arrivals + 1,
               top |-> IF n > net.top THEN n ELSE net.top,
               inOrder |-> net.inOrder /\ n > net.top /\ n \notin Bad,
               calm |-> net.calm /\ (n < net.top => SnOf(n) < SnOf(net.top))]
    /\ UNCHANGED <<rs, user, given>>

RuntArrives ==
    /\ net.arrivals < MaxArrivals /\ Len(sock) < SockSize
    /\ sock' = Append(sock, Runt)
    /\ net' = [net EXCEPT !.arrivals = @ + 1]
    /\ UNCHANGED <<rs, user, given>>

(* rtp_session_set_recv_payload_type, before the stream. *)
set_recv_payload_type ==
    /\ rs.sync /\ rs.pt = "none" /\ user.calls = 0
    /\ rs' = [UpdatePayloadType(rs, "known") EXCEPT !.pt = "known"]
    /\ UNCHANGED <<sock, user, given, net>>

(* rtp_session_set_jitter_compensation, before the stream. *)
set_jitter_compensation ==
    /\ rs.sync /\ user.calls = 0
    /\ \E ms \in Jitter :
          /\ rs' = IF rs.pt = "none" THEN rs ELSE [rs EXCEPT !.comp = ms, !.jitt = ms]
    /\ UNCHANGED <<sock, user, given, net>>

NextTs == (user.ts + TsStep) % TsMod

(* What a reset within a call does to the history: the order starts anew,  *)
(* and the report is no longer of one stream.                              *)
Since(r) == IF r.fresh THEN <<>> ELSE given
NetAfter(r) == [net EXCEPT !.inOrder = @ /\ ~r.fresh, !.calm = @ /\ ~r.fresh]

(* rtp_session_recvm_with_ts; the application asks for the frame after     *)
(* the last one it asked for, or for more packets of the same.             *)
rtp_session_recvm_with_ts ==
    /\ user.calls < MaxCalls
    /\ \E ts \in {user.ts, NextTs}, m \in 0 .. Len(sock) :
       LET g == Recvm(ts, m) IN
          /\ user' = [ts |-> ts, calls |-> user.calls + 1]
          /\ rs' = [g.r EXCEPT !.part = @ \ ToSet(g.mp)]
          /\ given' = Since(g.r) \o g.mp
          /\ sock' = SubSeq(sock, m + 1, Len(sock))
          /\ net' = NetAfter(g.r)

(* rtp_session_recv_with_ts with a buffer for half of a long packet: what  *)
(* does not fit is put back into the queue.                                *)
rtp_session_recv_with_ts ==
    /\ user.calls < MaxCalls
    /\ \E ts \in {user.ts, NextTs}, m \in 0 .. Len(sock) :
       LET g == Recvm(ts, m) IN
          /\ user' = [ts |-> ts, calls |-> user.calls + 1]
          /\ IF g.mp = <<>> THEN /\ rs' = g.r
                                 /\ given' = Since(g.r)
             ELSE LET n == g.mp[1] IN
                  IF g.r.pt # "known"
                  THEN /\ rs' = [g.r EXCEPT !.freed = @ + 1, !.part = @ \ {n}]
                       /\ given' = Since(g.r)
                  ELSE IF n \in Long \ g.r.part
                  THEN /\ rs' = [g.r EXCEPT !.rq = Putq(@, n), !.part = @ \cup {n}]
                       /\ given' = Since(g.r)
                  ELSE /\ rs' = [g.r EXCEPT !.part = @ \ {n}]
                       /\ given' = Append(Since(g.r), n)
          /\ sock' = SubSeq(sock, m + 1, Len(sock))
          /\ net' = NetAfter(g.r)

(* The application resets the session between two calls. *)
rtp_session_reset ==
    /\ ~rs.sync
    /\ rs' = Reset(rs, 0)
    /\ given' = <<>>
    /\ net' = [net EXCEPT !.inOrder = FALSE, !.calm = FALSE]
    /\ UNCHANGED <<sock, user>>

RecvNext ==
    \/ (\E n \in Packets : Arrives(n)) \/ RuntArrives
    \/ set_recv_payload_type \/ set_jitter_compensation
    \/ rtp_session_recvm_with_ts \/ rtp_session_recv_with_ts \/ rtp_session_reset

RecvSpec == RecvInit /\ [][RecvNext]_recvVars

-----------------------------------------------------------------------------
(* The queues and the counters have values of their type; a queue exceeds  *)
(* its maximum by a packet that was put back at most.                      *)
RecvTypeOK ==
    /\ {rs.rq, rs.tev, given} \subseteq Seq(Packets) /\ sock \in Seq(Packets \cup {Runt})
    /\ Len(rs.rq) <= MaxRq + Cardinality(rs.part) /\ Len(rs.tev) <= MaxRq
    /\ rs.part \subseteq ToSet(rs.rq) \cap Long
    /\ rs.lo \in 0 .. SnMod - 1
    /\ {rs.last, rs.diff, rs.hwDiff} \subseteq 0 .. TsMod - 1

(* The reordering queue is sorted by sequence number over the end of the   *)
(* range and has no packet twice, whatever the order of arrival            *)
(* (rtp_putq, and the packets put back by rtp_session_recv_with_ts).       *)
RqSorted ==
    \A i, j \in DOMAIN rs.rq : i < j => rs.rq[i] < rs.rq[j]

(* What the application was given is in the order of the sender, no packet *)
(* twice.                                                                  *)
InSendersOrder == \A i, j \in DOMAIN given : i < j => given[i] < given[j]

(* The application gets every packet at most once, and in the order of     *)
(* the sender: what comes too late is never delivered behind its successor *)
(* (the test for old packets in rtp_parse).  What can break it is an old   *)
(* packet that the test for jumps before it takes for one of the far       *)
(* future.                                                                 *)
DeliveredInOrder == ~rs.missed => InSendersOrder

(* A limit that keeps the far future away from the old packets: what the   *)
(* stream and the limit span together is at most half of the circle.       *)
JumpFar == JumpLimit # 0 /\ 2 * (N * TsStep + MaxCalls * TsStep + JumpLimit) <= TsMod

(* Every datagram read from the socket is in a queue, has been handed      *)
(* over, or is in exactly one of the statistics; only repeated numbers,    *)
(* packets of an unsupported type and telephone events are freed           *)
(* uncounted.  packet_recv itself leaves out what is too short for a       *)
(* header, although bad counts it; and a reset forgets the counts but      *)
(* keeps the telephone events, and the packet whose jump caused it.        *)
NothingUnaccounted ==
    rs.recv + rs.runts + rs.kept = Len(rs.rq) + Len(rs.tev) + Len(given) + rs.bad + rs.discarded
                 + rs.outoftime + rs.skipped + rs.twice + rs.freed

(* hwrcv_extseq is the highest number received, over the end of the 16     *)
(* bits, as long as no packet from before the end comes after one from     *)
(* behind it (rtp_parse).                                                  *)
ExtSeqIsHighest ==
    LET seen == {n \in Packets \ Bad : n <= net.top} IN
    net.calm /\ sock = <<>> /\ net.top \in seen /\ rs.recv > 0
       => rs.hi * SnMod + rs.lo = FirstSeq + net.top

(* While packets come in order, the losses reported since the first report *)
(* are the numbers that are missing (report_block_init).                   *)
LossIsReal ==
    net.inOrder /\ rs.atSR # 0
       => rs.cum + rs.sinceBase - rs.since = rs.atSR - rs.base

(* The losses reported are at most the packets sent, whatever the network  *)
(* does.                                                                   *)
LossBounded == rs.cum <= N

(* Reordering: the queue is sorted and within its size, and so is what the *)
(* application was given (rtp_putq, rtp_parse).                            *)
OrderInv == RecvTypeOK /\ RqSorted /\ DeliveredInOrder

(* The reception report: highest number and losses are those of the        *)
(* stream, over the end of the 16 bits (report_block_init).                *)
ReportInv == ExtSeqIsHighest /\ LossIsReal
=============================================================================
