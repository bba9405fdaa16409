------------------------------ MODULE OrtpMsg ------------------------------
(***************************************************************************)
(* The message blocks of an oRTP session (str_utils.c) and who holds them: *)
(* the source descriptions, the packets of the application, the queues of  *)
(* received packets, the pending telephone event and the two buffers kept  *)
(* for the next packet.  A message is the sequence of the data blocks its  *)
(* parts point to; a data block counts the parts that point to it, and its *)
(* memory is given to the next request once the count is zero.             *)
(*                                                                         *)
(* Every call of the library is one step.  The calls that change what the  *)
(* session holds lock it, but rtp_recv and rtcp_recv run before the lock   *)
(* is taken: one thread uses a session.  What a packet says, when a report *)
(* is due and what arrives is chosen freely.  The session sends and        *)
(* receives, and USE_SENDMSG is defined: a message is sent in its parts.   *)
(* mp, m1, m2 and m3 are the messages a call works on, rep is the RTCP     *)
(* packet it sends.                                                        *)
(***************************************************************************)
EXTENDS Integers, Sequences, FiniteSets, SequencesExt

CONSTANTS
    Memory,         \* bound: the data blocks there is memory for
    MaxQueue,       \* max_rq_size
    MaxSources,     \* bound: contributing sources
    MaxHands,       \* bound: packets in the application's hands
    MaxOps          \* bound: calls

(* Bound: the blocks a call allocates at most, rtp_session_send_dtmf with  *)
(* its reports.                                                            *)
PerCall == 20

ASSUME MsgConstants ==
    /\ {Memory, MaxQueue, MaxSources, MaxHands, MaxOps} \subseteq Nat
    /\ PerCall <= Memory

VARIABLES
    ms,             \* the blocks and the places messages are in
    ops             \* the calls so far

msgVars == <<ms, ops>>

Ids == 1 .. Memory

(* The parts of a message, and of the messages of a queue, that point to b. *)
Occurrences(m, b) == Cardinality({i \in DOMAIN m : m[i] = b})

PointersIn(q, b) ==
    Cardinality({p \in UNION {{i} \X DOMAIN q[i] : i \in DOMAIN q} : q[p[1]][p[2]] = b})

-----------------------------------------------------------------------------
(* allocb and allocb_with_buf: a block, appended to the message at f. *)
Allocb(s, f) ==
    LET b == CHOOSE x \in Ids : s.ref[x] = 0 /\ \A y \in 1 .. x - 1 : s.ref[y] # 0
    IN  [s EXCEPT !.ref[b] = 1, !.net[b] = FALSE, ![f] = Append(@, b)]

(* freemsg: every part gives up its reference. *)
Freemsg(s, m) == [s EXCEPT !.ref = [b \in Ids |-> @[b] - Occurrences(m, b)]]

DupmsgUncounted(s, m) == s

(* dupmsg: the new parts point to the same blocks. *)
Dupmsg(s, m) == [s EXCEPT !.ref = [b \in Ids |-> @[b] + Occurrences(m, b)]]

CopymsgShares(s, f, m) == [Dupmsg(s, m) EXCEPT ![f] = m]

(* copymsg: new blocks with the same contents. *)
Copymsg(s, f, m) ==
    LET copyb(t, b) == LET c == Allocb(t, f)
                       IN  [c EXCEPT !.net[Last(c[f])] = t.net[b]]
        copied[k \in 0 .. Len(m)] == IF k = 0 THEN s ELSE copyb(copied[k - 1], m[k])
    IN  copied[Len(m)]

FreeAt(s, f) == [Freemsg(s, s[f]) EXCEPT ![f] = <<>>]

(* getq and freemsg of the first x messages of a queue; of all flushq. *)
FreeFirst(s, f, x) ==
    [s EXCEPT !.ref = [b \in Ids |-> @[b] - PointersIn(SubSeq(s[f], 1, x), b)],
              ![f] = SubSeq(@, x + 1, Len(@))]

(* A message leaves its queue. *)
TakeOut(s, f, i) == [s EXCEPT !.mp = s[f][i], ![f] = RemoveAt(@, i)]

-----------------------------------------------------------------------------
(* ortp_rtcp_send, whether or not the remote address is known. *)
RtcpSend(s) == FreeAt(s, "rep")

(* __rtp_session_rtcp_process: a sender report and the source description, *)
(* which is shared with the session.  The loop over the contributing       *)
(* sources goes on from the packet it builds, which is in no queue, and    *)
(* follows a null pointer.                                                 *)
Report(s) ==
    LET head == Allocb(Allocb(s, "rep"), "rep")
        sdes == [Dupmsg(head, s.sd) EXCEPT !.rep = @ \o s.sd]
    IN  IF s.csrc # <<>> THEN [s EXCEPT !.alive = FALSE] ELSE RtcpSend(sdes)

ProcessRtcp(s, due) == IF due THEN Report(s) ELSE s

(* rtcp_recv: each packet is parsed and freed; a buffer is kept. *)
RtcpRecv(s) == IF s.rtcp = <<>> THEN Allocb(s, "rtcp") ELSE s

(* ortp_rtp_send: the header is brought into network order in place. *)
RtpSend(s, f) ==
    LET b == Head(s[f])
        t == [s EXCEPT !.net[b] = ~@, !.sent = @ \cup {~s.net[b]}]
    IN  FreeAt(t, f)

(* rtp_session_sendm_with_ts, of the message at f. *)
Sendm(s, f, due) == ProcessRtcp(RtcpRecv(RtpSend(s, f)), due)

(* rtp_session_send_dtmf: three packets, of which the last is sent three   *)
(* times.                                                                  *)
SendDtmf(s, due) ==
    LET m3 == Allocb(Allocb(Allocb(s, "m1"), "m2"), "m3")
        two == Sendm(Sendm(m3, "m1", due), "m2", due)
        copies == Copymsg(Copymsg(two, "m1", two.m3), "m2", two.m3)
    IN  Sendm(Sendm(Sendm(copies, "m3", due), "m1", due), "m2", due)

(* rtp_session_set_source_description; a long one takes two blocks         *)
(* (appendb).  The old one is freed.                                       *)
SetSourceDescription(s, parts) ==
    LET new == IF parts = 2 THEN Allocb(Allocb(s, "mp"), "mp") ELSE Allocb(s, "mp")
    IN  [FreeAt(new, "sd") EXCEPT !.sd = new.mp, !.mp = <<>>]

-----------------------------------------------------------------------------
(* split_and_queue: a second part points to the same block; what exceeds   *)
(* the maximum leaves at the old end.                                      *)
SplitBlock(s, f) ==
    LET q == [Dupmsg(s, s.mp) EXCEPT ![f] = Append(@, s.mp \o s.mp), !.mp = <<>>]
    IN  FreeFirst(q, f, IF Len(q[f]) > MaxQueue THEN Len(q[f]) - MaxQueue ELSE 0)

(* rtp_parse of the block at mp: brought into host order and queued, or    *)
(* freed when it is bad, empty or late; a repeated packet is freed after   *)
(* it has been split (rtp_putq).                                           *)
Parse(s, kind) ==
    LET h == [s EXCEPT !.net[Head(s.mp)] = FALSE] IN
    CASE kind = "refused" -> FreeAt(s, "mp")
      [] kind = "twice" -> FreeAt([Dupmsg(h, h.mp) EXCEPT !.mp = @ \o @], "mp")
      [] kind = "media" -> SplitBlock(h, "rq")
      [] kind = "tev" -> SplitBlock(h, "tevq")

(* rtp_recv: the buffer of a packet that is too short is kept, as if there *)
(* had been none.                                                          *)
RtpRecv(s, kind) ==
    LET t == IF s.rtp = <<>> THEN Allocb(s, "rtp") ELSE s
        read == [t EXCEPT !.mp = t.rtp, !.rtp = <<>>, !.net[Head(t.rtp)] = TRUE]
    IN  IF kind = "none" THEN t ELSE Allocb(Parse(read, kind), "rtp")

(* rtp_session_check_telephone_events: a packet with the mark, or without  *)
(* a pending event, is copied; one with another timestamp is shared.       *)
CheckTelephoneEvents(s, how) ==
    IF how = "mark" \/ s.cur = <<>> THEN Copymsg(FreeAt(s, "cur"), "cur", s.mp)
    ELSE IF how = "other" THEN [Dupmsg(FreeAt(s, "cur"), s.mp) EXCEPT !.cur = s.mp]
    ELSE s

(* A telephone event is taken, looked at if somebody asked for it, freed. *)
TakeEvent(s, how) ==
    LET t == TakeOut(s, "tevq", 1)
    IN  IF s.tevq = <<>> THEN s
        ELSE FreeAt(IF how = "ignored" THEN t ELSE CheckTelephoneEvents(t, how), "mp")

(* rtp_getq takes k packets, frees all but the last and leaves that at mp. *)
Getq(s, k) == IF k = 0 THEN s ELSE TakeOut(FreeFirst(s, "rq", k - 1), "rq", 1)

(* rtp_session_recvm_with_ts up to the packet it returns, at mp. *)
RecvmBlocks(s, kind, how, k, due) ==
    LET r == TakeEvent(RtcpRecv(RtpRecv(s, kind)), how)
    IN  ProcessRtcp(Getq(r, IF k <= Len(r.rq) THEN k ELSE 0), due)

-----------------------------------------------------------------------------
(* rtp_session_init: a default source description. *)
MsgInit ==
    LET none == [ref |-> [b \in Ids |-> 0], net |-> [b \in Ids |-> FALSE],
                 sd |-> <<>>, mp |-> <<>>, m1 |-> <<>>, m2 |-> <<>>, m3 |-> <<>>,
                 rep |-> <<>>, cur |-> <<>>, rtp |-> <<>>, rtcp |-> <<>>,
                 csrc |-> <<>>, rq |-> <<>>, tevq |-> <<>>, hands |-> <<>>,
                 sent |-> {}, alive |-> TRUE, leaks |-> FALSE]
    IN  /\ ms = SetSourceDescription(none, 1)
        /\ ops = 0

(* A call that leaves the state s; there is memory for what it takes. *)
CallTo(s) ==
    /\ ms.alive /\ ops < MaxOps
    /\ PerCall <= Cardinality({b \in Ids : ms.ref[b] = 0})
    /\ ms' = s
    /\ ops' = ops + 1

set_source_description ==
    \E parts \in 1 .. 2 : CallTo(SetSourceDescription(ms, parts))

(* rtp_session_add_contributing_source *)
add_contributing_source ==
    /\ Len(ms.csrc) < MaxSources
    /\ LET s == Allocb(ms, "mp")
       IN  CallTo([s EXCEPT !.csrc = Append(@, s.mp), !.mp = <<>>])

(* rtp_session_remove_contributing_sources: the description leaves the     *)
(* queue but is not freed; a BYE is sent.                                  *)
remove_contributing_sources ==
    \E i \in 0 .. Len(ms.csrc) :
       LET s == IF i = 0 THEN ms
                ELSE [ms EXCEPT !.csrc = RemoveAt(@, i), !.leaks = TRUE]
       IN  CallTo(RtcpSend(Allocb(s, "rep")))

(* rtp_session_create_packet, _in_place, and _with_data of two parts. *)
create_packet ==
    /\ Len(ms.hands) < MaxHands
    /\ \E parts \in 1 .. 2 :
       LET a == Allocb(ms, "mp")
           s == IF parts = 2 THEN Allocb(a, "mp") ELSE a
       IN  CallTo([s EXCEPT !.hands = Append(@, s.mp), !.mp = <<>>])

(* rtp_session_sendm_with_ts of a packet of the application, one that it   *)
(* created or one that it received.                                        *)
sendm_with_ts ==
    \E i \in DOMAIN ms.hands, due \in BOOLEAN :
       CallTo(Sendm(TakeOut(ms, "hands", i), "mp", due))

(* rtp_session_send_with_ts: a header in front of the caller's buffer. *)
send_with_ts ==
    \E due \in BOOLEAN : CallTo(Sendm(Allocb(Allocb(ms, "mp"), "mp"), "mp", due))

send_dtmf == \E due \in BOOLEAN : CallTo(SendDtmf(ms, due))

Kinds == {"none", "refused", "twice", "media", "tev"}

Hows(kind) == IF ms.tevq = <<>> /\ kind # "tev" THEN {"ignored"}
              ELSE {"ignored", "mark", "same", "other"}

(* rtp_session_recvm_with_ts: the packet goes to the application. *)
recvm_with_ts ==
    /\ Len(ms.hands) < MaxHands
    /\ \E kind \in Kinds, k \in 0 .. Len(ms.rq) + 1, due \in BOOLEAN :
       \E how \in Hows(kind) :
       LET s == RecvmBlocks(ms, kind, how, k, due)
       IN  CallTo([s EXCEPT !.mp = <<>>,
                            !.hands = IF s.mp = <<>> THEN @ ELSE Append(@, s.mp)])

(* rtp_session_recv_with_ts: the packet is freed once it is read, or goes  *)
(* back into the queue when the buffer was too small for it.               *)
recv_with_ts ==
    \E kind \in Kinds, k \in 0 .. Len(ms.rq) + 1, due, whole \in BOOLEAN :
       \E how \in Hows(kind) :
       LET s == RecvmBlocks(ms, kind, how, k, due)
       IN  CallTo(IF whole \/ s.mp = <<>> THEN FreeAt(s, "mp")
                  ELSE [s EXCEPT !.rq = <<s.mp>> \o @, !.mp = <<>>])

(* The application frees a packet. *)
free_packet ==
    \E i \in DOMAIN ms.hands : CallTo(FreeAt(TakeOut(ms, "hands", i), "mp"))

(* rtp_session_reset: the received packets are freed. *)
msg_session_reset == CallTo(FreeFirst(ms, "rq", Len(ms.rq)))

(* rtp_session_uninit: the telephone events and the contributing sources   *)
(* are not freed.                                                          *)
Uninit(s) ==
    LET q == FreeFirst(s, "rq", Len(s.rq))
    IN  FreeAt(FreeAt(FreeAt(FreeAt(q, "cur"), "rtp"), "rtcp"), "sd")

session_uninit ==
    CallTo([Uninit(ms) EXCEPT !.tevq = <<>>, !.csrc = <<>>, !.alive = FALSE,
                              !.leaks = @ \/ ms.tevq # <<>> \/ ms.csrc # <<>>])

MsgNext ==
    \/ set_source_description \/ add_contributing_source \/ remove_contributing_sources
    \/ create_packet \/ sendm_with_ts \/ send_with_ts \/ send_dtmf
    \/ recvm_with_ts \/ recv_with_ts \/ free_packet
    \/ msg_session_reset \/ session_uninit

MsgSpec == MsgInit /\ [][MsgNext]_msgVars

-----------------------------------------------------------------------------
(* The parts of the messages somebody can still reach that point to b. *)
Pointers(s, b) ==
    Occurrences(s.sd, b) + Occurrences(s.cur, b) + Occurrences(s.rtp, b) + Occurrences(s.rtcp, b)
      + PointersIn(s.csrc, b) + PointersIn(s.rq, b) + PointersIn(s.tevq, b) + PointersIn(s.hands, b)

(* No block is given back while a message that somebody holds points to    *)
(* it, whichever parts were shared, copied, queued, taken and freed        *)
(* (the reference counts of freeb and dupb).                               *)
BlocksHeld == \A b \in Ids : ms.ref[b] >= Pointers(ms, b)

(* Every block is given back when its last holder is done with it, the     *)
(* end of the session included; only contributing sources, and telephone   *)
(* events nobody took before the end, are forgotten.                       *)
NothingLeaked == ~ms.leaks => \A b \in Ids : ms.ref[b] <= Pointers(ms, b)

(* Every header goes out in network order although it is converted in      *)
(* place: no packet is sent whose block was sent before (the note in       *)
(* rtp_session_send_dtmf).                                                 *)
WireInNetworkOrder == ms.sent \subseteq {TRUE}

(* A block is in use exactly as long as somebody holds it (str_utils.c).   *)
BlockInv == BlocksHeld /\ NothingLeaked
=============================================================================
