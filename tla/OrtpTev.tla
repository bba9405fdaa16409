------------------------------ MODULE OrtpTev ------------------------------
(***************************************************************************)
(* Telephone events from end to end (telephonyevents.c): the packets of    *)
(* rtp_session_send_dtmf, a network that loses and repeats but does not    *)
(* reorder them, and rtp_session_check_telephone_events, which reports the *)
(* end of an event to the application.                                     *)
(*                                                                         *)
(* Every event has a timestamp of its own.  A packet carries one event.    *)
(* evbuf, which should point to the events of the pending packet, points   *)
(* to the message block behind its header, whose first word (b_prev) is    *)
(* null in a new block: the flag found there is clear until it is set.     *)
(***************************************************************************)
EXTENDS Naturals, Sequences, FiniteSets

CONSTANTS
    Events,         \* the number of events of the sender, sent in order
    Short           \* those the application sends as one packet with both flags

ASSUME TevConstants == Events \in Nat /\ Short \subseteq 1 .. Events

VARIABLES
    wire,           \* the packets on their way
    next,           \* the next event
    cur,            \* current_tev: its event, 0 for none, and the flag at evbuf
    got,            \* the numbers of the packets of each event that were taken
    reports         \* how often each event's end was reported

tevVars == <<wire, next, cur, got, reports>>

TevInit ==
    /\ wire = <<>> /\ next = 1
    /\ cur = [ev |-> 0, E |-> FALSE]
    /\ got = [e \in 1 .. Events |-> {}]
    /\ reports = [e \in 1 .. Events |-> 0]

(* rtp_session_create_telephone_event_packet, rtp_session_add_telephone_event *)
Packet(e, i, mark, end) == [ev |-> e, i |-> i, mark |-> mark, end |-> end]

(* rtp_session_send_dtmf: the last packet three times. *)
Dtmf(e) ==
    <<Packet(e, 1, TRUE, FALSE), Packet(e, 2, FALSE, FALSE)>>
       \o [i \in 1 .. 3 |-> Packet(e, 2 + i, FALSE, TRUE)]

(* An event that is over within its first packet. *)
ShortEvent(e) == <<Packet(e, 1, TRUE, TRUE)>>

send_event ==
    /\ next <= Events
    /\ wire' = wire \o (IF next \in Short THEN ShortEvent(next) ELSE Dtmf(next))
    /\ next' = next + 1
    /\ UNCHANGED <<cur, got, reports>>

(* The network loses a packet. *)
Lose ==
    /\ wire # <<>>
    /\ wire' = Tail(wire)
    /\ UNCHANGED <<next, cur, got, reports>>

-----------------------------------------------------------------------------
EndForgotten(c) == [c |-> c, n |-> IF c.E THEN 0 ELSE 1]

(* The end of the pending event is reported unless the flag says it was;   *)
(* the flag is set.                                                        *)
EndOf(c) == [c |-> [c EXCEPT !.E = TRUE], n |-> IF c.E THEN 0 ELSE 1]

(* The packet becomes the pending one (copymsg or dupmsg). *)
Pending(p) == [ev |-> p.ev, E |-> FALSE]

(* A packet with another timestamp replaces the pending one; if it carries *)
(* an end, that is not reported.                                           *)
OtherEvent(c, p) == Pending(p)

(* rtp_session_check_telephone_events: the pending packet after p, and the *)
(* number of reports.  A marked packet is stored and its end reported, and *)
(* then it is compared with itself.                                        *)
Check(p) ==
    LET marked == IF p.mark THEN Pending(p) ELSE cur
        n == IF p.end THEN 1 ELSE 0
        end == EndOf(marked)
    IN  IF marked.ev = 0 THEN [c |-> Pending(p), n |-> n]
        ELSE IF marked.ev # p.ev THEN [c |-> OtherEvent(marked, p), n |-> 0]
        ELSE IF ~p.end THEN [c |-> marked, n |-> 0]
        ELSE [c |-> end.c, n |-> end.n + IF p.mark THEN n ELSE 0]

(* A packet is taken; the network may repeat it. *)
Take ==
    /\ wire # <<>>
    /\ \E repeated \in BOOLEAN :
       LET p == Head(wire) IN
          /\ repeated => p.i \notin got[p.ev]
          /\ wire' = IF repeated THEN wire ELSE Tail(wire)
          /\ got' = [got EXCEPT ![p.ev] = @ \cup {p.i}]
          /\ cur' = Check(p).c
          /\ reports' = [reports EXCEPT ![p.ev] = @ + Check(p).n]
    /\ UNCHANGED next

TevNext == send_event \/ Lose \/ Take

TevSpec == TevInit /\ [][TevNext]_tevVars

-----------------------------------------------------------------------------
Ends(e) == got[e] \cap 3 .. 5

(* An event sent by rtp_session_send_dtmf is reported exactly once if its  *)
(* first packet and one of its last three arrive, whatever else is lost or *)
(* repeated, and never more than twice: the copies of the last packet are  *)
(* told from new events.                                                   *)
EndReportedOnce ==
    \A e \in (1 .. Events) \ Short :
       /\ reports[e] <= 2
       /\ 1 \in got[e] => reports[e] = IF Ends(e) = {} THEN 0 ELSE 1

(* Without the first packet two of the last three suffice: the first of    *)
(* them may only replace the event before.                                 *)
EndNotMissed ==
    \A e \in (1 .. Events) \ Short : Cardinality(Ends(e)) >= 2 => reports[e] >= 1

(* The end of a telephone event is reported, and reported once             *)
(* (rtp_session_check_telephone_events).                                   *)
TevInv == EndReportedOnce /\ EndNotMissed
=============================================================================
