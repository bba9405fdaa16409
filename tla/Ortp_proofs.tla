---------------------------- MODULE Ortp_proofs -----------------------------
(***************************************************************************)
(* The oRTP scheduler for any number of sessions: its list, and the pace   *)
(* of the calls it wakes, across the wraps of its clock.  The telephone    *)
(* events of telephonyevents.c for any number of events, whatever the      *)
(* network loses and repeats.                                              *)
(***************************************************************************)
EXTENDS OrtpScheduler, OrtpTev, SequenceTheorems, FiniteSetTheorems,
        WellFoundedInduction, TLAPS

-----------------------------------------------------------------------------
(* The packets of the two kinds of events. *)
PacketSet == [ev : Nat, i : Nat, mark : BOOLEAN, end : BOOLEAN]
TevPacket(p) ==
  /\ p \in PacketSet
  /\ p.ev \in 1 .. Events /\ p.i \in 1 .. 5 /\ (p.mark <=> p.i = 1)
  /\ p.ev \notin Short => (p.end <=> p.i >= 3)

(* The order in which the packets are sent. *)
SentBefore(p, r) == p.ev < r.ev \/ (p.ev = r.ev /\ p.i < r.i)

WireOK ==
  /\ wire \in Seq(PacketSet)
  /\ \A k \in 1 .. Len(wire) : TevPacket(wire[k]) /\ wire[k].ev < next
  /\ \A j, k \in 1 .. Len(wire) : j < k => SentBefore(wire[j], wire[k])

(* What was taken is not newer than what is on its way, and the pending    *)
(* event is the last one of which anything was taken.                      *)
GotOK ==
  /\ got \in [1 .. Events -> SUBSET (1 .. 5)] /\ reports \in [1 .. Events -> Nat]
  /\ cur \in [ev : 0 .. Events, E : BOOLEAN] /\ next \in 1 .. Events + 1
  /\ \A e \in 1 .. Events : got[e] # {} => e <= cur.ev
  /\ cur.ev # 0 => got[cur.ev] # {}
  /\ \A e \in 1 .. Events : got[e] = {} => reports[e] = 0
  /\ cur.ev < next
  /\ \A k \in 1 .. Len(wire) :
        /\ cur.ev <= wire[k].ev
        /\ \A i \in got[wire[k].ev] : i <= wire[k].i

(* The reports of an event sent by rtp_session_send_dtmf, and what the     *)
(* flag at evbuf says while it is the pending one.                         *)
ReportsOK(e) ==
  /\ 1 \in got[e] => reports[e] = IF Ends(e) = {} THEN 0 ELSE 1
  /\ 1 \notin got[e] => reports[e] <= 2 /\ (reports[e] >= 1 \/ \A x, y \in Ends(e) : x = y)
FlagOK(e) ==
  /\ 1 \in got[e] => (cur.E <=> Ends(e) # {})
  /\ 1 \notin got[e] =>
        /\ cur.E => reports[e] >= 1
        /\ ~cur.E => reports[e] <= 1 /\ \A x, y \in Ends(e) : x = y

TevIInv == /\ WireOK /\ GotOK
           /\ \A e \in (1 .. Events) \ Short : ReportsOK(e)
           /\ cur.ev \in (1 .. Events) \ Short => FlagOK(cur.ev)

USE TevConstants

(* A packet of event e with number i, and one of its records. *)
IthOf(p, e, i) == p \in PacketSet /\ TevPacket(p) /\ p.ev = e /\ p.i = i

(* What rtp_session_send_dtmf puts into a packet. *)
LEMMA PacketIs ==
  ASSUME NEW e \in 1 .. Events
  PROVE  /\ e \in Short => IthOf(Packet(e, 1, TRUE, TRUE), e, 1)
         /\ e \notin Short => /\ IthOf(Packet(e, 1, TRUE, FALSE), e, 1)
                              /\ IthOf(Packet(e, 2, FALSE, FALSE), e, 2)
                              /\ \A i \in 3 .. 5 : IthOf(Packet(e, i, FALSE, TRUE), e, i)
BY DEF Packet, TevPacket, PacketSet, IthOf

(* The packets of one event, in the order they are sent. *)
LEMMA EventPackets ==
  ASSUME NEW e \in 1 .. Events, NEW q, q = (IF e \in Short THEN ShortEvent(e) ELSE Dtmf(e))
  PROVE  q \in Seq(PacketSet) /\ \A k \in 1 .. Len(q) : IthOf(q[k], e, k)
<1>1. CASE e \in Short
  <2>0. PICK p : p = Packet(e, 1, TRUE, TRUE)
    OBVIOUS
  <2>1. q = <<p>>
    BY <1>1, <2>0 DEF ShortEvent
  <2>2. IthOf(p, e, 1) /\ p \in PacketSet
    BY <1>1, <2>0, PacketIs DEF IthOf
  <2>3. q \in Seq(PacketSet) /\ Len(q) = 1 /\ q[1] = p
    <3>1. <<p>> \in Seq(PacketSet)
      BY <2>2
    <3>2. Len(<<p>>) = 1 /\ <<p>>[1] = p
      OBVIOUS
    <3> QED BY <2>1, <3>1, <3>2
  <2> QED BY <2>2, <2>3
<1>2. CASE e \notin Short
  <2>0. PICK p1, p2 : p1 = Packet(e, 1, TRUE, FALSE) /\ p2 = Packet(e, 2, FALSE, FALSE)
    OBVIOUS
  <2>1. PICK a : a = <<p1, p2>>
    OBVIOUS
  <2>2. PICK b : b = [i \in 1 .. 3 |-> Packet(e, 2 + i, FALSE, TRUE)]
    OBVIOUS
  <2>3. q = a \o b
    BY <1>2, <2>0, <2>1, <2>2 DEF Dtmf
  <2>4. IthOf(p1, e, 1) /\ IthOf(p2, e, 2) /\ p1 \in PacketSet /\ p2 \in PacketSet
    BY <1>2, <2>0, PacketIs DEF IthOf
  <2>5. \A i \in 1 .. 3 : IthOf(b[i], e, 2 + i)
    <3> TAKE i \in 1 .. 3
    <3>0. 2 + i \in 3 .. 5
      OBVIOUS
    <3>1. b[i] = Packet(e, 2 + i, FALSE, TRUE)
      BY <2>2, Zenon
    <3>2. IthOf(Packet(e, 2 + i, FALSE, TRUE), e, 2 + i)
      BY <1>2, <3>0 DEF Packet, TevPacket, PacketSet, IthOf
    <3> QED BY <3>1, <3>2
  <2>6. a \in Seq(PacketSet) /\ Len(a) = 2 /\ a[1] = p1 /\ a[2] = p2
    BY <2>1, <2>4
  <2>7. b \in [1 .. 3 -> PacketSet]
    BY <2>2, <2>5 DEF IthOf
  <2>8. b \in Seq(PacketSet)
    BY <2>7, SeqDef
  <2>9. Len(b) = 3
    <3>1. DOMAIN b = 1 .. Len(b) /\ Len(b) \in Nat
      BY <2>8, LenProperties
    <3>2. DOMAIN b = 1 .. 3
      BY <2>2
    <3>3. 1 .. Len(b) = 1 .. 3
      BY <3>1, <3>2, Zenon
    <3>4. 3 \in 1 .. 3 /\ 4 \notin 1 .. 3
      OBVIOUS
    <3>5. 3 \in 1 .. Len(b) /\ 4 \notin 1 .. Len(b)
      BY <3>3, <3>4, Zenon
    <3> QED BY <3>1, <3>5
  <2>10. /\ q \in Seq(PacketSet) /\ Len(q) = 5
         /\ \A k \in 1 .. 5 : q[k] = IF k <= 2 THEN a[k] ELSE b[k - 2]
    <3>1. /\ a \o b \in Seq(PacketSet) /\ Len(a \o b) = Len(a) + Len(b)
          /\ \A i \in 1 .. Len(a) + Len(b) : (a \o b)[i] = IF i <= Len(a) THEN a[i] ELSE b[i - Len(a)]
      BY <2>6, <2>8, ConcatProperties
    <3>2. /\ q \in Seq(PacketSet) /\ Len(q) = Len(a) + Len(b)
          /\ \A i \in 1 .. Len(a) + Len(b) : q[i] = IF i <= Len(a) THEN a[i] ELSE b[i - Len(a)]
      BY <2>3, <3>1
    <3>3. Len(a) = 2 /\ Len(b) = 3
      BY <2>6, <2>9
    <3>4. Len(a) + Len(b) = 5
      BY <3>3
    <3> QED BY <3>2, <3>3, <3>4
  <2>11. \A k \in 1 .. 5 : IthOf(q[k], e, k)
    <3> TAKE k \in 1 .. 5
    <3>1. CASE k = 1
      BY <2>4, <2>6, <2>10, <3>1
    <3>2. CASE k = 2
      BY <2>4, <2>6, <2>10, <3>2
    <3>3. CASE k >= 3
      <4>1. q[k] = b[k - 2] /\ k - 2 \in 1 .. 3 /\ 2 + (k - 2) = k
        BY <2>10, <3>3
      <4> QED BY <2>5, <4>1
    <3> QED BY <3>1, <3>2, <3>3
  <2> QED BY <2>10, <2>11
<1> QED BY <1>1, <1>2

-----------------------------------------------------------------------------
(* A packet that is lost, or taken, leaves the front of the wire. *)
LEMMA WireTail ==
  ASSUME WireOK, GotOK, wire # <<>>
  PROVE  /\ wire[1] = Head(wire) /\ Tail(wire) \in Seq(PacketSet) /\ 1 \in 1 .. Len(wire)
         /\ Len(Tail(wire)) = Len(wire) - 1 /\ Len(wire) \in Nat \ {0}
         /\ \A k \in 1 .. Len(Tail(wire)) : Tail(wire)[k] = wire[k + 1] /\ k + 1 \in 1 .. Len(wire)
<1>1. wire \in Seq(PacketSet) /\ Len(wire) \in Nat /\ Len(wire) # 0
  BY EmptySeq, LenProperties DEF WireOK
<1>2. Head(wire) = wire[1]
  BY <1>1
<1> QED BY <1>1, <1>2, HeadTailProperties

(* rtp_session_send_dtmf: the new packets are newer than all others. *)
LEMMA StepSend == ASSUME TevIInv, send_event PROVE TevIInv'
<1>1. next \in 1 .. Events /\ next' = next + 1 /\ next' \in 1 .. Events + 1
  BY DEF TevIInv, GotOK, send_event
<1>2. PICK q : q = (IF next \in Short THEN ShortEvent(next) ELSE Dtmf(next))
  OBVIOUS
<1>3. q \in Seq(PacketSet) /\ \A k \in 1 .. Len(q) : IthOf(q[k], next, k)
  BY <1>1, <1>2, EventPackets
<1>4. wire' = wire \o q /\ cur' = cur /\ got' = got /\ reports' = reports
  BY <1>2 DEF send_event
<1>5. wire \in Seq(PacketSet) /\ Len(wire) \in Nat /\ Len(q) \in Nat
  BY <1>3, LenProperties DEF TevIInv, WireOK
<1>6. /\ wire' \in Seq(PacketSet) /\ Len(wire') = Len(wire) + Len(q)
      /\ \A i \in 1 .. Len(wire) + Len(q) : wire'[i] = IF i <= Len(wire) THEN wire[i] ELSE q[i - Len(wire)]
  BY <1>3, <1>4, <1>5, ConcatProperties
<1>7. \A k \in 1 .. Len(wire') :
         \/ k \in 1 .. Len(wire) /\ wire'[k] = wire[k]
         \/ k - Len(wire) \in 1 .. Len(q) /\ wire'[k] = q[k - Len(wire)] /\ k > Len(wire)
  BY <1>5, <1>6
<1>8. WireOK'
  <2>1. \A k \in 1 .. Len(wire') : TevPacket(wire'[k]) /\ wire'[k].ev < next'
    <3> TAKE k \in 1 .. Len(wire')
    <3>1. CASE k \in 1 .. Len(wire) /\ wire'[k] = wire[k]
      BY <3>1, <1>1 DEF TevIInv, WireOK, TevPacket
    <3>2. CASE k - Len(wire) \in 1 .. Len(q) /\ wire'[k] = q[k - Len(wire)]
      BY <3>2, <1>1, <1>3 DEF IthOf
    <3> QED BY <3>1, <3>2, <1>7
  <2>2. ASSUME NEW j \in 1 .. Len(wire'), NEW k \in 1 .. Len(wire'), j < k
        PROVE  SentBefore(wire'[j], wire'[k])
    <3>1. CASE k \in 1 .. Len(wire) /\ wire'[k] = wire[k]
      <4>1. j \in 1 .. Len(wire) /\ wire'[j] = wire[j]
        BY <1>5, <1>6, <1>7, <2>2, <3>1
      <4> QED BY <2>2, <3>1, <4>1 DEF TevIInv, WireOK
    <3>2. CASE k - Len(wire) \in 1 .. Len(q) /\ wire'[k] = q[k - Len(wire)]
      <4>1. wire'[k].ev = next /\ wire'[k].i = k - Len(wire)
        BY <3>2, <1>3 DEF IthOf
      <4>2. CASE j \in 1 .. Len(wire) /\ wire'[j] = wire[j]
        BY <4>1, <4>2 DEF TevIInv, WireOK, SentBefore
      <4>3. CASE j - Len(wire) \in 1 .. Len(q) /\ wire'[j] = q[j - Len(wire)]
        <5>1. wire'[j].ev = next /\ wire'[j].i = j - Len(wire)
          BY <4>3, <1>3 DEF IthOf
        <5>2. j - Len(wire) < k - Len(wire)
          BY <1>5, <1>6, <2>2
        <5> QED BY <4>1, <5>1, <5>2 DEF SentBefore
      <4> QED BY <4>2, <4>3, <1>7
    <3> QED BY <3>1, <3>2, <1>7
  <2> QED BY <2>1, <2>2, <1>6 DEF WireOK
<1>9. GotOK'
  <2>1. ASSUME NEW k \in 1 .. Len(wire')
        PROVE  cur.ev <= wire'[k].ev /\ \A i \in got[wire'[k].ev] : i <= wire'[k].i
    <3>1. CASE k \in 1 .. Len(wire) /\ wire'[k] = wire[k]
      BY <3>1 DEF TevIInv, GotOK
    <3>2. CASE k - Len(wire) \in 1 .. Len(q) /\ wire'[k] = q[k - Len(wire)]
      <4>1. wire'[k].ev = next
        BY <3>2, <1>3 DEF IthOf
      <4>2. cur.ev < next /\ cur.ev \in 0 .. Events /\ got[next] = {}
        BY <1>1 DEF TevIInv, GotOK
      <4> QED BY <1>1, <4>1, <4>2
    <3> QED BY <3>1, <3>2, <1>7
  <2> QED BY <2>1, <1>1, <1>4, SMTT(30) DEF TevIInv, GotOK
<1>10. /\ \A e \in (1 .. Events) \ Short : ReportsOK(e)'
       /\ cur'.ev \in (1 .. Events) \ Short => FlagOK(cur.ev)'
  BY <1>4 DEF TevIInv, ReportsOK, FlagOK, Ends
<1> QED BY <1>8, <1>9, <1>10 DEF TevIInv

(* The network loses a packet. *)
LEMMA StepLose == ASSUME TevIInv, Lose PROVE TevIInv'
<1> USE DEF Lose
<1>0. WireOK /\ GotOK /\ wire # <<>>
  BY DEF TevIInv
<1>1. WireOK'
  BY <1>0, WireTail DEF WireOK
<1>2. GotOK'
  BY <1>0, WireTail DEF GotOK
<1>3. /\ \A e \in (1 .. Events) \ Short : ReportsOK(e)'
      /\ cur'.ev \in (1 .. Events) \ Short => FlagOK(cur.ev)'
  BY DEF TevIInv, ReportsOK, FlagOK, Ends
<1> QED BY <1>1, <1>2, <1>3 DEF TevIInv

(* What rtp_session_check_telephone_events makes of packet p: the new      *)
(* pending event c and n reports; more is known of an event that is not    *)
(* over within its first packet.                                           *)
Checked(p, c, n) ==
  /\ c \in [ev : 0 .. Events, E : BOOLEAN] /\ c.ev = p.ev /\ n \in Nat
  /\ p.ev \notin Short =>
        /\ p.mark => ~c.E /\ n = 0
        /\ ~p.mark /\ cur.ev # p.ev => ~c.E /\ n <= 1
        /\ ~p.mark /\ cur.ev = p.ev /\ ~p.end => (c.E <=> cur.E) /\ n = 0
        /\ ~p.mark /\ cur.ev = p.ev /\ p.end => c.E /\ (cur.E => n = 0) /\ (~cur.E => n = 1)

(* rtp_session_check_telephone_events, case by case. *)
LEMMA CheckIs ==
  ASSUME NEW p, TevPacket(p), cur \in [ev : 0 .. Events, E : BOOLEAN]
  PROVE  Checked(p, Check(p).c, Check(p).n)
<1>0. /\ p.ev \in 1 .. Events /\ p.ev # 0 /\ p.mark \in BOOLEAN /\ p.end \in BOOLEAN
      /\ p.ev \notin Short /\ p.mark => ~p.end
  BY DEF TevPacket, PacketSet
<1>1. CASE p.mark /\ p.end
  <2>1. PICK m : m = Pending(p)
    OBVIOUS
  <2>2. m \in [ev : 0 .. Events, E : BOOLEAN] /\ m.ev = p.ev /\ ~m.E
    BY <1>0, <2>1 DEF Pending
  <2>3. PICK c : c = [m EXCEPT !.E = TRUE]
    OBVIOUS
  <2>4. c \in [ev : 0 .. Events, E : BOOLEAN] /\ c.ev = p.ev
    BY <2>2, <2>3
  <2>5. EndOf(m) = [c |-> c, n |-> 1]
    BY <2>2, <2>3 DEF EndOf
  <2>6. Check(p) = [c |-> c, n |-> 2]
    BY <1>0, <1>1, <2>1, <2>2, <2>5 DEF Check
  <2>7. Check(p).c = c /\ Check(p).n = 2
    BY <2>6
  <2> QED BY <1>0, <1>1, <2>4, <2>7 DEF Checked
<1>2. CASE p.mark /\ ~p.end
  <2>1. Check(p) = [c |-> [ev |-> p.ev, E |-> FALSE], n |-> 0]
    BY <1>0, <1>2 DEF Check, Pending
  <2> QED BY <1>0, <1>2, <2>1 DEF Checked
<1>3. CASE ~p.mark /\ cur.ev # p.ev
  <2>0. \/ Check(p) = [c |-> [ev |-> p.ev, E |-> FALSE], n |-> 0]
        \/ Check(p) = [c |-> [ev |-> p.ev, E |-> FALSE], n |-> 1]
    BY <1>0, <1>3 DEF Check, Pending, OtherEvent
  <2>1. PICK n \in 0 .. 1 : Check(p) = [c |-> [ev |-> p.ev, E |-> FALSE], n |-> n]
    BY <2>0
  <2> QED BY <1>0, <1>3, <2>1 DEF Checked
<1>4. CASE ~p.mark /\ cur.ev = p.ev /\ ~p.end
  <2>1. Check(p) = [c |-> cur, n |-> 0]
    BY <1>0, <1>4 DEF Check
  <2> QED BY <1>0, <1>4, <2>1 DEF Checked
<1>5. CASE ~p.mark /\ cur.ev = p.ev /\ p.end
  <2>1. Check(p) = [c |-> [cur EXCEPT !.E = TRUE], n |-> (IF cur.E THEN 0 ELSE 1) + 0]
    BY <1>0, <1>5 DEF Check, EndOf
  <2>2. PICK c : c = [cur EXCEPT !.E = TRUE]
    OBVIOUS
  <2>3. c \in [ev : 0 .. Events, E : BOOLEAN] /\ c.ev = cur.ev /\ c.E
    BY <2>2
  <2>4. PICK n : n = (IF cur.E THEN 0 ELSE 1) + 0
    OBVIOUS
  <2>5. n \in Nat /\ (cur.E => n = 0) /\ (~cur.E => n = 1)
    BY <2>4
  <2>6. Check(p).c = c /\ Check(p).n = n
    BY <2>1, <2>2, <2>4
  <2> QED BY <1>0, <1>5, <2>3, <2>5, <2>6 DEF Checked
<1> QED BY <1>0, <1>1, <1>2, <1>3, <1>4, <1>5

(* rtp_session_check_telephone_events: nothing older than the packet at    *)
(* the front was taken, so its event is pending if any of it was.          *)
LEMMA StepTake == ASSUME TevIInv, Take PROVE TevIInv'
<1>1. PICK p : p = Head(wire)
  OBVIOUS
<1>2. PICK repeated \in BOOLEAN :
         /\ wire' = IF repeated THEN wire ELSE Tail(wire)
         /\ got' = [got EXCEPT ![p.ev] = @ \cup {p.i}]
         /\ cur' = Check(p).c
         /\ reports' = [reports EXCEPT ![p.ev] = @ + Check(p).n]
  BY <1>1 DEF Take
<1>3. WireOK /\ GotOK /\ wire # <<>> /\ next' = next
  BY DEF TevIInv, Take
<1>4. p = wire[1] /\ 1 \in 1 .. Len(wire) /\ Len(wire) \in Nat
  BY <1>1, <1>3, WireTail
<1>5. TevPacket(p) /\ p.ev < next /\ cur.ev <= p.ev /\ \A i \in got[p.ev] : i <= p.i
  BY <1>3, <1>4 DEF WireOK, GotOK
<1>6. p.ev \in 1 .. Events /\ p.i \in 1 .. 5 /\ p.mark \in BOOLEAN /\ p.end \in BOOLEAN
  BY <1>5 DEF TevPacket, PacketSet
<1>7. cur \in [ev : 0 .. Events, E : BOOLEAN] /\ cur.ev \in 0 .. Events /\ cur.E \in BOOLEAN
  BY <1>3 DEF GotOK
<1>8. PICK n : n = Check(p).n
  OBVIOUS
<1>9. /\ cur' \in [ev : 0 .. Events, E : BOOLEAN] /\ cur'.ev = p.ev /\ n \in Nat
      /\ p.ev \notin Short =>
            /\ p.mark => ~cur'.E /\ n = 0
            /\ ~p.mark /\ cur.ev # p.ev => ~cur'.E /\ n <= 1
            /\ ~p.mark /\ cur.ev = p.ev /\ ~p.end => (cur'.E <=> cur.E) /\ n = 0
            /\ ~p.mark /\ cur.ev = p.ev /\ p.end => cur'.E /\ (cur.E => n = 0) /\ (~cur.E => n = 1)
  <2>1. Checked(p, Check(p).c, Check(p).n)
    BY <1>5, <1>7, CheckIs
  <2>2. Checked(p, cur', n)
    BY <1>2, <1>8, <2>1
  <2> QED BY <2>2 DEF Checked
<1>10. got[p.ev] # {} => cur.ev = p.ev
  <2>1. got[p.ev] # {} => p.ev <= cur.ev
    BY <1>3, <1>6 DEF GotOK
  <2> QED BY <1>5, <1>6, <1>7, <2>1
<1>11. /\ got' \in [1 .. Events -> SUBSET (1 .. 5)] /\ reports' \in [1 .. Events -> Nat]
       /\ got'[p.ev] = got[p.ev] \cup {p.i} /\ reports'[p.ev] = reports[p.ev] + n
       /\ \A e \in (1 .. Events) \ {p.ev} : got'[e] = got[e] /\ reports'[e] = reports[e]
  <2>1. reports' = [reports EXCEPT ![p.ev] = @ + n] /\ got' = [got EXCEPT ![p.ev] = @ \cup {p.i}]
    BY <1>2, <1>8
  <2>2. got \in [1 .. Events -> SUBSET (1 .. 5)] /\ reports \in [1 .. Events -> Nat]
    BY <1>3 DEF GotOK
  <2> QED BY <1>6, <1>9, <2>1, <2>2
<1>12. /\ wire' \in Seq(PacketSet) /\ Len(wire') \in Nat
       /\ \A k \in 1 .. Len(wire') :
             \E d \in 0 .. 1 : wire'[k] = wire[k + d] /\ k + d \in 1 .. Len(wire)
       /\ \/ \A k \in 1 .. Len(wire') : wire'[k] = wire[k] /\ k \in 1 .. Len(wire)
          \/ \A k \in 1 .. Len(wire') : wire'[k] = wire[k + 1] /\ k + 1 \in 1 .. Len(wire)
  <2>1. CASE repeated
    BY <1>2, <1>3, <1>4, <2>1 DEF WireOK
  <2>2. CASE ~repeated
    BY <1>2, <1>3, <2>2, WireTail
  <2> QED BY <2>1, <2>2
<1>13. WireOK'
  <2>1. \A k \in 1 .. Len(wire') : TevPacket(wire'[k]) /\ wire'[k].ev < next'
    BY <1>3, <1>12 DEF WireOK
  <2>2. ASSUME NEW j \in 1 .. Len(wire'), NEW k \in 1 .. Len(wire'), j < k
        PROVE  SentBefore(wire'[j], wire'[k])
    <3>1. \A a, b \in 1 .. Len(wire) : a < b => SentBefore(wire[a], wire[b])
      BY <1>3 DEF WireOK
    <3>2. CASE \A i \in 1 .. Len(wire') : wire'[i] = wire[i] /\ i \in 1 .. Len(wire)
      BY <2>2, <3>1, <3>2
    <3>3. CASE \A i \in 1 .. Len(wire') : wire'[i] = wire[i + 1] /\ i + 1 \in 1 .. Len(wire)
      <4>1. j + 1 < k + 1 /\ j + 1 \in 1 .. Len(wire) /\ k + 1 \in 1 .. Len(wire)
        BY <1>12, <2>2, <3>3
      <4>2. SentBefore(wire[j + 1], wire[k + 1])
        BY <3>1, <4>1
      <4> QED BY <3>3, <4>2
    <3> QED BY <3>2, <3>3, <1>12
  <2> QED BY <2>1, <2>2, <1>12 DEF WireOK
<1>14. GotOK'
  <2>1. ASSUME NEW k \in 1 .. Len(wire)
        PROVE  /\ p.ev <= wire[k].ev
               /\ \A i \in got'[wire[k].ev] : i <= wire[k].i
    <3>1. k = 1 \/ SentBefore(p, wire[k])
      BY <1>3, <1>4 DEF WireOK
    <3>2. TevPacket(wire[k]) /\ wire[k].ev \in 1 .. Events /\ wire[k].i \in 1 .. 5
      BY <1>3 DEF WireOK, TevPacket
    <3>3. \A i \in got[wire[k].ev] : i <= wire[k].i
      BY <1>3 DEF GotOK
    <3>4. p.ev < wire[k].ev \/ (p.ev = wire[k].ev /\ p.i <= wire[k].i)
      BY <1>4, <1>6, <3>1, <3>2 DEF SentBefore
    <3>5. CASE p.ev < wire[k].ev
      BY <1>6, <1>11, <3>2, <3>3, <3>5
    <3>6. CASE p.ev = wire[k].ev /\ p.i <= wire[k].i
      BY <1>6, <1>11, <3>2, <3>3, <3>6
    <3> QED BY <3>4, <3>5, <3>6
  <2>2. \A k \in 1 .. Len(wire') :
           cur'.ev <= wire'[k].ev /\ \A i \in got'[wire'[k].ev] : i <= wire'[k].i
    BY <1>9, <1>12, <2>1
  <2>3. \A e \in 1 .. Events : got'[e] # {} => e <= cur'.ev
    <3> TAKE e \in 1 .. Events
    <3>1. e # p.ev /\ got'[e] # {} => e <= cur.ev
      BY <1>3, <1>11 DEF GotOK
    <3> QED BY <1>5, <1>6, <1>7, <1>9, <3>1
  <2>4. \A e \in 1 .. Events : got'[e] = {} => reports'[e] = 0
    BY <1>3, <1>6, <1>11 DEF GotOK
  <2>5. cur'.ev < next' /\ next' \in 1 .. Events + 1 /\ got'[cur'.ev] # {}
    BY <1>3, <1>5, <1>6, <1>9, <1>11 DEF GotOK
  <2> QED BY <1>9, <1>11, <2>2, <2>3, <2>4, <2>5 DEF GotOK
<1>15. ASSUME p.ev \notin Short PROVE ReportsOK(p.ev)' /\ FlagOK(p.ev)'
  <2>1. PICK g, h, r : g = got[p.ev] /\ h = g \cup {p.i} /\ r = reports[p.ev]
    OBVIOUS
  <2>2. /\ g \subseteq 1 .. 5 /\ r \in Nat /\ (g = {} => r = 0)
        /\ \A i \in g : i <= p.i
    BY <1>3, <1>5, <1>6, <2>1 DEF GotOK
  <2>3. ReportsOK(p.ev) /\ (cur.ev = p.ev => FlagOK(p.ev))
    BY <1>6, <1>15 DEF TevIInv
  <2>4. /\ 1 \in g => r = IF g \cap 3 .. 5 = {} THEN 0 ELSE 1
        /\ 1 \notin g => r <= 2
        /\ cur.ev = p.ev =>
            /\ 1 \in g => (cur.E <=> g \cap 3 .. 5 # {})
            /\ 1 \notin g => (cur.E => r >= 1) /\ (~cur.E => r <= 1)
    BY <2>1, <2>3 DEF ReportsOK, FlagOK, Ends
  <2>5. (p.mark <=> p.i = 1) /\ (p.end <=> p.i >= 3)
    BY <1>5, <1>15 DEF TevPacket
  <2>6. g # {} => cur.ev = p.ev
    BY <1>10, <2>1
  <2>7. /\ 1 \in h => r + n = IF h \cap 3 .. 5 = {} THEN 0 ELSE 1
        /\ 1 \notin h => r + n <= 2 /\ (r + n >= 1 \/ \A x, y \in h \cap 3 .. 5 : x = y)
        /\ 1 \in h => (cur'.E <=> h \cap 3 .. 5 # {})
        /\ 1 \notin h =>
              /\ cur'.E => r + n >= 1
              /\ ~cur'.E => r + n <= 1 /\ \A x, y \in h \cap 3 .. 5 : x = y
    <3>1. CASE p.mark
      <4>1. h = {1} /\ n = 0 /\ ~cur'.E
        BY <1>6, <1>9, <1>15, <2>1, <2>2, <2>5, <3>1
      <4>2. r = 0
        BY <2>2, <2>4, <2>5, <3>1
      <4> QED BY <4>1, <4>2
    <3>2. CASE ~p.mark /\ cur.ev # p.ev
      <4>1. g = {} /\ r = 0 /\ h = {p.i} /\ p.i # 1
        BY <2>1, <2>2, <2>5, <2>6, <3>2
      <4> QED BY <1>9, <1>15, <3>2, <4>1
    <3>3. CASE ~p.mark /\ cur.ev = p.ev /\ ~p.end
      <4>1. p.i = 2 /\ n = 0 /\ (cur'.E <=> cur.E)
        BY <1>6, <1>9, <1>15, <2>5, <3>3
      <4>2. h \cap 3 .. 5 = g \cap 3 .. 5 /\ (1 \in h <=> 1 \in g)
        BY <2>1, <4>1
      <4>3. 1 \notin g =>
              /\ r >= 1 \/ \A x, y \in g \cap 3 .. 5 : x = y
              /\ ~cur.E => \A x, y \in g \cap 3 .. 5 : x = y
        BY <2>1, <2>3, <3>3 DEF ReportsOK, FlagOK, Ends
      <4> QED BY <2>2, <2>4, <3>3, <4>1, <4>2, <4>3
    <3>4. CASE ~p.mark /\ cur.ev = p.ev /\ p.end
      <4>1. p.i \in 3 .. 5 /\ cur'.E /\ (cur.E => n = 0) /\ (~cur.E => n = 1)
        BY <1>6, <1>9, <1>15, <2>5, <3>4
      <4>2. h \cap 3 .. 5 # {} /\ (1 \in h <=> 1 \in g)
        BY <2>1, <4>1
      <4> QED BY <1>7, <2>2, <2>4, <3>4, <4>1, <4>2
    <3> QED BY <1>6, <3>1, <3>2, <3>3, <3>4
  <2>8. got'[p.ev] = h /\ reports'[p.ev] = r + n
    BY <1>11, <2>1
  <2> QED BY <2>7, <2>8 DEF ReportsOK, FlagOK, Ends
<1>16. \A e \in (1 .. Events) \ Short : ReportsOK(e)'
  <2> TAKE e \in (1 .. Events) \ Short
  <2>1. CASE e = p.ev
    BY <1>15, <2>1
  <2>2. CASE e # p.ev
    BY <1>11, <2>2 DEF TevIInv, ReportsOK, Ends
  <2> QED BY <2>1, <2>2
<1>17. cur'.ev \in (1 .. Events) \ Short => FlagOK(cur.ev)'
  <2>1. cur'.ev = p.ev
    BY <1>9
  <2> QED BY <2>1, <1>15 DEF FlagOK, Ends
<1> QED BY <1>13, <1>14, <1>16, <1>17 DEF TevIInv

(* The end of a telephone event that rtp_session_send_dtmf sends is        *)
(* reported exactly once when its first packet and one of the last three   *)
(* arrive, at least once when two of the last three do, and never more     *)
(* than twice, for any number of events and whatever is lost or repeated   *)
(* (rtp_session_check_telephone_events).                                   *)
THEOREM TevInvariant == TevSpec => []TevInv
<1>1. TevInit => TevIInv
  <2> SUFFICES ASSUME TevInit PROVE TevIInv
    OBVIOUS
  <2> USE DEF TevInit
  <2>1. WireOK
    BY EmptySeq DEF WireOK
  <2>2. GotOK
    BY DEF GotOK
  <2>3. \A e \in (1 .. Events) \ Short : ReportsOK(e)
    BY DEF ReportsOK, Ends
  <2> QED BY <2>1, <2>2, <2>3 DEF TevIInv
<1>2. TevIInv /\ [TevNext]_tevVars => TevIInv'
  <2> SUFFICES ASSUME TevIInv, [TevNext]_tevVars PROVE TevIInv'
    OBVIOUS
  <2>1. CASE UNCHANGED tevVars
    BY <2>1 DEF tevVars, TevIInv, WireOK, GotOK, ReportsOK, FlagOK, Ends
  <2> QED BY <2>1, StepSend, StepLose, StepTake DEF TevNext
<1>3. TevIInv => TevInv
  <2> SUFFICES ASSUME TevIInv, NEW e \in (1 .. Events) \ Short
               PROVE  /\ reports[e] <= 2
                      /\ 1 \in got[e] => reports[e] = IF Ends(e) = {} THEN 0 ELSE 1
                      /\ Cardinality(Ends(e)) >= 2 => reports[e] >= 1
    BY DEF TevInv, EndReportedOnce, EndNotMissed
  <2>1. ReportsOK(e) /\ reports[e] \in Nat
    BY DEF TevIInv, GotOK
  <2>2. ASSUME \A x, y \in Ends(e) : x = y PROVE ~(Cardinality(Ends(e)) >= 2)
    <3>1. CASE Ends(e) = {}
      BY <3>1, FS_EmptySet
    <3>2. CASE Ends(e) # {}
      <4>1. PICK x : Ends(e) = {x}
        BY <2>2, <3>2
      <4>2. Cardinality({x}) = 1
        BY FS_Singleton
      <4> QED BY <4>1, <4>2
    <3> QED BY <3>1, <3>2
  <2>3. CASE 1 \in got[e]
    <3>1. CASE Ends(e) = {}
      BY <2>1, <2>2, <2>3, <3>1 DEF ReportsOK
    <3>2. CASE Ends(e) # {}
      BY <2>1, <2>3, <3>2 DEF ReportsOK
    <3> QED BY <3>1, <3>2
  <2>4. CASE 1 \notin got[e]
    BY <2>1, <2>2, <2>4 DEF ReportsOK
  <2> QED BY <2>3, <2>4
<1> QED BY <1>1, <1>2, <1>3, PTL DEF TevSpec

-----------------------------------------------------------------------------
(* The scheduler. *)
FlagSet == [alive : BOOLEAN, inSched : BOOLEAN, scheduled : BOOLEAN,
            blocking : BOOLEAN, notStarted : BOOLEAN]

(* The scheduler's own variables. *)
TimeOK ==
  /\ sched \in {"none", "starting", "test", "pass", "sleep", "gone"}
  /\ running \in BOOLEAN /\ early \in BOOLEAN
  /\ time \in 0 .. TimeMod - 1 /\ ticks \in 0 .. MaxTicks

(* The times of the sessions. *)
StreamOK ==
  /\ wp \in [Sessions -> [time : 0 .. TimeMod - 1, wakeup : BOOLEAN]]
  /\ off \in [Sessions -> [ts : Nat, time : Nat]]
  /\ app \in [Sessions -> [ts : Nat, calls : Nat, ts0 : Nat, at0 : Nat]]

(* The session sets and the words that threads have read of them. *)
Word == (SUBSET Positions) \cup {Idle}
BitsOK ==
  /\ ready \in [{"r", "w"} -> SUBSET Positions]
  /\ schedCopy \in Word /\ copy \in [Sessions -> Word]
  /\ sel = [st |-> sel.st, dir |-> sel.dir, watch |-> sel.watch, word |-> sel.word]
  /\ sel.dir \in {"r", "w"} /\ sel.word \subseteq Positions

(* The mask is the set of the positions of the scheduled sessions. *)
MaskOK ==
  /\ all \subseteq Positions
  /\ \A s \in Sessions : flags[s].inSched => pos[s] \in all
  /\ \A v \in all : \E s \in Sessions : flags[s].inSched /\ v = pos[s]

(* The list, the flags and the mask; the list is not changed in a pass,    *)
(* whose rest is therefore part of it.                                     *)
ListOK ==
  /\ list \in Seq(Sessions) /\ todo \in Seq(Sessions)
  /\ pos \in [Sessions -> Positions] /\ flags \in [Sessions -> FlagSet]
  /\ \A s \in Sessions : flags[s].inSched <=> \E k \in 1 .. Len(list) : list[k] = s
  /\ \A s \in Sessions : flags[s].inSched => flags[s].alive
  /\ \A j, k \in 1 .. Len(list) : list[j] = list[k] => j = k
  /\ \A s, t \in Sessions : flags[s].inSched /\ flags[t].inSched /\ pos[s] = pos[t] => s = t
  /\ MaskOK
  /\ sched # "pass" => todo = <<>>
  /\ \A k \in 1 .. Len(todo) : flags[todo[k]].inSched
  /\ schedCopy # Idle => todo # <<>>

SchedIInv == TimeOK /\ StreamOK /\ BitsOK /\ ListOK

(* Every set of naturals that is not empty has a least element. *)
LEMMA LeastElement ==
  ASSUME NEW S \in SUBSET Nat, S # {}
  PROVE  \E i \in S : \A j \in S : i <= j
<1>1. PICK R : R = OpToRel(<, Nat)
  OBVIOUS
<1>2. PICK x \in S : \A y \in S : ~(<<y, x>> \in R)
  BY <1>1, NatLessThanWellFounded, WFMin, Zenon
<1>3. \A y, z \in Nat : y < z => <<y, z>> \in R
  BY <1>1 DEF OpToRel
<1>4. ASSUME NEW y \in S PROVE x <= y
  <2>1. x \in Nat /\ y \in Nat /\ ~(y < x)
    BY <1>2, <1>3, Zenon
  <2> QED BY <2>1
<1> QED BY <1>4

(* A remainder is in the range of its divisor (time_ and the timestamps). *)
LEMMA ModRange == \A a \in Int, b \in Nat \ {0} : a % b \in 0 .. b - 1
OBVIOUS

(* While a session is not in the list the mask has a free bit             *)
(* (rtp_scheduler_add_session).                                            *)
LEMMA FreeBitExists ==
  ASSUME ListOK, NEW s \in Sessions, ~flags[s].inSched
  PROVE  FreeBit \in Positions /\ FreeBit \notin all
<1>1. PICK I : I = {x \in Sessions : flags[x].inSched}
  OBVIOUS
<1>2. IsFiniteSet(Sessions) /\ MaxSessions \in Nat /\ Cardinality(Sessions) <= MaxSessions
  BY SchedulerConstants
<1>3. I \subseteq Sessions \ {s} /\ IsFiniteSet(Sessions \ {s}) /\ IsFiniteSet(I)
      /\ Cardinality(Sessions \ {s}) = Cardinality(Sessions) - 1 /\ Cardinality(Sessions) \in Nat
      /\ Cardinality(I) <= Cardinality(Sessions \ {s}) /\ Cardinality(I) \in Nat
  <2>1. I \subseteq Sessions \ {s}
    BY <1>1
  <2>2. IsFiniteSet(Sessions \ {s}) /\ Cardinality(Sessions \ {s}) = Cardinality(Sessions) - 1
    BY <1>2, FS_RemoveElement
  <2>3. IsFiniteSet(I) /\ Cardinality(I) <= Cardinality(Sessions \ {s})
    BY <2>1, <2>2, FS_Subset
  <2> QED BY <1>2, <2>1, <2>2, <2>3, FS_CardinalityType
<1>4. PICK f : f = [x \in I |-> pos[x]]
  OBVIOUS
<1>5. all = {pos[x] : x \in I}
  BY <1>1 DEF ListOK, MaskOK
<1>6. f \in Surjection(I, all)
  BY <1>4, <1>5 DEF Surjection
<1>7. Cardinality(all) <= Cardinality(I) /\ IsFiniteSet(all) /\ Cardinality(all) \in Nat
  BY <1>3, <1>6, FS_Surjection, FS_CardinalityType
<1>8. Cardinality(Positions) = MaxSessions /\ Cardinality(all) < MaxSessions
  <2>1. MaxSessions > 0
    BY <1>2, <1>3, <1>7
  <2>2. Cardinality(0 .. MaxSessions - 1) = MaxSessions
    BY <1>2, <2>1, FS_Interval
  <2> QED BY <1>2, <1>3, <1>7, <2>2 DEF Positions
<1>9. all \subseteq Positions /\ Positions \ all # {}
  <2>1. all \subseteq Positions
    BY DEF ListOK, MaskOK
  <2>2. all # Positions
    BY <1>8, <1>7, <1>2
  <2> QED BY <2>1, <2>2
<1>10. Positions \ all \in SUBSET Nat
  BY <1>2 DEF Positions
<1>11. \E i \in Positions \ all : \A j \in Positions \ all : i <= j
  BY <1>9, <1>10, LeastElement
<1> QED BY <1>11 DEF FreeBit

(* rtp_scheduler_remove_session: the elements behind the removed one move  *)
(* up.                                                                     *)
LEMMA RemoveAtIs ==
  ASSUME NEW S, NEW q \in Seq(S), NEW k \in 1 .. Len(q), NEW r, r = RemoveAt(q, k)
  PROVE  /\ r \in Seq(S) /\ Len(r) = Len(q) - 1 /\ Len(q) \in Nat
         /\ \A i \in 1 .. Len(r) : r[i] = IF i < k THEN q[i] ELSE q[i + 1]
<1>1. Len(q) \in Nat /\ \A i \in 1 .. Len(q) : q[i] \in S
  BY LenProperties
<1>2. PICK a : a = SubSeq(q, 1, k - 1)
  OBVIOUS
<1>3. PICK b : b = SubSeq(q, k + 1, Len(q))
  OBVIOUS
<1>4. a \in Seq(S) /\ Len(a) = k - 1 /\ \A i \in 1 .. k - 1 : a[i] = q[i]
  <2>1. \A i \in 1 .. k - 1 : q[i] \in S
    BY <1>1
  <2>2. /\ SubSeq(q, 1, k - 1) \in Seq(S)
        /\ Len(SubSeq(q, 1, k - 1)) = IF 1 <= k - 1 THEN (k - 1) - 1 + 1 ELSE 0
        /\ \A i \in 1 .. (k - 1) - 1 + 1 : SubSeq(q, 1, k - 1)[i] = q[1 + i - 1]
    BY <1>1, <2>1, SubSeqProperties
  <2> QED BY <1>1, <1>2, <2>2
<1>5. b \in Seq(S) /\ Len(b) = Len(q) - k /\ \A i \in 1 .. Len(q) - k : b[i] = q[k + i]
  <2>1. \A i \in k + 1 .. Len(q) : q[i] \in S
    BY <1>1
  <2>2. /\ SubSeq(q, k + 1, Len(q)) \in Seq(S)
        /\ Len(SubSeq(q, k + 1, Len(q))) = IF k + 1 <= Len(q) THEN Len(q) - (k + 1) + 1 ELSE 0
        /\ \A i \in 1 .. Len(q) - (k + 1) + 1 : SubSeq(q, k + 1, Len(q))[i] = q[(k + 1) + i - 1]
    BY <1>1, <2>1, SubSeqProperties
  <2> QED BY <1>1, <1>3, <2>2
<1>6. r = a \o b
  BY <1>2, <1>3 DEF RemoveAt
<1>7. /\ r \in Seq(S) /\ Len(r) = Len(a) + Len(b)
      /\ \A i \in 1 .. Len(a) + Len(b) : r[i] = IF i <= Len(a) THEN a[i] ELSE b[i - Len(a)]
  <2>1. a \in Seq(S) /\ b \in Seq(S)
    BY <1>4, <1>5
  <2>2. /\ a \o b \in Seq(S) /\ Len(a \o b) = Len(a) + Len(b)
        /\ \A i \in 1 .. Len(a) + Len(b) : (a \o b)[i] = IF i <= Len(a) THEN a[i] ELSE b[i - Len(a)]
    BY ONLY <2>1, ConcatProperties, Zenon
  <2> QED BY ONLY <1>6, <2>2
<1>8. Len(a) + Len(b) = Len(q) - 1
  BY <1>1, <1>4, <1>5
<1>9. ASSUME NEW i \in 1 .. Len(r) PROVE r[i] = IF i < k THEN q[i] ELSE q[i + 1]
  <2>1. r[i] = IF i <= Len(a) THEN a[i] ELSE b[i - Len(a)]
    BY <1>7
  <2>2. i \in 1 .. Len(q) - 1
    BY <1>7, <1>8
  <2>3. CASE i < k
    BY <1>4, <2>1, <2>2, <2>3
  <2>4. CASE ~(i < k)
    <3>1. i - Len(a) \in 1 .. Len(q) - k /\ k + (i - Len(a)) = i + 1 /\ ~(i <= Len(a))
      BY <1>1, <1>4, <2>2, <2>4
    <3> QED BY <1>5, <2>1, <2>4, <3>1
  <2> QED BY <2>3, <2>4
<1> QED BY <1>1, <1>7, <1>8, <1>9

-----------------------------------------------------------------------------
(* The parts of the invariant depend on these variables only. *)
LEMMA PartsUnchanged ==
  /\ TimeOK /\ UNCHANGED <<sched, running, early, time, ticks>> => TimeOK'
  /\ StreamOK /\ UNCHANGED <<wp, off, app>> => StreamOK'
  /\ BitsOK /\ UNCHANGED <<ready, schedCopy, copy, sel>> => BitsOK'
  /\ ListOK /\ UNCHANGED <<list, todo, pos, flags, all, sched, schedCopy>> => ListOK'
BY DEF TimeOK, StreamOK, BitsOK, ListOK, MaskOK

(* The scheduler's time and the state of its thread. *)
LEMMA StepTime == ASSUME TimeOK, SchedulerNext PROVE TimeOK'
<1> USE SchedulerConstants DEF TimeOK
<1>1. CASE ortp_scheduler_init \/ PassBegins \/ PassEnds \/ ortp_exit \/ ThreadLeaves
  BY <1>1 DEF ortp_scheduler_init, PassBegins, PassEnds, ortp_exit, ThreadLeaves, sessVars
<1>2. CASE ThreadStarts
  BY <1>2 DEF ThreadStarts, sessVars
<1>3. CASE TimerDo
  <2>1. TimeAfterTick \in 0 .. TimeMod - 1
    BY ModRange DEF TimeAfterTick
  <2> QED BY <1>3, <2>1 DEF TimerDo, sessVars
<1>4. CASE \E s \in Sessions : CallEnds(s)
  BY <1>4 DEF CallEnds, schedVars
<1>5. CASE UNCHANGED <<sched, running, early, time, ticks>>
  BY <1>5
<1>6. CASE ProcessChecks \/ ProcessWakes \/ SelectBegins \/ SelectReads \/ SelectWrites
  BY <1>5, <1>6 DEF ProcessChecks, ProcessWakes, SelectBegins, SelectReads, SelectWrites, schedVars, sessVars
<1>7. CASE \E s \in Sessions : 
            \/ rtp_session_new(s) \/ set_scheduling_mode(s) \/ unset_scheduling_mode(s)
            \/ set_blocking_mode(s) \/ rtp_session_destroy(s) \/ rtp_session_reset(s)
  BY <1>5, <1>7 DEF rtp_session_new, set_scheduling_mode, unset_scheduling_mode, set_blocking_mode,
     rtp_session_destroy, rtp_session_reset, schedVars, sessVars
<1>8. CASE \E s \in Sessions : 
            \/ CallBegins(s) \/ CallDecides(s) \/ CallWakes(s) \/ CallReadsSet(s) \/ CallWritesSet(s)
  BY <1>5, <1>8 DEF CallBegins, CallDecides, CallWakes, CallReadsSet, CallWritesSet, schedVars, sessVars
<1> QED BY <1>1, <1>2, <1>3, <1>4, <1>6, <1>7, <1>8 DEF SchedulerNext

(* The times of the sessions: a packet's time is a time of the scheduler. *)
LEMMA StepStream == ASSUME TimeOK, ListOK, StreamOK, SchedulerNext PROVE StreamOK'
<1> USE SchedulerConstants
<1>1. CASE UNCHANGED <<wp, off, app>>
  BY <1>1, PartsUnchanged
<1>2. CASE \/ ortp_scheduler_init \/ PassBegins \/ PassEnds \/ ortp_exit \/ ThreadLeaves \/ ThreadStarts
           \/ TimerDo \/ ProcessWakes \/ SelectBegins \/ SelectReads \/ SelectWrites
  BY <1>1, <1>2 DEF ortp_scheduler_init, PassBegins, PassEnds, ortp_exit, ThreadLeaves, ThreadStarts,
     TimerDo, ProcessWakes, SelectBegins, SelectReads, SelectWrites, schedVars, sessVars
<1>3. CASE \E s \in Sessions :
            \/ rtp_session_new(s) \/ set_scheduling_mode(s) \/ unset_scheduling_mode(s)
            \/ set_blocking_mode(s) \/ CallWakes(s) \/ CallReadsSet(s) \/ CallWritesSet(s) \/ CallEnds(s)
  BY <1>1, <1>3 DEF rtp_session_new, set_scheduling_mode, unset_scheduling_mode, set_blocking_mode,
     CallWakes, CallReadsSet, CallWritesSet, CallEnds, schedVars, sessVars
<1>4. CASE ProcessChecks
  <2>1. todo \in Seq(Sessions) /\ todo # <<>>
    BY <1>4 DEF ProcessChecks, ListOK
  <2>2. PICK s \in Sessions : s = Head(todo)
    BY <2>1, HeadTailProperties
  <2>3. UNCHANGED <<off, app>> /\ (wp' = [wp EXCEPT ![s].wakeup = FALSE] \/ wp' = wp)
    BY <1>4, <2>2 DEF ProcessChecks
  <2>4. wp' \in [Sessions -> [time : 0 .. TimeMod - 1, wakeup : BOOLEAN]]
    <3>1. PICK T : T = 0 .. TimeMod - 1
      OBVIOUS
    <3>2. wp \in [Sessions -> [time : T, wakeup : BOOLEAN]]
      BY <3>1 DEF StreamOK
    <3>3. wp' \in [Sessions -> [time : T, wakeup : BOOLEAN]]
      BY <2>3, <3>2
    <3> QED BY <3>1, <3>3
  <2> QED BY <2>3, <2>4 DEF StreamOK
<1>5. CASE \E s \in Sessions : rtp_session_destroy(s)
  <2>1. PICK s \in Sessions : rtp_session_destroy(s)
    BY <1>5
  <2>2. NoWait \in [time : 0 .. TimeMod - 1, wakeup : BOOLEAN]
    BY DEF NoWait
  <2>3. wp' = [wp EXCEPT ![s] = NoWait] /\ off' = [off EXCEPT ![s] = [ts |-> 0, time |-> 0]]
        /\ app' = [app EXCEPT ![s] = [NoCall EXCEPT !.calls = app[s].calls]]
    BY <2>1 DEF rtp_session_destroy
  <2>4. PICK a : a = [NoCall EXCEPT !.calls = app[s].calls]
    OBVIOUS
  <2>5. a \in [ts : Nat, calls : Nat, ts0 : Nat, at0 : Nat]
    <3>1. NoCall \in [ts : Nat, calls : Nat, ts0 : Nat, at0 : Nat] /\ app[s].calls \in Nat
      BY DEF NoCall, StreamOK
    <3> QED BY <2>4, <3>1
  <2> QED BY <2>2, <2>3, <2>4, <2>5 DEF StreamOK
<1>6. CASE \E s \in Sessions : rtp_session_reset(s)
  BY <1>6 DEF rtp_session_reset, StreamOK
<1>7. CASE \E s \in Sessions : CallBegins(s)
  <2>1. PICK s \in Sessions : CallBegins(s)
    BY <1>7
  <2>2. PICK d \in TsSteps : app' = [app EXCEPT
          ![s].ts = @ + d, ![s].calls = @ + 1,
          ![s].ts0 = IF flags[s].notStarted THEN app[s].ts + d ELSE @,
          ![s].at0 = IF flags[s].notStarted THEN ticks ELSE @]
    BY <2>1 DEF CallBegins
  <2>3. d \in Nat /\ ticks \in Nat /\ time \in Nat
    BY DEF TimeOK
  <2>4. app' \in [Sessions -> [ts : Nat, calls : Nat, ts0 : Nat, at0 : Nat]]
    BY <2>2, <2>3 DEF StreamOK
  <2>5. app'[s].ts % TsMod \in Nat
    BY <2>4, ModRange
  <2>6. wp' = wp /\ (off' = [off EXCEPT ![s] = [ts |-> app'[s].ts % TsMod, time |-> time]] \/ off' = off)
    BY <2>1 DEF CallBegins
  <2> QED BY <2>3, <2>4, <2>5, <2>6 DEF StreamOK
<1>8. CASE \E s \in Sessions : CallDecides(s)
  <2>1. PICK s \in Sessions : CallDecides(s)
    BY <1>8
  <2>2. PICK x : x = (app[s].ts - off[s].ts) % TsMod
    OBVIOUS
  <2>3. x \in Int
    <3>1. app[s].ts \in Nat /\ off[s].ts \in Nat
      BY DEF StreamOK
    <3> QED BY <2>2, <3>1, ModRange
  <2>4. TsToTime(x) \in Int
    BY <2>3 DEF TsToTime
  <2>5. PacketTime(s) \in 0 .. TimeMod - 1
    <3>1. TsToTime(x) + off[s].time \in Int
      BY <2>4 DEF StreamOK
    <3>2. PacketTime(s) = (TsToTime(x) + off[s].time) % TimeMod
      BY <2>2 DEF PacketTime
    <3> QED BY <3>1, <3>2, ModRange
  <2>6. UNCHANGED <<off, app>> /\ (wp' = [wp EXCEPT ![s] = [time |-> PacketTime(s), wakeup |-> TRUE]] \/ wp' = wp)
    BY <2>1 DEF CallDecides
  <2>7. wp' \in [Sessions -> [time : 0 .. TimeMod - 1, wakeup : BOOLEAN]]
    <3>1. PICK T : T = 0 .. TimeMod - 1
      OBVIOUS
    <3>2. wp \in [Sessions -> [time : T, wakeup : BOOLEAN]]
      BY <3>1 DEF StreamOK
    <3>3. PICK t \in T : t = PacketTime(s)
      BY <2>5, <3>1
    <3>4. PICK r \in [time : T, wakeup : BOOLEAN] : r = [time |-> t, wakeup |-> TRUE]
      OBVIOUS
    <3>5. wp' = [wp EXCEPT ![s] = r] \/ wp' = wp
      BY <2>6, <3>3, <3>4
    <3>6. wp' \in [Sessions -> [time : T, wakeup : BOOLEAN]]
      BY <3>2, <3>5
    <3> QED BY <3>1, <3>6
  <2> QED BY <2>6, <2>7 DEF StreamOK
<1> QED BY <1>2, <1>3, <1>4, <1>5, <1>6, <1>7, <1>8 DEF SchedulerNext

(* The session sets hold positions of the mask. *)
LEMMA StepBits == ASSUME ListOK, BitsOK, SchedulerNext PROVE BitsOK'
<1>0. \A s \in Sessions : SetOf(s) \in {"r", "w"} /\ pos[s] \in Positions
  BY DEF SetOf, ListOK
<1>1. CASE UNCHANGED <<ready, schedCopy, copy, sel>>
  BY <1>1, PartsUnchanged
<1>2. CASE \/ ortp_scheduler_init \/ PassBegins \/ ortp_exit \/ ThreadLeaves \/ ThreadStarts \/ TimerDo
  BY <1>1, <1>2 DEF ortp_scheduler_init, PassBegins, ortp_exit, ThreadLeaves, ThreadStarts,
     TimerDo, schedVars, sessVars
<1>3. CASE \E s \in Sessions :
            \/ rtp_session_new(s) \/ unset_scheduling_mode(s) \/ set_blocking_mode(s)
            \/ rtp_session_destroy(s) \/ rtp_session_reset(s) \/ CallBegins(s) \/ CallDecides(s)
            \/ CallWakes(s) \/ CallEnds(s)
  BY <1>1, <1>3 DEF rtp_session_new, unset_scheduling_mode, set_blocking_mode, rtp_session_destroy,
     rtp_session_reset, CallBegins, CallDecides, CallWakes, CallEnds, schedVars, sessVars
<1>4. CASE PassEnds
  BY <1>4 DEF PassEnds, sessVars, UnblockSelect, BitsOK
<1>5. CASE ProcessChecks
  <2>1. todo \in Seq(Sessions) /\ todo # <<>>
    BY <1>5 DEF ProcessChecks, ListOK
  <2>2. PICK s \in Sessions : s = Head(todo)
    BY <2>1, HeadTailProperties
  <2>3. UNCHANGED <<ready, copy, sel>> /\ (schedCopy' = ready[SetOf(s)] \/ schedCopy' = schedCopy)
    BY <1>5, <2>2 DEF ProcessChecks
  <2> QED BY <1>0, <2>3 DEF BitsOK, Word
<1>6. CASE ProcessWakes
  <2>1. todo \in Seq(Sessions) /\ todo # <<>>
    BY <1>6 DEF ProcessWakes, ListOK
  <2>2. PICK s \in Sessions : s = Head(todo)
    BY <2>1, HeadTailProperties
  <2>3. /\ UNCHANGED <<copy, sel>> /\ schedCopy' = Idle /\ schedCopy # Idle
        /\ ready' = [ready EXCEPT ![SetOf(s)] = schedCopy \cup {pos[s]}]
    BY <1>6, <2>2 DEF ProcessWakes
  <2> QED BY <1>0, <2>3 DEF BitsOK, Word
<1>7. CASE \E s \in Sessions : set_scheduling_mode(s)
  <2>1. PICK s \in Sessions : set_scheduling_mode(s)
    BY <1>7
  <2>2. CASE flags[s].inSched
    BY <1>1, <2>1, <2>2 DEF set_scheduling_mode
  <2>3. CASE ~flags[s].inSched
    <3>1. UNCHANGED <<schedCopy, copy, sel>> /\ ready' = [ready EXCEPT ![SetOf(s)] = @ \cup {FreeBit}]
      BY <2>1, <2>3 DEF set_scheduling_mode
    <3>2. FreeBit \in Positions
      BY <2>3, FreeBitExists
    <3> QED BY <1>0, <3>1, <3>2 DEF BitsOK
  <2> QED BY <2>2, <2>3
<1>8. CASE \E s \in Sessions : CallReadsSet(s)
  BY <1>0, <1>8 DEF CallReadsSet, schedVars, BitsOK, Word
<1>9. CASE \E s \in Sessions : CallWritesSet(s)
  <2>1. PICK s \in Sessions : CallWritesSet(s)
    BY <1>9
  <2>2. PICK w : w = IF pc[s] = "set" THEN copy[s] \cup {pos[s]} ELSE copy[s] \ {pos[s]}
    OBVIOUS
  <2>3. w \subseteq Positions
    BY <1>0, <2>1, <2>2 DEF CallWritesSet, BitsOK, Word
  <2>4. /\ ready' = [ready EXCEPT ![SetOf(s)] = w] /\ copy' = [copy EXCEPT ![s] = Idle]
        /\ UNCHANGED <<schedCopy, sel>>
    BY <2>1, <2>2 DEF CallWritesSet, schedVars
  <2> QED BY <1>0, <2>3, <2>4 DEF BitsOK, Word
<1>10. CASE SelectBegins
  BY <1>10 DEF SelectBegins, schedVars, sessVars, BitsOK
<1>11. CASE SelectReads
  BY <1>11 DEF SelectReads, schedVars, sessVars, BitsOK
<1>12. CASE SelectWrites
  <2>1. UNCHANGED <<schedCopy, copy>> /\ ready' = [ready EXCEPT ![sel.dir] = sel.word \ Hits]
    BY <1>12 DEF SelectWrites, schedVars, sessVars
  <2>2. ready' \in [{"r", "w"} -> SUBSET Positions]
    BY <2>1 DEF BitsOK
  <2>3. /\ sel' = [st |-> sel'.st, dir |-> sel'.dir, watch |-> sel'.watch, word |-> sel'.word]
        /\ sel'.dir = sel.dir /\ sel'.word = {}
    BY <1>12 DEF SelectWrites, BitsOK
  <2> QED BY <2>1, <2>2, <2>3 DEF BitsOK
<1> QED BY <1>2, <1>3, <1>4, <1>5, <1>6, <1>7, <1>8, <1>9, <1>10, <1>11, <1>12 DEF SchedulerNext

(* A step that changes only flags other than IN_SCHEDULER leaves the list  *)
(* in order.                                                               *)
LEMMA FlagsOnly ==
  ASSUME ListOK, UNCHANGED <<list, todo, pos, all, sched, schedCopy>>,
         flags' \in [Sessions -> FlagSet],
         \A x \in Sessions : /\ flags'[x].inSched = flags[x].inSched
                             /\ flags[x].alive => flags'[x].alive
  PROVE  ListOK'
<1>0. \A k \in 1 .. Len(todo) : todo[k] \in Sessions
  BY LenProperties DEF ListOK
<1>1. MaskOK'
  BY DEF ListOK, MaskOK
<1> QED BY <1>0, <1>1 DEF ListOK

(* rtp_scheduler_add_session: the session becomes the first of the list    *)
(* and gets a bit that no other has.                                       *)
LEMMA StepAdd == ASSUME ListOK, NEW s \in Sessions, set_scheduling_mode(s) PROVE ListOK'
<1> USE DEF set_scheduling_mode
<1>1. PICK g : g = [flags[s] EXCEPT !.scheduled = TRUE, !.inSched = TRUE]
  OBVIOUS
<1>2. flags[s] \in FlagSet /\ flags[s].alive
  BY DEF ListOK
<1>3. g \in FlagSet /\ g.inSched /\ g.alive
  BY <1>1, <1>2 DEF FlagSet
<1>4. flags' = [flags EXCEPT ![s] = g]
  BY <1>1 DEF ListOK
<1>5. flags' \in [Sessions -> FlagSet] /\ flags'[s] = g /\ \A x \in Sessions \ {s} : flags'[x] = flags[x]
  <2>1. flags \in [Sessions -> FlagSet]
    BY DEF ListOK
  <2> QED BY <1>3, <1>4, <2>1
<1>6. CASE flags[s].inSched
  <2>1. \A x \in Sessions : /\ flags'[x].inSched = flags[x].inSched
                            /\ flags[x].alive => flags'[x].alive
    <3>1. flags[s].inSched = TRUE /\ g.inSched = TRUE
      BY <1>2, <1>3, <1>6 DEF FlagSet
    <3> QED BY <1>3, <1>5, <3>1
  <2>2. UNCHANGED <<list, todo, pos, all, sched, schedCopy>>
    BY <1>6
  <2> QED BY <1>5, <2>1, <2>2, FlagsOnly
<1>7. CASE ~flags[s].inSched
  <2>1. PICK b : b = FreeBit
    OBVIOUS
  <2>2. b \in Positions /\ b \notin all
    BY <1>7, <2>1, FreeBitExists
  <2>3. /\ list' = <<s>> \o list /\ pos' = [pos EXCEPT ![s] = b] /\ all' = all \cup {b}
        /\ UNCHANGED <<sched, todo, schedCopy>> /\ sched # "pass"
    BY <1>7, <2>1 DEF LockFree
  <2>4. todo = <<>> /\ schedCopy = Idle
    BY <2>3 DEF ListOK
  <2>5. list \in Seq(Sessions) /\ Len(list) \in Nat
    BY LenProperties DEF ListOK
  <2>6. /\ list' \in Seq(Sessions) /\ Len(list') = Len(list) + 1 /\ list'[1] = s
        /\ \A k \in 1 .. Len(list') : k # 1 => list'[k] = list[k - 1] /\ k - 1 \in 1 .. Len(list)
        /\ \A k \in 1 .. Len(list) : list'[k + 1] = list[k] /\ k + 1 \in 1 .. Len(list')
    <3>1. PICK q : q = <<s>>
      OBVIOUS
    <3>2. q \in Seq(Sessions) /\ Len(q) = 1 /\ q[1] = s
      BY <3>1
    <3>3. /\ list' \in Seq(Sessions) /\ Len(list') = Len(q) + Len(list)
          /\ \A i \in 1 .. Len(q) + Len(list) : list'[i] = IF i <= Len(q) THEN q[i] ELSE list[i - Len(q)]
      BY <2>3, <2>5, <3>1, <3>2, ConcatProperties
    <3>4. \A i \in 1 .. 1 + Len(list) : list'[i] = IF i <= 1 THEN q[i] ELSE list[i - 1]
      BY <3>2, <3>3
    <3>5. Len(list') = Len(list) + 1
      BY <2>5, <3>2, <3>3
    <3>6. list'[1] = s
      BY <2>5, <3>2, <3>4
    <3>7. \A k \in 1 .. Len(list') : k # 1 => list'[k] = list[k - 1] /\ k - 1 \in 1 .. Len(list)
      BY <2>5, <3>4, <3>5
    <3>8. ASSUME NEW k \in 1 .. Len(list) PROVE list'[k + 1] = list[k] /\ k + 1 \in 1 .. Len(list')
      <4>1. k + 1 \in 1 .. 1 + Len(list) /\ ~(k + 1 <= 1) /\ (k + 1) - 1 = k /\ k + 1 \in 1 .. Len(list')
        BY <2>5, <3>5
      <4> QED BY <3>4, <4>1
    <3> QED BY <3>3, <3>5, <3>6, <3>7, <3>8
  <2>7. /\ pos' \in [Sessions -> Positions] /\ pos'[s] = b
        /\ \A x \in Sessions \ {s} : pos'[x] = pos[x]
    BY <2>2, <2>3 DEF ListOK
  <2>8. \A x \in Sessions : flags'[x].inSched <=> flags[x].inSched \/ x = s
    BY <1>3, <1>5
  <2>9. \A x \in Sessions : flags'[x].inSched <=> \E k \in 1 .. Len(list') : list'[k] = x
    <3> TAKE x \in Sessions
    <3>1. CASE x = s
      <4>1. 1 \in 1 .. Len(list')
        BY <2>5, <2>6
      <4> QED BY <2>6, <2>8, <3>1, <4>1
    <3>2. CASE x # s
      <4>1. flags[x].inSched <=> \E k \in 1 .. Len(list) : list[k] = x
        BY DEF ListOK
      <4>2. (\E k \in 1 .. Len(list) : list[k] = x) => \E k \in 1 .. Len(list') : list'[k] = x
        BY <2>6
      <4>3. (\E k \in 1 .. Len(list') : list'[k] = x) => \E k \in 1 .. Len(list) : list[k] = x
        <5> SUFFICES ASSUME NEW k \in 1 .. Len(list'), list'[k] = x
                     PROVE  \E i \in 1 .. Len(list) : list[i] = x
          OBVIOUS
        <5>1. k # 1
          BY <2>6, <3>2
        <5>2. list[k - 1] = x /\ k - 1 \in 1 .. Len(list)
          BY <2>6, <5>1
        <5> QED BY <5>2
      <4> QED BY <2>8, <3>2, <4>1, <4>2, <4>3
    <3> QED BY <3>1, <3>2
  <2>10. \A x \in Sessions : flags'[x].inSched => flags'[x].alive
    BY <1>3, <1>5 DEF ListOK
  <2>11. ASSUME NEW j \in 1 .. Len(list'), NEW k \in 1 .. Len(list'), list'[j] = list'[k]
         PROVE  j = k
    <3>1. \A i \in 1 .. Len(list) : list[i] # s
      BY <1>7 DEF ListOK
    <3>2. CASE j = 1 \/ k = 1
      BY <2>6, <2>11, <3>1, <3>2
    <3>3. CASE j # 1 /\ k # 1
      <4>1. list[j - 1] = list[k - 1] /\ j - 1 \in 1 .. Len(list) /\ k - 1 \in 1 .. Len(list)
        BY <2>6, <2>11, <3>3
      <4>2. j - 1 = k - 1
        BY <4>1 DEF ListOK
      <4> QED BY <2>5, <2>6, <4>2
    <3> QED BY <3>2, <3>3
  <2>12. \A x \in Sessions : flags[x].inSched => pos[x] # b
    BY <2>2 DEF ListOK, MaskOK
  <2>13. \A x, y \in Sessions : flags'[x].inSched /\ flags'[y].inSched /\ pos'[x] = pos'[y] => x = y
    BY <2>7, <2>8, <2>12 DEF ListOK
  <2>14. MaskOK'
    <3>1. MaskOK
      BY DEF ListOK
    <3>2. \A x \in Sessions : flags'[x].inSched => pos'[x] \in all'
      BY <2>3, <2>7, <2>8, <3>1 DEF MaskOK
    <3>3. ASSUME NEW v \in all' PROVE \E x \in Sessions : flags'[x].inSched /\ v = pos'[x]
      <4>1. CASE v = b
        BY <2>7, <2>8, <4>1
      <4>2. CASE v \in all
        <5>1. PICK x \in Sessions : flags[x].inSched /\ v = pos[x]
          BY <3>1, <4>2 DEF MaskOK
        <5>2. x # s
          BY <1>7, <5>1
        <5> QED BY <2>7, <2>8, <5>1, <5>2
      <4> QED BY <2>3, <4>1, <4>2
    <3> QED BY <2>2, <2>3, <3>1, <3>2, <3>3 DEF MaskOK
  <2>15. /\ todo' \in Seq(Sessions) /\ (sched' # "pass" => todo' = <<>>)
         /\ \A k \in 1 .. Len(todo') : flags'[todo'[k]].inSched
         /\ schedCopy' # Idle => todo' # <<>>
    BY <2>3, <2>4, EmptySeq DEF ListOK
  <2> QED BY <1>5, <2>6, <2>7, <2>9, <2>10, <2>11, <2>13, <2>14, <2>15 DEF ListOK
<1> QED BY <1>6, <1>7

(* rtp_scheduler_remove_session and the end of the session: no pass is     *)
(* under way when a listed session is removed.                             *)
LEMMA StepDestroy ==
  ASSUME ~LateDestroy, ListOK, NEW s \in Sessions, rtp_session_destroy(s) PROVE ListOK'
<1> USE DEF rtp_session_destroy
<1>1. flags' = [flags EXCEPT ![s] = NoSession] /\ pos' = [pos EXCEPT ![s] = 0]
      /\ UNCHANGED <<sched, todo, schedCopy>>
  OBVIOUS
<1>2. NoSession \in FlagSet /\ ~NoSession.inSched
  BY DEF NoSession, FlagSet
<1>3. flags \in [Sessions -> FlagSet] /\ pos \in [Sessions -> Positions]
  BY DEF ListOK
<1>4. /\ flags' \in [Sessions -> FlagSet] /\ ~flags'[s].inSched
      /\ \A x \in Sessions \ {s} : flags'[x] = flags[x]
  BY <1>1, <1>2, <1>3
<1>5. /\ pos' \in [Sessions -> Positions] /\ \A x \in Sessions \ {s} : pos'[x] = pos[x]
  <2>1. pos[s] \in Positions /\ MaxSessions \in Nat
    BY <1>3, SchedulerConstants
  <2>2. 0 \in Positions
    BY <2>1 DEF Positions
  <2> QED BY <1>1, <1>3, <2>2
<1>6. \A x \in Sessions : flags'[x].inSched <=> flags[x].inSched /\ x # s
  BY <1>4
<1>7. \A x \in Sessions : flags'[x].inSched => flags'[x].alive
  BY <1>4 DEF ListOK
<1>8. \A x, y \in Sessions : flags'[x].inSched /\ flags'[y].inSched /\ pos'[x] = pos'[y] => x = y
  BY <1>5, <1>6 DEF ListOK
<1>9. MaskOK
  BY DEF ListOK
<1>10. CASE ~flags[s].inSched
  <2>1. UNCHANGED <<list, all>>
    BY <1>10
  <2>2. \A x \in Sessions : flags'[x].inSched <=> flags[x].inSched
    BY <1>6, <1>10
  <2>3. MaskOK'
    BY <1>5, <1>6, <1>9, <1>10, <2>1 DEF MaskOK
  <2>4. \A x \in Sessions : flags'[x].inSched <=> \E k \in 1 .. Len(list') : list'[k] = x
    BY <2>1, <2>2 DEF ListOK
  <2>5. \A k \in 1 .. Len(todo') : flags'[todo'[k]].inSched
    <3>1. \A k \in 1 .. Len(todo) : todo[k] \in Sessions /\ flags[todo[k]].inSched
      BY LenProperties DEF ListOK
    <3> QED BY <1>1, <2>2, <3>1
  <2>6. /\ list' \in Seq(Sessions) /\ todo' \in Seq(Sessions)
        /\ \A j, k \in 1 .. Len(list') : list'[j] = list'[k] => j = k
        /\ sched' # "pass" => todo' = <<>>
        /\ schedCopy' # Idle => todo' # <<>>
    BY <1>1, <2>1 DEF ListOK
  <2> QED BY <1>4, <1>5, <1>7, <1>8, <2>3, <2>4, <2>5, <2>6 DEF ListOK
<1>11. CASE flags[s].inSched
  <2>1. flags[s].scheduled /\ sched # "pass" /\ list' = Removed(s) /\ all' = all \ {pos[s]}
    BY <1>11 DEF LockFree
  <2>2. todo = <<>> /\ schedCopy = Idle
    BY <2>1 DEF ListOK
  <2>3. list \in Seq(Sessions) /\ Len(list) \in Nat /\ DOMAIN list = 1 .. Len(list)
    BY LenProperties DEF ListOK
  <2>4. \E k \in 1 .. Len(list) : list[k] = s
    BY <1>11 DEF ListOK
  <2>5. PICK i \in 1 .. Len(list) : list[i] = s /\ list' = RemoveAt(list, i)
    <3>1. PICK i : i = CHOOSE k \in DOMAIN list : list[k] = s
      OBVIOUS
    <3>2. i \in 1 .. Len(list) /\ list[i] = s
      BY <2>3, <2>4, <3>1
    <3> QED BY <2>1, <3>1, <3>2 DEF Removed
  <2>6. /\ list' \in Seq(Sessions) /\ Len(list') = Len(list) - 1
        /\ \A k \in 1 .. Len(list') : list'[k] = IF k < i THEN list[k] ELSE list[k + 1]
    <3>1. PICK r : r = RemoveAt(list, i)
      OBVIOUS
    <3>2. /\ r \in Seq(Sessions) /\ Len(r) = Len(list) - 1
          /\ \A k \in 1 .. Len(r) : r[k] = IF k < i THEN list[k] ELSE list[k + 1]
      <4>1. list \in Seq(Sessions) /\ i \in 1 .. Len(list)
        BY <2>3, <2>5
      <4> QED BY ONLY <4>1, <3>1, RemoveAtIs, SMTT(30)
    <3>3. r = list'
      BY <2>5, <3>1
    <3> QED BY <3>2, <3>3
  <2>7. \A j, k \in 1 .. Len(list) : list[j] = list[k] => j = k
    BY DEF ListOK
  <2>8. \A k \in 1 .. Len(list') : list'[k] # s
    <3> TAKE k \in 1 .. Len(list')
    <3>1. CASE k < i
      BY <2>3, <2>5, <2>6, <2>7, <3>1
    <3>2. CASE ~(k < i)
      BY <2>3, <2>5, <2>6, <2>7, <3>2
    <3> QED BY <3>1, <3>2
  <2>9. ASSUME NEW j \in 1 .. Len(list'), NEW k \in 1 .. Len(list'), list'[j] = list'[k]
        PROVE  j = k
    <3>1. PICK a \in 1 .. Len(list) : list'[j] = list[a] /\ a = IF j < i THEN j ELSE j + 1
      BY <2>3, <2>6
    <3>2. PICK b \in 1 .. Len(list) : list'[k] = list[b] /\ b = IF k < i THEN k ELSE k + 1
      BY <2>3, <2>6
    <3>3. a = b
      BY <2>7, <2>9, <3>1, <3>2
    <3> QED BY <2>3, <2>6, <3>1, <3>2, <3>3
  <2>10. \A x \in Sessions : flags'[x].inSched <=> \E k \in 1 .. Len(list') : list'[k] = x
    <3> TAKE x \in Sessions
    <3>1. CASE x = s
      BY <1>4, <2>8, <3>1
    <3>2. CASE x # s
      <4>1. flags'[x].inSched <=> \E k \in 1 .. Len(list) : list[k] = x
        BY <1>6, <3>2 DEF ListOK
      <4>2. ASSUME NEW k \in 1 .. Len(list), list[k] = x PROVE \E j \in 1 .. Len(list') : list'[j] = x
        <5>1. k # i
          BY <2>5, <3>2, <4>2
        <5>2. CASE k < i
          <6>1. k \in 1 .. Len(list')
            BY <2>3, <2>6, <5>2
          <6> QED BY <2>6, <4>2, <5>2, <6>1
        <5>3. CASE k > i
          <6>1. k - 1 \in 1 .. Len(list') /\ ~(k - 1 < i) /\ (k - 1) + 1 = k
            BY <2>3, <2>6, <5>3
          <6>2. list'[k - 1] = list[k]
            BY <2>6, <6>1
          <6> QED BY <4>2, <6>1, <6>2
        <5> QED BY <2>3, <5>1, <5>2, <5>3
      <4>3. ASSUME NEW k \in 1 .. Len(list'), list'[k] = x PROVE \E j \in 1 .. Len(list) : list[j] = x
        <5>1. k \in 1 .. Len(list) /\ k + 1 \in 1 .. Len(list)
          BY <2>3, <2>6
        <5> QED BY <2>6, <4>3, <5>1
      <4> QED BY <4>1, <4>2, <4>3
    <3> QED BY <3>1, <3>2
  <2>11. MaskOK'
    <3>1. \A x \in Sessions : flags[x].inSched /\ pos[x] = pos[s] => x = s
      BY <1>11 DEF ListOK
    <3>2. \A x \in Sessions : flags'[x].inSched => pos'[x] \in all'
      BY <1>5, <1>6, <1>9, <2>1, <3>1 DEF MaskOK
    <3>3. ASSUME NEW v \in all' PROVE \E x \in Sessions : flags'[x].inSched /\ v = pos'[x]
      <4>1. PICK x \in Sessions : flags[x].inSched /\ v = pos[x]
        BY <1>9, <2>1 DEF MaskOK
      <4>2. x # s
        BY <2>1, <4>1
      <4> QED BY <1>5, <1>6, <4>1, <4>2
    <3> QED BY <1>9, <2>1, <3>2, <3>3 DEF MaskOK
  <2>12. /\ todo' \in Seq(Sessions) /\ (sched' # "pass" => todo' = <<>>)
         /\ \A k \in 1 .. Len(todo') : flags'[todo'[k]].inSched
         /\ schedCopy' # Idle => todo' # <<>>
    BY <1>1, <2>2, EmptySeq DEF ListOK
  <2> QED BY <1>4, <1>5, <1>7, <1>8, <2>6, <2>9, <2>10, <2>11, <2>12 DEF ListOK
<1> QED BY <1>10, <1>11

(* The rest of the pass: a session that was processed leaves it. *)
LEMMA TodoTail ==
  ASSUME ListOK, UNCHANGED <<list, pos, flags, all, sched>>, todo # <<>>,
         todo' = Tail(todo), schedCopy' = Idle
  PROVE  ListOK'
<1>1. /\ todo' \in Seq(Sessions) /\ Len(todo') = Len(todo) - 1
      /\ \A k \in 1 .. Len(todo') : todo'[k] = todo[k + 1]
  BY HeadTailProperties DEF ListOK
<1>2. Len(todo) \in Nat
  BY LenProperties DEF ListOK
<1>3. \A k \in 1 .. Len(todo') : flags'[todo'[k]].inSched
  BY <1>1, <1>2 DEF ListOK
<1>4. sched' # "pass" => FALSE
  BY DEF ListOK
<1> QED BY <1>1, <1>3, <1>4 DEF ListOK, MaskOK

(* Every step leaves the list, the flags and the mask in agreement. *)
LEMMA StepList == ASSUME ~LateDestroy, ListOK, SchedulerNext PROVE ListOK'
<1>1. CASE UNCHANGED <<list, todo, pos, flags, all, sched, schedCopy>>
  BY <1>1, PartsUnchanged
<1>2. CASE SelectBegins \/ SelectReads \/ SelectWrites \/ ortp_exit
  BY <1>1, <1>2 DEF SelectBegins, SelectReads, SelectWrites, ortp_exit, schedVars, sessVars
<1>3. CASE \E s \in Sessions :
            \/ CallDecides(s) \/ CallWakes(s) \/ CallReadsSet(s) \/ CallWritesSet(s) \/ CallEnds(s)
  BY <1>1, <1>3 DEF CallDecides, CallWakes, CallReadsSet, CallWritesSet, CallEnds, schedVars, sessVars
<1>4. CASE ortp_scheduler_init \/ ThreadStarts \/ PassEnds \/ TimerDo \/ ThreadLeaves
  <2>1. UNCHANGED <<list, todo, pos, flags, all, schedCopy>> /\ (sched # "pass" \/ todo = <<>>)
    BY <1>4 DEF ortp_scheduler_init, ThreadStarts, PassEnds, TimerDo, ThreadLeaves, sessVars
  <2> QED BY <2>1 DEF ListOK, MaskOK
<1>5. CASE PassBegins
  <2>1. /\ UNCHANGED <<list, pos, flags, all, schedCopy>> /\ todo' = list /\ sched' = "pass"
        /\ sched = "test"
    BY <1>5 DEF PassBegins, sessVars
  <2>2. todo = <<>> /\ schedCopy = Idle
    BY <2>1 DEF ListOK
  <2>3. \A k \in 1 .. Len(list) : list[k] \in Sessions /\ flags[list[k]].inSched
    BY LenProperties DEF ListOK
  <2> QED BY <2>1, <2>2, <2>3 DEF ListOK, MaskOK
<1>6. CASE ProcessChecks
  <2>1. UNCHANGED <<list, pos, flags, all, sched>> /\ schedCopy = Idle /\ todo # <<>>
        /\ (todo' = todo \/ (todo' = Tail(todo) /\ schedCopy' = schedCopy))
    BY <1>6 DEF ProcessChecks
  <2>2. CASE todo' = todo
    BY <2>1, <2>2 DEF ListOK, MaskOK
  <2>3. CASE todo' = Tail(todo) /\ schedCopy' = schedCopy
    BY <2>1, <2>3, TodoTail
  <2> QED BY <2>1, <2>2, <2>3
<1>7. CASE ProcessWakes
  <2>1. UNCHANGED <<list, pos, flags, all, sched>> /\ schedCopy # Idle
        /\ todo' = Tail(todo) /\ schedCopy' = Idle
    BY <1>7 DEF ProcessWakes
  <2>2. todo # <<>>
    BY <2>1 DEF ListOK
  <2> QED BY <2>1, <2>2, TodoTail
<1>8. CASE \E s \in Sessions : set_scheduling_mode(s)
  BY <1>8, StepAdd
<1>9. CASE \E s \in Sessions : rtp_session_destroy(s)
  BY <1>9, StepDestroy
<1>10. CASE \E s \in Sessions : \/ rtp_session_new(s) \/ unset_scheduling_mode(s) \/ set_blocking_mode(s)
                                \/ rtp_session_reset(s) \/ CallBegins(s)
  <2>1. PICK s \in Sessions : \/ rtp_session_new(s) \/ unset_scheduling_mode(s) \/ set_blocking_mode(s)
                              \/ rtp_session_reset(s) \/ CallBegins(s)
    BY <1>10
  <2>2. flags \in [Sessions -> FlagSet] /\ flags[s] \in FlagSet /\ (flags[s].inSched => flags[s].alive)
    BY DEF ListOK
  <2>3. UNCHANGED <<list, todo, pos, all, sched, schedCopy>>
    BY <2>1 DEF rtp_session_new, unset_scheduling_mode, set_blocking_mode, rtp_session_reset, CallBegins,
       schedVars, sessVars
  <2>4. \E g \in FlagSet : /\ flags' = [flags EXCEPT ![s] = g]
                           /\ g.inSched = flags[s].inSched /\ (flags[s].alive => g.alive)
    <3>1. CASE rtp_session_new(s)
      <4>1. PICK g : g = [NoSession EXCEPT !.alive = TRUE]
        OBVIOUS
      <4>2. g \in FlagSet /\ g.inSched = FALSE /\ g.alive
        BY <4>1 DEF NoSession, FlagSet
      <4>3. flags' = [flags EXCEPT ![s] = g] /\ ~flags[s].alive
        BY <3>1, <4>1 DEF rtp_session_new
      <4>4. flags[s].inSched = FALSE
        BY <2>2, <4>3 DEF FlagSet
      <4> QED BY <4>2, <4>3, <4>4
    <3>2. CASE unset_scheduling_mode(s)
      <4>1. PICK g : g = [flags[s] EXCEPT !.scheduled = FALSE]
        OBVIOUS
      <4>2. g \in FlagSet /\ g.inSched = flags[s].inSched /\ g.alive = flags[s].alive
        BY <2>2, <4>1 DEF FlagSet
      <4>3. flags' = [flags EXCEPT ![s] = g]
        BY <3>2, <4>1 DEF unset_scheduling_mode
      <4> QED BY <4>2, <4>3
    <3>3. CASE set_blocking_mode(s)
      <4>1. PICK g : g = [flags[s] EXCEPT !.blocking = TRUE]
        OBVIOUS
      <4>2. g \in FlagSet /\ g.inSched = flags[s].inSched /\ g.alive = flags[s].alive
        BY <2>2, <4>1 DEF FlagSet
      <4>3. flags' = [flags EXCEPT ![s] = g]
        BY <3>3, <4>1 DEF set_blocking_mode
      <4> QED BY <4>2, <4>3
    <3>4. CASE rtp_session_reset(s)
      <4>1. PICK g : g = [flags[s] EXCEPT !.notStarted = TRUE]
        OBVIOUS
      <4>2. g \in FlagSet /\ g.inSched = flags[s].inSched /\ g.alive = flags[s].alive
        BY <2>2, <4>1 DEF FlagSet
      <4>3. flags' = [flags EXCEPT ![s] = g]
        BY <3>4, <4>1 DEF rtp_session_reset
      <4> QED BY <4>2, <4>3
    <3>5. CASE CallBegins(s)
      <4>1. PICK g : g = [flags[s] EXCEPT !.notStarted = FALSE]
        OBVIOUS
      <4>2. g \in FlagSet /\ g.inSched = flags[s].inSched /\ g.alive = flags[s].alive
        BY <2>2, <4>1 DEF FlagSet
      <4>3. flags' = [flags EXCEPT ![s] = g]
        BY <3>5, <4>1 DEF CallBegins
      <4> QED BY <4>2, <4>3
    <3> QED BY <2>1, <3>1, <3>2, <3>3, <3>4, <3>5
  <2>5. /\ flags' \in [Sessions -> FlagSet]
        /\ \A x \in Sessions : /\ flags'[x].inSched = flags[x].inSched
                               /\ flags[x].alive => flags'[x].alive
    BY <2>2, <2>4
  <2> QED BY <2>3, <2>5, FlagsOnly
<1> QED BY <1>2, <1>3, <1>4, <1>5, <1>6, <1>7, <1>8, <1>9, <1>10 DEF SchedulerNext

(* In the mask there are as many bits as there are sessions in the list. *)
LEMMA MaskMatches ==
  ASSUME ListOK PROVE ListMatchesMask /\ ListIsAlive /\ all \subseteq Positions
<1>1. /\ list \in Seq(Sessions) /\ Len(list) \in Nat /\ DOMAIN list = 1 .. Len(list)
      /\ DOMAIN todo = 1 .. Len(todo) /\ \A k \in 1 .. Len(list) : list[k] \in Sessions
      /\ \A k \in 1 .. Len(todo) : todo[k] \in Sessions
  BY LenProperties DEF ListOK
<1>2. ToSet(list) = {s \in Sessions : flags[s].inSched}
  <2>1. \A s \in Sessions : flags[s].inSched <=> \E k \in 1 .. Len(list) : list[k] = s
    BY DEF ListOK
  <2> QED BY <1>1, <2>1 DEF ToSet
<1>3. IsInjective(list)
  BY <1>1 DEF IsInjective, ListOK
<1>4. all = {pos[s] : s \in ToSet(list)}
  BY <1>2 DEF ListOK, MaskOK
<1>5. all \subseteq Positions
  BY DEF ListOK, MaskOK
<1>6. Cardinality(all) = Len(list)
  <2>1. PICK f : f = [k \in 1 .. Len(list) |-> pos[list[k]]]
    OBVIOUS
  <2>2. \A j, k \in 1 .. Len(list) : pos[list[j]] = pos[list[k]] => j = k
    <3> SUFFICES ASSUME NEW j \in 1 .. Len(list), NEW k \in 1 .. Len(list), pos[list[j]] = pos[list[k]]
                 PROVE  j = k
      OBVIOUS
    <3>1. list[j] \in Sessions /\ list[k] \in Sessions
      BY <1>1
    <3>2. flags[list[j]].inSched /\ flags[list[k]].inSched
      BY <3>1 DEF ListOK
    <3>3. list[j] = list[k]
      BY <3>1, <3>2 DEF ListOK
    <3> QED BY <3>3 DEF ListOK
  <2>3. \A v : v \in all <=> \E k \in 1 .. Len(list) : v = pos[list[k]]
    BY <1>1, <1>4 DEF ToSet
  <2>4. f \in Surjection(1 .. Len(list), all) /\ f \in Injection(1 .. Len(list), all)
    BY <2>1, <2>2, <2>3 DEF Surjection, Injection, IsInjective
  <2>5. IsFiniteSet(1 .. Len(list)) /\ Cardinality(1 .. Len(list)) = Len(list)
    <3>1. 1 \in Int /\ Len(list) \in Int
      BY <1>1
    <3>2. IsFiniteSet(1 .. Len(list)) /\ Cardinality(1 .. Len(list)) = IF 1 > Len(list) THEN 0 ELSE Len(list) - 1 + 1
      BY <3>1, FS_Interval
    <3> QED BY <1>1, <3>2
  <2> QED BY <2>4, <2>5, FS_Surjection
<1>7. ListIsAlive
  <2>1. \A s \in ToSet(list) \cup ToSet(todo) : s \in Sessions /\ flags[s].inSched
    BY <1>1, <1>2 DEF ToSet, ListOK
  <2> QED BY <2>1 DEF ListIsAlive, ListOK
<1> QED BY <1>2, <1>3, <1>4, <1>5, <1>6, <1>7 DEF ListMatchesMask

(* Initially no session is scheduled. *)
LEMMA SchedStart == SchedulerInit => SchedIInv
<1> SUFFICES ASSUME SchedulerInit PROVE SchedIInv
  OBVIOUS
<1> USE SchedulerConstants DEF SchedulerInit
<1>1. TimeOK
  <2>1. 0 \in 0 .. TimeMod - 1 /\ 0 \in 0 .. MaxTicks
    OBVIOUS
  <2> QED BY <2>1 DEF TimeOK
<1>2. StreamOK
  BY DEF StreamOK, NoWait, NoCall
<1>3. BitsOK
  BY DEF BitsOK, Word
<1>4. ListOK
  <2>1. Sessions # {} => 0 \in Positions
    <3>1. IsFiniteSet(Sessions) /\ Cardinality(Sessions) \in Nat
      BY FS_CardinalityType
    <3>2. Sessions # {} => Cardinality(Sessions) # 0
      BY <3>1, FS_EmptySet
    <3> QED BY <3>1, <3>2 DEF Positions
  <2>2. pos \in [Sessions -> Positions] /\ flags \in [Sessions -> FlagSet]
        /\ \A s \in Sessions : ~flags[s].inSched
    BY <2>1 DEF FlagSet, NoSession
  <2>3. list \in Seq(Sessions) /\ todo \in Seq(Sessions) /\ Len(list) = 0 /\ Len(todo) = 0
    BY EmptySeq
  <2> QED BY <2>2, <2>3 DEF ListOK, MaskOK
<1> QED BY <1>1, <1>2, <1>3, <1>4 DEF SchedIInv

(* Every step keeps the list, the session sets and the times in order. *)
LEMMA SchedStep ==
  ASSUME ~LateDestroy PROVE SchedIInv /\ [SchedulerNext]_schedulerVars => SchedIInv'
<1> SUFFICES ASSUME SchedIInv, [SchedulerNext]_schedulerVars PROVE SchedIInv'
  OBVIOUS
<1>1. CASE SchedulerNext
  BY <1>1, StepTime, StepStream, StepBits, StepList DEF SchedIInv
<1>2. CASE UNCHANGED schedulerVars
  BY <1>2, PartsUnchanged DEF SchedIInv, schedulerVars, schedVars, sessVars
<1> QED BY <1>1, <1>2

(* The scheduler's list, the IN_SCHEDULER flags and the mask all_sessions  *)
(* agree, and a pass processes no freed session, for any number of         *)
(* sessions and any application that destroys a session in the mode it     *)
(* was scheduled in (scheduler.c; rtp_session_destroy).                    *)
THEOREM ListInvariant == ASSUME ~LateDestroy PROVE SchedulerSpec => []ListInv
<1>1. SchedIInv => ListInv
  BY MaskMatches DEF SchedIInv, TimeOK, StreamOK, BitsOK, ListOK, ListInv, SchedulerTypeOK
<1> QED BY <1>1, SchedStart, SchedStep, PTL DEF SchedulerSpec

-----------------------------------------------------------------------------
(* The pace of the sessions.  Clock is the scheduler's time if it did not  *)
(* wrap, Ahead the time the timestamps of a stream have advanced since its *)
(* first call, Target the time at which the packet of the call is due.     *)
Started == sched \notin {"none", "starting"}
Clock == LongAfter + ticks * TimerInc
Ahead(s) == TsToTime(app[s].ts - app[s].ts0)
Target(s) == (LongAfter + app[s].at0 * TimerInc) + Ahead(s)

(* While a call is under way its stream has not passed the range of a      *)
(* timestamp, and lasts less than half the range of time_.                 *)
InRange ==
  \A s \in Sessions : pc[s] # "out" =>
     app[s].ts - app[s].ts0 < TsMod /\ 2 * Ahead(s) < TimeMod

ClockOK ==
  /\ Started => time = Clock % TimeMod
  /\ ~Started => ticks = 0
  /\ sched = "none" => ~running

PcSet == {"out", "begun", "asleep", "signalled", "set", "clear", "done"}

(* The offsets are those of the stream's first call. *)
OffsetsOK(s) ==
  /\ app[s].at0 <= ticks /\ app[s].ts0 <= app[s].ts
  /\ ~flags[s].notStarted =>
       /\ off[s].ts = app[s].ts0 % TsMod
       /\ off[s].time = (LongAfter + app[s].at0 * TimerInc) % TimeMod
  /\ pc[s] = "begun" => ~flags[s].notStarted

(* A thread that is past its sleep in blocking mode is not too early; a    *)
(* sleeper is due, or its wait point holds the time it waits for.          *)
WaitOK(s) ==
  /\ flags[s].blocking /\ pc[s] \in {"signalled", "set", "clear", "done"} => ~TooSoon(s)
  /\ pc[s] = "asleep" => ~TooSoon(s) \/ (wp[s].wakeup /\ wp[s].time = Target(s) % TimeMod)
  /\ schedCopy # Idle /\ Head(todo) = s /\ pc[s] = "asleep" => ~TooSoon(s)

(* A thread is in a call of a session that is alive. *)
CallOK(s) ==
  /\ ~Started => pc[s] = "out" /\ ~flags[s].alive
  /\ flags[s].scheduled \/ pc[s] # "out" => flags[s].alive
  /\ copy[s] # Idle => pc[s] \in {"set", "clear"}

PaceOK(s) == OffsetsOK(s) /\ WaitOK(s) /\ CallOK(s)

PaceIInv ==
  /\ SchedIInv /\ ClockOK /\ pc \in [Sessions -> PcSet]
  /\ (\A s \in Sessions : PaceOK(s))
  /\ NotBeforeTime

(* A number is a multiple of the divisor and its remainder. *)
LEMMA ModQuotient ==
  ASSUME NEW a \in Int, NEW m \in Nat \ {0} PROVE \E q \in Int : a = m * q + (a % m)
<1>1. m \in Int /\ m > 0
  OBVIOUS
<1>2. a \div m \in Int /\ a = m * (a \div m) + (a % m)
  BY <1>1
<1> QED BY <1>2

(* There is only one remainder. *)
LEMMA ModUnique ==
  ASSUME NEW a \in Int, NEW m \in Nat \ {0}, NEW q \in Int, NEW r \in 0 .. m - 1, a = m * q + r
  PROVE  a % m = r
OBVIOUS

(* A multiple of the divisor does not matter. *)
LEMMA ModShift ==
  ASSUME NEW a \in Int, NEW m \in Nat \ {0}, NEW k \in Int PROVE (a + m * k) % m = a % m
<1>1. PICK q \in Int : a = m * q + (a % m)
  BY ModQuotient
<1>2. PICK r \in 0 .. m - 1 : r = a % m
  BY ModRange
<1>3. a + m * k = m * (q + k) + r
  BY <1>1, <1>2
<1>4. a + m * k \in Int /\ q + k \in Int
  OBVIOUS
<1>5. (a + m * k) % m = r
  BY <1>2, <1>3, <1>4, ModUnique
<1> QED BY <1>2, <1>5

(* Sums and differences of values on the circle. *)
LEMMA ModSums ==
  ASSUME NEW a \in Int, NEW b \in Int, NEW m \in Nat \ {0}
  PROVE  /\ (b + (a % m)) % m = (b + a) % m
         /\ (b - (a % m)) % m = (b - a) % m
         /\ ((b % m) - (a % m)) % m = (b - a) % m
<1>1. PICK q \in Int : a = m * q + (a % m)
  BY ModQuotient
<1>2. PICK p \in Int : b = m * p + (b % m)
  BY ModQuotient
<1>3. PICK r \in Int : r = a % m
  BY ModRange
<1>4. PICK t \in Int : t = b % m
  BY ModRange
<1>5. a = m * q + r /\ b = m * p + t
  BY <1>1, <1>2, <1>3, <1>4
<1>6. (b + r) % m = (b + a) % m
  <2>1. b + a = (b + r) + m * q /\ b + r \in Int
    BY <1>5
  <2>2. ((b + r) + m * q) % m = (b + r) % m
    BY <2>1, ModShift
  <2> QED BY <2>1, <2>2
<1>7. (b - r) % m = (b - a) % m
  <2>1. b - r = (b - a) + m * q /\ b - a \in Int
    BY <1>5
  <2>2. ((b - a) + m * q) % m = (b - a) % m
    BY <2>1, ModShift
  <2> QED BY <2>1, <2>2
<1>8. (t - r) % m = (b - r) % m
  <2>1. b - r = (t - r) + m * p /\ t - r \in Int
    BY <1>5
  <2>2. ((t - r) + m * p) % m = (t - r) % m
    BY <2>1, ModShift
  <2> QED BY <2>1, <2>2
<1> QED BY <1>3, <1>4, <1>6, <1>7, <1>8

(* The comparisons of rtp.h are those of the numbers while they are less   *)
(* than half a circle apart.                                               *)
LEMMA Comparisons ==
  ASSUME NEW a \in Int, NEW b \in Int, NEW m \in Nat \ {0}, 2 * (a - b) < m
  PROVE  /\ a > b => StrictlyNewerThan(a % m, b % m, m)
         /\ a > b => ~NewerThan(b % m, a % m, m)
<1> SUFFICES ASSUME a > b PROVE StrictlyNewerThan(a % m, b % m, m) /\ ~NewerThan(b % m, a % m, m)
  OBVIOUS
<1>1. PICK d \in Int : d = a - b
  OBVIOUS
<1>2. 0 < d /\ d < m /\ 2 * d < m
  BY <1>1
<1>3. d % m = d /\ (0 - d) % m = m - d
  BY <1>2
<1>4. ((a % m) - (b % m)) % m = d /\ ((b % m) - (a % m)) % m = m - d
  <2>1. ((a % m) - (b % m)) % m = (a - b) % m /\ ((b % m) - (a % m)) % m = (b - a) % m
    BY ModSums
  <2>2. a - b = d /\ b - a = 0 - d
    BY <1>1
  <2> QED BY <1>3, <2>1, <2>2
<1>5. a % m # b % m
  <2>1. SUFFICES ASSUME a % m = b % m PROVE FALSE
    OBVIOUS
  <2>2. PICK r \in Int : r = a % m
    BY ModRange
  <2>3. (r - r) % m = d
    BY <1>4, <2>1, <2>2
  <2>4. r - r = 0 /\ 0 % m = 0
    OBVIOUS
  <2> QED BY <1>2, <2>3, <2>4
<1> QED BY <1>2, <1>4, <1>5 DEF StrictlyNewerThan, NewerThan

(* The values the pace is computed from. *)
LEMMA PaceTypes ==
  ASSUME SchedIInv, NEW s \in Sessions
  PROVE  /\ ticks \in Nat /\ time \in Nat /\ TimerInc \in Nat \ {0} /\ LongAfter \in Nat
         /\ TimeMod \in Nat \ {0} /\ TsMod \in Nat \ {0}
         /\ app[s].ts \in Nat /\ app[s].ts0 \in Nat /\ app[s].at0 \in Nat
         /\ off[s].ts \in Nat /\ off[s].time \in Nat
         /\ Clock \in Nat /\ Ahead(s) \in Int /\ Target(s) \in Int
         /\ LongAfter + app[s].at0 * TimerInc \in Nat
<1>1. /\ TimerInc \in Nat \ {0} /\ LongAfter \in Nat /\ TsPerTime \in Nat \ {0}
      /\ TimeMod \in Nat \ {0} /\ TsMod \in Nat \ {0} /\ MaxTicks \in Nat
  BY SchedulerConstants
<1>2. ticks \in Nat /\ time \in Nat
  BY <1>1 DEF SchedIInv, TimeOK
<1>3. /\ app[s].ts \in Nat /\ app[s].ts0 \in Nat /\ app[s].at0 \in Nat
      /\ off[s].ts \in Nat /\ off[s].time \in Nat
  BY DEF SchedIInv, StreamOK
<1>4. Clock \in Nat /\ LongAfter + app[s].at0 * TimerInc \in Nat
  <2>1. ticks * TimerInc \in Nat /\ app[s].at0 * TimerInc \in Nat
    BY <1>1, <1>2, <1>3
  <2> QED BY <1>1, <2>1 DEF Clock
<1>5. Ahead(s) \in Int
  BY <1>1, <1>3 DEF Ahead, TsToTime
<1>6. Target(s) \in Int
  BY <1>4, <1>5 DEF Target
<1> QED BY <1>1, <1>2, <1>3, <1>4, <1>5, <1>6

(* A call that is not due yet is ahead of the clock by less than half the  *)
(* range of time_.                                                         *)
LEMMA TooSoonIs ==
  ASSUME SchedIInv, NEW s \in Sessions, OffsetsOK(s)
  PROVE  /\ TooSoon(s) <=> Target(s) > Clock
         /\ Target(s) - Clock <= Ahead(s)
<1>1. PICK a, c, i, h : a = app[s].at0 /\ c = ticks /\ i = TimerInc /\ h = Ahead(s)
  OBVIOUS
<1>2. a \in Nat /\ c \in Nat /\ i \in Nat \ {0} /\ h \in Int /\ a <= c /\ LongAfter \in Nat
  BY <1>1, PaceTypes DEF OffsetsOK
<1>3. (c - a) * i = c * i - a * i /\ c * i \in Nat /\ a * i \in Nat /\ (c - a) * i >= 0
  BY <1>2
<1>4. TooSoon(s) <=> (c - a) * i < h
  BY <1>1 DEF TooSoon, Ahead
<1>5. Target(s) = (LongAfter + a * i) + h /\ Clock = LongAfter + c * i
  BY <1>1 DEF Target, Clock
<1>6. PICK x, y \in Nat : x = c * i /\ y = a * i
  BY <1>3
<1>7. (c - a) * i = x - y /\ x - y >= 0
  BY <1>3, <1>6
<1>8. TooSoon(s) <=> x - y < h
  BY <1>4, <1>7
<1>9. Target(s) = (LongAfter + y) + h /\ Clock = LongAfter + x
  BY <1>5, <1>6
<1>10. Target(s) - Clock <= h /\ (x - y < h <=> Target(s) > Clock)
  BY <1>2, <1>6, <1>7, <1>9
<1> QED BY <1>1, <1>8, <1>10

(* packet_time is the time at which the packet is due: the wrap of the     *)
(* timestamps and of time_ cancels out.                                    *)
LEMMA PacketTimeIs ==
  ASSUME SchedIInv, NEW s \in Sessions, OffsetsOK(s), InRange, pc[s] = "begun"
  PROVE  PacketTime(s) = Target(s) % TimeMod
<1>1. PICK t, t0, A : t = app[s].ts /\ t0 = app[s].ts0 /\ A = LongAfter + app[s].at0 * TimerInc
  OBVIOUS
<1>2. /\ t \in Nat /\ t0 \in Nat /\ A \in Nat /\ t0 <= t /\ t - t0 < TsMod /\ Ahead(s) \in Int
      /\ TimeMod \in Nat \ {0} /\ TsMod \in Nat \ {0}
  BY <1>1, PaceTypes DEF OffsetsOK, InRange
<1>3. off[s].ts = t0 % TsMod /\ off[s].time = A % TimeMod
  BY <1>1 DEF OffsetsOK
<1>4. (t - (t0 % TsMod)) % TsMod = t - t0
  <2>1. (t - (t0 % TsMod)) % TsMod = (t - t0) % TsMod
    <3>1. t \in Int /\ t0 \in Int /\ TsMod \in Nat \ {0}
      BY <1>2
    <3> QED BY ONLY <3>1, ModSums, Zenon
  <2>2. PICK d \in Int : d = t - t0
    BY <1>2
  <2>3. d % TsMod = d
    BY <1>2, <2>2
  <2> QED BY <2>1, <2>2, <2>3
<1>5. PacketTime(s) = (Ahead(s) + (A % TimeMod)) % TimeMod
  BY <1>1, <1>3, <1>4 DEF PacketTime, Ahead
<1>6. (Ahead(s) + (A % TimeMod)) % TimeMod = (Ahead(s) + A) % TimeMod
  <2>1. Ahead(s) \in Int /\ A \in Int /\ TimeMod \in Nat \ {0}
    BY <1>2
  <2> QED BY ONLY <2>1, ModSums, Zenon
<1>7. Target(s) = Ahead(s) + A
  BY <1>1, <1>2 DEF Target
<1> QED BY <1>5, <1>6, <1>7

(* A call that need not wait is not too soon. *)
LEMMA DecidesRight ==
  ASSUME SchedIInv, ClockOK, Started, NEW s \in Sessions, OffsetsOK(s), InRange, pc[s] = "begun",
         ~MustWait(s)
  PROVE  ~TooSoon(s)
<1>1. ~StrictlyNewerThan(Target(s) % TimeMod, Clock % TimeMod, TimeMod)
  BY PacketTimeIs DEF MustWait, ClockOK
<1>2. 2 * (Target(s) - Clock) < TimeMod /\ Target(s) \in Int /\ Clock \in Int /\ TimeMod \in Nat \ {0}
  <2>1. 2 * Ahead(s) < TimeMod
    BY DEF InRange
  <2> QED BY <2>1, PaceTypes, TooSoonIs
<1>3. ~(Target(s) > Clock)
  BY <1>1, <1>2, Comparisons
<1> QED BY <1>3, TooSoonIs

(* wait_point_check finds a sleeper due only when it is. *)
LEMMA DueRight ==
  ASSUME SchedIInv, ClockOK, Started, NEW s \in Sessions, PaceOK(s), InRange, pc[s] = "asleep",
         Due(s, time)
  PROVE  ~TooSoon(s)
<1> SUFFICES ASSUME wp[s].time = Target(s) % TimeMod PROVE ~TooSoon(s)
  BY DEF PaceOK, WaitOK
<1>0. OffsetsOK(s)
  BY DEF PaceOK
<1>1. NewerThan(Clock % TimeMod, Target(s) % TimeMod, TimeMod)
  BY DEF Due, ClockOK
<1>2. 2 * (Target(s) - Clock) < TimeMod /\ Target(s) \in Int /\ Clock \in Int /\ TimeMod \in Nat \ {0}
  <2>1. 2 * Ahead(s) < TimeMod
    BY DEF InRange
  <2> QED BY <1>0, <2>1, PaceTypes, TooSoonIs
<1>3. ~(Target(s) > Clock)
  BY <1>1, <1>2, Comparisons
<1> QED BY <1>0, <1>3, TooSoonIs

(* time_ follows the clock. *)
LEMMA StepClock == ASSUME SchedIInv, ClockOK, SchedulerNext PROVE ClockOK'
<1>0. /\ TimerInc \in Nat \ {0} /\ LongAfter \in 0 .. TimeMod - 1 /\ TimeMod \in Nat \ {0}
      /\ ticks \in Nat /\ time \in Nat
  BY SchedulerConstants DEF SchedIInv, TimeOK
<1>1. CASE UNCHANGED <<sched, running, time, ticks>>
  BY <1>1 DEF ClockOK, Started, Clock
<1>2. CASE ortp_scheduler_init
  BY <1>2 DEF ortp_scheduler_init, ClockOK, Started
<1>3. CASE ThreadStarts
  <2>1. ticks = 0 /\ ticks' = 0 /\ time' = LongAfter /\ sched' = "test"
    BY <1>3 DEF ThreadStarts, ClockOK, Started
  <2>2. LongAfter + 0 * TimerInc = LongAfter /\ LongAfter % TimeMod = LongAfter
    BY <1>0
  <2> QED BY <2>1, <2>2 DEF ClockOK, Started, Clock
<1>4. CASE PassBegins \/ PassEnds \/ ThreadLeaves
  <2>1. UNCHANGED <<time, ticks>> /\ Started /\ Started'
    BY <1>4 DEF PassBegins, PassEnds, ThreadLeaves, Started
  <2> QED BY <2>1 DEF ClockOK, Clock, Started
<1>5. CASE TimerDo
  <2>1. Started /\ Started'
    BY <1>5 DEF TimerDo, Started
  <2>2. CASE UNCHANGED <<time, ticks>>
    BY <2>1, <2>2 DEF ClockOK, Clock, Started
  <2>3. CASE ticks' = ticks + 1 /\ time' = TimeAfterTick
    <3>1. time = Clock % TimeMod /\ Clock \in Nat
      <4>1. ticks * TimerInc \in Nat
        BY <1>0
      <4> QED BY <1>0, <2>1, <4>1 DEF ClockOK, Clock
    <3>2. (TimerInc + (Clock % TimeMod)) % TimeMod = (TimerInc + Clock) % TimeMod
      <4>1. Clock \in Int /\ TimerInc \in Int /\ TimeMod \in Nat \ {0}
        BY <1>0, <3>1
      <4> QED BY ONLY <4>1, ModSums, Zenon
    <3>3. time' = (TimerInc + (Clock % TimeMod)) % TimeMod
      BY <1>0, <2>3, <3>1 DEF TimeAfterTick
    <3>4. Clock' = TimerInc + Clock
      <4>1. (ticks + 1) * TimerInc = ticks * TimerInc + TimerInc /\ ticks * TimerInc \in Nat
        BY <1>0
      <4>2. Clock' = LongAfter + (ticks * TimerInc + TimerInc)
        BY <2>3, <4>1 DEF Clock
      <4> QED BY <1>0, <4>1, <4>2 DEF Clock
    <3> QED BY <2>1, <3>2, <3>3, <3>4 DEF ClockOK, Started
  <2> QED BY <1>5, <2>2, <2>3 DEF TimerDo
<1>6. CASE ProcessChecks \/ ProcessWakes \/ SelectBegins \/ SelectReads \/ SelectWrites
  BY <1>1, <1>6 DEF ProcessChecks, ProcessWakes, SelectBegins, SelectReads, SelectWrites,
     schedVars, sessVars
<1>9. CASE ortp_exit
  BY <1>9 DEF ortp_exit, ClockOK, Started, Clock
<1>7. CASE \E s \in Sessions : 
            \/ rtp_session_new(s) \/ set_scheduling_mode(s) \/ unset_scheduling_mode(s)
            \/ set_blocking_mode(s) \/ rtp_session_destroy(s) \/ rtp_session_reset(s)
  BY <1>1, <1>7 DEF rtp_session_new, set_scheduling_mode, unset_scheduling_mode, set_blocking_mode,
     rtp_session_destroy, rtp_session_reset, schedVars, sessVars
<1>8. CASE \E s \in Sessions : 
            \/ CallBegins(s) \/ CallDecides(s) \/ CallWakes(s) \/ CallReadsSet(s) \/ CallWritesSet(s)
            \/ CallEnds(s)
  BY <1>1, <1>8 DEF CallBegins, CallDecides, CallWakes, CallReadsSet, CallWritesSet, CallEnds,
     schedVars, sessVars
<1> QED BY <1>2, <1>3, <1>4, <1>5, <1>6, <1>7, <1>8, <1>9 DEF SchedulerNext

(* A call does not become too early as the time goes on. *)
LEMMA TooSoonKept ==
  ASSUME SchedIInv, NEW s \in Sessions, app'[s] = app[s], ticks' \in Nat, ticks' >= ticks
  PROVE  (TooSoon(s)' => TooSoon(s)) /\ Target(s)' = Target(s)
<1>1. PICK a, c, d, i, h : /\ a = app[s].at0 /\ c = ticks /\ d = ticks' /\ i = TimerInc
                           /\ h = TsToTime(app[s].ts - app[s].ts0)
  OBVIOUS
<1>2. a \in Nat /\ c \in Nat /\ d \in Nat /\ i \in Nat \ {0} /\ h \in Int /\ d >= c
  BY <1>1, PaceTypes DEF Ahead
<1>3. (d - a) * i >= (c - a) * i
  <2>1. (d - a) * i = (c - a) * i + (d - c) * i
    BY <1>2
  <2>2. (d - c) * i >= 0 /\ (d - c) * i \in Int /\ (c - a) * i \in Int
    BY <1>2
  <2> QED BY <2>1, <2>2
<1>4. (TooSoon(s) <=> (c - a) * i < h) /\ (TooSoon(s)' <=> (d - a) * i < h)
  BY <1>1 DEF TooSoon, TsToTime
<1>5. (d - a) * i \in Int /\ (c - a) * i \in Int
  BY <1>2
<1>6. TooSoon(s)' => TooSoon(s)
  BY <1>2, <1>3, <1>4, <1>5
<1>7. Target(s)' = Target(s)
  BY DEF Target, Ahead, TsToTime
<1> QED BY <1>6, <1>7

(* What a step of others leaves of a session. *)
LEMMA PaceKept ==
  ASSUME SchedIInv, NEW s \in Sessions, PaceOK(s),
         app'[s] = app[s], flags'[s] = flags[s], off'[s] = off[s], pc'[s] = pc[s],
         copy'[s] = copy[s], wp'[s] = wp[s], ticks' \in Nat, ticks' >= ticks, Started => Started',
         schedCopy' # Idle /\ Head(todo') = s => schedCopy # Idle /\ Head(todo) = s
  PROVE  PaceOK(s)'
<1>1. (TooSoon(s)' => TooSoon(s)) /\ Target(s)' = Target(s)
  BY TooSoonKept
<1>2. OffsetsOK(s)'
  BY PaceTypes DEF PaceOK, OffsetsOK
<1>3. WaitOK(s)'
  BY <1>1 DEF PaceOK, WaitOK
<1>4. CallOK(s)'
  BY DEF PaceOK, CallOK
<1> QED BY <1>2, <1>3, <1>4 DEF PaceOK

(* A step of the scheduler, or of the thread in select, between the        *)
(* sessions.                                                               *)
LEMMA PaceScheduler ==
  ASSUME PaceIInv, SchedIInv',
         \/ ortp_scheduler_init \/ ThreadStarts \/ PassBegins \/ PassEnds \/ TimerDo \/ ortp_exit
         \/ ThreadLeaves \/ SelectBegins \/ SelectReads \/ SelectWrites
  PROVE  UNCHANGED <<pc, early>> /\ \A s \in Sessions : PaceOK(s)'
<1>1. SchedIInv /\ \A s \in Sessions : PaceOK(s)
  BY DEF PaceIInv
<1>2. UNCHANGED sessVars
  BY DEF ortp_scheduler_init, ThreadStarts, PassBegins, PassEnds, TimerDo, ortp_exit, ThreadLeaves,
     SelectBegins, SelectReads, SelectWrites
<1>3. ticks \in Nat /\ ticks' \in Nat
  BY <1>1, SchedulerConstants DEF SchedIInv, TimeOK
<1>4. ticks' >= ticks
  BY <1>3 DEF ortp_scheduler_init, ThreadStarts, PassBegins, PassEnds, TimerDo, ortp_exit, ThreadLeaves,
     SelectBegins, SelectReads, SelectWrites, schedVars
<1>5. Started => Started'
  BY DEF ortp_scheduler_init, ThreadStarts, PassBegins, PassEnds, TimerDo, ortp_exit, ThreadLeaves,
     SelectBegins, SelectReads, SelectWrites, schedVars, Started
<1>6. schedCopy' = schedCopy /\ (schedCopy = Idle \/ todo' = todo)
  <2>1. CASE PassBegins
    <3>1. sched # "pass" /\ schedCopy' = schedCopy
      BY <2>1 DEF PassBegins
    <3> QED BY <1>1, <3>1 DEF SchedIInv, ListOK
  <2> QED BY <2>1 DEF ortp_scheduler_init, ThreadStarts, PassEnds, TimerDo, ortp_exit, ThreadLeaves,
     SelectBegins, SelectReads, SelectWrites, schedVars
<1>7. ASSUME NEW s \in Sessions PROVE PaceOK(s)'
  BY <1>1, <1>2, <1>3, <1>4, <1>5, <1>6, PaceKept DEF sessVars
<1> QED BY <1>2, <1>7 DEF sessVars

(* rtp_session_process. *)
LEMMA PaceProcess ==
  ASSUME PaceIInv, InRange, ProcessChecks \/ ProcessWakes
  PROVE  pc' \in [Sessions -> PcSet] /\ early' = early /\ \A s \in Sessions : PaceOK(s)'
<1>1. /\ SchedIInv /\ ClockOK /\ pc \in [Sessions -> PcSet] /\ \A s \in Sessions : PaceOK(s)
  BY DEF PaceIInv
<1>2. sched = "pass" /\ Started /\ Started' /\ ticks' = ticks /\ ticks \in Nat
  BY <1>1, SchedulerConstants DEF ProcessChecks, ProcessWakes, Started, SchedIInv, TimeOK
<1>3. todo \in Seq(Sessions) /\ todo # <<>>
  BY <1>1 DEF SchedIInv, ListOK, ProcessChecks, ProcessWakes
<1>4. PICK s \in Sessions : s = Head(todo)
  BY <1>3, HeadTailProperties
<1>5. wp \in [Sessions -> [time : 0 .. TimeMod - 1, wakeup : BOOLEAN]]
  BY <1>1 DEF SchedIInv, StreamOK
<1>6. CASE ProcessChecks
  <2>1. UNCHANGED <<pc, app, flags, off, copy, early>> /\ schedCopy = Idle
    BY <1>6 DEF ProcessChecks
  <2>2. CASE Due(s, time)
    <3>1. wp' = [wp EXCEPT ![s].wakeup = FALSE] /\ todo' = todo
      BY <1>4, <1>6, <2>2 DEF ProcessChecks
    <3>2. \A x \in Sessions \ {s} : PaceOK(x)'
      <4> TAKE x \in Sessions \ {s}
      <4>1. wp'[x] = wp[x] /\ Head(todo') # x
        BY <1>4, <1>5, <3>1
      <4> QED BY <1>1, <1>2, <2>1, <4>1, PaceKept
    <3>3. PaceOK(s)'
      <4>1. pc[s] = "asleep" => ~TooSoon(s)
        BY <1>1, <1>2, <2>2, DueRight
      <4>2. (TooSoon(s)' => TooSoon(s)) /\ Target(s)' = Target(s)
        BY <1>1, <1>2, <2>1, TooSoonKept
      <4>3. WaitOK(s)'
        BY <1>1, <2>1, <4>1, <4>2 DEF PaceOK, WaitOK
      <4>4. OffsetsOK(s)' /\ CallOK(s)'
        BY <1>1, <1>2, <2>1 DEF PaceOK, OffsetsOK, CallOK
      <4> QED BY <4>3, <4>4 DEF PaceOK
    <3> QED BY <1>1, <2>1, <3>2, <3>3
  <2>3. CASE ~Due(s, time)
    <3>1. wp' = wp /\ schedCopy' = Idle
      BY <1>4, <1>6, <2>1, <2>3 DEF ProcessChecks
    <3>2. ASSUME NEW x \in Sessions PROVE PaceOK(x)'
      BY <1>1, <1>2, <2>1, <3>1, PaceKept
    <3> QED BY <1>1, <2>1, <3>2
  <2> QED BY <2>2, <2>3
<1>7. CASE ProcessWakes
  <2>1. UNCHANGED <<wp, app, flags, off, copy, early>> /\ schedCopy # Idle /\ schedCopy' = Idle /\ pc' = Woken(s)
    BY <1>4, <1>7 DEF ProcessWakes
  <2>2. /\ pc' \in [Sessions -> PcSet] /\ \A x \in Sessions \ {s} : pc'[x] = pc[x]
        /\ pc[s] = "asleep" => pc'[s] = "signalled"
        /\ pc[s] # "asleep" => pc'[s] = pc[s]
    BY <1>1, <2>1 DEF Woken, PcSet
  <2>3. ASSUME NEW x \in Sessions, x # s \/ pc[s] # "asleep" PROVE PaceOK(x)'
    <3>1. pc'[x] = pc[x]
      BY <2>2, <2>3
    <3> QED BY <1>1, <1>2, <2>1, <3>1, PaceKept
  <2>4. ASSUME pc[s] = "asleep" PROVE PaceOK(s)'
    <3>1. ~TooSoon(s)
      BY <1>1, <1>4, <2>1, <2>4 DEF PaceOK, WaitOK
    <3>2. TooSoon(s)' => TooSoon(s)
      BY <1>1, <1>2, <2>1, TooSoonKept
    <3>3. WaitOK(s)'
      BY <2>2, <2>4, <3>1, <3>2 DEF WaitOK
    <3>4. OffsetsOK(s)' /\ CallOK(s)'
      BY <1>1, <1>2, <2>1, <2>2, <2>4 DEF PaceOK, OffsetsOK, CallOK
    <3> QED BY <3>3, <3>4 DEF PaceOK
  <2> QED BY <2>1, <2>2, <2>3, <2>4
<1> QED BY <1>6, <1>7

(* The operations of a session, and the steps of the calls in it. *)
SessionStep(s) ==
  \/ rtp_session_new(s) \/ set_scheduling_mode(s) \/ unset_scheduling_mode(s)
  \/ set_blocking_mode(s) \/ rtp_session_destroy(s) \/ rtp_session_reset(s)
  \/ CallBegins(s) \/ CallDecides(s) \/ CallWakes(s) \/ CallReadsSet(s)
  \/ CallWritesSet(s) \/ CallEnds(s)

(* They leave the scheduler and the other sessions alone. *)
LEMMA PaceOthers ==
  ASSUME PaceIInv, NEW s \in Sessions, SessionStep(s)
  PROVE  /\ UNCHANGED <<sched, ticks, todo, schedCopy>>
         /\ \A x \in Sessions \ {s} : PaceOK(x)'
<1>1. SchedIInv /\ pc \in [Sessions -> PcSet] /\ \A x \in Sessions : PaceOK(x)
  BY DEF PaceIInv
<1>2. UNCHANGED <<sched, ticks, todo, schedCopy>>
  BY DEF SessionStep, rtp_session_new, set_scheduling_mode, unset_scheduling_mode, set_blocking_mode,
     rtp_session_destroy, rtp_session_reset, CallBegins, CallDecides, CallWakes, CallReadsSet,
     CallWritesSet, CallEnds, schedVars
<1>3. ticks \in Nat /\ (Started => Started')
  BY <1>1, <1>2, SchedulerConstants DEF SchedIInv, TimeOK, Started
<1>4. ASSUME NEW x \in Sessions \ {s}
      PROVE  /\ app'[x] = app[x] /\ flags'[x] = flags[x] /\ off'[x] = off[x] /\ pc'[x] = pc[x]
             /\ copy'[x] = copy[x] /\ wp'[x] = wp[x]
  <2>1. flags'[x] = flags[x]
    <3>1. flags \in [Sessions -> FlagSet]
      BY <1>1 DEF SchedIInv, ListOK
    <3>2. CASE set_scheduling_mode(s)
      BY <3>1, <3>2 DEF set_scheduling_mode
    <3> QED BY <3>1, <3>2 DEF SessionStep, rtp_session_new, unset_scheduling_mode, set_blocking_mode,
     rtp_session_destroy, rtp_session_reset, CallBegins, CallDecides, CallWakes, CallReadsSet,
     CallWritesSet, CallEnds
  <2>2. app'[x] = app[x]
    BY <1>1 DEF SchedIInv, StreamOK, SessionStep, rtp_session_new, set_scheduling_mode, unset_scheduling_mode,
     set_blocking_mode, rtp_session_destroy, rtp_session_reset, CallBegins, CallDecides, CallWakes,
     CallReadsSet, CallWritesSet, CallEnds
  <2>3. off'[x] = off[x]
    BY <1>1 DEF SchedIInv, StreamOK, SessionStep, rtp_session_new, set_scheduling_mode, unset_scheduling_mode,
     set_blocking_mode, rtp_session_destroy, rtp_session_reset, CallBegins, CallDecides, CallWakes,
     CallReadsSet, CallWritesSet, CallEnds
  <2>4. wp'[x] = wp[x]
    BY <1>1 DEF SchedIInv, StreamOK, SessionStep, rtp_session_new, set_scheduling_mode, unset_scheduling_mode,
     set_blocking_mode, rtp_session_destroy, rtp_session_reset, CallBegins, CallDecides, CallWakes,
     CallReadsSet, CallWritesSet, CallEnds
  <2>5. pc'[x] = pc[x]
    BY <1>1 DEF SessionStep, rtp_session_new, set_scheduling_mode, unset_scheduling_mode,
     set_blocking_mode, rtp_session_destroy, rtp_session_reset, CallBegins, CallDecides, CallWakes,
     CallReadsSet, CallWritesSet, CallEnds
  <2>6. copy'[x] = copy[x]
    BY <1>1 DEF SchedIInv, BitsOK, SessionStep, rtp_session_new, set_scheduling_mode, unset_scheduling_mode,
     set_blocking_mode, rtp_session_destroy, rtp_session_reset, CallBegins, CallDecides, CallWakes,
     CallReadsSet, CallWritesSet, CallEnds
  <2> QED BY <2>1, <2>2, <2>3, <2>4, <2>5, <2>6
<1>5. ASSUME NEW x \in Sessions \ {s} PROVE PaceOK(x)'
  BY <1>1, <1>2, <1>3, <1>4, PaceKept
<1> QED BY <1>2, <1>5

(* What the session's own steps know. *)
Local(s) ==
  /\ SchedIInv /\ ClockOK /\ pc \in [Sessions -> PcSet] /\ PaceOK(s) /\ NotBeforeTime
  /\ UNCHANGED <<sched, ticks, todo, schedCopy>>
  /\ flags \in [Sessions -> FlagSet] /\ pc[s] \in PcSet
  /\ app \in [Sessions -> [ts : Nat, calls : Nat, ts0 : Nat, at0 : Nat]]
  /\ copy \in [Sessions -> Word] /\ off \in [Sessions -> [ts : Nat, time : Nat]]
  /\ wp \in [Sessions -> [time : 0 .. TimeMod - 1, wakeup : BOOLEAN]]

(* The operations of the application on a session: a session in a call is  *)
(* not destroyed, and its mode is not changed.                             *)
LEMMA PaceOperation ==
  ASSUME NEW s \in Sessions, Local(s),
         \/ rtp_session_new(s) \/ set_scheduling_mode(s) \/ unset_scheduling_mode(s)
         \/ set_blocking_mode(s) \/ rtp_session_destroy(s) \/ rtp_session_reset(s)
  PROVE  UNCHANGED <<pc, early>> /\ PaceOK(s)'
<1> USE DEF Local
<1>1. UNCHANGED <<pc, early, copy>> /\ (Started' <=> Started)
  BY DEF rtp_session_new, set_scheduling_mode, unset_scheduling_mode, set_blocking_mode,
     rtp_session_destroy, rtp_session_reset, Started
<1>2. ticks \in Nat /\ ticks' \in Nat /\ ticks' >= ticks
  BY SchedulerConstants DEF SchedIInv, TimeOK
<1>3. flags[s] \in FlagSet /\ pc'[s] = pc[s] /\ copy'[s] = copy[s]
  BY <1>1
<1>4. CASE rtp_session_new(s)
  <2>1. PICK g : g = [NoSession EXCEPT !.alive = TRUE]
    OBVIOUS
  <2>2. g.notStarted /\ g.alive /\ ~g.scheduled /\ ~g.blocking
    BY <2>1 DEF NoSession
  <2>3. flags'[s] = g /\ ~flags[s].alive /\ UNCHANGED <<app, off, wp>> /\ Started
    BY <1>4, <2>1 DEF rtp_session_new, schedVars, Started, ClockOK
  <2>4. pc[s] = "out" /\ copy[s] = Idle
    BY <2>3 DEF PaceOK, CallOK
  <2> QED BY <1>1, <1>2, <1>3, <2>2, <2>3, <2>4 DEF PaceOK, OffsetsOK, WaitOK, CallOK
<1>5. CASE set_scheduling_mode(s)
  <2>1. PICK g : g = [flags[s] EXCEPT !.scheduled = TRUE, !.inSched = TRUE]
    OBVIOUS
  <2>2. g.notStarted = flags[s].notStarted /\ g.alive = flags[s].alive /\ g.blocking = flags[s].blocking
    BY <1>3, <2>1 DEF FlagSet
  <2>3. flags'[s] = g /\ flags[s].alive /\ UNCHANGED <<app, off, wp>> /\ pc[s] = "out"
    BY <1>5, <2>1 DEF set_scheduling_mode
  <2> QED BY <1>1, <1>2, <1>3, <2>2, <2>3 DEF PaceOK, OffsetsOK, WaitOK, CallOK
<1>6. CASE unset_scheduling_mode(s)
  <2>1. PICK g : g = [flags[s] EXCEPT !.scheduled = FALSE]
    OBVIOUS
  <2>2. g.notStarted = flags[s].notStarted /\ g.alive = flags[s].alive /\ ~g.scheduled
    BY <1>3, <2>1 DEF FlagSet
  <2>3. flags'[s] = g /\ UNCHANGED <<app, off, wp>> /\ pc[s] = "out"
    BY <1>6, <2>1 DEF unset_scheduling_mode
  <2> QED BY <1>1, <1>2, <1>3, <2>2, <2>3 DEF PaceOK, OffsetsOK, WaitOK, CallOK
<1>7. CASE set_blocking_mode(s)
  <2>1. PICK g : g = [flags[s] EXCEPT !.blocking = TRUE]
    OBVIOUS
  <2>2. g.notStarted = flags[s].notStarted /\ g.alive = flags[s].alive /\ g.scheduled = flags[s].scheduled
    BY <1>3, <2>1 DEF FlagSet
  <2>3. flags'[s] = g /\ UNCHANGED <<app, off, wp>> /\ pc[s] = "out"
    BY <1>7, <2>1 DEF set_blocking_mode
  <2> QED BY <1>1, <1>2, <1>3, <2>2, <2>3 DEF PaceOK, OffsetsOK, WaitOK, CallOK
<1>8. CASE rtp_session_destroy(s)
  <2>1. PICK a : a = [NoCall EXCEPT !.calls = app[s].calls]
    OBVIOUS
  <2>2. a.ts0 = 0 /\ a.at0 = 0 /\ a.ts \in Nat
    BY <2>1, SchedulerConstants DEF NoCall
  <2>3. flags'[s] = NoSession /\ app'[s] = a /\ pc[s] = "out"
    BY <1>8, <2>1 DEF rtp_session_destroy
  <2>4. NoSession.notStarted /\ ~NoSession.alive /\ ~NoSession.scheduled
    BY DEF NoSession
  <2> QED BY <1>1, <1>2, <1>3, <2>2, <2>3, <2>4 DEF PaceOK, OffsetsOK, WaitOK, CallOK
<1>9. CASE rtp_session_reset(s)
  <2>1. PICK g : g = [flags[s] EXCEPT !.notStarted = TRUE]
    OBVIOUS
  <2>2. g.notStarted /\ g.alive = flags[s].alive /\ g.scheduled = flags[s].scheduled
    BY <1>3, <2>1 DEF FlagSet
  <2>3. flags'[s] = g /\ UNCHANGED <<app, wp>> /\ pc[s] \in {"out", "asleep"}
    BY <1>9, <2>1 DEF rtp_session_reset
  <2>4. (TooSoon(s)' => TooSoon(s)) /\ Target(s)' = Target(s)
    BY <1>2, <2>3, TooSoonKept
  <2> QED BY <1>1, <1>2, <1>3, <2>2, <2>3, <2>4 DEF PaceOK, OffsetsOK, WaitOK, CallOK
<1> QED BY <1>1, <1>4, <1>5, <1>6, <1>7, <1>8, <1>9

(* The first steps of a call. *)
LEMMA PaceBegins ==
  ASSUME NEW s \in Sessions, Local(s), InRange, CallBegins(s) \/ CallDecides(s)
  PROVE  pc' \in [Sessions -> PcSet] /\ early' = early /\ PaceOK(s)'
<1> USE DEF Local
<1>2. ticks \in Nat /\ ticks' \in Nat /\ ticks' >= ticks /\ (Started' <=> Started)
  BY SchedulerConstants DEF SchedIInv, TimeOK, Started
<1>3. flags[s] \in FlagSet /\ app[s] \in [ts : Nat, calls : Nat, ts0 : Nat, at0 : Nat]
  OBVIOUS
<1>4. CASE CallBegins(s)
  <2>1. PICK d \in TsSteps : app' = [app EXCEPT
          ![s].ts = @ + d, ![s].calls = @ + 1,
          ![s].ts0 = IF flags[s].notStarted THEN app[s].ts + d ELSE @,
          ![s].at0 = IF flags[s].notStarted THEN ticks ELSE @]
    BY <1>4 DEF CallBegins
  <2>2. d \in Nat
    BY SchedulerConstants
  <2>3. /\ app'[s].ts = app[s].ts + d
        /\ app'[s].ts0 = IF flags[s].notStarted THEN app[s].ts + d ELSE app[s].ts0
        /\ app'[s].at0 = IF flags[s].notStarted THEN ticks ELSE app[s].at0
    BY <1>3, <2>1
  <2>4. /\ pc' = [pc EXCEPT ![s] = "begun"] /\ pc[s] = "out" /\ flags[s].scheduled
        /\ UNCHANGED <<copy, early>>
        /\ flags' = [flags EXCEPT ![s].notStarted = FALSE]
        /\ off' = IF flags[s].notStarted
                  THEN [off EXCEPT ![s] = [ts |-> app'[s].ts % TsMod, time |-> time]]
                  ELSE off
    BY <1>4 DEF CallBegins
  <2>5. PICK g : g = [flags[s] EXCEPT !.notStarted = FALSE]
    OBVIOUS
  <2>6. /\ ~g.notStarted /\ g.alive = flags[s].alive /\ g.scheduled = flags[s].scheduled
        /\ flags'[s] = g
    BY <1>3, <2>4, <2>5 DEF FlagSet
  <2>7. flags[s].alive /\ Started /\ copy[s] = Idle
    BY <2>4 DEF PaceOK, CallOK
  <2>8. pc' \in [Sessions -> PcSet] /\ pc'[s] = "begun"
    BY <2>4 DEF PcSet
  <2>9. OffsetsOK(s)'
    <3>1. CASE flags[s].notStarted
      <4>1. off'[s] = [ts |-> app'[s].ts % TsMod, time |-> time]
        BY <2>4, <3>1
      <4>2. off'[s].ts = app'[s].ts % TsMod /\ off'[s].time = time
        BY <4>1
      <4>3. app'[s].ts = app'[s].ts0 /\ app'[s].at0 = ticks /\ app'[s].ts \in Nat
        BY <1>3, <2>2, <2>3, <3>1
      <4>4. time = (LongAfter + ticks * TimerInc) % TimeMod
        BY <2>7 DEF ClockOK, Clock
      <4> QED BY <1>2, <2>6, <4>2, <4>3, <4>4 DEF OffsetsOK
    <3>2. CASE ~flags[s].notStarted
      <4>1. off' = off /\ app'[s].ts0 = app[s].ts0 /\ app'[s].at0 = app[s].at0 /\ app'[s].ts >= app[s].ts
            /\ app'[s].ts \in Nat /\ app[s].ts \in Nat /\ app[s].ts0 \in Nat
        BY <1>3, <2>2, <2>3, <2>4, <3>2
      <4> QED BY <1>2, <2>6, <3>2, <4>1 DEF OffsetsOK, PaceOK
    <3> QED BY <3>1, <3>2
  <2>10. WaitOK(s)' /\ CallOK(s)'
    BY <1>2, <2>4, <2>6, <2>7, <2>8 DEF WaitOK, CallOK
  <2> QED BY <2>4, <2>8, <2>9, <2>10 DEF PaceOK
<1>5. CASE CallDecides(s)
  <2>1. pc[s] = "begun" /\ UNCHANGED <<flags, off, app, copy, early>> /\ ~(schedCopy # Idle /\ Head(todo) = s)
    BY <1>5 DEF CallDecides, BeingChecked
  <2>2. OffsetsOK(s) /\ Started /\ copy[s] = Idle /\ flags[s].alive
    BY <2>1 DEF PaceOK, CallOK
  <2>3. (TooSoon(s)' => TooSoon(s)) /\ Target(s)' = Target(s)
    BY <1>2, <2>1, TooSoonKept
  <2>4. CASE MustWait(s)
    <3>1. /\ wp'[s] = [time |-> PacketTime(s), wakeup |-> TRUE]
          /\ pc' = [pc EXCEPT ![s] = IF flags[s].blocking THEN "asleep" ELSE "clear"]
      BY <1>5, <2>4 DEF CallDecides
    <3>2. pc' \in [Sessions -> PcSet] /\ pc'[s] = IF flags[s].blocking THEN "asleep" ELSE "clear"
      BY <3>1 DEF PcSet
    <3>3. wp'[s].wakeup /\ wp'[s].time = Target(s) % TimeMod
      <4>1. PacketTime(s) = Target(s) % TimeMod
        BY <2>1, <2>2, PacketTimeIs
      <4> QED BY <3>1, <4>1
    <3>4. WaitOK(s)'
      BY <2>1, <2>3, <3>2, <3>3 DEF WaitOK
    <3>5. OffsetsOK(s)' /\ CallOK(s)'
      BY <1>2, <2>1, <2>2, <3>2 DEF OffsetsOK, CallOK
    <3> QED BY <2>1, <3>2, <3>4, <3>5 DEF PaceOK
  <2>5. CASE ~MustWait(s)
    <3>1. pc' = [pc EXCEPT ![s] = "set"]
      BY <1>5, <2>5 DEF CallDecides
    <3>2. pc' \in [Sessions -> PcSet] /\ pc'[s] = "set"
      BY <3>1 DEF PcSet
    <3>3. ~TooSoon(s)
      BY <2>1, <2>2, <2>5, DecidesRight
    <3>4. WaitOK(s)'
      BY <2>1, <2>3, <3>2, <3>3 DEF WaitOK
    <3>5. OffsetsOK(s)' /\ CallOK(s)'
      BY <1>2, <2>1, <2>2, <3>2 DEF OffsetsOK, CallOK
    <3> QED BY <2>1, <3>2, <3>4, <3>5 DEF PaceOK
  <2> QED BY <2>4, <2>5
<1> QED BY <1>4, <1>5

(* The rest of a call, and its return. *)
LEMMA PaceEnds ==
  ASSUME NEW s \in Sessions, Local(s),
         CallWakes(s) \/ CallReadsSet(s) \/ CallWritesSet(s) \/ CallEnds(s)
  PROVE  pc' \in [Sessions -> PcSet] /\ NotBeforeTime' /\ PaceOK(s)'
<1> USE DEF Local
<1>1. ticks \in Nat /\ ticks' \in Nat /\ ticks' >= ticks /\ (Started' <=> Started)
  BY SchedulerConstants DEF SchedIInv, TimeOK, Started
<1>2. UNCHANGED <<flags, off, app, wp>>
  BY DEF CallWakes, CallReadsSet, CallWritesSet, CallEnds
<1>3. (TooSoon(s)' => TooSoon(s)) /\ Target(s)' = Target(s)
  BY <1>1, <1>2, TooSoonKept
<1>4. CASE CallWakes(s)
  <2>1. pc[s] = "signalled" /\ pc' = [pc EXCEPT ![s] = "clear"] /\ UNCHANGED <<copy, early>>
    BY <1>4 DEF CallWakes
  <2>2. pc' \in [Sessions -> PcSet] /\ pc'[s] = "clear"
    BY <2>1 DEF PcSet
  <2> QED BY <1>1, <1>2, <1>3, <2>1, <2>2 DEF PaceOK, OffsetsOK, WaitOK, CallOK, NotBeforeTime
<1>5. CASE CallReadsSet(s)
  <2>1. pc[s] \in {"set", "clear"} /\ UNCHANGED <<pc, early>>
    BY <1>5 DEF CallReadsSet
  <2> QED BY <1>1, <1>2, <1>3, <2>1 DEF PaceOK, OffsetsOK, WaitOK, CallOK, NotBeforeTime
<1>6. CASE CallWritesSet(s)
  <2>1. /\ copy[s] # Idle /\ pc' = [pc EXCEPT ![s] = "done"] /\ copy'[s] = Idle
        /\ early' = early
    BY <1>6 DEF CallWritesSet
  <2>2. pc' \in [Sessions -> PcSet] /\ pc'[s] = "done"
    BY <2>1 DEF PcSet
  <2>3. pc[s] \in {"set", "clear"}
    BY <2>1 DEF PaceOK, CallOK
  <2> QED BY <1>1, <1>2, <1>3, <2>1, <2>2, <2>3 DEF PaceOK, OffsetsOK, WaitOK, CallOK, NotBeforeTime
<1>7. CASE CallEnds(s)
  <2>1. /\ pc[s] = "done" /\ pc' = [pc EXCEPT ![s] = "out"] /\ copy' = copy
        /\ early' = (early \/ (flags[s].blocking /\ TooSoon(s)))
    BY <1>7 DEF CallEnds
  <2>2. pc' \in [Sessions -> PcSet] /\ pc'[s] = "out"
    BY <2>1 DEF PcSet
  <2>3. ~(flags[s].blocking /\ TooSoon(s)) /\ copy[s] = Idle
    BY <2>1 DEF PaceOK, WaitOK, CallOK
  <2>4. NotBeforeTime'
    BY <2>1, <2>3 DEF NotBeforeTime
  <2> QED BY <1>1, <1>2, <1>3, <2>1, <2>2, <2>3, <2>4 DEF PaceOK, OffsetsOK, WaitOK, CallOK
<1> QED BY <1>4, <1>5, <1>6, <1>7

(* Every step keeps the pace. *)
LEMMA StepPace ==
  ASSUME PaceIInv, InRange, SchedIInv', SchedulerNext
  PROVE  pc' \in [Sessions -> PcSet] /\ NotBeforeTime' /\ \A s \in Sessions : PaceOK(s)'
<1>1. SchedIInv /\ ClockOK /\ pc \in [Sessions -> PcSet] /\ NotBeforeTime /\ \A s \in Sessions : PaceOK(s)
  BY DEF PaceIInv
<1>2. CASE \/ ortp_scheduler_init \/ ThreadStarts \/ PassBegins \/ PassEnds \/ TimerDo \/ ortp_exit
           \/ ThreadLeaves \/ SelectBegins \/ SelectReads \/ SelectWrites
  BY <1>1, <1>2, PaceScheduler DEF NotBeforeTime
<1>3. CASE ProcessChecks \/ ProcessWakes
  BY <1>1, <1>3, PaceProcess DEF NotBeforeTime
<1>4. CASE \E s \in Sessions : SessionStep(s)
  <2>1. PICK s \in Sessions : SessionStep(s)
    BY <1>4
  <2>2. UNCHANGED <<sched, ticks, todo, schedCopy>> /\ \A x \in Sessions \ {s} : PaceOK(x)'
    BY <2>1, PaceOthers
  <2>3. Local(s)
    BY <1>1, <2>2 DEF Local, SchedIInv, StreamOK, BitsOK, ListOK
  <2>4. CASE \/ rtp_session_new(s) \/ set_scheduling_mode(s) \/ unset_scheduling_mode(s)
             \/ set_blocking_mode(s) \/ rtp_session_destroy(s) \/ rtp_session_reset(s)
    BY <1>1, <2>2, <2>3, <2>4, PaceOperation DEF NotBeforeTime
  <2>5. CASE CallBegins(s) \/ CallDecides(s)
    BY <1>1, <2>2, <2>3, <2>5, PaceBegins DEF NotBeforeTime
  <2>6. CASE CallWakes(s) \/ CallReadsSet(s) \/ CallWritesSet(s) \/ CallEnds(s)
    BY <2>2, <2>3, <2>6, PaceEnds
  <2> QED BY <2>1, <2>4, <2>5, <2>6 DEF SessionStep
<1> QED BY <1>2, <1>3, <1>4 DEF SchedulerNext, SessionStep

(* In blocking mode no packet leaves, and no call returns, before its      *)
(* timestamp says, although time_ and the timestamps wrap: the offsets,    *)
(* packet_time, the comparisons of rtp.h and the wait points agree with a  *)
(* clock that does not wrap, while the streams stay in the range in which  *)
(* the comparisons mean something (rtp_session_sendm_with_ts,              *)
(* rtp_session_recvm_with_ts, wait_point_check).                           *)
THEOREM PaceInvariant ==
  ASSUME ~LateDestroy PROVE SchedulerSpec /\ []InRange => []NotBeforeTime
<1>1. SchedulerInit => PaceIInv
  <2> SUFFICES ASSUME SchedulerInit PROVE PaceIInv
    OBVIOUS
  <2>1. SchedIInv
    BY SchedStart
  <2>2. ClockOK /\ pc \in [Sessions -> PcSet] /\ NotBeforeTime
    BY DEF SchedulerInit, ClockOK, Started, PcSet, NotBeforeTime
  <2>3. ASSUME NEW s \in Sessions PROVE PaceOK(s)
    <3>1. /\ pc[s] = "out" /\ copy[s] = Idle /\ flags[s] = NoSession /\ app[s] = NoCall
          /\ ticks = 0 /\ sched = "none"
      BY DEF SchedulerInit
    <3>2. NoSession.notStarted /\ ~NoSession.alive /\ ~NoSession.scheduled
      BY DEF NoSession
    <3>3. NoCall.at0 = 0 /\ NoCall.ts0 = 0 /\ NoCall.ts \in Nat
      BY SchedulerConstants DEF NoCall
    <3> QED BY <3>1, <3>2, <3>3 DEF PaceOK, OffsetsOK, WaitOK, CallOK
  <2> QED BY <2>1, <2>2, <2>3 DEF PaceIInv
<1>2. PaceIInv /\ InRange /\ [SchedulerNext]_schedulerVars => PaceIInv'
  <2> SUFFICES ASSUME PaceIInv, InRange, [SchedulerNext]_schedulerVars PROVE PaceIInv'
    OBVIOUS
  <2>1. SchedIInv /\ SchedIInv'
    BY SchedStep DEF PaceIInv
  <2>2. CASE SchedulerNext
    <3>1. ClockOK'
      BY <2>2, StepClock DEF PaceIInv
    <3> QED BY <2>1, <2>2, <3>1, StepPace DEF PaceIInv
  <2>3. CASE UNCHANGED schedulerVars
    <3>1. UNCHANGED <<sched, running, time, ticks, todo, schedCopy, flags, wp, off, pc, app, copy, early>>
      BY <2>3 DEF schedulerVars, schedVars, sessVars
    <3>2. ClockOK' /\ pc' \in [Sessions -> PcSet] /\ NotBeforeTime'
      BY <3>1 DEF PaceIInv, ClockOK, Started, Clock, NotBeforeTime
    <3>3. ticks \in Nat /\ (Started => Started')
      BY <2>1, <3>1, SchedulerConstants DEF SchedIInv, TimeOK, Started
    <3>4. ASSUME NEW s \in Sessions PROVE PaceOK(s)'
      BY <2>1, <3>1, <3>3, PaceKept DEF PaceIInv
    <3> QED BY <2>1, <3>2, <3>4 DEF PaceIInv
  <2> QED BY <2>2, <2>3
<1>3. PaceIInv => NotBeforeTime
  BY DEF PaceIInv
<1> QED BY <1>1, <1>2, <1>3, PTL DEF SchedulerSpec
=============================================================================
