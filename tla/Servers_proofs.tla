--------------------------- MODULE Servers_proofs ---------------------------
(***************************************************************************)
(* The control port (network/src/server.c, serverIf.c) and the serial port *)
(* server (uart/src), for any number of connections and of slots.          *)
(***************************************************************************)
EXTENDS TcpServer, UartServer, FiniteSetTheorems, TLAPS

-----------------------------------------------------------------------------
(* The listener, the alarm thread, the service threads and main's cleaning *)
(* of the control port.                                                    *)
TcpPlaces ==
  /\ quit \in BOOLEAN
  /\ tcpMain \in {"run", "clean", "join", "join_listener", "done", "crashed"}
  /\ listener \in {"top", "accept", "fill", "count", "create", "exit"}
  /\ service \in [Slots -> {"none", "failed", "top", "recv", "leave", "exited"}]
  /\ conn \in [TcpConns -> {"new", "open", "left", "closed"}]

Accepted == {"open", "left", "closed"}
Taken == {c \in TcpConns : conn[c] \in Accepted}

(* As many connections were accepted as slots are counted, and the one the *)
(* listener is at: with no more connections than slots, the slot it fills  *)
(* exists.                                                                 *)
TcpCounted == Cardinality(Taken) =
                m_clientCount + (IF listener \in {"fill", "count"} THEN 1 ELSE 0)

(* Every counted slot holds a connection that was accepted. *)
TcpFilled ==
  /\ \A i \in Slots : i < m_clientCount => m_Client[i].sock \in Taken
  /\ listener \in {"fill", "count"} => accepted \in Taken
  /\ listener = "count" => m_Client[m_clientCount].sock = accepted

(* What main has done: nothing before stop_all_threads, and the alarm      *)
(* thread is gone after it.                                                *)
TcpMainOK ==
  /\ tcpMain = "run" => clean = 0 /\ \A c \in TcpConns : conn[c] # "closed"
  /\ tcpMain # "run" => quit
  /\ tcpMain = "join" => clean < m_clientCount
  /\ listener = "create" => m_clientCount > 0
  /\ alarm # NoSlot => tcpMain = "run" /\ alarm < m_clientCount

(* A slot main is done with has no thread that runs, unless it is the last *)
(* slot, whose thread the listener created after main looked; the listener *)
(* takes no connection after that.                                         *)
TcpJoined ==
  \A i \in Slots : i < clean \/ tcpMain \in {"join_listener", "done"} =>
    \/ service[i] \in {"none", "failed", "exited"}
    \/ i = m_clientCount - 1 /\ listener \in {"top", "exit"}

TcpIInv == TcpTypeOK /\ TcpPlaces /\ TcpCounted /\ TcpFilled /\ TcpMainOK /\ TcpJoined

(* The accepted connections are finitely many, and leave room for the slot *)
(* the listener is about to fill or to count.                              *)
LEMMA TcpRoom ==
  ASSUME TcpIInv
  PROVE  /\ IsFiniteSet(Taken)
         /\ listener \in {"fill", "count"} => m_clientCount \in Slots
<1>1. IsFiniteSet(Taken) /\ Cardinality(Taken) <= Cardinality(TcpConns)
  BY TcpAssumption, FS_Subset DEF Taken
<1>2. Cardinality(Taken) \in Nat /\ Cardinality(TcpConns) \in Nat
  BY <1>1, TcpAssumption, FS_CardinalityType
<1> QED
  BY <1>1, <1>2, TcpAssumption DEF TcpIInv, TcpCounted, TcpTypeOK, Slots

(* A step that leaves the accepted connections accepted, the listener on   *)
(* its side of the count and the count alone keeps the count right.        *)
LEMMA TcpSameCount ==
  ASSUME TcpIInv, Taken' = Taken, m_clientCount' = m_clientCount,
         listener' \in {"fill", "count"} <=> listener \in {"fill", "count"}
  PROVE  TcpCounted'
BY DEF TcpIInv, TcpCounted

(* Clients that leave. *)
LEMMA TcpClients ==
  ASSUME TcpIInv, NEW c \in TcpConns, tcpLeave(c)
  PROVE  TcpIInv'
<1>1. Taken' = Taken
  BY DEF tcpLeave, TcpIInv, TcpPlaces, Taken, Accepted
<1>2. TcpCounted'
  BY <1>1, TcpSameCount DEF tcpLeave
<1>3. TcpTypeOK' /\ TcpPlaces' /\ TcpJoined'
  BY DEF tcpLeave, TcpIInv, TcpTypeOK, TcpPlaces, TcpJoined
<1>4. TcpFilled'
  BY <1>1 DEF tcpLeave, TcpIInv, TcpFilled
<1>5. TcpMainOK'
  BY DEF tcpLeave, TcpIInv, TcpMainOK, TcpPlaces
<1> QED
  BY <1>2, <1>3, <1>4, <1>5 DEF TcpIInv

(* The listener: a slot, its number and its thread, one after the other. *)
LEMMA TcpListener ==
  ASSUME TcpIInv, listenStep
  PROVE  TcpIInv'
<1>a. CLIENTNUM \in Nat /\ NoConn \notin TcpConns
  BY TcpAssumption
<1>1. CASE listenTop
  <2>1. Taken' = Taken /\ TcpCounted'
    BY <1>1, TcpSameCount DEF listenTop, Taken
  <2>2. TcpTypeOK' /\ TcpPlaces'
    BY <1>1 DEF listenTop, TcpIInv, TcpTypeOK, TcpPlaces
  <2>3. TcpFilled' /\ TcpMainOK'
    BY <1>1, <2>1 DEF listenTop, TcpIInv, TcpFilled, TcpMainOK
  <2>4. TcpJoined'
    BY <1>1 DEF listenTop, TcpIInv, TcpJoined, TcpMainOK, gblGetQuit, TcpTypeOK, Slots
  <2> QED
    BY <2>1, <2>2, <2>3, <2>4 DEF TcpIInv
<1>2. CASE listenAccept
  <2>1. CASE listener' = "exit" /\ UNCHANGED <<accepted, conn>>
    <3>1. Taken' = Taken /\ TcpCounted'
      BY <1>2, <2>1, TcpSameCount DEF listenAccept, Taken
    <3> QED
      BY <1>2, <2>1, <3>1
      DEF listenAccept, TcpIInv, TcpTypeOK, TcpPlaces, TcpFilled, TcpMainOK, TcpJoined
  <2>2. CASE listener' = "fill"
    <3>1. PICK c \in TcpConns : /\ conn[c] = "new"
                                /\ conn' = [conn EXCEPT ![c] = "open"]
                                /\ accepted' = c /\ listener' = "fill"
      BY <1>2, <2>2 DEF listenAccept, Coming
    <3>2. Taken' = Taken \cup {c} /\ c \notin Taken
      BY <3>1 DEF TcpIInv, TcpPlaces, Taken, Accepted
    <3>3. Cardinality(Taken') = Cardinality(Taken) + 1
      BY <3>2, TcpRoom, FS_AddElement
    <3>4. TcpCounted'
      BY <1>2, <3>1, <3>3 DEF listenAccept, TcpIInv, TcpCounted, TcpTypeOK
    <3>5. TcpTypeOK' /\ TcpPlaces'
      BY <1>2, <3>1 DEF listenAccept, TcpIInv, TcpTypeOK, TcpPlaces
    <3>6. TcpFilled' /\ TcpMainOK' /\ TcpJoined'
      BY <1>2, <3>1, <3>2
      DEF listenAccept, TcpIInv, TcpTypeOK, TcpPlaces, TcpFilled, TcpMainOK, TcpJoined
    <3> QED
      BY <3>4, <3>5, <3>6 DEF TcpIInv
  <2> QED
    BY <1>2, <2>1, <2>2 DEF listenAccept
<1>3. CASE listenFill
  <2>1. m_clientCount \in Slots /\ Taken' = Taken
    BY <1>3, TcpRoom DEF listenFill, Taken
  <2>2. CASE listener = "fill"
    <3>1. TcpCounted'
      BY <1>3, <2>1, <2>2, TcpSameCount DEF listenFill
    <3>a. [sock |-> accepted, live |-> TRUE] \in [sock : TcpConns \cup {NoConn}, live : BOOLEAN]
      BY DEF TcpIInv, TcpTypeOK
    <3>b. /\ m_Client' \in [Slots -> [sock : TcpConns \cup {NoConn}, live : BOOLEAN]]
          /\ m_Client'[m_clientCount].sock = accepted
          /\ \A i \in Slots : i # m_clientCount => m_Client'[i] = m_Client[i]
      <4> DEFINE r == [sock |-> accepted, live |-> TRUE]
      <4>1. m_Client' = [m_Client EXCEPT ![m_clientCount] = r] /\ r.sock = accepted
        BY <1>3, <2>2 DEF listenFill
      <4>2. r \in [sock : TcpConns \cup {NoConn}, live : BOOLEAN]
        BY <3>a
      <4> HIDE DEF r
      <4> QED
        BY <2>1, <4>1, <4>2 DEF TcpIInv, TcpTypeOK
    <3>c. UNCHANGED <<quit, tcpMain, clean, accepted, m_clientCount, service, conn, alarm>>
      BY <1>3, <2>2 DEF listenFill
    <3>d. listener' = "count"
      BY <1>3, <2>2 DEF listenFill
    <3>2. TcpTypeOK' /\ TcpPlaces'
      BY <3>b, <3>c, <3>d DEF TcpIInv, TcpTypeOK, TcpPlaces
    <3>3. TcpFilled' /\ TcpMainOK'
      BY <2>1, <2>2, <3>b, <3>c, <3>d DEF TcpIInv, TcpTypeOK, TcpFilled, TcpMainOK, Slots
    <3>4. TcpJoined'
      BY <1>3, <2>1, <2>2 DEF listenFill, TcpIInv, TcpJoined
    <3> QED
      BY <3>1, <3>2, <3>3, <3>4 DEF TcpIInv
  <2>3. CASE listener = "count"
    <3>1. TcpCounted'
      BY <1>3, <2>1, <2>3 DEF listenFill, TcpIInv, TcpCounted, TcpTypeOK
    <3>2. TcpTypeOK' /\ TcpPlaces'
      BY <1>a, <1>3, <2>1, <2>3 DEF listenFill, TcpIInv, TcpTypeOK, TcpPlaces, Slots
    <3>3. TcpFilled' /\ TcpMainOK'
      BY <1>a, <1>3, <2>1, <2>3
      DEF listenFill, TcpIInv, TcpTypeOK, TcpFilled, TcpMainOK, Slots, NoSlot
    <3>4. TcpJoined'
      BY <1>3, <2>1, <2>3 DEF listenFill, TcpIInv, TcpJoined
    <3> QED
      BY <3>1, <3>2, <3>3, <3>4 DEF TcpIInv
  <2> QED
    BY <1>3, <2>2, <2>3 DEF listenFill
<1>4. CASE add_new_tcp_process_thr
  <2>1. Taken' = Taken /\ TcpCounted'
    BY <1>4, TcpSameCount DEF add_new_tcp_process_thr, Taken
  <2>2. NewSlot \in Slots /\ NewSlot < m_clientCount
    BY <1>a, <1>4 DEF add_new_tcp_process_thr, NewSlot, TcpIInv, TcpMainOK, TcpTypeOK, Slots
  <2>3. TcpTypeOK' /\ TcpPlaces'
    <3>1. \A i \in Slots : i >= m_clientCount => i # NewSlot
      BY <2>2 DEF TcpIInv, TcpTypeOK, Slots
    <3> QED
      BY <1>4, <2>2, <3>1 DEF add_new_tcp_process_thr, TcpIInv, TcpTypeOK, TcpPlaces
  <2>4. TcpFilled' /\ TcpMainOK'
    BY <1>4, <2>1 DEF add_new_tcp_process_thr, TcpIInv, TcpFilled, TcpMainOK
  <2>5. TcpJoined'
    BY <1>4, <2>2 DEF add_new_tcp_process_thr, TcpIInv, TcpJoined, TcpPlaces, NewSlot
  <2> QED
    BY <2>1, <2>3, <2>4, <2>5 DEF TcpIInv
<1> QED
  BY <1>1, <1>2, <1>3, <1>4 DEF listenStep

(* A service thread only moves itself, and leaves the socket in its slot. *)
LEMMA TcpService ==
  ASSUME TcpIInv, NEW i \in Slots, serviceStep(i)
  PROVE  TcpIInv'
<1>1. /\ UNCHANGED <<quit, tcpMain, clean, listener, accepted, m_clientCount, conn, alarm>>
      /\ \E l \in {"top", "recv", "leave", "exited"} : service' = [service EXCEPT ![i] = l]
      /\ service[i] \in {"top", "recv", "leave"}
  BY DEF serviceStep, serviceTop, serviceRecv, serviceLeave
<1>2. m_Client' = m_Client \/ m_Client' = [m_Client EXCEPT ![i].live = FALSE]
  BY DEF serviceStep, serviceTop, serviceRecv, serviceLeave
<1>3. /\ m_Client' \in [Slots -> [sock : TcpConns \cup {NoConn}, live : BOOLEAN]]
      /\ \A j \in Slots : m_Client'[j].sock = m_Client[j].sock
  BY <1>2, ZenonT(30) DEF TcpIInv, TcpTypeOK
<1>4. Taken' = Taken /\ TcpCounted'
  BY <1>1, TcpSameCount DEF Taken
<1>5. TcpTypeOK' /\ TcpPlaces'
  <2>1. \A j \in Slots : j >= m_clientCount => j # i
    BY <1>1 DEF TcpIInv, TcpTypeOK
  <2>2. \A j \in Slots : j # i => service'[j] = service[j]
    BY <1>1 DEF TcpIInv, TcpPlaces
  <2>3. service' \in [Slots -> {"none", "failed", "top", "recv", "leave", "exited"}]
    BY <1>1 DEF TcpIInv, TcpPlaces
  <2> QED
    BY <1>1, <1>3, <2>1, <2>2, <2>3 DEF TcpIInv, TcpTypeOK, TcpPlaces
<1>6. TcpFilled' /\ TcpMainOK'
  BY <1>1, <1>3, <1>4, TcpRoom DEF TcpIInv, TcpFilled, TcpMainOK
<1>7. TcpJoined'
  BY <1>1 DEF TcpIInv, TcpJoined, TcpPlaces
<1> QED
  BY <1>4, <1>5, <1>6, <1>7 DEF TcpIInv

(* The alarm thread stays below the count, and main ends it. *)
LEMMA TcpAlarm ==
  ASSUME TcpIInv, alarmRound \/ alarmSend \/ stop_all_threads
  PROVE  TcpIInv'
<1>1. Taken' = Taken /\ TcpCounted'
  BY TcpSameCount DEF alarmRound, alarmSend, stop_all_threads, Taken
<1>2. TcpTypeOK' /\ TcpPlaces'
  <2>1. alarm' \in 0 .. CLIENTNUM
    BY TcpAssumption DEF alarmRound, alarmSend, stop_all_threads, TcpIInv, TcpTypeOK, NoSlot
  <2>2. UNCHANGED <<clean, listener, accepted, m_clientCount, m_Client, service, conn>>
    BY DEF alarmRound, alarmSend, stop_all_threads
  <2>3. quit' \in BOOLEAN /\ tcpMain' \in {"run", "clean", "join", "join_listener", "done", "crashed"}
    BY DEF alarmRound, alarmSend, stop_all_threads, TcpIInv, TcpPlaces
  <2> QED
    BY <2>1, <2>2, <2>3 DEF TcpIInv, TcpTypeOK, TcpPlaces
<1>3. TcpFilled'
  BY <1>1 DEF alarmRound, alarmSend, stop_all_threads, TcpIInv, TcpFilled
<1>4. TcpMainOK' /\ TcpJoined'
  BY TcpAssumption
  DEF alarmRound, alarmSend, stop_all_threads, TcpIInv, TcpTypeOK, TcpMainOK, TcpJoined, NoSlot
<1> QED
  BY <1>1, <1>2, <1>3, <1>4 DEF TcpIInv

(* clean_tcp_listen_thread. *)
LEMMA TcpClean ==
  ASSUME TcpIInv, cleanStep
  PROVE  TcpIInv'
<1>a. CLIENTNUM \in Nat
  BY TcpAssumption
<1>1. CASE cleanClose
  <2>1. CASE clean < m_clientCount
    <3>1. clean \in Slots /\ m_Client[clean].sock \in Taken
      BY <1>a, <2>1 DEF TcpIInv, TcpFilled, TcpTypeOK, Slots
    <3>2. Taken' = Taken
      BY <1>1, <2>1, <3>1 DEF cleanClose, TcpIInv, TcpPlaces, Taken, Accepted
    <3>3. TcpCounted'
      BY <1>1, <3>2, TcpSameCount DEF cleanClose
    <3>4. TcpTypeOK' /\ TcpPlaces' /\ TcpJoined'
      BY <1>1, <2>1, <3>1 DEF cleanClose, TcpIInv, TcpTypeOK, TcpPlaces, TcpJoined, Taken
    <3>5. TcpFilled' /\ TcpMainOK'
      BY <1>1, <2>1, <3>2 DEF cleanClose, TcpIInv, TcpFilled, TcpMainOK
    <3> QED
      BY <3>3, <3>4, <3>5 DEF TcpIInv
  <2>2. CASE ~(clean < m_clientCount)
    <3>1. Taken' = Taken /\ TcpCounted'
      BY <1>1, <2>2, TcpSameCount DEF cleanClose, Taken
    <3>2. TcpTypeOK' /\ TcpPlaces'
      BY <1>1, <2>2 DEF cleanClose, TcpIInv, TcpTypeOK, TcpPlaces
    <3>3. TcpFilled' /\ TcpMainOK'
      BY <1>1, <2>2, <3>1 DEF cleanClose, TcpIInv, TcpFilled, TcpMainOK
    <3>4. TcpJoined'
      BY <1>a, <1>1, <2>2 DEF cleanClose, TcpIInv, TcpJoined, TcpTypeOK, Slots
    <3> QED
      BY <3>1, <3>2, <3>3, <3>4 DEF TcpIInv
  <2> QED
    BY <2>1, <2>2
<1>2. CASE cleanJoin
  <2>1. Taken' = Taken /\ TcpCounted'
    BY <1>2, TcpSameCount DEF cleanJoin, Taken
  <2>2. TcpTypeOK' /\ TcpPlaces'
    BY <1>a, <1>2 DEF cleanJoin, JoinsNoThread, TcpIInv, TcpTypeOK, TcpPlaces, TcpMainOK
  <2>3. TcpFilled' /\ TcpMainOK'
    BY <1>2, <2>1 DEF cleanJoin, JoinsNoThread, TcpIInv, TcpFilled, TcpMainOK
  <2>4. TcpJoined'
    BY <1>a, <1>2 DEF cleanJoin, JoinsNoThread, TcpIInv, TcpJoined, TcpTypeOK, Slots
  <2> QED
    BY <2>1, <2>2, <2>3, <2>4 DEF TcpIInv
<1>3. CASE cleanListener
  <2>1. Taken' = Taken /\ TcpCounted'
    BY <1>3, TcpSameCount DEF cleanListener, Taken
  <2> QED
    BY <1>3, <2>1
    DEF cleanListener, TcpIInv, TcpTypeOK, TcpPlaces, TcpFilled, TcpMainOK, TcpJoined
<1> QED
  BY <1>1, <1>2, <1>3 DEF cleanStep

(* The three promises of the control port follow. *)
LEMMA TcpPromises == ASSUME TcpIInv PROVE TcpInv
<1>1. AlarmOnOpenSockets
  BY TcpAssumption
  DEF AlarmOnOpenSockets, TcpIInv, TcpFilled, TcpMainOK, TcpTypeOK, TcpPlaces, Taken, Accepted,
      Slots, NoSlot
<1>2. ASSUME tcpMain = "done"
      PROVE  Cardinality(Served) <= 1
  <2>1. Served \subseteq {m_clientCount - 1}
    BY <1>2 DEF TcpIInv, TcpJoined, Served
  <2>2. IsFiniteSet({m_clientCount - 1}) /\ Cardinality({m_clientCount - 1}) = 1
    BY FS_Singleton
  <2>3. Cardinality(Served) <= Cardinality({m_clientCount - 1})
    BY <2>1, <2>2, FS_Subset
  <2> QED
    BY <2>2, <2>3
<1> QED
  BY <1>1, <1>2 DEF TcpInv, OneLateConnection, TcpIInv

(* With no more connections than CLIENTNUM in the life of the process, the *)
(* slot the listener fills exists, the alarm thread, which takes no lock,  *)
(* meets only filled slots and open sockets, and clean_tcp_listen_thread   *)
(* leaves at most one service thread behind.                               *)
THEOREM TcpInvariant == tcpSpec => []TcpInv
<1>1. tcpInit => TcpIInv
  <2> SUFFICES ASSUME tcpInit PROVE TcpIInv
    OBVIOUS
  <2>1. Taken = {}
    BY DEF tcpInit, Taken, Accepted
  <2>2. TcpCounted
    BY <2>1, FS_EmptySet DEF tcpInit, TcpCounted
  <2>3. TcpTypeOK
    <3>1. [sock |-> NoConn, live |-> FALSE] \in [sock : TcpConns \cup {NoConn}, live : BOOLEAN]
      OBVIOUS
    <3> QED
      BY <3>1, TcpAssumption DEF tcpInit, TcpTypeOK, NoSlot
  <2>4. TcpPlaces /\ TcpMainOK /\ TcpJoined
    BY TcpAssumption DEF tcpInit, TcpPlaces, TcpMainOK, TcpJoined, NoSlot
  <2>5. TcpFilled
    BY TcpAssumption DEF tcpInit, TcpFilled, Slots
  <2> QED
    BY <2>2, <2>3, <2>4, <2>5 DEF TcpIInv
<1>2. TcpIInv /\ [tcpNext]_tcpVars => TcpIInv'
  <2> SUFFICES ASSUME TcpIInv, [tcpNext]_tcpVars PROVE TcpIInv'
    OBVIOUS
  <2>1. CASE tcpNext
    BY <2>1, TcpClients, TcpListener, TcpService, TcpAlarm, TcpClean DEF tcpNext
  <2>2. CASE UNCHANGED tcpVars
    <3>1. Taken' = Taken /\ TcpCounted'
      BY <2>2, TcpSameCount DEF tcpVars, Taken
    <3> QED
      BY <2>2, <3>1
      DEF tcpVars, TcpIInv, TcpTypeOK, TcpPlaces, TcpFilled, TcpMainOK, TcpJoined
  <2> QED
    BY <2>1, <2>2
<1>3. TcpIInv => TcpInv
  BY TcpPromises
<1> QED
  BY <1>1, <1>2, <1>3, PTL DEF tcpSpec

-----------------------------------------------------------------------------
(* The serial port server. *)
PeerStates == {"new", "open", "left", "closed", "shut"}
UartPlaces == {"none", "start", "header", "asleep", "close", "set", "ptz", "speed", "format",
               "write", "free", "exited"}
UartSocks == UartConns \cup {NoSock}

UartTypeOK ==
  /\ uartMain \in {"run", "look", "shut", "join", "join_listener", "done", "crashed"}
  /\ uartListener \in {"accept", "search", "create", "exit"}
  /\ clientNo \in UartSlots /\ newSock \in UartSocks
  /\ sock \in [UartSlots -> UartSocks]
  /\ uartThr \in [UartConns -> [at : UartPlaces, no : UartSlots, fd : UartSocks]]
  /\ peer \in [UartConns -> PeerStates] /\ misread \in BOOLEAN

(* Who uses the serial port has the mutex. *)
UartLocked == \A t \in UartConns : uartThr[t].at \in {"speed", "format", "write"} => mutex = t

(* A thread exists for an accepted connection only, and so does what the   *)
(* listener holds.                                                         *)
UartAccepted ==
  /\ \A t \in UartConns : uartThr[t].at # "none" => peer[t] # "new"
  /\ uartListener \in {"search", "create"} =>
       /\ newSock \in UartConns /\ peer[newSock] # "new"
       /\ uartThr[newSock].at = "none"

(* Slots and connections until the server stops, if no thread has misread  *)
(* its number: a running thread has the number and the socket of its slot; *)
(* whatever is in a slot is of a thread that has yet to read its number or *)
(* that runs, or is in the listener's hands; and no connection has two     *)
(* slots.                                                                  *)
UartOwned ==
  /\ \A t \in UartConns : Serving(t) => uartThr[t].fd = t /\ sock[uartThr[t].no] = t
  /\ \A i \in UartSlots : sock[i] # NoSock =>
       \/ uartThr[sock[i]].at = "start"
       \/ Serving(sock[i]) /\ uartThr[sock[i]].no = i
       \/ uartListener \in {"create", "exit"} /\ newSock = sock[i]
  /\ \A i, j \in UartSlots : sock[i] # NoSock /\ sock[i] = sock[j] => i = j

UartIInv == UartTypeOK /\ UartLocked /\ UartAccepted /\ (uartMain = "run" /\ ~misread => UartOwned)

(* What Place does to the record of a thread. *)
LEMMA UartPlace ==
  ASSUME UartTypeOK, NEW t \in UartConns, NEW l \in UartPlaces, Place(t, l)
  PROVE  /\ uartThr' \in [UartConns -> [at : UartPlaces, no : UartSlots, fd : UartSocks]]
         /\ uartThr'[t].at = l /\ uartThr'[t].no = uartThr[t].no /\ uartThr'[t].fd = uartThr[t].fd
         /\ \A u \in UartConns : u # t => uartThr'[u] = uartThr[u]
BY DEF UartTypeOK, Place

(* A serving thread that goes on serving disturbs nothing but the mutex,   *)
(* even when it closes the connection.                                     *)
LEMMA UartMoves ==
  ASSUME UartIInv, NEW t \in UartConns, Serving(t),
         NEW l \in UartPlaces \ {"none", "start", "exited"}, Place(t, l),
         UNCHANGED <<mainVars, listVars, sock, misread>>,
         peer' = peer \/ \E c \in UartConns : peer' = [peer EXCEPT ![c] = "closed"],
         UartLocked'
  PROVE  UartIInv'
<1>1. /\ uartThr' \in [UartConns -> [at : UartPlaces, no : UartSlots, fd : UartSocks]]
      /\ uartThr'[t].at = l /\ uartThr'[t].no = uartThr[t].no /\ uartThr'[t].fd = uartThr[t].fd
      /\ \A u \in UartConns : u # t => uartThr'[u] = uartThr[u]
  BY UartPlace DEF UartIInv
<1>2. /\ peer' \in [UartConns -> PeerStates]
      /\ \A u \in UartConns : peer[u] # "new" => peer'[u] # "new"
  BY DEF UartIInv, UartTypeOK, PeerStates
<1>3. UartTypeOK'
  BY <1>1, <1>2 DEF UartIInv, UartTypeOK, mainVars, listVars
<1>4. UartAccepted'
  BY <1>1, <1>2 DEF UartIInv, UartAccepted, Serving, mainVars, listVars
<1>5. ASSUME uartMain' = "run", ~misread' PROVE UartOwned'
  <2>1. UartOwned /\ (\A u \in UartConns : Serving(u)' <=> Serving(u))
    BY <1>1, <1>5 DEF UartIInv, Serving, mainVars
  <2>2. \A u \in UartConns : /\ uartThr'[u].no = uartThr[u].no /\ uartThr'[u].fd = uartThr[u].fd
                             /\ uartThr'[u].at = "start" <=> uartThr[u].at = "start"
    BY <1>1 DEF Serving
  <2>3. \A i \in UartSlots : sock[i] # NoSock => sock[i] \in UartConns
    BY DEF UartIInv, UartTypeOK, UartSocks
  <2> QED
    BY <2>1, <2>2, <2>3, <1>3 DEF UartOwned, listVars, UartTypeOK
<1> QED
  BY <1>3, <1>4, <1>5 DEF UartIInv

(* A service thread between its start and its end. *)
LEMMA UartService ==
  ASSUME UartIInv, NEW t \in UartConns,
         \/ uartRecv(t) \/ uartGet(t) \/ uartGone(t) \/ uartLock(t) \/ set_serial_speed(t)
         \/ set_serial_parity(t) \/ send_serial_data(t)
  PROVE  UartIInv'
<1> USE DEF UartPlaces
<1>t. UartTypeOK /\ UartLocked
  BY DEF UartIInv
<1>1. CASE uartRecv(t) \/ uartGet(t) \/ uartGone(t)
  <2>1. PICK l \in {"close", "asleep", "header", "set", "ptz"} : Place(t, l)
    BY <1>1 DEF uartRecv, uartGet, uartGone
  <2>2. Serving(t) /\ UNCHANGED <<mainVars, listVars, sock, peer, mutex, misread>>
    BY <1>1 DEF uartRecv, uartGet, uartGone, Serving
  <2>3. UartLocked'
    BY <1>t, <2>1, <2>2, UartPlace DEF UartLocked
  <2> QED
    BY <2>1, <2>2, <2>3, UartMoves
<1>2. CASE uartLock(t)
  <2>1. PICK l \in {"speed", "write"} : Place(t, l)
    BY <1>2 DEF uartLock
  <2>2. Serving(t) /\ UNCHANGED <<mainVars, listVars, sock, peer, misread>> /\ mutex = NoSock /\ mutex' = t
    BY <1>2 DEF uartLock, Serving, MutexFree
  <2>3. UartLocked'
    BY <1>t, <2>1, <2>2, UartPlace, UartAssumption DEF UartLocked
  <2> QED
    BY <2>1, <2>2, <2>3, UartMoves
<1>3. CASE set_serial_speed(t) /\ Place(t, "format") /\ UNCHANGED mutex
  <2>1. Serving(t) /\ UNCHANGED <<mainVars, listVars, sock, peer, misread>> /\ uartThr[t].at = "speed"
    BY <1>3 DEF set_serial_speed, Serving
  <2>2. UartLocked'
    BY <1>t, <1>3, <2>1, UartPlace DEF UartLocked
  <2> QED
    BY <1>3, <2>1, <2>2, UartMoves
<1>4. CASE /\ set_serial_speed(t) \/ set_serial_parity(t) \/ send_serial_data(t)
           /\ mutex' = NoSock
  <2>1. PICK l \in {"header", "close"} : Place(t, l)
    BY <1>t, <1>4, UartAssumption
    DEF set_serial_speed, set_serial_parity, send_serial_data, UartLocked
  <2>2. Serving(t) /\ UNCHANGED <<mainVars, listVars, sock, peer, misread>> /\ mutex \in {t, NoSock}
    BY <1>t, <1>4, UartAssumption
    DEF set_serial_speed, set_serial_parity, send_serial_data, Serving, UartLocked
  <2>3. UartLocked'
    BY <1>t, <2>1, <2>2, UartPlace, UartAssumption DEF UartLocked
  <2> QED
    BY <2>1, <2>2, <2>3, UartMoves
<1> QED
  BY <1>1, <1>2, <1>3, <1>4 DEF set_serial_speed, set_serial_parity, send_serial_data, Unlock

(* uartServiceThr reads clientNo: its own slot, unless it misreads. *)
LEMMA UartStart ==
  ASSUME UartIInv, NEW t \in UartConns, uartThrStart(t)
  PROVE  UartIInv'
<1> DEFINE r == [at |-> "header", no |-> clientNo, fd |-> sock[clientNo]]
<1>1. /\ r \in [at : UartPlaces, no : UartSlots, fd : UartSocks]
      /\ r.at = "header" /\ r.no = clientNo /\ r.fd = sock[clientNo]
  BY DEF UartIInv, UartTypeOK, UartPlaces
<1>2. uartThr' = [uartThr EXCEPT ![t] = r] /\ uartThr[t].at = "start"
  BY DEF uartThrStart
<1> HIDE DEF r
<1>3. /\ UNCHANGED <<uartMain, uartListener, clientNo, newSock, sock, peer, mutex>>
      /\ misread' = (misread \/ sock[clientNo] # t)
  BY DEF uartThrStart, mainVars, listVars
<1>m. misread' \in BOOLEAN
  BY <1>3
<1>4. UartTypeOK'
  BY <1>1, <1>2, <1>3, <1>m DEF UartIInv, UartTypeOK
<1>5. UartLocked'
  BY <1>1, <1>2, <1>3 DEF UartIInv, UartTypeOK, UartLocked
<1>6. UartAccepted'
  BY <1>1, <1>2, <1>3 DEF UartIInv, UartTypeOK, UartAccepted
<1>7. ASSUME uartMain' = "run", ~misread' PROVE UartOwned'
  <2>1. UartOwned /\ sock[clientNo] = t /\ clientNo \in UartSlots
    BY <1>3, <1>7 DEF UartIInv, UartTypeOK, uartThrStart
  <2>2. uartThr'[t] = r /\ \A u \in UartConns : u # t => uartThr'[u] = uartThr[u]
    BY <1>2 DEF UartIInv, UartTypeOK
  <2>3. \A u \in UartConns : Serving(u)' <=> Serving(u) \/ u = t
    BY <1>1, <1>2, <2>2 DEF Serving
  <2>4. \A i \in UartSlots : sock[i] # NoSock => sock[i] \in UartConns
    BY DEF UartIInv, UartTypeOK, UartSocks
  <2>5. \A u \in UartConns : Serving(u)' => uartThr'[u].fd = u /\ sock'[uartThr'[u].no] = u
    BY <1>1, <1>3, <2>1, <2>2, <2>3 DEF UartOwned
  <2>6. ASSUME NEW i \in UartSlots, sock[i] # NoSock
        PROVE  \/ uartThr'[sock[i]].at = "start"
               \/ uartThr'[sock[i]].at \notin {"none", "start", "exited"} /\ uartThr'[sock[i]].no = i
               \/ uartListener \in {"create", "exit"} /\ newSock = sock[i]
    <3>1. CASE sock[i] = t
      <4>1. clientNo = i
        BY <2>1, <2>6, <3>1 DEF UartOwned
      <4> QED
        BY <1>1, <2>2, <3>1, <4>1
    <3>2. CASE sock[i] # t
      BY <1>3, <2>1, <2>2, <2>4, <2>6, <3>2 DEF UartOwned, Serving
    <3> QED
      BY <3>1, <3>2
  <2> QED
    BY <1>3, <2>1, <2>5, <2>6 DEF UartOwned, Serving
<1> QED
  BY <1>4, <1>5, <1>6, <1>7 DEF UartIInv

(* The thread closes its socket, and then frees its slot. *)
LEMMA UartEnd ==
  ASSUME UartIInv, NEW t \in UartConns, uartThrEnd(t)
  PROVE  UartIInv'
<1>t. UartTypeOK /\ UartLocked
  BY DEF UartIInv
<1>1. CASE uartThr[t].at = "close"
  <2>1. Serving(t) /\ Place(t, "free") /\ UNCHANGED <<mainVars, listVars, sock, mutex, misread>>
    BY <1>1 DEF uartThrEnd, Serving
  <2>2. peer' = peer \/ \E c \in UartConns : peer' = [peer EXCEPT ![c] = "closed"]
    <3>1. sock[uartThr[t].no] \in UartSocks
      BY <1>t DEF UartTypeOK
    <3> QED
      BY <1>1, <3>1 DEF uartThrEnd, StateOf, UartSocks
  <2>3. UartLocked'
    BY <1>t, <2>1, UartPlace DEF UartLocked, UartPlaces
  <2> QED
    BY <2>1, <2>2, <2>3, UartMoves DEF UartPlaces
<1>2. CASE uartThr[t].at = "free"
  <2> DEFINE n == uartThr[t].no
  <2>1. /\ Place(t, "exited") /\ sock' = [sock EXCEPT ![n] = NoSock]
        /\ UNCHANGED <<uartMain, uartListener, clientNo, newSock, peer, mutex, misread>>
    BY <1>2 DEF uartThrEnd, mainVars, listVars
  <2>2. /\ uartThr' \in [UartConns -> [at : UartPlaces, no : UartSlots, fd : UartSocks]]
        /\ uartThr'[t].at = "exited"
        /\ \A u \in UartConns : u # t => uartThr'[u] = uartThr[u]
    BY <1>t, <2>1, UartPlace DEF UartPlaces
  <2>3. n \in UartSlots
    BY <1>t DEF UartTypeOK
  <2> HIDE DEF n
  <2>4. UartTypeOK' /\ UartLocked' /\ UartAccepted'
    BY <1>2, <2>1, <2>2, <2>3 DEF UartIInv, UartTypeOK, UartLocked, UartAccepted, UartSocks
  <2>5. ASSUME uartMain' = "run", ~misread' PROVE UartOwned'
    <3>1. UartOwned /\ Serving(t) /\ sock[n] = t
      BY <1>2, <2>1, <2>5 DEF UartIInv, UartOwned, Serving, n
    <3>2. \A u \in UartConns : Serving(u)' <=> Serving(u) /\ u # t
      BY <2>2 DEF Serving
    <3>3. \A i \in UartSlots : sock[i] # NoSock => sock[i] \in UartConns
      BY DEF UartIInv, UartTypeOK, UartSocks
    <3>4. \A i \in UartSlots : sock'[i] = IF i = n THEN NoSock ELSE sock[i]
      BY <1>t, <2>1, <2>3 DEF UartTypeOK
    <3>5. \A i \in UartSlots : sock[i] = t => i = n
      BY <2>3, <3>1, UartAssumption DEF UartOwned
    <3>6. ASSUME NEW u \in UartConns, Serving(u)' PROVE uartThr'[u].fd = u /\ sock'[uartThr'[u].no] = u
      <4>1. u # t /\ Serving(u) /\ uartThr'[u] = uartThr[u] /\ uartThr[u].no \in UartSlots
        BY <1>t, <2>2, <3>2, <3>6 DEF UartTypeOK
      <4>2. sock[uartThr[u].no] = u /\ uartThr[u].fd = u
        BY <3>1, <4>1 DEF UartOwned
      <4> QED
        BY <3>1, <3>4, <4>1, <4>2
    <3>7. ASSUME NEW i \in UartSlots, sock'[i] # NoSock
          PROVE  \/ uartThr'[sock'[i]].at = "start"
                 \/ Serving(sock[i])' /\ uartThr'[sock'[i]].no = i
                 \/ uartListener' \in {"create", "exit"} /\ newSock' = sock'[i]
      <4>1. sock'[i] = sock[i] /\ i # n /\ sock[i] \in UartConns /\ sock[i] # t
        BY <3>3, <3>4, <3>5, <3>7
      <4>2. uartThr'[sock[i]] = uartThr[sock[i]] /\ (Serving(sock[i])' <=> Serving(sock[i]))
        BY <2>2, <3>2, <4>1
      <4>3. Serving(sock[i])' <=> uartThr'[sock'[i]].at \notin {"none", "start", "exited"}
        BY DEF Serving
      <4> QED
        BY <2>1, <3>1, <3>7, <4>1, <4>2, <4>3 DEF UartOwned, Serving
    <3>8. ASSUME NEW i \in UartSlots, NEW j \in UartSlots, sock'[i] # NoSock, sock'[i] = sock'[j]
          PROVE  i = j
      BY <3>1, <3>4, <3>8 DEF UartOwned
    <3>9. \A i \in UartSlots : sock'[i] # NoSock => sock'[i] = sock[i]
      BY <3>4
    <3> QED
      BY <3>6, <3>7, <3>8, <3>9 DEF UartOwned
  <2> QED
    BY <2>4, <2>5 DEF UartIInv
<1> QED
  BY <1>1, <1>2 DEF uartThrEnd

(* Clients of the serial port that leave. *)
LEMMA UartClients ==
  ASSUME UartIInv, NEW c \in UartConns, uartLeave(c)
  PROVE  UartIInv'
<1>1. /\ UNCHANGED <<uartMain, uartListener, clientNo, newSock, sock, uartThr, mutex, misread>>
      /\ peer' \in [UartConns -> PeerStates]
      /\ \A u \in UartConns : peer[u] # "new" => peer'[u] # "new"
  BY DEF uartLeave, UartIInv, UartTypeOK, PeerStates, mainVars, listVars
<1>2. UartTypeOK' /\ UartLocked' /\ UartAccepted'
  BY <1>1 DEF UartIInv, UartTypeOK, UartLocked, UartAccepted
<1>3. UartOwned' <=> UartOwned
  BY <1>1 DEF UartOwned, Serving
<1> QED
  BY <1>1, <1>2, <1>3 DEF UartIInv

(* The listener takes a connection that nobody has a thread or a slot for. *)
LEMMA UartAccept ==
  ASSUME UartIInv, uartAccept
  PROVE  UartIInv'
<1>1. /\ UNCHANGED <<uartMain, clientNo, sock, uartThr, mutex, misread>>
      /\ uartListener = "accept"
  BY DEF uartAccept, mainVars
<1>2. CASE uartListener' = "exit" /\ UNCHANGED <<newSock, peer>>
  <2>1. UartTypeOK' /\ UartLocked' /\ UartAccepted'
    BY <1>1, <1>2 DEF UartIInv, UartTypeOK, UartLocked, UartAccepted
  <2>2. UartOwned => UartOwned'
    BY <1>1, <1>2 DEF UartOwned, Serving
  <2> QED
    BY <1>1, <2>1, <2>2 DEF UartIInv
<1>3. CASE uartListener' = "search"
  <2>1. PICK c \in UartConns : /\ peer[c] = "new" /\ peer' = [peer EXCEPT ![c] = "open"]
                               /\ newSock' = c
    BY <1>3 DEF uartAccept, Calling
  <2>2. /\ peer' \in [UartConns -> PeerStates] /\ peer'[c] = "open"
        /\ \A u \in UartConns : peer[u] # "new" => peer'[u] # "new"
    BY <2>1 DEF UartIInv, UartTypeOK, PeerStates
  <2>3. uartThr[c].at = "none"
    BY <2>1 DEF UartIInv, UartAccepted
  <2>4. UartTypeOK'
    BY <1>1, <1>3, <2>1, <2>2 DEF UartIInv, UartTypeOK, UartSocks
  <2>5. UartLocked' /\ UartAccepted'
    BY <1>1, <1>3, <2>1, <2>2, <2>3 DEF UartIInv, UartLocked, UartAccepted
  <2>6. UartOwned => UartOwned'
    BY <1>1, <1>3 DEF UartOwned, Serving
  <2> QED
    BY <1>1, <2>4, <2>5, <2>6 DEF UartIInv
<1> QED
  BY <1>2, <1>3 DEF uartAccept

(* The search for a free slot. *)
LEMMA UartSearch ==
  ASSUME UartIInv, uartSearch
  PROVE  UartIInv'
<1>1. /\ UNCHANGED <<uartMain, newSock, uartThr, peer, mutex, misread>>
      /\ uartListener = "search"
  BY DEF uartSearch, mainVars
<1>2. CASE uartListener' = "exit" /\ UNCHANGED <<clientNo, sock>>
  <2>1. UartTypeOK' /\ UartLocked' /\ UartAccepted'
    BY <1>1, <1>2 DEF UartIInv, UartTypeOK, UartLocked, UartAccepted
  <2>2. UartOwned => UartOwned'
    BY <1>1, <1>2 DEF UartOwned, Serving
  <2> QED
    BY <1>1, <2>1, <2>2 DEF UartIInv
<1>3. CASE uartListener' = "create"
  <2>1. PICK n \in Free : clientNo' = n /\ sock' = [sock EXCEPT ![n] = newSock]
    BY <1>3 DEF uartSearch
  <2>2. n \in UartSlots /\ sock[n] = NoSock /\ newSock \in UartConns /\ uartThr[newSock].at = "none"
    BY <1>1 DEF Free, UartIInv, UartAccepted
  <2>3. \A i \in UartSlots : sock'[i] = IF i = n THEN newSock ELSE sock[i]
    BY <2>1, <2>2 DEF UartIInv, UartTypeOK
  <2>4. UartTypeOK' /\ UartLocked' /\ UartAccepted'
    BY <1>1, <1>3, <2>1, <2>2 DEF UartIInv, UartTypeOK, UartLocked, UartAccepted, UartSocks
  <2>5. ASSUME uartMain' = "run", ~misread' PROVE UartOwned'
    <3>0. UartOwned
      BY <1>1, <2>5 DEF UartIInv
    <3>1. ASSUME NEW u \in UartConns, Serving(u)
          PROVE  uartThr[u].fd = u /\ sock'[uartThr[u].no] = u
      <4>1. sock[uartThr[u].no] = u /\ uartThr[u].fd = u /\ uartThr[u].no \in UartSlots
        BY <3>0, <3>1 DEF UartOwned, UartIInv, UartTypeOK
      <4> QED
        BY <2>2, <2>3, <4>1, UartAssumption
    <3>2. \A i \in UartSlots : sock[i] # NoSock =>
             /\ sock[i] # newSock
             /\ \/ uartThr[sock[i]].at = "start"
                \/ uartThr[sock[i]].at \notin {"none", "start", "exited"} /\ uartThr[sock[i]].no = i
      BY <1>1, <2>2, <3>0 DEF UartOwned, Serving
    <3>3. \A u \in UartConns : Serving(u)' <=> Serving(u)
      BY <1>1 DEF Serving
    <3>4. ASSUME NEW i \in UartSlots, NEW j \in UartSlots, sock'[i] # NoSock, sock'[i] = sock'[j]
          PROVE  i = j
      BY <2>2, <2>3, <3>0, <3>2, <3>4 DEF UartOwned
    <3> QED
      BY <1>1, <1>3, <2>3, <3>1, <3>2, <3>3, <3>4 DEF UartOwned, Serving
  <2> QED
    BY <2>4, <2>5 DEF UartIInv
<1> QED
  BY <1>2, <1>3 DEF uartSearch

(* The listener makes the thread, or fails to and ends. *)
LEMMA UartCreate ==
  ASSUME UartIInv, uartCreate
  PROVE  UartIInv'
<1>1. /\ UNCHANGED <<uartMain, clientNo, newSock, sock, peer, mutex, misread>>
      /\ uartListener = "create"
  BY DEF uartCreate, mainVars
<1>2. newSock \in UartConns /\ uartThr[newSock].at = "none" /\ peer[newSock] # "new"
  BY <1>1 DEF UartIInv, UartAccepted
<1>3. CASE uartListener' = "exit" /\ UNCHANGED uartThr
  <2>1. UartTypeOK' /\ UartLocked' /\ UartAccepted'
    BY <1>1, <1>3 DEF UartIInv, UartTypeOK, UartLocked, UartAccepted
  <2>2. UartOwned => UartOwned'
    BY <1>1, <1>3 DEF UartOwned, Serving
  <2> QED
    BY <1>1, <2>1, <2>2 DEF UartIInv
<1>4. CASE uartListener' = "accept" /\ Place(newSock, "start")
  <2>3. /\ uartThr' \in [UartConns -> [at : UartPlaces, no : UartSlots, fd : UartSocks]]
        /\ uartThr'[newSock].at = "start"
        /\ \A u \in UartConns : u # newSock => uartThr'[u] = uartThr[u]
    BY <1>2, <1>4, UartPlace DEF UartIInv, UartPlaces
  <2>4. UartTypeOK'
    BY <1>1, <1>4, <2>3 DEF UartIInv, UartTypeOK
  <2>5. UartLocked' /\ UartAccepted'
    BY <1>1, <1>2, <1>4, <2>3 DEF UartIInv, UartLocked, UartAccepted
  <2>6. ASSUME uartMain' = "run", ~misread' PROVE UartOwned'
    <3>1. UartOwned
      BY <1>1, <2>6 DEF UartIInv
    <3>2. \A u \in UartConns : /\ Serving(u)' <=> Serving(u)
                               /\ Serving(u) => u # newSock
      BY <1>2, <2>3 DEF Serving
    <3>3. ASSUME NEW i \in UartSlots, sock[i] # NoSock
          PROVE  \/ uartThr'[sock[i]].at = "start"
                 \/ uartThr'[sock[i]].at \notin {"none", "start", "exited"} /\ uartThr'[sock[i]].no = i
      <4>1. sock[i] \in UartConns
        BY <3>3 DEF UartIInv, UartTypeOK, UartSocks
      <4> QED
        BY <2>3, <3>1, <3>3, <4>1 DEF UartOwned, Serving
    <3> QED
      BY <1>1, <2>3, <3>1, <3>2, <3>3 DEF UartOwned, Serving
  <2> QED
    BY <2>4, <2>5, <2>6 DEF UartIInv
<1> QED
  BY <1>3, <1>4 DEF uartCreate, Place

(* uart_service_stop: from here on the slots are main's to clear. *)
LEMMA UartStop ==
  ASSUME UartIInv, uart_service_stop \/ stopStep
  PROVE  UartIInv'
<1>1. /\ UNCHANGED <<uartListener, clientNo, newSock, uartThr, mutex, misread>>
      /\ uartMain' \in {"look", "shut", "join", "join_listener", "done", "crashed"}
  BY DEF uart_service_stop, stopStep, stopLook, stopShut, stopJoin, stopListener, listVars
<1>2. /\ peer' \in [UartConns -> PeerStates]
      /\ \A u \in UartConns : peer[u] # "new" => peer'[u] # "new"
  BY DEF uart_service_stop, stopStep, stopLook, stopShut, stopJoin, stopListener, ShutDown, UartIInv,
         UartTypeOK, PeerStates
<1>3. sock' \in [UartSlots -> UartSocks]
  BY DEF uart_service_stop, stopStep, stopLook, stopShut, stopJoin, stopListener, UartIInv, UartTypeOK,
         UartSocks
<1>4. UartTypeOK' /\ UartLocked' /\ UartAccepted'
  BY <1>1, <1>2, <1>3 DEF UartIInv, UartTypeOK, UartLocked, UartAccepted
<1> QED
  BY <1>1, <1>4 DEF UartIInv

(* The inductive invariant of the serial port server. *)
LEMMA UartInductive == uartSpec => []UartIInv
<1>1. uartInit => UartIInv
  <2> SUFFICES ASSUME uartInit PROVE UartIInv
    OBVIOUS
  <2>1. 0 \in UartSlots
    BY UartAssumption DEF UartSlots
  <2> DEFINE r == [at |-> "none", no |-> 0, fd |-> NoSock]
  <2>2. r \in [at : UartPlaces, no : UartSlots, fd : UartSocks] /\ r.at = "none"
    BY <2>1 DEF UartPlaces, UartSocks
  <2>3. uartThr = [c \in UartConns |-> r]
    BY DEF uartInit
  <2> HIDE DEF r
  <2>4. UartTypeOK
    BY <2>1, <2>2, <2>3 DEF uartInit, UartTypeOK, UartSocks, PeerStates
  <2>5. UartLocked /\ UartAccepted /\ UartOwned
    BY <2>2, <2>3 DEF uartInit, UartLocked, UartAccepted, UartOwned, Serving
  <2> QED
    BY <2>4, <2>5 DEF UartIInv
<1>2. UartIInv /\ [uartNext]_uartVars => UartIInv'
  <2> SUFFICES ASSUME UartIInv, [uartNext]_uartVars PROVE UartIInv'
    OBVIOUS
  <2>1. CASE uartNext
    BY <2>1, UartClients, UartService, UartStart, UartEnd, UartAccept, UartSearch, UartCreate, UartStop
    DEF uartNext, uartWork
  <2>2. CASE UNCHANGED uartVars
    BY <2>2 DEF uartVars, UartIInv, UartTypeOK, UartLocked, UartAccepted, UartOwned, Serving
  <2> QED
    BY <2>1, <2>2
<1> QED
  BY <1>1, <1>2, PTL DEF uartSpec

(* The mutex around the serial port: no camera command is written between  *)
(* the speed of a setting and its format, whoever misread what: it is the  *)
(* mutex that gives it.                                                    *)
THEOREM UartLineInvariant == uartSpec => []UartNotInBetween
<1>1. UartIInv => UartNotInBetween
  BY DEF UartIInv, UartLocked, UartNotInBetween
<1> QED
  BY <1>1, UartInductive, PTL

(* Until the server stops, whatever the threads' timing: as long as no     *)
(* thread has read clientNo too late, every connection with a slot is      *)
(* served by the thread created for it, and every serving thread has a     *)
(* slot and the socket in it.  The hand-over of the number through the     *)
(* listener's variable (uart_server.c:100) is the only thing that can part *)
(* them.                                                                   *)
THEOREM UartInvariant == uartSpec => []UartInv
<1>1. UartIInv => UartInv
  <2> SUFFICES ASSUME UartIInv PROVE UartInv
    OBVIOUS
  <2>1. UartNotInBetween
    BY DEF UartIInv, UartLocked, UartNotInBetween
  <2>2. UartServedByOwn
    BY DEF UartIInv, UartServedByOwn, UartOwned
  <2> QED
    BY <2>1, <2>2 DEF UartInv
<1> QED
  BY <1>1, UartInductive, PTL
=============================================================================
