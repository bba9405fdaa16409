------------------------------ MODULE TcpServer ------------------------------
(***************************************************************************)
(* Connections of the control port: the listener, the alarm thread and     *)
(* clean_tcp_listen_thread of network/src/server.c, and the frame of the   *)
(* service threads of serverIf.c (what their commands do to the client     *)
(* table is in ClientMgr).  m_Client has a slot per connection of the      *)
(* process's life: slots are not reused, and the listener does not compare *)
(* m_clientCount with CLIENTNUM, so this holds for up to CLIENTNUM         *)
(* connections.                                                            *)
(***************************************************************************)
EXTENDS Naturals, FiniteSets

CONSTANTS TcpConns, CLIENTNUM, NoConn

ASSUME TcpAssumption == /\ CLIENTNUM \in Nat /\ IsFiniteSet(TcpConns)
                        /\ Cardinality(TcpConns) <= CLIENTNUM
                        /\ NoConn \notin TcpConns

VARIABLES quit,          \* gbl.quit
          tcpMain, clean,\* main's place, and i of clean_tcp_listen_thread
          listener,      \* the listener's place
          accepted,      \* the connection it works on
          m_clientCount,
          m_Client,      \* the slots
          service,       \* the service thread of each slot
          conn,          \* the state of each connection
          alarm          \* the alarm thread

tcpVars == <<quit, tcpMain, clean, listener, accepted, m_clientCount, m_Client, service, conn, alarm>>

Slots == 0 .. CLIENTNUM - 1
NoSlot == CLIENTNUM

tcpInit == /\ quit = FALSE
           /\ tcpMain = "run" /\ clean = 0
           /\ listener = "top" /\ accepted = NoConn
           /\ m_clientCount = 0
           /\ m_Client = [i \in Slots |-> [sock |-> NoConn, live |-> FALSE]]
           /\ service = [i \in Slots |-> "none"]
           /\ conn = [c \in TcpConns |-> "new"]
           /\ alarm = NoSlot

-----------------------------------------------------------------------------
(* A client leaves.  It connects when the listener accepts it, since how   *)
(* long it waited makes no difference to anyone, and connections are named *)
(* in the order in which they are accepted.                                *)
Coming == {c \in TcpConns : conn[c] = "new"}

tcpLeave(c) == /\ conn[c] = "open"
               /\ conn' = [conn EXCEPT ![c] = "left"]
               /\ UNCHANGED <<quit, tcpMain, clean, listener, accepted, m_clientCount, m_Client, service, alarm>>

-----------------------------------------------------------------------------
gblGetQuit == quit

(* listenThrFxn.  accept fails once main has closed the listening socket.  *)
listenTop == /\ listener = "top"
             /\ listener' = IF gblGetQuit THEN "exit" ELSE "accept"
             /\ UNCHANGED <<quit, tcpMain, clean, accepted, m_clientCount, m_Client, service, conn, alarm>>

listenAccept ==
  /\ listener = "accept"
  /\ \/ /\ tcpMain \in {"join_listener", "done"}
        /\ listener' = "exit"
        /\ UNCHANGED <<accepted, conn>>
     \/ /\ tcpMain \notin {"join_listener", "done"}
        /\ \E c \in Coming : /\ c = CHOOSE d \in Coming : TRUE
                            /\ conn' = [conn EXCEPT ![c] = "open"]
                            /\ accepted' = c
        /\ listener' = "fill"
  /\ UNCHANGED <<quit, tcpMain, clean, m_clientCount, m_Client, service, alarm>>

(* The slot, then m_clientCount, then add_new_tcp_process_thr. *)
listenFill ==
  \/ /\ listener = "fill"
     /\ m_Client' = [m_Client EXCEPT ![m_clientCount] = [sock |-> accepted, live |-> TRUE]]
     /\ listener' = "count"
     /\ UNCHANGED <<quit, tcpMain, clean, accepted, m_clientCount, service, conn, alarm>>
  \/ /\ listener = "count"
     /\ m_clientCount' = m_clientCount + 1
     /\ listener' = "create"
     /\ UNCHANGED <<quit, tcpMain, clean, accepted, m_Client, service, conn, alarm>>

NewSlot == m_clientCount - 1

(* The thread may not come about; the listener ignores the result, and the *)
(* slot is left counted, with a handle that names no thread.               *)
add_new_tcp_process_thr ==
  /\ listener = "create"
  /\ \E l \in {"top", "failed"} : service' = [service EXCEPT ![NewSlot] = l]
  /\ listener' = "top"
  /\ UNCHANGED <<quit, tcpMain, clean, accepted, m_clientCount, m_Client, conn, alarm>>

-----------------------------------------------------------------------------
(* tcpServerThrFxn: the quit flag, then recv.  A command is handled and    *)
(* answered, DVS_CMD_DEL_CLIENT and DVS_CMD_SET_RESOLUTION end the loop,   *)
(* and so does a connection that has ended.  The socket stays open.        *)
serviceTop(i) == /\ service[i] = "top"
                 /\ service' = [service EXCEPT ![i] = IF gblGetQuit THEN "leave" ELSE "recv"]
                 /\ UNCHANGED <<quit, tcpMain, clean, listener, accepted, m_clientCount, m_Client, conn, alarm>>

(* Mutant: an ended connection is taken for an incomplete command. *)
EndedNever(c) == FALSE
Disconnected(c) == conn[c] \in {"left", "closed"}

serviceRecv(i) ==
  /\ service[i] = "recv"
  /\ \/ conn[m_Client[i].sock] = "open" /\ \E l \in {"top", "leave"} : service' = [service EXCEPT ![i] = l]
     \/ Disconnected(m_Client[i].sock) /\ service' = [service EXCEPT ![i] = "leave"]
  /\ UNCHANGED <<quit, tcpMain, clean, listener, accepted, m_clientCount, m_Client, conn, alarm>>

serviceLeave(i) ==
  /\ service[i] = "leave"
  /\ m_Client' = [m_Client EXCEPT ![i].live = FALSE]
  /\ service' = [service EXCEPT ![i] = "exited"]
  /\ UNCHANGED <<quit, tcpMain, clean, listener, accepted, m_clientCount, conn, alarm>>

-----------------------------------------------------------------------------
(* alarmInputThrFxn goes through the slots below m_clientCount and sends   *)
(* to those with an index; alarm is the slot it is at.                     *)
alarmRound == /\ alarm = NoSlot /\ tcpMain = "run" /\ m_clientCount > 0
              /\ alarm' = 0
              /\ UNCHANGED <<quit, tcpMain, clean, listener, accepted, m_clientCount, m_Client, service, conn>>

alarmSend == /\ alarm # NoSlot
             /\ alarm' = IF alarm + 1 < m_clientCount THEN alarm + 1 ELSE NoSlot
             /\ UNCHANGED <<quit, tcpMain, clean, listener, accepted, m_clientCount, m_Client, service, conn>>

(* Mutant: the alarm thread goes on, as the other threads do. *)
stopKeepsAlarm == /\ tcpMain = "run" /\ quit' = TRUE /\ tcpMain' = "clean" /\ UNCHANGED alarm
                  /\ UNCHANGED <<clean, listener, accepted, m_clientCount, m_Client, service, conn>>

(* stop_all_threads sets the quit flag and cancels the alarm thread. *)
stop_all_threads == /\ tcpMain = "run" /\ quit' = TRUE /\ tcpMain' = "clean" /\ alarm' = NoSlot
                    /\ UNCHANGED <<clean, listener, accepted, m_clientCount, m_Client, service, conn>>

(* clean_tcp_listen_thread: shut down and close each connection, and join  *)
(* its thread; then the same for the listener.  A slot that was counted    *)
(* has no thread yet, or never gets one: pthread_join of its handle is     *)
(* undefined, and returns an error or ends the process.                    *)
cleanClose ==
  /\ tcpMain = "clean"
  /\ IF clean < m_clientCount
     THEN /\ conn' = [conn EXCEPT ![m_Client[clean].sock] = "closed"]
          /\ tcpMain' = "join"
     ELSE tcpMain' = "join_listener" /\ UNCHANGED conn
  /\ UNCHANGED <<quit, clean, listener, accepted, m_clientCount, m_Client, service, alarm>>

JoinsNoThread == tcpMain = "join" /\ service[clean] \in {"none", "failed"}

cleanJoin ==
  /\ tcpMain = "join"
  /\ \/ /\ service[clean] = "exited" \/ JoinsNoThread
        /\ tcpMain' = "clean" /\ clean' = clean + 1
     \/ JoinsNoThread /\ tcpMain' = "crashed" /\ UNCHANGED clean
  /\ UNCHANGED <<quit, listener, accepted, m_clientCount, m_Client, service, conn, alarm>>

cleanListener ==
  /\ tcpMain = "join_listener" /\ listener = "exit"
  /\ tcpMain' = "done"
  /\ UNCHANGED <<quit, clean, listener, accepted, m_clientCount, m_Client, service, conn, alarm>>

listenStep == listenTop \/ listenAccept \/ listenFill \/ add_new_tcp_process_thr
serviceStep(i) == serviceTop(i) \/ serviceRecv(i) \/ serviceLeave(i)
cleanStep == cleanClose \/ cleanJoin \/ cleanListener

(* The threads end with the process. *)
running == tcpMain # "crashed"

tcpNext == running /\ \/ \E c \in TcpConns : tcpLeave(c)
                      \/ \E i \in Slots : serviceStep(i)
                      \/ listenStep \/ alarmRound \/ alarmSend \/ stop_all_threads \/ cleanStep

tcpSpec == tcpInit /\ [][tcpNext]_tcpVars

(* Threads run while the process does; nothing makes a client connect,     *)
(* send or leave.                                                          *)
tcpFair ==
  /\ WF_tcpVars(running /\ (listenTop \/ listenFill \/ add_new_tcp_process_thr))
  /\ WF_tcpVars(running /\ cleanStep)
  /\ WF_tcpVars(running /\ listenAccept /\ listener' = "exit")
  /\ \A i \in Slots : /\ WF_tcpVars(running /\ (serviceTop(i) \/ serviceLeave(i)))
                      /\ WF_tcpVars(running /\ serviceRecv(i) /\ conn[m_Client[i].sock] # "open")

-----------------------------------------------------------------------------
TcpTypeOK == /\ m_clientCount \in 0 .. CLIENTNUM /\ clean \in 0 .. CLIENTNUM
             /\ m_Client \in [Slots -> [sock : TcpConns \cup {NoConn}, live : BOOLEAN]]
             /\ \A i \in Slots : i >= m_clientCount => service[i] = "none"
             /\ alarm \in 0 .. CLIENTNUM /\ accepted \in TcpConns \cup {NoConn}

(* The alarm thread, which runs through the slots without a lock, only     *)
(* meets slots that are filled and sockets that are not closed: a slot is  *)
(* complete before it is counted, service threads leave their sockets      *)
(* open, and main closes them when the alarm thread is gone.               *)
AlarmOnOpenSockets ==
  alarm # NoSlot => /\ m_Client[alarm].sock # NoConn
                    /\ conn[m_Client[alarm].sock] \in {"open", "left"}

(* Of all the connections at most one, accepted after the quit flag was    *)
(* set, is still being served when main returns.                           *)
Served == {i \in Slots : service[i] \in {"top", "recv", "leave"}}
OneLateConnection == tcpMain = "done" => Cardinality(Served) <= 1

(* Whatever the clients do, clean_tcp_listen_thread is not left waiting    *)
(* for one of them: it returns, unless it comes to join a thread that is   *)
(* not there, of which nothing is promised and which may end the process   *)
(* (server.c:137).                                                         *)
TcpStops == quit ~> (tcpMain \in {"done", "crashed"} \/ JoinsNoThread)

(* The connection slots: filled before they are counted, walked over only  *)
(* while their sockets are open, and all but one stopped in the end        *)
(* (server.c).                                                             *)
TcpInv == TcpTypeOK /\ AlarmOnOpenSockets /\ OneLateConnection
=============================================================================
