------------------------------ MODULE UartServer ------------------------------
(***************************************************************************)
(* The serial port server, uart/src: its listener and stop routine         *)
(* (uart_server.c), the service thread of each connection                  *)
(* (uart_service.c), and the serial port all of them use (uart_operate.c)  *)
(* under one mutex.  The number of the slot is handed to a new thread      *)
(* through the address of the listener's own variable clientNo: a thread   *)
(* that reads it after the listener has used the variable again, or after  *)
(* another thread has emptied the slot it names, gets what is not its own. *)
(* misread records that this has happened; no action looks at it.          *)
(***************************************************************************)
EXTENDS Naturals, FiniteSets

CONSTANTS UartConns, MAX_CLIENT_NUM, NoSock,
          LateConnects     \* connections are also taken while the server stops

ASSUME UartAssumption == /\ MAX_CLIENT_NUM \in Nat \ {0} /\ NoSock \notin UartConns
                         /\ LateConnects \in BOOLEAN

VARIABLES uartMain, stopAt, stopSock,  \* main in uart_service_stop: place, i, socket
          uartListener, clientNo, newSock,
          sock, thread,    \* clients[i].socket and clients[i].thread
          uartThr,         \* the threads, named after the connection made for
          peer,            \* the connections as seen from outside
          mutex,           \* the thread that has g_serviceMgr.mutex, or NoSock
          misread          \* a thread has read another's number

uartVars == <<uartMain, stopAt, stopSock, uartListener, clientNo, newSock, sock, thread,
              uartThr, peer, mutex, misread>>
mainVars == <<uartMain, stopAt, stopSock>>
listVars == <<uartListener, clientNo, newSock>>

UartSlots == 0 .. MAX_CLIENT_NUM - 1

(* uart_service_init; the listener has opened the serial port and listens, *)
(* or has failed and returned.                                             *)
uartInit == /\ uartMain = "run" /\ stopAt = 0 /\ stopSock = NoSock
            /\ uartListener \in {"accept", "exit"} /\ clientNo = 0 /\ newSock = NoSock
            /\ sock = [i \in UartSlots |-> NoSock]
            /\ thread = [i \in UartSlots |-> NoSock]
            /\ uartThr = [c \in UartConns |-> [at |-> "none", no |-> 0, fd |-> NoSock]]
            /\ peer = [c \in UartConns |-> "new"]
            /\ mutex = NoSock /\ misread = FALSE

(* A client leaves.  It connects when the listener accepts it, and         *)
(* connections are named in the order in which they are accepted.          *)
Calling == {c \in UartConns : peer[c] = "new"}

uartLeave(c) == /\ peer[c] = "open"
                /\ peer' = [peer EXCEPT ![c] = "left"]
                /\ UNCHANGED <<mainVars, listVars, sock, thread, uartThr, mutex, misread>>

-----------------------------------------------------------------------------
(* uart_service_start.  With all slots taken the listener ends, for good,  *)
(* and so it does when main has closed its socket.                         *)

(* Mutant: the search does not look at the socket of a slot. *)
AllSlots == UartSlots
Free == {i \in UartSlots : sock[i] = NoSock}

uartAccept ==
  /\ uartListener = "accept"
  /\ \/ /\ uartMain \in {"join_listener", "done"}
        /\ uartListener' = "exit" /\ UNCHANGED <<newSock, peer>>
     \/ /\ uartMain = "run" \/ (LateConnects /\ uartMain \notin {"join_listener", "done"})
        /\ \E c \in Calling : /\ c = CHOOSE d \in Calling : TRUE
                             /\ peer' = [peer EXCEPT ![c] = "open"]
                             /\ newSock' = c
        /\ uartListener' = "search"
  /\ UNCHANGED <<mainVars, clientNo, sock, thread, uartThr, mutex, misread>>

uartSearch ==
  /\ uartListener = "search"
  /\ \/ Free = {} /\ uartListener' = "exit" /\ UNCHANGED <<clientNo, sock>>
     \/ \E i \in Free : /\ \A j \in Free : i <= j
                        /\ clientNo' = i
                        /\ sock' = [sock EXCEPT ![i] = newSock]
                        /\ uartListener' = "create"
  /\ UNCHANGED <<mainVars, newSock, thread, uartThr, peer, mutex, misread>>

(* If the thread does not come about, the listener ends, for good: the     *)
(* connection keeps its slot, and the slot a handle that names no thread.  *)
uartCreate ==
  /\ uartListener = "create"
  /\ \/ /\ thread' = [thread EXCEPT ![clientNo] = newSock]
        /\ uartThr' = [uartThr EXCEPT ![newSock].at = "start"]
        /\ uartListener' = "accept"
     \/ /\ thread' = [thread EXCEPT ![clientNo] = NoSock]
        /\ uartListener' = "exit" /\ UNCHANGED uartThr
  /\ UNCHANGED <<mainVars, clientNo, newSock, sock, peer, mutex, misread>>

-----------------------------------------------------------------------------
Place(t, l) == uartThr' = [uartThr EXCEPT ![t].at = l]

(* uartServiceThr reads its number, and the socket of that slot. *)
uartThrStart(t) ==
  /\ uartThr[t].at = "start"
  /\ uartThr' = [uartThr EXCEPT ![t] = [at |-> "header", no |-> clientNo, fd |-> sock[clientNo]]]
  /\ misread' = (misread \/ sock[clientNo] # t)
  /\ UNCHANGED <<mainVars, listVars, sock, thread, peer, mutex>>

StateOf(c) == IF c = NoSock THEN "invalid" ELSE peer[c]

(* recv_tcp_pack, tcp_analysis_cmdheader: anything but a whole header with *)
(* the right mark ends the thread; an unknown command is skipped; a        *)
(* command that is known has its parameters read as well.  A socket that   *)
(* is closed under a sleeping reader, and not shut down, leaves it there.  *)
uartRecv(t) ==
  /\ uartThr[t].at = "header"
  /\ Place(t, IF StateOf(uartThr[t].fd) \in {"invalid", "closed"} THEN "close" ELSE "asleep")
  /\ UNCHANGED <<mainVars, listVars, sock, thread, peer, mutex, misread>>

uartGet(t) ==
  /\ uartThr[t].at = "asleep" /\ StateOf(uartThr[t].fd) = "open"
  /\ \E l \in {"header", "close", "set", "ptz"} : Place(t, l)
  /\ UNCHANGED <<mainVars, listVars, sock, thread, peer, mutex, misread>>

uartGone(t) ==
  /\ uartThr[t].at = "asleep" /\ StateOf(uartThr[t].fd) \in {"left", "shut"}
  /\ Place(t, "close")
  /\ UNCHANGED <<mainVars, listVars, sock, thread, peer, mutex, misread>>

MutexFree == mutex = NoSock

(* tcp_cmd_set_serial_port: speed, then format, each of which may be       *)
(* refused; tcp_cmd_exec_ptz: one write.  A refusal releases the mutex and *)
(* ends the thread.                                                        *)
uartLock(t) == /\ uartThr[t].at \in {"set", "ptz"} /\ MutexFree
               /\ mutex' = t
               /\ Place(t, IF uartThr[t].at = "set" THEN "speed" ELSE "write")
               /\ UNCHANGED <<mainVars, listVars, sock, thread, peer, misread>>

(* Mutant: a refusal keeps the mutex. *)
UnlockUnlessRefused(t) == mutex' = IF uartThr'[t].at = "close" THEN t ELSE NoSock
Unlock(t) == mutex' = NoSock

set_serial_speed(t) ==
  /\ uartThr[t].at = "speed"
  /\ \/ Place(t, "format") /\ UNCHANGED mutex
     \/ Place(t, "close") /\ Unlock(t)
  /\ UNCHANGED <<mainVars, listVars, sock, thread, peer, misread>>

set_serial_parity(t) ==
  /\ uartThr[t].at = "format"
  /\ \E l \in {"header", "close"} : Place(t, l)
  /\ Unlock(t)
  /\ UNCHANGED <<mainVars, listVars, sock, thread, peer, misread>>

send_serial_data(t) ==
  /\ uartThr[t].at = "write"
  /\ \E l \in {"header", "close"} : Place(t, l)
  /\ Unlock(t)
  /\ UNCHANGED <<mainVars, listVars, sock, thread, peer, misread>>

(* The thread closes what is in its slot by now, and frees the slot. *)
uartThrEnd(t) ==
  LET c == sock[uartThr[t].no] IN
  \/ /\ uartThr[t].at = "close"
     /\ peer' = IF StateOf(c) = "open" THEN [peer EXCEPT ![c] = "closed"] ELSE peer
     /\ Place(t, "free") /\ UNCHANGED sock
     /\ UNCHANGED <<mainVars, listVars, thread, mutex, misread>>
  \/ /\ uartThr[t].at = "free"
     /\ sock' = [sock EXCEPT ![uartThr[t].no] = NoSock]
     /\ Place(t, "exited") /\ UNCHANGED peer
     /\ UNCHANGED <<mainVars, listVars, thread, mutex, misread>>

-----------------------------------------------------------------------------
(* uart_service_stop, from clean_uart_tcp_listen_thread. *)
uart_service_stop == /\ uartMain = "run" /\ uartMain' = "look"
                     /\ LateConnects \/ uartListener \in {"accept", "exit"}
                     /\ UNCHANGED <<stopAt, stopSock, listVars, sock, thread, uartThr, peer, mutex, misread>>

stopLook ==
  /\ uartMain = "look"
  /\ IF stopAt = MAX_CLIENT_NUM THEN uartMain' = "join_listener" /\ UNCHANGED <<stopAt, stopSock>>
     ELSE IF sock[stopAt] = NoSock THEN stopAt' = stopAt + 1 /\ UNCHANGED <<uartMain, stopSock>>
     ELSE stopSock' = sock[stopAt] /\ uartMain' = "shut" /\ UNCHANGED stopAt
  /\ UNCHANGED <<listVars, sock, thread, uartThr, peer, mutex, misread>>

(* Mutant: the connection is closed, and not shut down before. *)
CloseOnly == [peer EXCEPT ![stopSock] = "closed"]
ShutDown  == [peer EXCEPT ![stopSock] = "shut"]

stopShut ==
  /\ uartMain = "shut"
  /\ peer' = ShutDown
  /\ sock' = [sock EXCEPT ![stopAt] = NoSock]
  /\ uartMain' = "join"
  /\ UNCHANGED <<stopAt, stopSock, listVars, thread, uartThr, mutex, misread>>

(* pthread_join of a handle that names no thread is undefined: it returns  *)
(* an error or ends the process.                                           *)
uartJoinsNoThread == uartMain = "join" /\ thread[stopAt] = NoSock

stopJoin ==
  /\ uartMain = "join"
  /\ \/ /\ \A t \in {thread[stopAt]} \ {NoSock} : uartThr[t].at = "exited"
        /\ stopAt' = stopAt + 1 /\ uartMain' = "look"
     \/ uartJoinsNoThread /\ uartMain' = "crashed" /\ UNCHANGED stopAt
  /\ UNCHANGED <<stopSock, listVars, sock, thread, uartThr, peer, mutex, misread>>

stopListener == /\ uartMain = "join_listener" /\ uartListener = "exit"
                /\ uartMain' = "done"
                /\ UNCHANGED <<stopAt, stopSock, listVars, sock, thread, uartThr, peer, mutex, misread>>

stopStep == stopLook \/ stopShut \/ stopJoin \/ stopListener
uartWork(t) == \/ uartThrStart(t) \/ uartRecv(t) \/ uartGone(t) \/ set_serial_speed(t) \/ set_serial_parity(t)
               \/ send_serial_data(t) \/ uartThrEnd(t)

(* The threads end with the process. *)
uartRunning == uartMain # "crashed"

uartNext == uartRunning /\ \/ \E c \in UartConns : uartLeave(c)
                           \/ \E t \in UartConns : uartGet(t) \/ uartLock(t) \/ uartWork(t)
                           \/ uartAccept \/ uartSearch \/ uartCreate
                           \/ uart_service_stop \/ stopStep

uartSpec == uartInit /\ [][uartNext]_uartVars

(* Threads run while the process does, and get the mutex if it is free     *)
(* again and again; nothing makes a client send or leave.                  *)
uartFair ==
  /\ WF_uartVars(uartRunning /\ stopStep) /\ WF_uartVars(uartRunning /\ (uartSearch \/ uartCreate))
  /\ WF_uartVars(uartRunning /\ uartAccept /\ uartListener' = "exit")
  /\ \A t \in UartConns : /\ WF_uartVars(uartRunning /\ uartWork(t))
                          /\ SF_uartVars(uartRunning /\ uartLock(t))

-----------------------------------------------------------------------------
Serving(t) == uartThr[t].at \notin {"none", "start", "exited"}

(* Until the server stops, and as long as no thread has misread its        *)
(* number, a connection that has a slot is served by one thread, the one   *)
(* created for it, and every serving thread has a slot and the socket in   *)
(* it.  The exception is the last connection of a listener that could not  *)
(* create its thread.                                                      *)
UartServedByOwn ==
  uartMain = "run" /\ ~misread =>
    /\ \A t \in UartConns : Serving(t) /\ uartThr[t].at # "free"
                              => uartThr[t].fd = t /\ sock[uartThr[t].no] = t
    /\ \A i \in UartSlots : sock[i] # NoSock =>
         \/ uartThr[sock[i]].at = "start" \/ (Serving(sock[i]) /\ uartThr[sock[i]].no = i)
         \/ uartListener \in {"create", "exit"} /\ newSock = sock[i]

(* A camera command is never written while the speed is of one setting and *)
(* the format of the one before, unless the format was refused.            *)
UartNotInBetween == \A t, u \in UartConns : ~(uartThr[t].at = "write" /\ uartThr[u].at = "format")

(* Whatever is refused, the mutex comes free again while the process runs. *)
UartMutexFreed == mutex # NoSock ~> (mutex = NoSock \/ ~uartRunning)

(* uart_service_stop and the join of the listener return, unless a thread  *)
(* has misread its number and sleeps on a socket that nobody shuts down,   *)
(* or the stop comes to join a thread that was never created.              *)
UartStops == uartMain = "look" ~> (uartMain = "done" \/ misread \/ uartJoinsNoThread \/ ~uartRunning)

(* Connections and serial line: own thread, own slot, and a line that      *)
(* nobody uses between speed and format (uart_server.c, uart_service.c).   *)
UartInv == UartServedByOwn /\ UartNotInBetween
=============================================================================
