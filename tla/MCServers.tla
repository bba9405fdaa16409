----------------------------- MODULE MCServers ------------------------------
(* The two servers of the process, in one run: the initial state chooses   *)
(* which of them the behaviour is about.                                   *)
EXTENDS TcpServer, UartServer

VARIABLE which

Init == tcpInit /\ uartInit /\ which \in {"tcp", "uart"} /\ (which = "tcp" => uartListener = "exit")

Next == /\ UNCHANGED which
        /\ \/ which = "tcp" /\ tcpNext /\ UNCHANGED uartVars
           \/ which = "uart" /\ uartNext /\ UNCHANGED tcpVars

Spec == /\ Init /\ [][Next]_<<which, tcpVars, uartVars>>
        /\ which = "tcp" => tcpFair
        /\ which = "uart" => uartFair
=============================================================================
