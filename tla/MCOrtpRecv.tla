----------------------------- MODULE MCOrtpRecv -----------------------------
(* The receiving side, the message blocks and the telephone events of an   *)
(* oRTP session, in one run: the initial state chooses which of them the   *)
(* behaviour is about.                                                     *)
EXTENDS OrtpRecv, OrtpMsg, OrtpTev

VARIABLE which

Init == /\ RecvInit /\ MsgInit /\ TevInit
        /\ which \in {"recv", "msg", "tev"} /\ (rs.resets => which = "recv")

Next == /\ UNCHANGED which
        /\ \/ which = "recv" /\ RecvNext /\ UNCHANGED <<msgVars, tevVars>>
           \/ which = "msg" /\ MsgNext /\ UNCHANGED <<recvVars, tevVars>>
           \/ which = "tev" /\ TevNext /\ UNCHANGED <<recvVars, msgVars>>

MCSpec == Init /\ [][Next]_<<which, recvVars, msgVars, tevVars>>
=============================================================================
