----------------------------- MODULE MCOsaSync ------------------------------
(* The primitives of utils/osa that do not depend on each other, in one    *)
(* run: the initial state chooses which of them the behaviour is about.    *)
EXTENDS OsaSem, OsaFlg, OsaBuf, OsaIpc

VARIABLE which

allVars == <<which, semVars, flgVars, bufVars, ipcVars>>

Init == /\ semInit /\ flgInit /\ bufInit /\ ipcInit
        /\ which \in {"sem", "flg", "buf", "ipc"}
        /\ which # "flg" => flgPattern = {}

Next == /\ UNCHANGED which
        /\ \/ which = "sem" /\ semNext /\ UNCHANGED <<flgVars, bufVars, ipcVars>>
           \/ which = "flg" /\ flgNext /\ UNCHANGED <<semVars, bufVars, ipcVars>>
           \/ which = "buf" /\ bufNext /\ UNCHANGED <<semVars, flgVars, ipcVars>>
           \/ which = "ipc" /\ ipcNext /\ UNCHANGED <<semVars, flgVars, bufVars>>

BufFair == which = "buf" => bufFair

Spec == Init /\ [][Next]_allVars /\ BufFair
=============================================================================
