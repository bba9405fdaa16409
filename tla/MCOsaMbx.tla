------------------------------ MODULE MCOsaMbx ------------------------------
(* The hierarchy of osa_test.c: a main thread above a sequencer above a    *)
(* worker.  Messages only go down.                                         *)
EXTENDS OsaMbx, TLC

CONSTANTS main, pseq, pst

TaskSet   == {main, pseq, pst}
MainSet   == {main}
Hierarchy == main :> {pseq, pst} @@ pseq :> {pst} @@ pst :> {}
=============================================================================
