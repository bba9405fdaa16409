---------------------------- MODULE MCClientMgr ----------------------------
(* Small instances of ClientMgr.  As in the code NS is less than           *)
(* MAX_CLIENT_NUM, so that the record which del_client clears by mistake   *)
(* can be in use, and the session table is too small for all records, so   *)
(* that add_client fails half way too.                                     *)
EXTENDS ClientMgr, TLC

Symmetry == Permutations(Conns)

(* A port is always given, or sometimes. *)
Given      == {5000}
GivenOrNot == {-1, 5000}

(* An uninitialised clientID: a record's number or none; never a record's. *)
AnyValue == {-1, 0}
Unset    == {-1}
=============================================================================
