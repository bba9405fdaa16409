----------------------------- MODULE ServerLife -----------------------------
(***************************************************************************)
(* The life of the server process as the RTP side of the program sees it:  *)
(* when the client table is valid, when frames may be sent, when the RTP   *)
(* library is up.  ClientMgr, which models what happens to the tables      *)
(* meanwhile, takes these steps as the guards of its own main and session  *)
(* thread; Dvs, which models the threads that decide them, is shown to     *)
(* implement them.                                                         *)
(***************************************************************************)
EXTENDS Naturals

VARIABLES sessionThr,   \* "starting", "running", "deleted": init_session_tsk and
                        \* delete_session_tsk not yet run, between, both run
          exiting,      \* the exit state is no longer DVS_WORKING
          quit,         \* gblSetQuit has been called
          rtpUp,        \* rtp_exit has not been called
          nsent         \* calls of send_to_client

vars == <<sessionThr, exiting, quit, rtpUp, nsent>>

Init == sessionThr = "starting" /\ exiting = FALSE /\ quit = FALSE /\ rtpUp = TRUE /\ nsent = 0

InitSession == /\ sessionThr = "starting"
               /\ sessionThr' = "running"
               /\ UNCHANGED <<exiting, quit, rtpUp, nsent>>

RequestExit == /\ exiting' = TRUE
               /\ UNCHANGED <<sessionThr, quit, rtpUp, nsent>>

SetQuit == /\ exiting /\ ~quit
           /\ quit' = TRUE
           /\ UNCHANGED <<sessionThr, exiting, rtpUp, nsent>>

Send == /\ sessionThr = "running"
        /\ nsent' = nsent + 1
        /\ UNCHANGED <<sessionThr, exiting, quit, rtpUp>>

DeleteSession == /\ quit /\ sessionThr = "running"
                 /\ sessionThr' = "deleted"
                 /\ UNCHANGED <<exiting, quit, rtpUp, nsent>>

RtpExit == /\ sessionThr = "deleted" /\ rtpUp
           /\ rtpUp' = FALSE
           /\ UNCHANGED <<sessionThr, exiting, quit, nsent>>

Next == InitSession \/ RequestExit \/ SetQuit \/ Send \/ DeleteSession \/ RtpExit

Spec == Init /\ [][Next]_vars
=============================================================================
