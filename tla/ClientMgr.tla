------------------------------ MODULE ClientMgr ------------------------------
(***************************************************************************)
(* The clients of the video server: the client table of core/src/session.c *)
(* (g_clients), the RTP session table of utils/com/src/rtpsend.c           *)
(* (g_rtpSessionMgr), and the TCP service threads of                       *)
(* network/src/serverIf.c that operate on both, one per connection.        *)
(*                                                                         *)
(* A step is one whole operation: one command of a connection, one frame   *)
(* sent by a session thread, one action of the main or session thread.     *)
(* Neither table has a lock: the interleavings inside one operation are    *)
(* not modelled.                                                           *)
(*                                                                         *)
(* clients[i]  = [clientID, flag, ids]; ids[type][g] is videoIDs[g] or     *)
(*               audioIDs[g], an index of the session table or -1.         *)
(* sessions[s] = [pSession, curTimeStamp, timeStampInc]; pSession is NULL  *)
(*               or the destination the RtpSession was created for.        *)
(* conns[t]    = the locals of the service thread of connection t (pc,     *)
(*               and clientID), and what its client has been told: added,  *)
(*               the last ADD_CLIENT was answered with SUCCESS; types, the *)
(*               streams it gave a port for; opened, the channels whose    *)
(*               OPEN_CHANNEL was answered since.                          *)
(* faults      = a history variable, only for the properties: the steps    *)
(*               that the code does not protect itself against and that    *)
(*               have happened.                                            *)
(***************************************************************************)
EXTENDS Integers, FiniteSets

CONSTANTS MAX_CLIENT_NUM, MAX_SESSION_NUM, MAX_VIDEO_CHANNEL, CHS_PER_SESSION,
          chs,        \* gblGetVideoChannels()
          Conns,      \* the client hosts
          VideoPorts, AudioPorts,   \* the RTP ports ADD_CLIENT may carry
          Garbage,    \* what the uninitialised clientID of a service thread may hold
          TS_MOD,     \* 2^32, the range of curTimeStamp
          MaxSends,   \* bound on the frames sent
          MaxFaults,  \* bound on the kinds of faults of a behaviour that goes on
          NULL

NS      == chs \div CHS_PER_SESSION       \* RTP sessions per client and type
Slots   == 0 .. MAX_CLIENT_NUM - 1
Sids    == 0 .. MAX_SESSION_NUM - 1
Groups  == 0 .. NS - 1
NE      == MAX_VIDEO_CHANNEL \div CHS_PER_SESSION
Entries == 0 .. NE - 1                    \* indices of videoIDs, audioIDs
Chans   == 0 .. MAX_VIDEO_CHANNEL - 1
Types   == {"video", "audio"}
Dests   == [dest : Conns, type : Types, grp : Groups]

(* "stale": a client without a port for a stream got a record that still   *)
(* has session IDs for it; "partial": add_client failed and left sessions  *)
(* behind; "reset": del_client cleared the IDs of another client's record; *)
(* "alien": a connection without a client acted on a record through its    *)
(* uninitialised clientID; "again": a connection that has a client added   *)
(* another; "early": a client was added before init_session_tsk.           *)
Faults  == {"stale", "partial", "reset", "alien", "again", "early"}

TIME_STAMP_INC(type) == IF type = "video" THEN 900 ELSE 80

ASSUME SizesAssumption ==
  /\ MAX_CLIENT_NUM \in Nat /\ MAX_SESSION_NUM \in Nat \ {0}
  /\ MAX_VIDEO_CHANNEL \in Nat /\ CHS_PER_SESSION \in Nat \ {0}
  /\ chs \in 0 .. MAX_VIDEO_CHANNEL
  /\ NS \in 0 .. MAX_CLIENT_NUM - 1
  /\ NE \in Nat /\ NS <= NE
ASSUME TimeStampAssumption == TS_MOD \in Nat \ {0}
ASSUME InputsAssumption == VideoPorts \cup AudioPorts \subseteq Int /\ Garbage \subseteq Int
ASSUME NULLAssumption   == NULL \notin Dests

VARIABLES clients, sessions, conns,
          sessionThr,   \* the session thread: "starting", "running", "deleted"
          exitState, quit, rtpUp,
          sshWaiting,   \* ssh_interact_thr still waits for the operator
          listening,    \* the listen thread is in accept()
          nsent,
          wild,         \* a client record outside g_clients was touched
          faults

vars == <<clients, sessions, conns, sessionThr, exitState, quit, rtpUp,
          sshWaiting, listening, nsent, wild, faults>>

tables == <<clients, sessions>>
global == <<sessionThr, exitState, quit, rtpUp, sshWaiting, listening, nsent>>

-----------------------------------------------------------------------------
(* rtpsend.c *)

Unused == [pSession |-> NULL, curTimeStamp |-> 0, timeStampInc |-> 0]

Free(ss) == {s \in Sids : ss[s].pSession = NULL}

(* alloc_sessionID, called once per group: each call takes the lowest      *)
(* unused ID; the calls stop at the first that finds none.                 *)
Grabs(F) ==
  LET n == IF Cardinality(F) < NS THEN Cardinality(F) ELSE NS
  IN  {g \in [0 .. n - 1 -> F] :
         \A i \in 0 .. n - 1 :
            /\ \A j \in 0 .. i - 1 : g[j] < g[i]
            /\ \A s \in F : s < g[i] => \E j \in 0 .. i - 1 : g[j] = s}

Complete(g) == DOMAIN g = Groups

(* create_rtp_session for the groups in g: the time-stamp is not touched.  *)
create_rtp_session(ss, g, t, type) ==
  [s \in Sids |->
     IF \E i \in DOMAIN g : g[i] = s
     THEN [pSession |-> [dest |-> t, type |-> type,
                         grp  |-> CHOOSE i \in DOMAIN g : g[i] = s],
           curTimeStamp |-> ss[s].curTimeStamp,
           timeStampInc |-> TIME_STAMP_INC(type)]
     ELSE ss[s]]

(* Mutant: only the pointer is cleared. *)
remove_keeps_time_stamp(ss, R) ==
  [s \in Sids |-> IF s \in R THEN [ss[s] EXCEPT !.pSession = NULL] ELSE ss[s]]

(* remove_session_obj on a set of session IDs, -1 ignored. *)
remove_session_objs(ss, R) == [s \in Sids |-> IF s \in R THEN Unused ELSE ss[s]]

-----------------------------------------------------------------------------
(* session.c: g_clients *)

NoIDs == [ty \in Types |-> [e \in Entries |-> -1]]

IDs(cl, i) == {cl[i].ids[ty][g] : ty \in Types, g \in Groups}

(* Mutant: record 0 is always taken for free. *)
FreeSlotsNotPositive == {i \in Slots : clients[i].clientID <= 0}

FreeSlots == {i \in Slots : clients[i].clientID = -1}

(* videoIDs or audioIDs after the creation loop of add_client: the failing *)
(* call leaves its -1 in the record.                                       *)
StoreIDs(ids, g) ==
  [e \in Entries |-> IF e \in DOMAIN g THEN g[e]
                    ELSE IF e \in Groups /\ e = Cardinality(DOMAIN g) THEN -1
                    ELSE ids[e]]

(* Mutants: the record stays in use; the neighbour's IDs are reset; the    *)
(* audio sessions are forgotten.                                           *)
DelClientsKeepsID(cl, i) ==
  IF cl[i].clientID = -1 THEN cl ELSE [cl EXCEPT ![NS].ids = NoIDs]

DelClientsLastGroup(cl, i) ==
  IF cl[i].clientID = -1 THEN cl
  ELSE [[cl EXCEPT ![i].clientID = -1] EXCEPT ![NS - 1].ids = NoIDs]

DelSessionsVideoOnly(ss, cl, i) ==
  IF cl[i].clientID = -1 THEN ss
  ELSE remove_session_objs(ss, {cl[i].ids["video"][g] : g \in Groups})

(* del_client: the two tables after deleting slot i.  The record whose IDs *)
(* are reset is the one at index chs / CHS_PER_SESSION, the loop counter.  *)
DelClients(cl, i) ==
  IF cl[i].clientID = -1 THEN cl
  ELSE [[cl EXCEPT ![i].clientID = -1] EXCEPT ![NS].ids = NoIDs]

DelSessions(ss, cl, i) ==
  IF cl[i].clientID = -1 THEN ss ELSE remove_session_objs(ss, IDs(cl, i))

-----------------------------------------------------------------------------
ZeroClient == [clientID |-> 0, flag |-> [c \in Chans |-> FALSE],
               ids |-> [ty \in Types |-> [e \in Entries |-> 0]]]
Closed     == [pc |-> "closed", clientID |-> -1, added |-> FALSE, types |-> {}, opened |-> {}]

(* main after rtp_init and tcp_listen_thread_start: g_clients is still     *)
(* zero, for the session thread has not run init_session_tsk yet.          *)
Init == /\ clients = [i \in Slots |-> ZeroClient]
        /\ sessions = [s \in Sids |-> Unused]
        /\ conns = [t \in Conns |-> Closed]
        /\ sessionThr = "starting" /\ exitState = "WORKING" /\ quit = FALSE
        /\ rtpUp = TRUE /\ sshWaiting = TRUE /\ listening = TRUE
        /\ nsent = 0 /\ wild = FALSE /\ faults = {}

-----------------------------------------------------------------------------
(* The table is initialised and record i is in use. *)
Live(i) == sessionThr # "starting" /\ clients[i].clientID # -1

(* The connection has a client of its own; it names a record in use        *)
(* without having one.                                                     *)
Owns(t)  == conns[t].added /\ conns[t].clientID \in Slots
Alien(t) == ~conns[t].added /\ conns[t].clientID \in Slots
            /\ clients[conns[t].clientID].clientID # -1

(* The listen thread accepts a connection and starts its service thread.   *)
(* A thread that finds the quit flag set goes straight to its clean-up.    *)
LoopTop == IF quit THEN "cleanup" ELSE "recv"

Connect(t) ==
  /\ listening /\ conns[t].pc = "closed"
  /\ \E v \in Garbage :
       conns' = [conns EXCEPT ![t] = [Closed EXCEPT !.pc = LoopTop, !.clientID = v]]
  /\ listening' = ~quit
  /\ UNCHANGED <<clients, sessions, sessionThr, exitState, quit, rtpUp,
                 sshWaiting, nsent, wild, faults>>

(* recv fails: the peer went away, or the server shut the socket down. *)
Disconnect(t) ==
  /\ conns[t].pc = "recv"
  /\ conns' = [conns EXCEPT ![t].pc = "cleanup"]
  /\ UNCHANGED <<tables, global, wild, faults>>

(* After the loop: "close rpt session", unless clientID is -1. *)
Cleanup(t) ==
  LET c == conns[t].clientID IN
  /\ conns[t].pc = "cleanup"
  /\ conns' = [conns EXCEPT ![t] = Closed]
  /\ IF c \in Slots
     THEN /\ clients' = DelClients(clients, c)
          /\ sessions' = DelSessions(sessions, clients, c)
          /\ UNCHANGED wild
     ELSE /\ wild' = (wild \/ c # -1)
          /\ UNCHANGED tables
  /\ faults' = faults \cup
       {f \in Faults : \/ f = "alien" /\ Alien(t)
                       \/ f = "reset" /\ c \in Slots \ {NS} /\ clients[c].clientID # -1 /\ Live(NS)}
  /\ UNCHANGED global

-----------------------------------------------------------------------------
(* The commands of tcpServerThrFxn.  The header of the pack makes no       *)
(* difference: a wrong one is answered with INVLID_HEADER, and the command *)
(* is then executed all the same, unless that answer could not be sent (a  *)
(* step of AnswerOnly).                                                    *)
Receives(t) == conns[t].pc = "recv"

(* The answer of add_client is the thread's clientID; only -1 makes the    *)
(* reply DVS_RETURN_FAIL.                                                  *)
AddReturns(t, r, vp, ap) ==
  conns' = [conns EXCEPT ![t] =
    [pc |-> LoopTop, clientID |-> r, added |-> r # -1, opened |-> {},
     types |-> {ty \in Types : r \in Slots /\ IF ty = "video" THEN vp > 0 ELSE ap > 0}]]

(* add_client, for the record id: the groups whose session could be        *)
(* created, the loop's failure, and the IDs the record then holds.         *)
Created(port, ss)      == IF port > 0 THEN Grabs(Free(ss)) ELSE {<<>>}
Failed(port, g)        == port > 0 /\ ~Complete(g)
NewIDs(port, ids, g)   == IF port > 0 THEN StoreIDs(ids, g) ELSE ids

(* What an ADD_CLIENT is marked with whose sessions gv and ga were created *)
(* for the record id.                                                      *)
AddFaults(t, id, vp, gv, ap, ga) ==
  LET ok == ~Failed(vp, gv) /\ ~Failed(ap, ga) IN
  {f \in Faults :
     \/ f = "again"   /\ Owns(t)
     \/ f = "early"   /\ sessionThr = "starting"
     \/ f = "partial" /\ ~ok /\ (DOMAIN gv # {} \/ DOMAIN ga # {})
     \/ f = "stale"   /\ ok
          /\ \E g \in Groups : \/ ~(vp > 0) /\ clients[id].ids["video"][g] # -1
                               \/ ~(ap > 0) /\ clients[id].ids["audio"][g] # -1}

(* No record is free. *)
AddNoRecord(t, vp, ap) ==
  /\ FreeSlots = {}
  /\ AddReturns(t, -1, vp, ap)
  /\ faults' = faults \cup {f \in Faults : f = "again" /\ Owns(t)}
  /\ UNCHANGED tables

(* The session table runs out during the creation of the video sessions;   *)
(* those created by then stay.                                             *)
AddVideoFails(t, id, vp, gv, ap) ==
  /\ Failed(vp, gv)
  /\ sessions' = create_rtp_session(sessions, gv, t, "video")
  /\ clients' = [clients EXCEPT ![id].ids["video"] = NewIDs(vp, @, gv)]
  /\ AddReturns(t, -2, vp, ap)
  /\ faults' = faults \cup AddFaults(t, id, vp, gv, ap, <<>>)

(* The video sessions are there: the audio sessions, and if none is        *)
(* missing the record becomes live with all channels closed.               *)
AddRest(t, id, vp, gv, s1, ap, ga) ==
  LET ok == ~Failed(ap, ga) IN
  /\ sessions' = create_rtp_session(s1, ga, t, "audio")
  /\ clients' = [clients EXCEPT ![id] =
       [clientID |-> IF ok THEN id ELSE -1,
        flag |-> IF ok THEN [c \in Chans |-> FALSE] ELSE @.flag,
        ids |-> [ty \in Types |-> IF ty = "video" THEN NewIDs(vp, @.ids["video"], gv)
                                                  ELSE NewIDs(ap, @.ids["audio"], ga)]]]
  /\ AddReturns(t, IF ok THEN id ELSE -3, vp, ap)
  /\ faults' = faults \cup AddFaults(t, id, vp, gv, ap, ga)

AddClient(t, vp, ap) ==
  \/ AddNoRecord(t, vp, ap)
  \/ \E id \in FreeSlots : \E gv \in Created(vp, sessions) :
       /\ \A j \in FreeSlots : id <= j
       /\ \/ AddVideoFails(t, id, vp, gv, ap)
          \/ /\ ~Failed(vp, gv)
             /\ LET s1 == create_rtp_session(sessions, gv, t, "video")
                IN  \E ga \in Created(ap, s1) : AddRest(t, id, vp, gv, s1, ap, ga)

ADD_CLIENT(t, vp, ap) ==
  /\ Receives(t)
  /\ AddClient(t, vp, ap)
  /\ UNCHANGED <<global, wild>>

(* open_channel and close_channel; a channel of MAX_VIDEO_CHANNEL or more  *)
(* stands for all of them.                                                 *)
Selected(ch) == IF ch >= MAX_VIDEO_CHANNEL THEN Chans ELSE {ch}

SetFlags(i, ch, on) ==
  clients' = IF clients[i].clientID = -1 THEN clients
             ELSE [clients EXCEPT ![i].flag =
                     [c \in Chans |-> IF c \in Selected(ch) THEN on
                                                            ELSE clients[i].flag[c]]]

SwitchChannel(t, ch, on) ==
  LET c == conns[t].clientID
      o == conns[t].opened
  IN
  /\ Receives(t)
  /\ conns' = [conns EXCEPT ![t].pc = LoopTop,
                            ![t].opened = IF on /\ Owns(t) THEN o \cup Selected(ch)
                                                            ELSE o \ Selected(ch)]
  /\ IF c \in Slots
     THEN SetFlags(c, ch, on) /\ UNCHANGED wild
     ELSE wild' = TRUE /\ UNCHANGED clients
  /\ faults' = faults \cup {f \in Faults : f = "alien" /\ Alien(t)}
  /\ UNCHANGED <<sessions, global>>

OPEN_CHANNEL(t, ch)  == SwitchChannel(t, ch, TRUE)
CLOSE_CHANNEL(t, ch) == SwitchChannel(t, ch, FALSE)

DEL_CLIENT(t) ==
  /\ Receives(t)
  /\ conns' = [conns EXCEPT ![t].pc = "cleanup"]
  /\ UNCHANGED <<tables, global, wild, faults>>

RESET_BOARD(t) ==
  /\ Receives(t)
  /\ exitState' = "RESET_BOARD"
  /\ conns' = [conns EXCEPT ![t].pc = LoopTop]
  /\ UNCHANGED <<tables, sessionThr, quit, rtpUp, sshWaiting, listening, nsent, wild, faults>>

(* The resolution itself is stored in the global data, which only          *)
(* GET_RESOLUTION reads back.                                              *)
SET_RESOLUTION(t) ==
  /\ Receives(t)
  /\ exitState' = "RESET_BOARD"
  /\ conns' = [conns EXCEPT ![t].pc = "cleanup"]
  /\ UNCHANGED <<tables, sessionThr, quit, rtpUp, sshWaiting, listening, nsent, wild, faults>>

(* GET_RESOLUTION, SET_BITRATE, the alarm and audio commands and unknown   *)
(* ones only answer.                                                       *)
AnswerOnly(t) ==
  /\ Receives(t)
  /\ conns' = [conns EXCEPT ![t].pc = LoopTop]
  /\ UNCHANGED <<tables, global, wild, faults>>

Handle(t) == \/ \E vp \in VideoPorts, ap \in AudioPorts : ADD_CLIENT(t, vp, ap)
             \/ \E ch \in 0 .. MAX_VIDEO_CHANNEL : OPEN_CHANNEL(t, ch) \/ CLOSE_CHANNEL(t, ch)
             \/ DEL_CLIENT(t) \/ RESET_BOARD(t) \/ SET_RESOLUTION(t) \/ AnswerOnly(t)

-----------------------------------------------------------------------------
(* send_to_client: the records a frame of channel ch goes to, the session  *)
(* ID it uses for each, and the destinations it therefore reaches.         *)
Receivers(ch) == {i \in Slots : /\ clients[i].clientID # -1
                                /\ clients[clients[i].clientID].flag[ch]}

(* Mutant: the position within the group instead of the group. *)
SidForModulo(i, ch, type) == clients[i].ids[type][ch % CHS_PER_SESSION]

SidFor(i, ch, type) == clients[i].ids[type][ch \div CHS_PER_SESSION]

Reached(ch, type) ==
  {sessions[s].pSession : s \in {SidFor(i, ch, type) : i \in Receivers(ch)} \cap Sids} \ {NULL}

SendToClient(ch, type) ==
  /\ sessionThr = "running" /\ nsent < MaxSends
  /\ nsent' = nsent + 1
  /\ sessions' = [s \in Sids |->
       IF sessions[s].pSession = NULL THEN sessions[s]
       ELSE LET hits == Cardinality({i \in Receivers(ch) : SidFor(i, ch, type) = s})
            IN  [sessions[s] EXCEPT !.curTimeStamp =
                   (@ + hits * sessions[s].timeStampInc) % TS_MOD]]
  /\ UNCHANGED <<clients, conns, sessionThr, exitState, quit, rtpUp,
                 sshWaiting, listening, wild, faults>>

-----------------------------------------------------------------------------
(* The session and the main thread. *)

init_session_tsk ==
  /\ sessionThr = "starting"
  /\ sessionThr' = "running"
  /\ clients' = [i \in Slots |-> [clients[i] EXCEPT !.clientID = -1, !.ids = NoIDs]]
  /\ UNCHANGED <<sessions, conns, exitState, quit, rtpUp, sshWaiting, listening, nsent,
                 wild, faults>>

(* delete_session_tsk: del_client on every slot in turn.  The first slot   *)
(* deleted resets the IDs of record NS, so that record's own sessions are  *)
(* only removed when no lower record was in use.                           *)
delete_session_tsk ==
  LET InUse == {i \in Slots : clients[i].clientID # -1}
      Seen == {i \in InUse : ~ (i = NS /\ \E j \in InUse : j < NS)}
  IN
  /\ quit /\ sessionThr = "running"
  /\ sessionThr' = "deleted"
  /\ sessions' = remove_session_objs(sessions, UNION {IDs(clients, i) : i \in Seen})
  /\ clients' = [i \in Slots |->
       [clients[i] EXCEPT !.clientID = -1,
                          !.ids = IF i = NS /\ InUse # {} THEN NoIDs ELSE @]]
  /\ UNCHANGED <<conns, exitState, quit, rtpUp, sshWaiting, listening, nsent, wild, faults>>

(* ssh_interact_thr: the operator ends the program. *)
OperatorExit ==
  /\ sshWaiting
  /\ sshWaiting' = FALSE /\ exitState' = "SUCCESS"
  /\ UNCHANGED <<tables, conns, sessionThr, quit, rtpUp, listening, nsent, wild, faults>>

(* main leaves its polling loop and sets the quit flag. *)
SetQuit ==
  /\ exitState # "WORKING" /\ ~quit
  /\ quit' = TRUE
  /\ UNCHANGED <<tables, conns, sessionThr, exitState, rtpUp, sshWaiting, listening, nsent,
                 wild, faults>>

(* main, once it has joined the session thread. *)
rtp_exit ==
  /\ quit /\ sessionThr = "deleted" /\ rtpUp
  /\ rtpUp' = FALSE
  /\ sessions' = remove_session_objs(sessions, Sids)
  /\ UNCHANGED <<clients, conns, sessionThr, exitState, quit, sshWaiting, listening, nsent,
                 wild, faults>>

(* clean_tcp_listen_thread: with every service thread joined, the listen   *)
(* socket is closed.                                                       *)
CloseListener ==
  /\ ~rtpUp /\ listening
  /\ \A t \in Conns : conns[t].pc = "closed"
  /\ listening' = FALSE
  /\ UNCHANGED <<tables, conns, sessionThr, exitState, quit, rtpUp, sshWaiting, nsent, wild, faults>>

-----------------------------------------------------------------------------
(* Once a record outside the table has been read or written, nothing more  *)
(* can be said of the program: the model stops there.                      *)
Next ==
  /\ ~wild /\ Cardinality(faults) <= MaxFaults
  /\ \/ \E t \in Conns : Connect(t) \/ Disconnect(t) \/ Cleanup(t) \/ Handle(t)
     \/ \E ch \in 0 .. chs - 1, type \in Types : SendToClient(ch, type)
     \/ init_session_tsk \/ delete_session_tsk
     \/ OperatorExit \/ SetQuit \/ rtp_exit \/ CloseListener

Spec == Init /\ [][Next]_vars

-----------------------------------------------------------------------------
Clients  == [clientID : Slots \cup {-1}, flag : [Chans -> BOOLEAN],
             ids : [Types -> [Entries -> Sids \cup {-1}]]]
Sessions == [pSession : Dests \cup {NULL}, curTimeStamp : 0 .. TS_MOD - 1,
             timeStampInc : {0, 80, 900}]
Conn     == [pc : {"closed", "recv", "cleanup"}, clientID : Int, added : BOOLEAN,
             types : SUBSET Types, opened : SUBSET Chans]

(* Every field of the two tables stays in range: in particular no session  *)
(* ID ever reaches MAX_SESSION_NUM, which the tests `> MAX_SESSION_NUM` of *)
(* rtp_send and remove_session_obj would let through, and a live record's  *)
(* clientID is its own index.                                              *)
TypeOK ==
  /\ clients \in [Slots -> Clients] /\ sessions \in [Sids -> Sessions]
  /\ conns \in [Conns -> Conn]
  /\ sessionThr \in {"starting", "running", "deleted"}
  /\ exitState \in {"WORKING", "SUCCESS", "RESET_BOARD"}
  /\ quit \in BOOLEAN /\ rtpUp \in BOOLEAN /\ listening \in BOOLEAN
  /\ sshWaiting \in BOOLEAN /\ wild \in BOOLEAN /\ nsent \in Nat
  /\ faults \subseteq Faults

(* No two entries of live clients name the same RTP session, and none      *)
(* names a session that has been destroyed: each create_rtp_session is     *)
(* balanced by the one remove_session_obj of its own client.  The one way  *)
(* to lose this is a record handed to a client without a port for a stream *)
(* with the IDs of the client before it (add_client).                      *)
NoSharedSession ==
  rtpUp /\ "stale" \notin faults =>
    \A i, j \in Slots, ty, uy \in Types, g, h \in Groups :
      LET a == clients[i].ids[ty][g]
          b == clients[j].ids[uy][h]
      IN  Live(i) /\ a # -1 =>
            /\ sessions[a].pSession # NULL
            /\ Live(j) /\ a = b => i = j /\ ty = uy /\ g = h

(* While the server works, a frame reaches exactly the clients that opened *)
(* its channel and gave a port for its stream, each through the session    *)
(* made for that group and type; a failed add_client does not change that  *)
(* (send_to_client, add_client, open_channel).                             *)
DeliversExactly ==
  sessionThr = "running" /\ ~quit /\ ~wild /\ faults \subseteq {"partial"} =>
    \A ch \in 0 .. chs - 1, ty \in Types :
      Reached(ch, ty) =
        {[dest |-> t, type |-> ty, grp |-> ch \div CHS_PER_SESSION] :
           t \in {u \in Conns : Owns(u) /\ ty \in conns[u].types /\ ch \in conns[u].opened}}

(* While the server works, the session table holds no session that no      *)
(* client's deletion will free, unless add_client failed half way, or      *)
(* init_session_tsk or the wrong record of del_client wiped the IDs.       *)
NoLeakedSession ==
  ~quit /\ ~wild /\ faults \cap {"partial", "reset", "early"} = {} =>
    \A s \in Sids : sessions[s].pSession # NULL => \E i \in Slots : Live(i) /\ s \in IDs(clients, i)

(* A session starts at time-stamp zero, for create_rtp_session relies on   *)
(* the previous owner's remove_session_obj to have cleared the entry.      *)
FreshTimeStamp == \A s \in Sids : sessions[s].pSession = NULL => sessions[s] = Unused

(* While the server works, a client that was added stays registered until  *)
(* its own connection ends, in a record it shares with no other: only a    *)
(* connection whose clientID was never set can take it away                *)
(* (tcpServerThrFxn).                                                      *)
ServedUntilGone ==
  ~quit /\ ~wild /\ "alien" \notin faults =>
    \A t, u \in Conns : Owns(t) =>
      /\ clients[conns[t].clientID].clientID = conns[t].clientID
      /\ Owns(u) /\ conns[u].clientID = conns[t].clientID => t = u

(* While the server works no step takes a session away from a client that  *)
(* stays, whoever else comes and goes, unless it is the client of the one  *)
(* record whose IDs del_client clears for the deleted one's.               *)
OthersUntouched ==
  [][ faults' \cap {"stale", "reset"} = {} =>
      \A i \in Slots :
        sessionThr = "running" /\ ~quit /\ Live(i) /\ Live(i)' =>
          /\ clients'[i].ids = clients[i].ids
          /\ \A s \in IDs(clients, i) \cap Sids :
                sessions'[s].pSession = sessions[s].pSession ]_vars

-----------------------------------------------------------------------------
(* What comments and documents of the code say, and the code does not do.  *)

(* serverIf.c:92-93: an ADD_CLIENT for which the RTP sessions cannot be    *)
(* created is answered with DVS_RETURN_FAIL, so a client told SUCCESS has  *)
(* a client ID.                                                            *)
AddFailureReported == \A t \in Conns : conns[t].added => conns[t].clientID \in Slots

(* rtpsend.h:119: rtp_exit is called when the RTP module is no longer      *)
(* used; so no session exists after it.                                    *)
NoSessionAfterRtpExit == ~rtpUp => \A s \in Sids : sessions[s].pSession = NULL
=============================================================================
