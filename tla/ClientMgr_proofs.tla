-------------------------- MODULE ClientMgr_proofs --------------------------
(***************************************************************************)
(* Safety of the client and session tables for every size of the tables,   *)
(* every set of connections and every behaviour of the clients.            *)
(***************************************************************************)
EXTENDS ClientMgr, FiniteSetTheorems, TLAPS

(* What alloc_sessionID hands out: distinct free IDs, for the first groups. *)
LEMMA GrabFacts ==
  ASSUME NEW F \in SUBSET Sids, NEW g \in Grabs(F)
  PROVE  /\ DOMAIN g \subseteq Groups
         /\ \A i \in DOMAIN g : g[i] \in F
         /\ \A i, j \in DOMAIN g : g[i] = g[j] => i = j
<1> DEFINE n == IF Cardinality(F) < NS THEN Cardinality(F) ELSE NS
<1>1. IsFiniteSet(F)
  <2>1. 0 \in Int /\ MAX_SESSION_NUM - 1 \in Int
    BY SizesAssumption
  <2>2. IsFiniteSet(Sids)
    BY <2>1, FS_Interval DEF Sids
  <2> QED
    BY <2>2, FS_Subset
<1>2. n \in 0 .. NS
  BY <1>1, FS_CardinalityType, SizesAssumption
<1>3. /\ g \in [0 .. n - 1 -> F]
      /\ \A i \in 0 .. n - 1 : \A j \in 0 .. i - 1 : g[j] < g[i]
  BY DEF Grabs
<1> HIDE DEF n
<1>4. /\ DOMAIN g = 0 .. n - 1 /\ \A i \in 0 .. n - 1 : g[i] \in F
      /\ \A i \in 0 .. n - 1 : g[i] \in Int
  <2>1. DOMAIN g = 0 .. n - 1 /\ \A i \in 0 .. n - 1 : g[i] \in F
    BY <1>3
  <2>2. \A s \in F : s \in Int
    BY SizesAssumption DEF Sids
  <2> QED
    BY <2>1, <2>2
<1>5. ASSUME NEW i \in 0 .. n - 1, NEW j \in 0 .. n - 1, g[i] = g[j] PROVE i = j
  <2>1. ~ (i < j) /\ ~ (j < i)
    BY <1>2, <1>3, <1>4, <1>5
  <2> QED
    BY <1>2, <2>1
<1> QED
  BY <1>2, <1>4, <1>5, SizesAssumption DEF Groups

(* Creating sessions keeps the session table well-formed, and gives every  *)
(* ID in g a session.                                                      *)
LEMMA CreateFacts ==
  ASSUME NEW ss \in [Sids -> Sessions], NEW g, DOMAIN g \subseteq Groups,
         \A i \in DOMAIN g : g[i] \in Sids, NEW t \in Conns, NEW ty \in Types
  PROVE  /\ create_rtp_session(ss, g, t, ty) \in [Sids -> Sessions]
         /\ \A s \in Sids : ss[s].pSession # NULL
              => create_rtp_session(ss, g, t, ty)[s].pSession # NULL
         /\ \A i \in DOMAIN g : create_rtp_session(ss, g, t, ty)[g[i]].pSession # NULL
<1> DEFINE cs == create_rtp_session(ss, g, t, ty)
<1>1. ASSUME NEW s \in Sids, \E i \in DOMAIN g : g[i] = s
      PROVE  cs[s] \in Sessions /\ cs[s].pSession # NULL
  <2> DEFINE k == CHOOSE i \in DOMAIN g : g[i] = s
  <2>1. k \in Groups
    BY <1>1
  <2> HIDE DEF k
  <2>2. [dest |-> t, type |-> ty, grp |-> k] \in Dests
    BY <2>1 DEF Dests
  <2>3. TIME_STAMP_INC(ty) \in {0, 80, 900}
    BY DEF TIME_STAMP_INC
  <2>4. cs[s] = [pSession |-> [dest |-> t, type |-> ty, grp |-> k],
                 curTimeStamp |-> ss[s].curTimeStamp,
                 timeStampInc |-> TIME_STAMP_INC(ty)]
    BY <1>1 DEF create_rtp_session, k
  <2> QED
    BY <2>2, <2>3, <2>4, NULLAssumption DEF Sessions
<1>2. ASSUME NEW s \in Sids, ~ \E i \in DOMAIN g : g[i] = s
      PROVE  cs[s] = ss[s]
  BY <1>2 DEF create_rtp_session
<1>3. DOMAIN cs = Sids /\ cs = [s \in Sids |-> cs[s]]
  BY DEF create_rtp_session
<1> HIDE DEF cs
<1> QED
  BY <1>1, <1>2, <1>3 DEF cs

(* Removing sessions keeps the table well-formed. *)
LEMMA RemoveFacts ==
  ASSUME NEW ss \in [Sids -> Sessions], NEW R
  PROVE  remove_session_objs(ss, R) \in [Sids -> Sessions]
<1>1. Unused \in Sessions
  BY TimeStampAssumption DEF Unused, Sessions
<1> QED
  BY <1>1 DEF remove_session_objs

(* The IDs add_client stores are session IDs or -1. *)
LEMMA StoreFacts ==
  ASSUME NEW ids \in [Entries -> Sids \cup {-1}], NEW g, DOMAIN g \subseteq Groups,
         \A i \in DOMAIN g : g[i] \in Sids
  PROVE  /\ StoreIDs(ids, g) \in [Entries -> Sids \cup {-1}]
         /\ \A e \in Entries : e \in DOMAIN g => StoreIDs(ids, g)[e] = g[e]
BY DEF StoreIDs

(* Every group has an entry in videoIDs and audioIDs. *)
LEMMA GroupsAreEntries == Groups \subseteq Entries
<1>1. NS \in Int /\ NE \in Int /\ NS <= NE
  BY SizesAssumption
<1>2. ASSUME NEW g \in 0 .. NS - 1 PROVE g \in 0 .. NE - 1
  BY <1>1
<1> QED
  BY <1>2 DEF Groups, Entries

(* del_client keeps the client table well-formed. *)
LEMMA DelFacts ==
  ASSUME NEW cl \in [Slots -> Clients], NEW i \in Slots
  PROVE  DelClients(cl, i) \in [Slots -> Clients]
<1>1. NoIDs \in [Types -> [Entries -> Sids \cup {-1}]] /\ NS \in Slots
  BY SizesAssumption DEF NoIDs, Slots
<1> QED
  BY <1>1, ZenonT(30) DEF DelClients, Clients

(* The groups created for one type, whatever the port. *)
LEMMA CreatedFacts ==
  ASSUME NEW ss \in [Sids -> Sessions], NEW port \in Int, NEW g \in Created(port, ss)
  PROVE  /\ DOMAIN g \subseteq Groups
         /\ \A i \in DOMAIN g : g[i] \in Sids /\ ss[g[i]].pSession = NULL
         /\ \A i, j \in DOMAIN g : g[i] = g[j] => i = j
<1>1. Free(ss) \in SUBSET Sids /\ \A s \in Free(ss) : ss[s].pSession = NULL
  BY DEF Free
<1>2. CASE port > 0
  <2>1. g \in Grabs(Free(ss))
    BY <1>2 DEF Created
  <2> QED
    BY <1>1, <2>1, GrabFacts
<1>3. CASE ~(port > 0)
  BY <1>3 DEF Created
<1> QED
  BY <1>2, <1>3

(* One creation loop of add_client. *)
LEMMA CreateLoop ==
  ASSUME NEW ss \in [Sids -> Sessions], NEW port \in Int, NEW g \in Created(port, ss),
         NEW t \in Conns, NEW ty \in Types, NEW cs, cs = create_rtp_session(ss, g, t, ty)
  PROVE  /\ cs \in [Sids -> Sessions]
         /\ \A s \in Sids : ss[s].pSession # NULL => cs[s].pSession # NULL
         /\ \A i \in DOMAIN g : cs[g[i]].pSession # NULL
<1>1. DOMAIN g \subseteq Groups /\ \A i \in DOMAIN g : g[i] \in Sids
  BY CreatedFacts
<1>2. /\ create_rtp_session(ss, g, t, ty) \in [Sids -> Sessions]
      /\ \A s \in Sids : ss[s].pSession # NULL
           => create_rtp_session(ss, g, t, ty)[s].pSession # NULL
      /\ \A i \in DOMAIN g : create_rtp_session(ss, g, t, ty)[g[i]].pSession # NULL
  BY <1>1, CreateFacts
<1> QED
  BY <1>2

(* What one ADD_CLIENT does to the types of the two tables. *)
LEMMA AddTypes ==
  ASSUME TypeOK, NEW t \in Conns, NEW vp \in Int, NEW ap \in Int,
         AddClient(t, vp, ap)
  PROVE  /\ clients' \in [Slots -> Clients]
         /\ sessions' \in [Sids -> Sessions]
         /\ \E r \in Int : AddReturns(t, r, vp, ap)
         /\ faults' \subseteq Faults
<1> USE DEF TypeOK
<1> DEFINE IDArrays == [Entries -> Sids \cup {-1}]
<1>0. ASSUME NEW ids \in IDArrays, NEW port \in Int, NEW ss \in [Sids -> Sessions],
             NEW g \in Created(port, ss)
      PROVE  NewIDs(port, ids, g) \in IDArrays
  BY <1>0, CreatedFacts, StoreFacts DEF NewIDs
<1>1. CASE AddNoRecord(t, vp, ap)
  BY <1>1 DEF AddNoRecord, tables
<1>2. ASSUME NEW id \in FreeSlots, NEW gv \in Created(vp, sessions),
             AddVideoFails(t, id, vp, gv, ap)
      PROVE  /\ clients' \in [Slots -> Clients]
             /\ sessions' \in [Sids -> Sessions]
             /\ \E r \in Int : AddReturns(t, r, vp, ap)
             /\ faults' \subseteq Faults
  <2>1. sessions' \in [Sids -> Sessions]
    BY <1>2, CreatedFacts, CreateFacts DEF AddVideoFails, Types
  <2>2. id \in Slots /\ clients[id] \in Clients /\ clients[id].ids["video"] \in IDArrays
    BY <1>2 DEF FreeSlots, Clients, Types
  <2>3. NewIDs(vp, clients[id].ids["video"], gv) \in IDArrays
    BY <1>0, <1>2, <2>2
  <2>4. clients' \in [Slots -> Clients]
    BY <1>2, <2>2, <2>3 DEF AddVideoFails, Clients, Types
  <2> QED
    BY <1>2, <2>1, <2>4 DEF AddVideoFails, AddFaults
<1>3. ASSUME NEW id \in FreeSlots, NEW gv \in Created(vp, sessions),
             NEW s1, s1 = create_rtp_session(sessions, gv, t, "video"),
             NEW ga \in Created(ap, s1), AddRest(t, id, vp, gv, s1, ap, ga)
      PROVE  /\ clients' \in [Slots -> Clients]
             /\ sessions' \in [Sids -> Sessions]
             /\ \E r \in Int : AddReturns(t, r, vp, ap)
             /\ faults' \subseteq Faults
  <2>1. s1 \in [Sids -> Sessions]
    BY <1>3, CreatedFacts, CreateFacts DEF Types
  <2>2. sessions' \in [Sids -> Sessions]
    BY <1>3, <2>1, CreatedFacts, CreateFacts DEF AddRest, Types
  <2>3. /\ id \in Slots /\ id \in Int /\ clients[id] \in Clients
        /\ clients[id].ids["video"] \in IDArrays /\ clients[id].ids["audio"] \in IDArrays
    BY <1>3, SizesAssumption DEF FreeSlots, Clients, Types, Slots
  <2>4. /\ NewIDs(vp, clients[id].ids["video"], gv) \in IDArrays
        /\ NewIDs(ap, clients[id].ids["audio"], ga) \in IDArrays
    BY <1>0, <1>3, <2>1, <2>3
  <2>5. clients' \in [Slots -> Clients]
    BY <1>3, <2>3, <2>4 DEF AddRest, Clients, Types
  <2> QED
    BY <1>3, <2>2, <2>3, <2>5 DEF AddRest, AddFaults
<1> QED
  BY <1>1, <1>2, <1>3 DEF AddClient

(* Reducing a time-stamp to its width. *)
LEMMA Wrap == ASSUME NEW x \in Nat PROVE x % TS_MOD \in 0 .. TS_MOD - 1
BY TimeStampAssumption

(* The tables stay well-formed whatever the clients send: session IDs stay *)
(* below MAX_SESSION_NUM and time-stamps within 32 bits.                   *)
THEOREM TypeInvariant == Spec => []TypeOK
<1>0. 0 \in Slots /\ 0 \in Sids /\ NS \in Slots /\ \A i \in Slots : i \in Int
  BY SizesAssumption DEF Slots, Sids
<1>c. Closed \in Conn
  BY DEF Closed, Conn
<1>t. LoopTop \in {"recv", "cleanup"}
  BY DEF LoopTop
<1>1. Init => TypeOK
  <2> SUFFICES ASSUME Init PROVE TypeOK
    OBVIOUS
  <2>1. clients \in [Slots -> Clients]
    BY <1>0 DEF Init, ZeroClient, Clients
  <2>2. sessions \in [Sids -> Sessions]
    BY TimeStampAssumption DEF Init, Unused, Sessions
  <2>3. conns \in [Conns -> Conn]
    BY <1>c DEF Init
  <2> QED
    BY <2>1, <2>2, <2>3 DEF Init, TypeOK
<1>2. TypeOK /\ [Next]_vars => TypeOK'
  <2> SUFFICES ASSUME TypeOK, [Next]_vars PROVE TypeOK'
    OBVIOUS
  <2> USE DEF TypeOK
  <2>1. ASSUME NEW t \in Conns, Connect(t) PROVE TypeOK'
    <3>1. PICK v \in Int : conns' = [conns EXCEPT ![t] = [Closed EXCEPT !.pc = LoopTop, !.clientID = v]]
      BY <2>1, InputsAssumption DEF Connect
    <3>2. [Closed EXCEPT !.pc = LoopTop, !.clientID = v] \in Conn
      BY <1>t DEF Closed, Conn
    <3>3. conns' \in [Conns -> Conn]
      BY <3>1, <3>2
    <3> QED
      BY <2>1, <3>3 DEF Connect
  <2>2. ASSUME NEW t \in Conns, Disconnect(t) PROVE TypeOK'
    BY <2>2 DEF Disconnect, tables, global, Conn
  <2>3. ASSUME NEW t \in Conns, Cleanup(t) PROVE TypeOK'
    <3>1. conns' \in [Conns -> Conn]
      BY <2>3, <1>c DEF Cleanup
    <3>2. CASE conns[t].clientID \in Slots
      BY <2>3, <3>1, <3>2, DelFacts, RemoveFacts DEF Cleanup, DelSessions, global
    <3>3. CASE conns[t].clientID \notin Slots
      BY <2>3, <3>1, <3>3 DEF Cleanup, tables, global
    <3> QED
      BY <3>2, <3>3
  <2>4. ASSUME NEW t \in Conns, Handle(t) PROVE TypeOK'
    <3>1. ASSUME NEW vp \in VideoPorts, NEW ap \in AudioPorts, ADD_CLIENT(t, vp, ap)
          PROVE  TypeOK'
      <4>1. AddClient(t, vp, ap) /\ UNCHANGED <<global, wild>>
        BY <3>1 DEF ADD_CLIENT
      <4>2. vp \in Int /\ ap \in Int
        BY InputsAssumption
      <4>3. PICK r \in Int : AddReturns(t, r, vp, ap)
        BY <4>1, <4>2, AddTypes
      <4>4. conns' \in [Conns -> Conn]
        <5> DEFINE T == {ty \in Types : r \in Slots /\ IF ty = "video" THEN vp > 0 ELSE ap > 0}
        <5>1. conns' = [conns EXCEPT ![t] = [pc |-> LoopTop, clientID |-> r, added |-> r # -1,
                                             opened |-> {}, types |-> T]]
          BY <4>3 DEF AddReturns
        <5>2. T \in SUBSET Types
          OBVIOUS
        <5> HIDE DEF T
        <5> QED
          BY <1>t, <5>1, <5>2 DEF Conn
      <4> QED
        BY <4>1, <4>2, <4>4, AddTypes DEF global
    <3>2. ASSUME NEW ch \in 0 .. MAX_VIDEO_CHANNEL, NEW on \in BOOLEAN,
                 SwitchChannel(t, ch, on)
          PROVE  TypeOK'
      <4>1. Selected(ch) \subseteq Chans
        BY SizesAssumption DEF Selected, Chans
      <4>2. conns' \in [Conns -> Conn]
        <5> DEFINE o == IF on /\ Owns(t) THEN conns[t].opened \cup Selected(ch)
                              ELSE conns[t].opened \ Selected(ch)
        <5>1. conns[t] \in Conn /\ o \in SUBSET Chans
          BY <4>1 DEF Conn
        <5>2. conns' = [conns EXCEPT ![t].pc = LoopTop, ![t].opened = o]
          BY <3>2 DEF SwitchChannel
        <5> HIDE DEF o
        <5> QED
          BY <5>1, <5>2, <1>t DEF Conn
      <4>3. clients' \in [Slots -> Clients]
        <5>1. CASE conns[t].clientID \notin Slots
          BY <3>2, <5>1 DEF SwitchChannel
        <5>2. CASE conns[t].clientID \in Slots
          <6> DEFINE c == conns[t].clientID
                     f == [k \in Chans |-> IF k \in Selected(ch) THEN on
                                                                ELSE clients[c].flag[k]]
          <6>1. clients' = clients \/ clients' = [clients EXCEPT ![c].flag = f]
            BY <3>2, <5>2 DEF SwitchChannel, SetFlags
          <6>2. f \in [Chans -> BOOLEAN]
            BY <5>2 DEF Clients
          <6> HIDE DEF f
          <6> QED
            BY <5>2, <6>1, <6>2 DEF Clients
        <5> QED
          BY <5>1, <5>2
      <4> QED
        BY <3>2, <4>2, <4>3 DEF SwitchChannel, global
    <3>3. CASE DEL_CLIENT(t)
      BY <3>3 DEF DEL_CLIENT, tables, global, Conn
    <3>4. CASE RESET_BOARD(t)
      BY <3>4, <1>t DEF RESET_BOARD, tables, Conn
    <3>5. CASE AnswerOnly(t)
      BY <3>5, <1>t DEF AnswerOnly, tables, global, Conn
    <3>6. ASSUME SET_RESOLUTION(t) PROVE TypeOK'
      BY <3>6 DEF SET_RESOLUTION, tables, Conn
    <3> QED
      BY <2>4, <3>1, <3>2, <3>3, <3>4, <3>5, <3>6
         DEF Handle, OPEN_CHANNEL, CLOSE_CHANNEL
  <2>5. ASSUME NEW ch \in 0 .. chs - 1, NEW type \in Types, SendToClient(ch, type)
        PROVE  TypeOK'
    <3>1. ASSUME NEW s \in Sids, sessions[s].pSession # NULL
          PROVE  sessions'[s] \in Sessions
      <4> DEFINE H == {i \in Receivers(ch) : SidFor(i, ch, type) = s}
                 x == sessions[s].curTimeStamp + Cardinality(H) * sessions[s].timeStampInc
      <4>1. Cardinality(H) \in Nat
        <5>1. 0 \in Int /\ MAX_CLIENT_NUM - 1 \in Int
          BY SizesAssumption
        <5>2. IsFiniteSet(Slots)
          BY <5>1, FS_Interval DEF Slots
        <5>3. H \in SUBSET Slots
          BY DEF Receivers
        <5> QED
          BY <5>2, <5>3, FS_Subset, FS_CardinalityType
      <4>2. sessions'[s] = [sessions[s] EXCEPT !.curTimeStamp = x % TS_MOD]
        BY <2>5, <3>1 DEF SendToClient
      <4> HIDE DEF H
      <4>3. x \in Nat
        BY <4>1, TimeStampAssumption DEF Sessions
      <4> HIDE DEF x
      <4>4. x % TS_MOD \in 0 .. TS_MOD - 1
        BY <4>3, Wrap
      <4> QED
        BY <4>2, <4>4 DEF Sessions
    <3>2. ASSUME NEW s \in Sids, sessions[s].pSession = NULL
          PROVE  sessions'[s] \in Sessions
      BY <2>5, <3>2 DEF SendToClient
    <3>3. sessions' \in [Sids -> Sessions]
      BY <2>5, <3>1, <3>2 DEF SendToClient
    <3>4. /\ nsent' \in Nat
          /\ UNCHANGED <<clients, conns, sessionThr, exitState, quit, rtpUp,
                         sshWaiting, listening, wild, faults>>
      BY <2>5 DEF SendToClient
    <3> QED
      BY <3>3, <3>4
  <2>6. CASE init_session_tsk
    BY <2>6 DEF init_session_tsk, NoIDs, Clients
  <2>7. CASE delete_session_tsk
    <3>1. NoIDs \in [Types -> [Entries -> Sids \cup {-1}]]
      BY DEF NoIDs
    <3>2. clients' \in [Slots -> Clients]
      <4>1. ASSUME NEW i \in Slots PROVE clients'[i] \in Clients
        <5>1. \E x \in {clients[i].ids, NoIDs} :
                clients'[i] = [clients[i] EXCEPT !.clientID = -1, !.ids = x]
          BY <2>7 DEF delete_session_tsk
        <5> QED
          BY <3>1, <5>1 DEF Clients
      <4>2. clients' = [i \in Slots |-> clients'[i]]
        BY <2>7 DEF delete_session_tsk
      <4> QED
        BY <4>1, <4>2
    <3>3. sessions' \in [Sids -> Sessions]
      BY <2>7, RemoveFacts DEF delete_session_tsk
    <3> QED
      BY <2>7, <3>2, <3>3 DEF delete_session_tsk
  <2>8. CASE OperatorExit \/ SetQuit \/ CloseListener
    BY <2>8 DEF OperatorExit, SetQuit, CloseListener, tables
  <2>9. CASE rtp_exit
    BY <2>9, RemoveFacts DEF rtp_exit
  <2>10. CASE UNCHANGED vars
    BY <2>10 DEF vars
  <2> QED
    BY <2>1, <2>2, <2>3, <2>4, <2>5, <2>6, <2>7, <2>8, <2>9, <2>10 DEF Next
<1> QED
  BY <1>1, <1>2, PTL DEF Spec

-----------------------------------------------------------------------------
(***************************************************************************)
(* What a step does to the two tables and to the threads' numbers.         *)
(***************************************************************************)
Dest(t, ty, g)   == [dest |-> t, type |-> ty, grp |-> g]
Port(ty, vp, ap) == IF ty = "video" THEN vp ELSE ap

(* A destination says whose, of which type and of which group it is, and   *)
(* is not NULL.                                                            *)
LEMMA DestFields ==
  ASSUME NEW t, NEW ty, NEW g, NEW u, NEW uy, NEW h, Dest(t, ty, g) = Dest(u, uy, h)
  PROVE  t = u /\ ty = uy /\ g = h
<1>1. Dest(t, ty, g).dest = t /\ Dest(t, ty, g).type = ty /\ Dest(t, ty, g).grp = g
  BY DEF Dest
<1>2. Dest(u, uy, h).dest = u /\ Dest(u, uy, h).type = uy /\ Dest(u, uy, h).grp = h
  BY DEF Dest
<1> QED
  BY <1>1, <1>2

LEMMA DestNotNull ==
  ASSUME NEW t \in Conns, NEW ty \in Types, NEW g \in Groups
  PROVE  Dest(t, ty, g) # NULL
BY NULLAssumption DEF Dest, Dests

(* create_rtp_session gives every group its own session, and touches no    *)
(* other.                                                                  *)
LEMMA CreateExact ==
  ASSUME NEW ss \in [Sids -> Sessions], NEW port \in Int, NEW g \in Created(port, ss),
         NEW t \in Conns, NEW ty \in Types, NEW cs, cs = create_rtp_session(ss, g, t, ty)
  PROVE  /\ \A k \in DOMAIN g : cs[g[k]].pSession = Dest(t, ty, k)
         /\ \A s \in Sids : (\A k \in DOMAIN g : g[k] # s) => cs[s] = ss[s]
         /\ \A s \in Sids : ss[s].pSession # NULL => cs[s] = ss[s]
         /\ DOMAIN g = {} => cs = ss
<1>1. /\ \A i \in DOMAIN g : g[i] \in Sids /\ ss[g[i]].pSession = NULL
      /\ \A i, j \in DOMAIN g : g[i] = g[j] => i = j
  BY CreatedFacts
<1>2. ASSUME NEW k \in DOMAIN g PROVE cs[g[k]].pSession = Dest(t, ty, k)
  <2> DEFINE c == CHOOSE i \in DOMAIN g : g[i] = g[k]
  <2>1. c \in DOMAIN g /\ g[c] = g[k]
    OBVIOUS
  <2>2. c = k
    BY <1>1, <2>1
  <2>3. cs[g[k]] = [pSession |-> [dest |-> t, type |-> ty, grp |-> c],
                    curTimeStamp |-> ss[g[k]].curTimeStamp,
                    timeStampInc |-> TIME_STAMP_INC(ty)]
    BY <1>1 DEF create_rtp_session
  <2> HIDE DEF c
  <2> QED
    BY <2>2, <2>3 DEF Dest
<1>3. ASSUME NEW s \in Sids, \A k \in DOMAIN g : g[k] # s PROVE cs[s] = ss[s]
  BY <1>3 DEF create_rtp_session
<1>4. DOMAIN g = {} => cs = ss
  BY DEF create_rtp_session
<1> QED
  BY <1>1, <1>2, <1>3, <1>4

(* The entries of a record for a stream that got all its sessions, and of  *)
(* one that was not asked for.                                             *)
LEMMA NewEntries ==
  ASSUME NEW ids \in [Entries -> Sids \cup {-1}], NEW ss \in [Sids -> Sessions], NEW port \in Int,
         NEW g \in Created(port, ss), ~Failed(port, g)
  PROVE  /\ port > 0 => DOMAIN g = Groups /\ \A k \in Groups : NewIDs(port, ids, g)[k] = g[k]
         /\ ~(port > 0) => DOMAIN g = {} /\ NewIDs(port, ids, g) = ids
<1>1. CASE port > 0
  <2>1. DOMAIN g = Groups
    BY <1>1 DEF Failed, Complete
  <2> QED
    BY <1>1, <2>1, GroupsAreEntries DEF NewIDs, StoreIDs
<1>2. CASE ~(port > 0)
  BY <1>2 DEF NewIDs, Created
<1> QED
  BY <1>1, <1>2

(* ADD_CLIENT added no client: the number returned is of no record, no     *)
(* record in use and no session in use has changed; sessions are left      *)
(* behind only with the mark "partial".                                    *)
AddFails(t, vp, ap) ==
  /\ \E r \in Int : r \notin Slots /\ AddReturns(t, r, vp, ap)
  /\ \A k \in Slots : /\ clients'[k].clientID = clients[k].clientID
                      /\ clients[k].clientID # -1 => clients'[k] = clients[k]
  /\ \A s \in Sids : sessions[s].pSession # NULL => sessions'[s] = sessions[s]
  /\ "partial" \in faults' \/ sessions' = sessions

(* Record id became the client of connection t: its entries for a stream   *)
(* with a port name sessions that were free, each made for its own type    *)
(* and group; those for a stream without are -1, or marked "stale"; no     *)
(* other record and no other session changed.                              *)
NewClient(t, id, vp, ap) ==
  /\ AddReturns(t, id, vp, ap)
  /\ clients[id].clientID = -1 /\ clients'[id].clientID = id
  /\ \A ch \in Chans : ~clients'[id].flag[ch]
  /\ \A k \in Slots : k # id => clients'[k] = clients[k]
  /\ \A ty \in Types, g \in Groups :
       /\ Port(ty, vp, ap) > 0 =>
            /\ clients'[id].ids[ty][g] \in Sids
            /\ sessions[clients'[id].ids[ty][g]].pSession = NULL
            /\ sessions'[clients'[id].ids[ty][g]].pSession = Dest(t, ty, g)
       /\ ~(Port(ty, vp, ap) > 0) => clients'[id].ids[ty][g] = -1 \/ "stale" \in faults'
  /\ \A s \in Sids : \/ sessions'[s] = sessions[s]
                     \/ /\ sessions[s].pSession = NULL
                        /\ \E ty \in Types, g \in Groups : clients'[id].ids[ty][g] = s
  /\ sessionThr # "starting" \/ "early" \in faults'

(* The video sessions could not all be created. *)
LEMMA VideoOutcome ==
  ASSUME TypeOK, NEW t \in Conns, NEW vp \in Int, NEW ap \in Int,
         NEW id \in FreeSlots, NEW gv \in Created(vp, sessions), AddVideoFails(t, id, vp, gv, ap)
  PROVE  AddFails(t, vp, ap)
<1> USE DEF TypeOK
<1>1. id \in Slots /\ clients[id].clientID = -1
  BY DEF FreeSlots
<1>2. \E x : clients' = [clients EXCEPT ![id].ids["video"] = x]
  BY DEF AddVideoFails
<1>3. \A k \in Slots : /\ clients'[k].clientID = clients[k].clientID
                       /\ clients[k].clientID # -1 => clients'[k] = clients[k]
  BY <1>1, <1>2 DEF Clients
<1>4. sessions' = create_rtp_session(sessions, gv, t, "video")
  BY DEF AddVideoFails
<1>5. /\ \A s \in Sids : sessions[s].pSession # NULL => sessions'[s] = sessions[s]
      /\ DOMAIN gv = {} => sessions' = sessions
  BY <1>4, CreateExact DEF Types
<1>6. DOMAIN gv # {} => "partial" \in faults'
  BY DEF AddVideoFails, AddFaults, Faults
<1>7. -2 \in Int /\ -2 \notin Slots /\ AddReturns(t, -2, vp, ap)
  BY SizesAssumption DEF AddVideoFails, Slots
<1> QED
  BY <1>3, <1>5, <1>6, <1>7 DEF AddFails

(* The sessions after both loops. *)
LEMMA BothLoops ==
  ASSUME TypeOK, NEW t \in Conns, NEW vp \in Int, NEW ap \in Int,
         NEW gv \in Created(vp, sessions),
         NEW s1, s1 = create_rtp_session(sessions, gv, t, "video"),
         NEW ga \in Created(ap, s1), sessions' = create_rtp_session(s1, ga, t, "audio")
  PROVE  /\ \A s \in Sids : sessions[s].pSession # NULL => sessions'[s] = sessions[s]
         /\ \A s \in Sids : (\A k \in DOMAIN gv : gv[k] # s) /\ (\A k \in DOMAIN ga : ga[k] # s)
                              => sessions'[s] = sessions[s]
         /\ DOMAIN gv = {} /\ DOMAIN ga = {} => sessions' = sessions
         /\ \A k \in DOMAIN gv : /\ gv[k] \in Sids /\ sessions[gv[k]].pSession = NULL
                                 /\ sessions'[gv[k]].pSession = Dest(t, "video", k)
         /\ \A k \in DOMAIN ga : /\ ga[k] \in Sids /\ sessions[ga[k]].pSession = NULL
                                 /\ sessions'[ga[k]].pSession = Dest(t, "audio", k)
<1> USE DEF TypeOK
<1>t. "video" \in Types /\ "audio" \in Types
  BY DEF Types
<1>1. s1 \in [Sids -> Sessions]
  BY <1>t, CreateLoop
<1>2. /\ \A k \in DOMAIN gv : s1[gv[k]].pSession = Dest(t, "video", k)
      /\ \A s \in Sids : (\A k \in DOMAIN gv : gv[k] # s) => s1[s] = sessions[s]
      /\ \A s \in Sids : sessions[s].pSession # NULL => s1[s] = sessions[s]
      /\ DOMAIN gv = {} => s1 = sessions
  BY <1>t, CreateExact
<1>3. /\ DOMAIN gv \subseteq Groups
      /\ \A k \in DOMAIN gv : gv[k] \in Sids /\ sessions[gv[k]].pSession = NULL
  BY CreatedFacts
<1>4. /\ \A k \in DOMAIN ga : sessions'[ga[k]].pSession = Dest(t, "audio", k)
      /\ \A s \in Sids : (\A k \in DOMAIN ga : ga[k] # s) => sessions'[s] = s1[s]
      /\ \A s \in Sids : s1[s].pSession # NULL => sessions'[s] = s1[s]
      /\ DOMAIN ga = {} => sessions' = s1
  BY <1>1, <1>t, CreateExact
<1>5. \A k \in DOMAIN ga : ga[k] \in Sids /\ s1[ga[k]].pSession = NULL
  BY <1>1, CreatedFacts
<1>6. \A k \in DOMAIN gv : s1[gv[k]].pSession # NULL
  BY <1>2, <1>3, <1>t, DestNotNull
<1>7. \A k \in DOMAIN ga : sessions[ga[k]].pSession = NULL
  BY <1>2, <1>5
<1>8. \A k \in DOMAIN gv : sessions'[gv[k]].pSession = Dest(t, "video", k)
  BY <1>2, <1>3, <1>4, <1>6
<1>9. \A s \in Sids : sessions[s].pSession # NULL => sessions'[s] = sessions[s]
  BY <1>2, <1>4
<1> QED
  BY <1>2, <1>3, <1>4, <1>5, <1>7, <1>8, <1>9

(* The video sessions are there: the rest succeeds or fails. *)
LEMMA RestOutcome ==
  ASSUME TypeOK, NEW t \in Conns, NEW vp \in Int, NEW ap \in Int,
         NEW id \in FreeSlots, NEW gv \in Created(vp, sessions), ~Failed(vp, gv),
         NEW s1, s1 = create_rtp_session(sessions, gv, t, "video"),
         NEW ga \in Created(ap, s1), AddRest(t, id, vp, gv, s1, ap, ga)
  PROVE  AddFails(t, vp, ap) \/ NewClient(t, id, vp, ap)
<1> USE DEF TypeOK
<1>t. "video" \in Types /\ "audio" \in Types /\ \A ty \in Types : ty \in {"video", "audio"}
  BY DEF Types
<1>0. id \in Slots /\ clients[id].clientID = -1
  BY DEF FreeSlots
<1>1. sessions' = create_rtp_session(s1, ga, t, "audio")
  BY DEF AddRest
<1>2. /\ \A s \in Sids : sessions[s].pSession # NULL => sessions'[s] = sessions[s]
      /\ \A s \in Sids : (\A k \in DOMAIN gv : gv[k] # s) /\ (\A k \in DOMAIN ga : ga[k] # s)
                           => sessions'[s] = sessions[s]
      /\ DOMAIN gv = {} /\ DOMAIN ga = {} => sessions' = sessions
      /\ \A k \in DOMAIN gv : /\ gv[k] \in Sids /\ sessions[gv[k]].pSession = NULL
                              /\ sessions'[gv[k]].pSession = Dest(t, "video", k)
      /\ \A k \in DOMAIN ga : /\ ga[k] \in Sids /\ sessions[ga[k]].pSession = NULL
                              /\ sessions'[ga[k]].pSession = Dest(t, "audio", k)
  BY <1>1, BothLoops
<1>3. CASE Failed(ap, ga)
  <2>1. \A k \in Slots : /\ clients'[k].clientID = clients[k].clientID
                         /\ clients[k].clientID # -1 => clients'[k] = clients[k]
    BY <1>0, <1>3 DEF AddRest
  <2>2. -3 \in Int /\ -3 \notin Slots /\ AddReturns(t, -3, vp, ap)
    BY <1>3, SizesAssumption DEF AddRest, Slots
  <2>3. DOMAIN gv # {} \/ DOMAIN ga # {} => "partial" \in faults'
    BY <1>3 DEF AddRest, AddFaults, Faults
  <2> QED
    BY <1>2, <2>1, <2>2, <2>3 DEF AddFails
<1>4. CASE ~Failed(ap, ga)
  <2>1. /\ clients'[id].clientID = id /\ \A ch \in Chans : ~clients'[id].flag[ch]
        /\ \A k \in Slots : k # id => clients'[k] = clients[k]
        /\ clients'[id].ids["video"] = NewIDs(vp, clients[id].ids["video"], gv)
        /\ clients'[id].ids["audio"] = NewIDs(ap, clients[id].ids["audio"], ga)
        /\ AddReturns(t, id, vp, ap)
    BY <1>0, <1>4, <1>t DEF AddRest
  <2>2. s1 \in [Sids -> Sessions]
    BY <1>t, CreateLoop
  <2>3. /\ clients[id].ids["video"] \in [Entries -> Sids \cup {-1}]
        /\ clients[id].ids["audio"] \in [Entries -> Sids \cup {-1}]
    BY <1>0, <1>t DEF Clients
  <2>4. /\ vp > 0 => DOMAIN gv = Groups /\ \A k \in Groups : clients'[id].ids["video"][k] = gv[k]
        /\ ~(vp > 0) => DOMAIN gv = {} /\ clients'[id].ids["video"] = clients[id].ids["video"]
    BY <2>1, <2>3, NewEntries
  <2>5. /\ ap > 0 => DOMAIN ga = Groups /\ \A k \in Groups : clients'[id].ids["audio"][k] = ga[k]
        /\ ~(ap > 0) => DOMAIN ga = {} /\ clients'[id].ids["audio"] = clients[id].ids["audio"]
    BY <1>4, <2>1, <2>2, <2>3, NewEntries
  <2>6. faults' = faults \cup AddFaults(t, id, vp, gv, ap, ga)
    BY DEF AddRest
  <2>7. \A g \in Groups : /\ ~(vp > 0) /\ clients[id].ids["video"][g] # -1 => "stale" \in faults'
                          /\ ~(ap > 0) /\ clients[id].ids["audio"][g] # -1 => "stale" \in faults'
    BY <1>4, <2>6 DEF AddFaults, Faults
  <2>8. sessionThr # "starting" \/ "early" \in faults'
    BY <2>6 DEF AddFaults, Faults
  <2>9. ASSUME NEW ty \in Types, NEW g \in Groups
        PROVE  /\ Port(ty, vp, ap) > 0 =>
                    /\ clients'[id].ids[ty][g] \in Sids
                    /\ sessions[clients'[id].ids[ty][g]].pSession = NULL
                    /\ sessions'[clients'[id].ids[ty][g]].pSession = Dest(t, ty, g)
               /\ ~(Port(ty, vp, ap) > 0) => clients'[id].ids[ty][g] = -1 \/ "stale" \in faults'
    <3>1. CASE ty = "video"
      BY <1>2, <2>4, <2>7, <3>1 DEF Port
    <3>2. CASE ty = "audio"
      BY <1>2, <2>5, <2>7, <3>2 DEF Port
    <3> QED
      BY <1>t, <3>1, <3>2
  <2>10. ASSUME NEW s \in Sids, sessions'[s] # sessions[s]
         PROVE  /\ sessions[s].pSession = NULL
                /\ \E ty \in Types, g \in Groups : clients'[id].ids[ty][g] = s
    <3>1. sessions[s].pSession = NULL
      BY <1>2, <2>10
    <3>2. CASE \E k \in DOMAIN gv : gv[k] = s
      BY <1>t, <2>4, <3>1, <3>2
    <3>3. CASE \E k \in DOMAIN ga : ga[k] = s
      BY <1>t, <2>5, <3>1, <3>3
    <3> QED
      BY <1>2, <2>10, <3>2, <3>3
  <2> QED
    BY <1>0, <2>1, <2>8, <2>9, <2>10 DEF NewClient
<1> QED
  BY <1>3, <1>4

(* Every outcome of ADD_CLIENT. *)
LEMMA AddOutcome ==
  ASSUME TypeOK, NEW t \in Conns, NEW vp \in Int, NEW ap \in Int, AddClient(t, vp, ap)
  PROVE  /\ AddFails(t, vp, ap) \/ \E id \in Slots : NewClient(t, id, vp, ap)
         /\ faults \subseteq faults'
         /\ Owns(t) => "again" \in faults'
<1> DEFINE Goal == /\ AddFails(t, vp, ap) \/ \E id \in Slots : NewClient(t, id, vp, ap)
                   /\ faults \subseteq faults'
                   /\ Owns(t) => "again" \in faults'
<1>1. ASSUME AddNoRecord(t, vp, ap) PROVE Goal
  <2>1. -1 \in Int /\ -1 \notin Slots /\ AddReturns(t, -1, vp, ap) /\ UNCHANGED tables
    BY <1>1, SizesAssumption DEF AddNoRecord, Slots
  <2>2. AddFails(t, vp, ap)
    BY <2>1 DEF AddFails, tables
  <2> QED
    BY <1>1, <2>2 DEF AddNoRecord, Faults
<1>2. ASSUME NEW id \in FreeSlots, NEW gv \in Created(vp, sessions), AddVideoFails(t, id, vp, gv, ap)
      PROVE  Goal
  <2>1. AddFails(t, vp, ap)
    BY <1>2, VideoOutcome
  <2> QED
    BY <1>2, <2>1 DEF AddVideoFails, AddFaults, Faults
<1>3. ASSUME NEW id \in FreeSlots, NEW gv \in Created(vp, sessions), ~Failed(vp, gv),
             NEW ga \in Created(ap, create_rtp_session(sessions, gv, t, "video")),
             AddRest(t, id, vp, gv, create_rtp_session(sessions, gv, t, "video"), ap, ga)
      PROVE  Goal
  <2>1. AddFails(t, vp, ap) \/ NewClient(t, id, vp, ap)
    BY <1>3, RestOutcome
  <2>2. id \in Slots
    BY DEF FreeSlots
  <2>3. faults \subseteq faults' /\ (Owns(t) => "again" \in faults')
    BY <1>3 DEF AddRest, AddFaults, Faults
  <2> QED
    BY <2>1, <2>2, <2>3
<1> HIDE DEF Goal
<1>4. Goal
  BY <1>1, <1>2, <1>3 DEF AddClient
<1> QED
  BY <1>4 DEF Goal

(* A step of this kind leaves the records, the destinations of the         *)
(* sessions and what the connections know of them alone.                   *)
Idle ==
  /\ UNCHANGED <<clients, sessionThr, wild, faults>>
  /\ \A s \in Sids : sessions'[s].pSession = sessions[s].pSession
  /\ \A u \in Conns : /\ conns'[u].clientID = conns[u].clientID /\ conns'[u].added = conns[u].added
                      /\ conns'[u].types = conns[u].types /\ conns'[u].opened = conns[u].opened
                      /\ conns'[u].pc = "closed" => conns[u].pc = "closed"

Adds(t) == UNCHANGED <<global, wild>> /\ \E vp, ap \in Int : AddClient(t, vp, ap)
Switches(t) == \E ch \in 0 .. MAX_VIDEO_CHANNEL, on \in BOOLEAN : SwitchChannel(t, ch, on)

(* Every step is a connection's that concerns the tables, one of the       *)
(* session or main thread that does, or idle; the flags and the marks are  *)
(* never taken back.                                                       *)
LEMMA Steps ==
  ASSUME TypeOK, [Next]_vars
  PROVE  /\ \/ \E t \in Conns : Connect(t) \/ Cleanup(t) \/ Adds(t) \/ Switches(t)
            \/ init_session_tsk \/ delete_session_tsk \/ rtp_exit \/ Idle
         /\ (quit => quit') /\ (rtpUp' => rtpUp) /\ (wild => wild') /\ faults \subseteq faults'
<1> DEFINE Kept == (quit => quit') /\ (rtpUp' => rtpUp) /\ (wild => wild') /\ faults \subseteq faults'
<1>1. ASSUME NEW t \in Conns, Connect(t) \/ Cleanup(t) PROVE Kept
  <2>1. UNCHANGED <<quit, rtpUp>> /\ faults \subseteq faults'
    BY <1>1 DEF Connect, Cleanup, global
  <2>2. wild => wild'
    BY <1>1 DEF Connect, Cleanup
  <2> QED
    BY <2>1, <2>2
<1>2. ASSUME NEW t \in Conns, NEW vp \in VideoPorts, NEW ap \in AudioPorts, ADD_CLIENT(t, vp, ap)
      PROVE  Adds(t) /\ Kept
  <2>1. vp \in Int /\ ap \in Int /\ AddClient(t, vp, ap) /\ UNCHANGED <<global, wild>>
    BY <1>2, InputsAssumption DEF ADD_CLIENT
  <2>2. faults \subseteq faults'
    BY <2>1, AddOutcome
  <2> QED
    BY <2>1, <2>2 DEF Adds, global
<1>3. ASSUME NEW t \in Conns, NEW ch \in 0 .. MAX_VIDEO_CHANNEL, NEW on \in BOOLEAN,
             SwitchChannel(t, ch, on)
      PROVE  Switches(t) /\ Kept
  BY <1>3 DEF Switches, SwitchChannel, global, TypeOK
<1>4. ASSUME NEW t \in Conns,
             DEL_CLIENT(t) \/ RESET_BOARD(t) \/ SET_RESOLUTION(t) \/ AnswerOnly(t) \/ Disconnect(t)
      PROVE  Idle /\ Kept
  <2>1. UNCHANGED <<clients, sessions, sessionThr, rtpUp, quit, wild, faults>>
    BY <1>4 DEF DEL_CLIENT, RESET_BOARD, SET_RESOLUTION, AnswerOnly, Disconnect, tables, global
  <2>2. \E l \in {"recv", "cleanup"} : conns' = [conns EXCEPT ![t].pc = l]
    BY <1>4 DEF DEL_CLIENT, RESET_BOARD, SET_RESOLUTION, AnswerOnly, Disconnect, LoopTop
  <2>3. \A u \in Conns : /\ conns'[u].clientID = conns[u].clientID /\ conns'[u].added = conns[u].added
                         /\ conns'[u].types = conns[u].types /\ conns'[u].opened = conns[u].opened
                         /\ conns'[u].pc = "closed" => conns[u].pc = "closed"
    BY <2>2 DEF TypeOK, Conn
  <2> QED
    BY <2>1, <2>3 DEF Idle
<1>5. ASSUME NEW t \in Conns, Handle(t)
      PROVE  (Adds(t) \/ Switches(t) \/ Idle) /\ Kept
  <2> HIDE DEF Kept
  <2> QED
    BY <1>2, <1>3, <1>4, <1>5 DEF Handle, OPEN_CHANNEL, CLOSE_CHANNEL
<1>6. ASSUME NEW ch \in 0 .. chs - 1, NEW type \in Types, SendToClient(ch, type) PROVE Idle /\ Kept
  <2>1. \A s \in Sids : sessions'[s].pSession = sessions[s].pSession
    BY <1>6 DEF SendToClient, TypeOK, Sessions
  <2> QED
    BY <1>6, <2>1 DEF SendToClient, Idle
<1>7. ASSUME OperatorExit \/ SetQuit \/ CloseListener \/ UNCHANGED vars PROVE Idle /\ Kept
  BY <1>7 DEF OperatorExit, SetQuit, CloseListener, vars, tables, Idle
<1>8. ASSUME init_session_tsk \/ delete_session_tsk \/ rtp_exit PROVE Kept
  <2>1. /\ UNCHANGED <<quit, wild, faults>>
        /\ rtpUp' = FALSE \/ rtpUp' = rtpUp
    BY <1>8 DEF init_session_tsk, delete_session_tsk, rtp_exit
  <2> QED
    BY <2>1
<1> HIDE DEF Kept
<1>9. /\ \/ \E t \in Conns : Connect(t) \/ Cleanup(t) \/ Adds(t) \/ Switches(t)
         \/ init_session_tsk \/ delete_session_tsk \/ rtp_exit \/ Idle
      /\ Kept
  BY <1>1, <1>4, <1>5, <1>6, <1>7, <1>8 DEF Next
<1> QED
  BY <1>9 DEF Kept

(* What del_client does to the records and to the sessions. *)
LEMMA DelRecords ==
  ASSUME TypeOK, NEW c \in Slots
  PROVE  /\ clients[c].clientID = -1 =>
              DelClients(clients, c) = clients /\ DelSessions(sessions, clients, c) = sessions
         /\ DelClients(clients, c)[c].clientID = -1
         /\ \A k \in Slots : k # c => DelClients(clients, c)[k].clientID = clients[k].clientID
         /\ \A k \in Slots : DelClients(clients, c)[k].flag = clients[k].flag
         /\ \A k \in Slots : k # NS => DelClients(clients, c)[k].ids = clients[k].ids
         /\ clients[c].clientID # -1 =>
              \A ty \in Types, g \in Groups : DelClients(clients, c)[NS].ids[ty][g] = -1
         /\ \A s \in Sids : s \notin IDs(clients, c)
              => DelSessions(sessions, clients, c)[s] = sessions[s]
         /\ \A s \in Sids : clients[c].clientID # -1 /\ s \in IDs(clients, c)
              => DelSessions(sessions, clients, c)[s].pSession = NULL
<1>1. NS \in Slots
  BY SizesAssumption DEF Slots
<1>2. \A ty \in Types, g \in Groups : NoIDs[ty][g] = -1
  BY GroupsAreEntries DEF NoIDs
<1>3. clients[c].clientID = -1 =>
              DelClients(clients, c) = clients /\ DelSessions(sessions, clients, c) = sessions
  BY DEF DelClients, DelSessions
<1>4. /\ DelClients(clients, c)[c].clientID = -1
      /\ \A k \in Slots : k # c => DelClients(clients, c)[k].clientID = clients[k].clientID
      /\ \A k \in Slots : DelClients(clients, c)[k].flag = clients[k].flag
      /\ \A k \in Slots : k # NS => DelClients(clients, c)[k].ids = clients[k].ids
      /\ clients[c].clientID # -1 => DelClients(clients, c)[NS].ids = NoIDs
  BY <1>1 DEF TypeOK, DelClients, Clients
<1>5. /\ \A s \in Sids : s \notin IDs(clients, c)
              => DelSessions(sessions, clients, c)[s] = sessions[s]
      /\ \A s \in Sids : clients[c].clientID # -1 /\ s \in IDs(clients, c)
              => DelSessions(sessions, clients, c)[s].pSession = NULL
  BY DEF DelSessions, remove_session_objs, Unused
<1> QED
  BY <1>2, <1>3, <1>4, <1>5

(* OPEN_CHANNEL and CLOSE_CHANNEL change nothing but flags. *)
LEMMA SwitchRecords ==
  ASSUME TypeOK, NEW t \in Conns, Switches(t)
  PROVE  /\ sessions' = sessions /\ sessionThr' = sessionThr
         /\ \A k \in Slots : /\ clients'[k].clientID = clients[k].clientID
                              /\ clients'[k].ids = clients[k].ids
<1>1. PICK ch \in 0 .. MAX_VIDEO_CHANNEL, on \in BOOLEAN : SwitchChannel(t, ch, on)
  BY DEF Switches
<1>2. sessions' = sessions /\ sessionThr' = sessionThr
  BY <1>1 DEF SwitchChannel, global
<1>3. CASE conns[t].clientID \notin Slots
  BY <1>1, <1>2, <1>3 DEF SwitchChannel
<1>4. CASE conns[t].clientID \in Slots
  <2>1. \E f : clients' = clients \/ clients' = [clients EXCEPT ![conns[t].clientID].flag = f]
    BY <1>1, <1>4 DEF SwitchChannel, SetFlags
  <2> QED
    BY <1>2, <1>4, <2>1 DEF TypeOK, Clients
<1> QED
  BY <1>3, <1>4

(* The entries of the tables, one by one. *)
LEMMA EntryType ==
  ASSUME TypeOK, NEW i \in Slots, NEW ty \in Types, NEW g \in Groups
  PROVE  clients[i].ids[ty][g] \in Sids \cup {-1}
BY GroupsAreEntries DEF TypeOK, Clients

-----------------------------------------------------------------------------
(* The part of NoSharedSession about two given entries. *)
EntrySafe(cl, ss, thr, i, j, ty, uy, g, h) ==
  thr # "starting" /\ cl[i].clientID # -1 /\ cl[i].ids[ty][g] # -1 =>
    /\ ss[cl[i].ids[ty][g]].pSession # NULL
    /\ cl[j].clientID # -1 /\ cl[i].ids[ty][g] = cl[j].ids[uy][h]
         => i = j /\ ty = uy /\ g = h

LEMMA SafeEntries ==
  NoSharedSession <=>
    (rtpUp /\ "stale" \notin faults =>
       \A i, j \in Slots, ty, uy \in Types, g, h \in Groups :
         EntrySafe(clients, sessions, sessionThr, i, j, ty, uy, g, h))
BY DEF NoSharedSession, EntrySafe, Live

(* ADD_CLIENT: the IDs of a new client are distinct and were free, or -1,  *)
(* and every session in use is kept.                                       *)
LEMMA AddShares ==
  ASSUME TypeOK, NoSharedSession, rtpUp, sessionThr # "starting", "stale" \notin faults',
         NEW t \in Conns, NEW vp \in Int, NEW ap \in Int, AddClient(t, vp, ap),
         NEW i \in Slots, NEW j \in Slots, NEW ty \in Types, NEW uy \in Types,
         NEW g \in Groups, NEW h \in Groups
  PROVE  EntrySafe(clients', sessions', sessionThr, i, j, ty, uy, g, h)
<1>0. "stale" \notin faults
  BY AddOutcome
<1>1. /\ EntrySafe(clients, sessions, sessionThr, i, j, ty, uy, g, h)
      /\ EntrySafe(clients, sessions, sessionThr, j, i, uy, ty, h, g)
  BY <1>0, SafeEntries
<1>2. /\ clients[i].ids[ty][g] \in Sids \cup {-1}
      /\ clients[j].ids[uy][h] \in Sids \cup {-1}
  BY EntryType
<1>3. CASE AddFails(t, vp, ap)
  BY <1>1, <1>2, <1>3 DEF AddFails, EntrySafe
<1>4. ASSUME NEW id \in Slots, NewClient(t, id, vp, ap)
      PROVE  EntrySafe(clients', sessions', sessionThr, i, j, ty, uy, g, h)
  <2>1. ASSUME NEW s \in Sids, sessions[s].pSession # NULL PROVE sessions'[s] = sessions[s]
    BY <1>4, <2>1 DEF NewClient
  <2>2. \A k \in Slots : k # id => clients'[k] = clients[k]
    BY <1>4 DEF NewClient
  <2>3. ASSUME NEW x \in Types, NEW m \in Groups
        PROVE  \/ clients'[id].ids[x][m] = -1
               \/ /\ clients'[id].ids[x][m] \in Sids
                  /\ sessions[clients'[id].ids[x][m]].pSession = NULL
                  /\ sessions'[clients'[id].ids[x][m]].pSession = Dest(t, x, m)
                  /\ sessions'[clients'[id].ids[x][m]].pSession # NULL
    BY <1>4, DestNotNull DEF NewClient
  <2>4. CASE i # id /\ j # id
    BY <1>1, <1>2, <2>1, <2>2, <2>4 DEF EntrySafe
  <2>5. CASE i = id /\ j = id
    <3>1. Dest(t, ty, g) = Dest(t, uy, h) => ty = uy /\ g = h
      BY DestFields
    <3>2. clients'[i].ids[ty][g] # -1 => sessions'[clients'[i].ids[ty][g]].pSession # NULL
      BY <2>3, <2>5
    <3>3. clients'[i].ids[ty][g] # -1 /\ clients'[i].ids[ty][g] = clients'[j].ids[uy][h]
            => ty = uy /\ g = h
      BY <2>3, <2>5, <3>1
    <3> QED
      BY <2>5, <3>2, <3>3 DEF EntrySafe
  <2>6. CASE i = id /\ j # id
    BY <1>1, <1>2, <2>2, <2>3, <2>6 DEF EntrySafe
  <2>7. CASE i # id /\ j = id
    BY <1>1, <1>2, <2>1, <2>2, <2>3, <2>7 DEF EntrySafe
  <2> QED
    BY <2>4, <2>5, <2>6, <2>7
<1> QED
  BY <1>3, <1>4, AddOutcome

(* del_client: the sessions it removes are those of the deleted client. *)
LEMMA DelShares ==
  ASSUME TypeOK, NoSharedSession, rtpUp, "stale" \notin faults, sessionThr # "starting", NEW c \in Slots,
         NEW i \in Slots, NEW j \in Slots, NEW ty \in Types, NEW uy \in Types,
         NEW g \in Groups, NEW h \in Groups
  PROVE  EntrySafe(DelClients(clients, c), DelSessions(sessions, clients, c), sessionThr,
                   i, j, ty, uy, g, h)
<1> USE DEF TypeOK
<1> DEFINE cl == DelClients(clients, c)
           ss == DelSessions(sessions, clients, c)
<1>0. \A k, l \in Slots, x, y \in Types, m, n \in Groups :
         EntrySafe(clients, sessions, sessionThr, k, l, x, y, m, n)
  BY SafeEntries
<1>1. CASE clients[c].clientID = -1
  <2>1. cl = clients /\ ss = sessions
    BY <1>1 DEF DelClients, DelSessions
  <2> HIDE DEF cl, ss
  <2> QED
    BY <1>0, <2>1 DEF cl, ss
<1>2. CASE clients[c].clientID # -1
  <2>1. /\ cl[c].clientID = -1
        /\ \A k \in Slots : k # c => cl[k].clientID = clients[k].clientID
        /\ \A k \in Slots : k # NS => cl[k].ids = clients[k].ids
        /\ cl[NS].ids = NoIDs
    <3>1. NS \in Slots
      BY SizesAssumption DEF Slots
    <3> QED
      BY <1>2, <3>1 DEF DelClients, Clients
  <2>2. \A x \in Types, m \in Groups : NoIDs[x][m] = -1
    BY GroupsAreEntries DEF NoIDs
  <2>3. /\ clients[i].ids[ty][g] \in Sids \cup {-1}
        /\ clients[j].ids[uy][h] \in Sids \cup {-1}
    BY GroupsAreEntries DEF Clients
  <2>4. ASSUME NEW s \in Sids, s \notin IDs(clients, c) PROVE ss[s] = sessions[s]
    BY <1>2, <2>4 DEF DelSessions, remove_session_objs
  <2> HIDE DEF cl, ss
  <2>5. CASE i = c \/ i = NS
    BY <2>1, <2>2, <2>5 DEF EntrySafe, cl, ss
  <2>6. CASE i # c /\ i # NS
    <3>1. ASSUME clients[i].clientID # -1, clients[i].ids[ty][g] # -1
          PROVE  clients[i].ids[ty][g] \notin IDs(clients, c)
      <4>1. ASSUME NEW x \in Types, NEW m \in Groups,
                   clients[c].ids[x][m] = clients[i].ids[ty][g]
            PROVE  FALSE
        BY <1>0, <1>2, <2>6, <3>1, <4>1 DEF EntrySafe
      <4> QED
        BY <4>1 DEF IDs
    <3>2. EntrySafe(clients, sessions, sessionThr, i, j, ty, uy, g, h)
      BY <1>0
    <3>3. CASE j = NS
      BY <2>1, <2>2, <2>3, <2>4, <2>6, <3>1, <3>2, <3>3 DEF EntrySafe, cl, ss
    <3>4. CASE j # NS
      BY <2>1, <2>3, <2>4, <2>6, <3>1, <3>2, <3>4 DEF EntrySafe, cl, ss
    <3> QED
      BY <3>3, <3>4
  <2> QED
    BY <2>5, <2>6
<1> QED
  BY <1>1, <1>2

(* No two live clients ever share an RTP session and none holds one that   *)
(* was destroyed, whatever the sizes of the tables, the ports, the order   *)
(* of the commands, the garbage in the service threads' clientID and the   *)
(* record del_client resets, until a client is given a record with the IDs *)
(* of the one before it.                                                   *)
THEOREM SharingInvariant == Spec => []NoSharedSession
<1>1. Init => NoSharedSession
  BY DEF Init, NoSharedSession, Live
<1>2. TypeOK /\ NoSharedSession /\ [Next]_vars => NoSharedSession'
  <2> SUFFICES ASSUME TypeOK, NoSharedSession, [Next]_vars, rtpUp', "stale" \notin faults',
                      NEW i \in Slots, NEW j \in Slots, NEW ty \in Types, NEW uy \in Types,
                      NEW g \in Groups, NEW h \in Groups
               PROVE  EntrySafe(clients', sessions', sessionThr', i, j, ty, uy, g, h)
    BY DEF NoSharedSession, EntrySafe, Live
  <2> DEFINE Goal == EntrySafe(clients', sessions', sessionThr', i, j, ty, uy, g, h)
  <2>0. rtpUp /\ "stale" \notin faults
    BY Steps
  <2>s. EntrySafe(clients, sessions, sessionThr, i, j, ty, uy, g, h)
    BY <2>0, SafeEntries
  <2>i. /\ clients[i].ids[ty][g] \in Sids \cup {-1}
        /\ clients[j].ids[uy][h] \in Sids \cup {-1}
    BY EntryType
  <2>1. CASE UNCHANGED <<clients, sessions, sessionThr>>
    BY <2>1, <2>s
  <2>2. ASSUME NEW t \in Conns, Cleanup(t) PROVE Goal
    <3>1. CASE sessionThr = "starting"
      BY <2>2, <3>1 DEF Cleanup, global, EntrySafe
    <3>2. CASE sessionThr # "starting" /\ conns[t].clientID \in Slots
      <4>1. /\ clients' = DelClients(clients, conns[t].clientID)
            /\ sessions' = DelSessions(sessions, clients, conns[t].clientID)
            /\ sessionThr' = sessionThr
        BY <2>2, <3>2 DEF Cleanup, global
      <4> QED
        BY <2>0, <3>2, <4>1, DelShares
    <3>3. CASE conns[t].clientID \notin Slots
      BY <2>1, <2>2, <3>3 DEF Cleanup, tables, global
    <3> QED
      BY <3>1, <3>2, <3>3
  <2>3. ASSUME NEW t \in Conns, Adds(t) PROVE Goal
    <3>1. sessionThr' = sessionThr /\ \E vp, ap \in Int : AddClient(t, vp, ap)
      BY <2>3 DEF Adds, global
    <3>2. PICK vp \in Int, ap \in Int : AddClient(t, vp, ap)
      BY <3>1
    <3>3. CASE sessionThr = "starting"
      BY <3>1, <3>3 DEF EntrySafe
    <3>4. CASE sessionThr # "starting"
      <4>1. EntrySafe(clients', sessions', sessionThr, i, j, ty, uy, g, h)
        BY <2>0, <3>2, <3>4, AddShares
      <4> QED
        BY <3>1, <4>1
    <3> QED
      BY <3>3, <3>4
  <2>4. ASSUME NEW t \in Conns, Switches(t) PROVE Goal
    BY <2>s, <2>4, SwitchRecords DEF EntrySafe
  <2>5. CASE init_session_tsk \/ delete_session_tsk
    <3>1. \E x : clients'[i] = [clients[i] EXCEPT !.clientID = -1, !.ids = x]
      BY <2>5 DEF init_session_tsk, delete_session_tsk
    <3>2. clients'[i].clientID = -1
      BY <3>1 DEF TypeOK, Clients
    <3> QED
      BY <3>2 DEF EntrySafe
  <2>6. CASE rtp_exit
    BY <2>6 DEF rtp_exit
  <2>7. ASSUME NEW t \in Conns, Connect(t) PROVE Goal
    BY <2>1, <2>7 DEF Connect
  <2>8. CASE Idle
    BY <2>s, <2>i, <2>8 DEF Idle, EntrySafe
  <2> HIDE DEF Goal
  <2> QED
    BY <2>2, <2>3, <2>4, <2>5, <2>6, <2>7, <2>8, Steps DEF Goal
<1> QED
  BY <1>1, <1>2, TypeInvariant, PTL DEF Spec

(* No session is left that no client's deletion will free, until           *)
(* add_client fails half way, a client is added before init_session_tsk,   *)
(* or del_client clears the IDs of another client's record: for every      *)
(* port, garbage and order of the commands.                                *)
THEOREM NoLeakInvariant == Spec => []NoLeakedSession
<1>1. Init => NoLeakedSession
  BY DEF Init, NoLeakedSession, Unused
<1>2. TypeOK /\ NoLeakedSession /\ [Next]_vars => NoLeakedSession'
  <2> SUFFICES ASSUME TypeOK, NoLeakedSession, [Next]_vars, ~quit', ~wild',
                      faults' \cap {"partial", "reset", "early"} = {},
                      NEW s \in Sids, sessions'[s].pSession # NULL
               PROVE  \E i \in Slots : Live(i)' /\ s \in IDs(clients', i)
    BY DEF NoLeakedSession
  <2> DEFINE Goal == \E i \in Slots : Live(i)' /\ s \in IDs(clients', i)
  <2>0. ~quit /\ ~wild /\ faults \cap {"partial", "reset", "early"} = {}
    BY Steps
  <2>1. ASSUME sessions[s].pSession # NULL
        PROVE  \E i \in Slots : Live(i) /\ s \in IDs(clients, i)
    BY <2>0, <2>1 DEF NoLeakedSession
  <2>2. ASSUME NEW i \in Slots, s \in IDs(clients, i), Live(i), sessionThr' = sessionThr,
               clients'[i].clientID = clients[i].clientID, clients'[i].ids = clients[i].ids
        PROVE  Goal
    BY <2>2 DEF Live, IDs
  <2> HIDE DEF Goal
  <2>3. ASSUME NEW t \in Conns, Cleanup(t) PROVE Goal
    <3> DEFINE c == conns[t].clientID
    <3>0. sessionThr' = sessionThr
      BY <2>3 DEF Cleanup, global
    <3>1. CASE c \in Slots /\ clients[c].clientID # -1
      <4>1. clients' = DelClients(clients, c) /\ sessions' = DelSessions(sessions, clients, c)
        BY <2>3, <3>1 DEF Cleanup
      <4>2. sessions'[s] = sessions[s] /\ s \notin IDs(clients, c)
        BY <3>1, <4>1, DelRecords
      <4>3. PICK i \in Slots : Live(i) /\ s \in IDs(clients, i)
        BY <2>1, <4>2
      <4>4. i # c
        BY <4>2, <4>3
      <4>5. i # NS
        <5>1. c \in Slots \ {NS} /\ Live(NS) => "reset" \in faults'
          BY <2>3, <3>1 DEF Cleanup, Faults
        <5> QED
          BY <3>1, <4>3, <4>4, <5>1
      <4>6. clients'[i].clientID = clients[i].clientID /\ clients'[i].ids = clients[i].ids
        BY <3>1, <4>1, <4>4, <4>5, DelRecords
      <4> QED
        BY <2>2, <3>0, <4>3, <4>6
    <3>2. CASE c \notin Slots \/ clients[c].clientID = -1
      <4>1. clients' = clients /\ sessions' = sessions
        BY <2>3, <3>2, DelRecords DEF Cleanup, tables
      <4> QED
        BY <2>1, <2>2, <3>0, <4>1
    <3> QED
      BY <3>1, <3>2
  <2>4. ASSUME NEW t \in Conns, Adds(t) PROVE Goal
    <3>1. sessionThr' = sessionThr
      BY <2>4 DEF Adds, global
    <3>2. PICK vp \in Int, ap \in Int : AddClient(t, vp, ap)
      BY <2>4 DEF Adds
    <3>3. CASE AddFails(t, vp, ap)
      <4>1. sessions' = sessions
        BY <3>3 DEF AddFails
      <4>2. PICK i \in Slots : Live(i) /\ s \in IDs(clients, i)
        BY <2>1, <4>1
      <4>3. clients'[i] = clients[i]
        BY <3>3, <4>2 DEF AddFails, Live
      <4> QED
        BY <2>2, <3>1, <4>2, <4>3
    <3>4. ASSUME NEW id \in Slots, NewClient(t, id, vp, ap) PROVE Goal
      <4>1. CASE sessions[s].pSession # NULL
        <5>1. PICK i \in Slots : Live(i) /\ s \in IDs(clients, i)
          BY <2>1, <4>1
        <5>2. clients'[i] = clients[i]
          BY <3>4, <5>1 DEF NewClient, Live
        <5> QED
          BY <2>2, <3>1, <5>1, <5>2
      <4>2. CASE sessions[s].pSession = NULL
        <5>1. \E ty \in Types, g \in Groups : clients'[id].ids[ty][g] = s
          BY <3>4, <4>2 DEF NewClient
        <5>2. id \in Int /\ id # -1
          BY SizesAssumption DEF Slots
        <5>3. Live(id)'
          BY <3>1, <3>4, <5>2 DEF NewClient, Live
        <5> QED
          BY <5>1, <5>3 DEF Goal, IDs
      <4> QED
        BY <4>1, <4>2
    <3> QED
      BY <3>2, <3>3, <3>4, AddOutcome
  <2>5. ASSUME NEW t \in Conns, Switches(t) PROVE Goal
    BY <2>1, <2>2, <2>5, SwitchRecords
  <2>6. CASE init_session_tsk
    <3>1. sessionThr = "starting" /\ sessions' = sessions
      BY <2>6 DEF init_session_tsk
    <3> QED
      BY <2>1, <3>1 DEF Live
  <2>7. CASE delete_session_tsk \/ rtp_exit
    BY <2>0, <2>7 DEF delete_session_tsk, rtp_exit
  <2>8. ASSUME NEW t \in Conns, Connect(t) PROVE Goal
    BY <2>1, <2>2, <2>8 DEF Connect
  <2>9. CASE Idle
    <3>1. sessions[s].pSession # NULL /\ UNCHANGED <<clients, sessionThr>>
      BY <2>9 DEF Idle
    <3> QED
      BY <2>1, <2>2, <3>1 DEF Goal
  <2> QED
    BY <2>3, <2>4, <2>5, <2>6, <2>7, <2>8, <2>9, Steps DEF Goal
<1> QED
  BY <1>1, <1>2, TypeInvariant, PTL DEF Spec

(* rtp_exit has run only once the quit flag is set. *)
RtpWhileWorking == rtpUp \/ quit

LEMMA RtpUpInvariant == Spec => []RtpWhileWorking
<1>1. Init => RtpWhileWorking
  BY DEF Init, RtpWhileWorking
<1>2. TypeOK /\ RtpWhileWorking /\ [Next]_vars => RtpWhileWorking'
  <2> SUFFICES ASSUME TypeOK, RtpWhileWorking, [Next]_vars PROVE RtpWhileWorking'
    OBVIOUS
  <2>1. CASE rtp_exit
    BY <2>1 DEF rtp_exit, RtpWhileWorking
  <2>2. quit => quit'
    BY Steps
  <2>3. CASE rtpUp /\ ~rtp_exit
    <3>1. rtpUp' = rtpUp
      BY <2>3 DEF Next, Connect, Disconnect, Cleanup, Handle, ADD_CLIENT, OPEN_CHANNEL, CLOSE_CHANNEL,
                  SwitchChannel, DEL_CLIENT, RESET_BOARD, SET_RESOLUTION, AnswerOnly, SendToClient,
                  init_session_tsk, delete_session_tsk, OperatorExit, SetQuit, CloseListener, global, vars
    <3> QED
      BY <2>3, <3>1 DEF RtpWhileWorking
  <2> QED
    BY <2>1, <2>2, <2>3 DEF RtpWhileWorking
<1> QED
  BY <1>1, <1>2, TypeInvariant, PTL DEF Spec

(* No step takes an entry or a session from a client that stays, whoever   *)
(* comes, fails or goes, but for the record del_client clears by mistake   *)
(* and once two records share a session.                                   *)
THEOREM OthersStayWhole == Spec => OthersUntouched
<1>1. TypeOK /\ NoSharedSession /\ RtpWhileWorking /\ [Next]_vars =>
        [ faults' \cap {"stale", "reset"} = {} =>
          \A i \in Slots :
            sessionThr = "running" /\ ~quit /\ Live(i) /\ Live(i)' =>
              /\ clients'[i].ids = clients[i].ids
              /\ \A s \in IDs(clients, i) \cap Sids :
                    sessions'[s].pSession = sessions[s].pSession ]_vars
  <2> SUFFICES ASSUME TypeOK, NoSharedSession, RtpWhileWorking, [Next]_vars,
                      faults' \cap {"stale", "reset"} = {}, NEW i \in Slots,
                      sessionThr = "running", ~quit, Live(i), Live(i)'
               PROVE  /\ clients'[i].ids = clients[i].ids
                      /\ \A s \in IDs(clients, i) \cap Sids :
                            sessions'[s].pSession = sessions[s].pSession
    OBVIOUS
  <2> DEFINE Goal == /\ clients'[i].ids = clients[i].ids
                     /\ \A s \in IDs(clients, i) \cap Sids :
                           sessions'[s].pSession = sessions[s].pSession
  <2>0. rtpUp /\ "stale" \notin faults
    BY Steps DEF RtpWhileWorking
  <2>1. ASSUME NEW k \in Slots, NEW l \in Slots, NEW x \in Types, NEW y \in Types,
               NEW m \in Groups, NEW n \in Groups
        PROVE  EntrySafe(clients, sessions, sessionThr, k, l, x, y, m, n)
    BY <2>0, SafeEntries
  <2>2. ASSUME NEW s \in IDs(clients, i) \cap Sids
        PROVE  /\ sessions[s].pSession # NULL
               /\ \A k \in Slots : Live(k) /\ k # i => s \notin IDs(clients, k)
    <3>1. PICK ty \in Types, g \in Groups : s = clients[i].ids[ty][g]
      BY DEF IDs
    <3>2. s # -1 /\ clients[i].clientID # -1
      BY SizesAssumption DEF Sids, Live
    <3>3. sessions[s].pSession # NULL
      BY <2>1, <3>1, <3>2 DEF EntrySafe
    <3>4. ASSUME NEW k \in Slots, Live(k), k # i, NEW x \in Types, NEW m \in Groups,
                 s = clients[k].ids[x][m]
          PROVE  FALSE
      <4>1. EntrySafe(clients, sessions, sessionThr, i, k, ty, x, g, m)
        BY <2>1
      <4> QED
        BY <3>1, <3>2, <3>4, <4>1 DEF EntrySafe, Live
    <3> QED
      BY <3>3, <3>4 DEF IDs
  <2>3. ASSUME NEW t \in Conns, Cleanup(t) PROVE Goal
    <3> DEFINE c == conns[t].clientID
    <3>1. CASE c \in Slots /\ clients[c].clientID # -1
      <4>1. clients' = DelClients(clients, c) /\ sessions' = DelSessions(sessions, clients, c)
        BY <2>3, <3>1 DEF Cleanup
      <4>2. i # c
        BY <3>1, <4>1, DelRecords DEF Live
      <4>3. i # NS
        <5>1. c \in Slots \ {NS} /\ Live(NS) => "reset" \in faults'
          BY <2>3, <3>1 DEF Cleanup, Faults
        <5> QED
          BY <3>1, <4>2, <5>1
      <4>4. Live(c)
        BY <3>1 DEF Live
      <4>5. clients'[i].ids = clients[i].ids
        BY <3>1, <4>1, <4>3, DelRecords
      <4>6. ASSUME NEW s \in IDs(clients, i) \cap Sids PROVE sessions'[s] = sessions[s]
        <5>1. s \notin IDs(clients, c)
          BY <2>2, <3>1, <4>2, <4>4
        <5> QED
          BY <3>1, <4>1, <5>1, DelRecords
      <4> QED
        BY <4>5, <4>6
    <3>2. CASE c \notin Slots \/ clients[c].clientID = -1
      BY <2>3, <3>2, DelRecords DEF Cleanup, tables
    <3> QED
      BY <3>1, <3>2
  <2>4. ASSUME NEW t \in Conns, Adds(t) PROVE Goal
    <3>1. PICK vp \in Int, ap \in Int : AddClient(t, vp, ap)
      BY <2>4 DEF Adds
    <3>2. CASE AddFails(t, vp, ap)
      BY <2>2, <3>2 DEF AddFails, Live
    <3>3. ASSUME NEW id \in Slots, NewClient(t, id, vp, ap) PROVE Goal
      <4>1. clients'[i] = clients[i]
        BY <3>3 DEF NewClient, Live
      <4>2. ASSUME NEW s \in IDs(clients, i) \cap Sids PROVE sessions'[s] = sessions[s]
        BY <2>2, <3>3 DEF NewClient
      <4> QED
        BY <4>1, <4>2
    <3> HIDE DEF Goal
    <3> QED
      BY <3>1, <3>2, <3>3, AddOutcome
  <2>5. ASSUME NEW t \in Conns, Switches(t) PROVE Goal
    BY <2>5, SwitchRecords
  <2>6. CASE init_session_tsk \/ delete_session_tsk \/ rtp_exit
    BY <2>6 DEF init_session_tsk, delete_session_tsk, rtp_exit
  <2>7. ASSUME NEW t \in Conns, Connect(t) PROVE Goal
    BY <2>7 DEF Connect
  <2>8. CASE Idle
    BY <2>8 DEF Idle
  <2> HIDE DEF Goal
  <2> QED
    BY <2>3, <2>4, <2>5, <2>6, <2>7, <2>8, Steps DEF Goal
<1> QED
  BY <1>1, TypeInvariant, SharingInvariant, RtpUpInvariant, PTL DEF Spec, OthersUntouched

(* A free entry of the session table is clear, so that create_rtp_session, *)
(* which leaves the time-stamp alone, starts at zero: for every client     *)
(* behaviour, every port and every garbage.                                *)
THEOREM FreshInvariant == Spec => []FreshTimeStamp
<1>1. Init => FreshTimeStamp
  BY DEF Init, FreshTimeStamp
<1>2. TypeOK /\ FreshTimeStamp /\ [Next]_vars => FreshTimeStamp'
  <2> SUFFICES ASSUME TypeOK, FreshTimeStamp, [Next]_vars, NEW s \in Sids, sessions'[s].pSession = NULL
               PROVE  sessions'[s] = Unused
    BY DEF FreshTimeStamp
  <2>0. sessions[s].pSession = NULL => sessions[s] = Unused
    BY DEF FreshTimeStamp
  <2>1. CASE UNCHANGED sessions
    BY <2>0, <2>1
  <2>2. ASSUME NEW R, sessions' = remove_session_objs(sessions, R) PROVE sessions'[s] = Unused
    BY <2>0, <2>2 DEF remove_session_objs
  <2>3. ASSUME NEW t \in Conns, Cleanup(t) PROVE sessions'[s] = Unused
    BY <2>1, <2>2, <2>3 DEF Cleanup, DelSessions, tables
  <2>4. ASSUME NEW ss \in [Sids -> Sessions], NEW port \in Int, NEW g \in Created(port, ss),
               NEW t \in Conns, NEW ty \in Types, create_rtp_session(ss, g, t, ty)[s].pSession = NULL
        PROVE  create_rtp_session(ss, g, t, ty)[s] = ss[s]
    <3>1. DOMAIN g \subseteq Groups /\ \A i \in DOMAIN g : g[i] \in Sids
      BY CreatedFacts
    <3>2. \A i \in DOMAIN g : create_rtp_session(ss, g, t, ty)[g[i]].pSession # NULL
      BY <3>1, CreateFacts
    <3> QED
      BY <2>4, <3>2 DEF create_rtp_session
  <2>5. ASSUME NEW t \in Conns, NEW vp \in VideoPorts, NEW ap \in AudioPorts, ADD_CLIENT(t, vp, ap)
        PROVE  sessions'[s] = Unused
    <3>1. AddClient(t, vp, ap) /\ vp \in Int /\ ap \in Int
      BY <2>5, InputsAssumption DEF ADD_CLIENT
    <3>2. ASSUME AddNoRecord(t, vp, ap) PROVE sessions'[s] = Unused
      BY <2>1, <3>2 DEF AddNoRecord, tables
    <3>3. ASSUME NEW id, NEW gv \in Created(vp, sessions), AddVideoFails(t, id, vp, gv, ap)
          PROVE  sessions'[s] = Unused
      <4>1. sessions' = create_rtp_session(sessions, gv, t, "video")
        BY <3>3 DEF AddVideoFails
      <4> QED
        BY <2>0, <2>4, <3>1, <3>3, <4>1 DEF TypeOK, Types
    <3>4. ASSUME NEW id, NEW gv \in Created(vp, sessions), NEW s1,
                 s1 = create_rtp_session(sessions, gv, t, "video"),
                 NEW ga \in Created(ap, s1), AddRest(t, id, vp, gv, s1, ap, ga)
          PROVE  sessions'[s] = Unused
      <4>1. s1 \in [Sids -> Sessions]
        BY <3>1, <3>4, CreateLoop DEF TypeOK, Types
      <4>2. sessions' = create_rtp_session(s1, ga, t, "audio")
        BY <3>4 DEF AddRest
      <4>3. sessions'[s] = s1[s]
        BY <2>4, <3>1, <3>4, <4>1, <4>2 DEF Types
      <4>4. s1[s] = sessions[s]
        BY <2>4, <3>1, <3>4, <4>3 DEF TypeOK, Types
      <4> QED
        BY <2>0, <4>3, <4>4
    <3> QED
      BY <3>1, <3>2, <3>3, <3>4 DEF AddClient
  <2>6. ASSUME NEW ch, NEW type, SendToClient(ch, type) PROVE sessions'[s] = Unused
    <3>1. CASE sessions[s].pSession = NULL
      BY <2>0, <2>6, <3>1 DEF SendToClient
    <3>2. CASE sessions[s].pSession # NULL
      <4>1. \E x : sessions'[s] = [sessions[s] EXCEPT !.curTimeStamp = x]
        BY <2>6, <3>2 DEF SendToClient
      <4>2. sessions'[s].pSession = sessions[s].pSession
        BY <4>1 DEF TypeOK, Sessions
      <4> QED
        BY <3>2, <4>2
    <3> QED
      BY <3>1, <3>2
  <2>7. ASSUME NEW t \in Conns,
               \/ Connect(t) \/ DEL_CLIENT(t) \/ RESET_BOARD(t) \/ SET_RESOLUTION(t)
               \/ AnswerOnly(t) \/ Disconnect(t)
        PROVE  sessions'[s] = Unused
    <3>1. UNCHANGED sessions
      BY <2>7 DEF Connect, DEL_CLIENT, RESET_BOARD, SET_RESOLUTION, AnswerOnly, Disconnect, tables
    <3> QED
      BY <2>1, <3>1
  <2>8. ASSUME NEW t \in Conns, NEW ch, NEW on, SwitchChannel(t, ch, on) PROVE sessions'[s] = Unused
    BY <2>1, <2>8 DEF SwitchChannel
  <2>9. CASE delete_session_tsk \/ rtp_exit
    BY <2>2, <2>9 DEF delete_session_tsk, rtp_exit
  <2>10. CASE init_session_tsk \/ OperatorExit \/ SetQuit \/ CloseListener \/ UNCHANGED vars
    BY <2>1, <2>10 DEF init_session_tsk, OperatorExit, SetQuit, CloseListener, tables, vars
  <2> QED
    BY <2>3, <2>5, <2>6, <2>7, <2>8, <2>9, <2>10
    DEF Next, Handle, OPEN_CHANNEL, CLOSE_CHANNEL
<1> QED
  BY <1>1, <1>2, TypeInvariant, PTL DEF Spec

-----------------------------------------------------------------------------
(***************************************************************************)
(* Who has which record: the table of session.c stays in step with the     *)
(* service threads of serverIf.c.                                          *)
(***************************************************************************)
Slot(t) == conns[t].clientID

(* What has to hold besides ServedUntilGone: before init_session_tsk no    *)
(* record counts as free, so that nobody can have one.                     *)
Serving ==
  /\ sessionThr = "starting" => \A i \in Slots : clients[i].clientID # -1
  /\ sessionThr = "starting" => \A t \in Conns : ~Owns(t)
  /\ \A t \in Conns : Owns(t) => clients[Slot(t)].clientID = Slot(t)
  /\ \A t, u \in Conns : Owns(t) /\ Owns(u) /\ Slot(u) = Slot(t) => t = u

ServingInv == ~quit /\ ~wild /\ "alien" \notin faults => Serving

(* The owners of records after a connection came, went or was answered:    *)
(* those of the others are the same.                                       *)
LEMMA OthersOwn ==
  ASSUME TypeOK, NEW t \in Conns, NEW x, conns' = [conns EXCEPT ![t] = x]
  PROVE  /\ conns'[t] = x
         /\ \A u \in Conns : u # t => conns'[u] = conns[u] /\ Owns(u)' = Owns(u) /\ Slot(u)' = Slot(u)
<1>1. conns'[t] = x /\ \A u \in Conns : u # t => conns'[u] = conns[u]
  BY DEF TypeOK
<1>2. ASSUME NEW u \in Conns, u # t PROVE Owns(u)' = Owns(u) /\ Slot(u)' = Slot(u)
  BY <1>1, <1>2, Zenon DEF Owns, Slot
<1> QED
  BY <1>1, <1>2

(* The answer to ADD_CLIENT gives the connection the record it names, and  *)
(* none when it names none.                                                *)
LEMMA AnswerOwns ==
  ASSUME TypeOK, NEW t \in Conns, NEW r \in Int, NEW vp \in Int, NEW ap \in Int, AddReturns(t, r, vp, ap)
  PROVE  /\ Owns(t)' <=> r \in Slots
         /\ Slot(t)' = r /\ conns'[t].opened = {}
         /\ conns'[t].pc # "closed"
         /\ r \in Slots => \A ty \in Types : ty \in conns'[t].types <=> Port(ty, vp, ap) > 0
         /\ \A u \in Conns : u # t => conns'[u] = conns[u] /\ Owns(u)' = Owns(u) /\ Slot(u)' = Slot(u)
<1> DEFINE T == {ty \in Types : r \in Slots /\ IF ty = "video" THEN vp > 0 ELSE ap > 0}
           x == [pc |-> LoopTop, clientID |-> r, added |-> r # -1, opened |-> {}, types |-> T]
<1>1. conns' = [conns EXCEPT ![t] = x]
  BY DEF AddReturns
<1>2. /\ x.pc = LoopTop /\ x.clientID = r /\ x.added = (r # -1) /\ x.opened = {} /\ x.types = T
  OBVIOUS
<1>3. r \in Slots => \A ty \in Types : ty \in T <=> Port(ty, vp, ap) > 0
  BY DEF Port
<1> HIDE DEF x, T
<1>4. /\ conns'[t] = x
      /\ \A u \in Conns : u # t => conns'[u] = conns[u] /\ Owns(u)' = Owns(u) /\ Slot(u)' = Slot(u)
  BY <1>1, OthersOwn
<1>5. Owns(t)' <=> r \in Slots
  <2>1. r \in Slots => r # -1
    BY SizesAssumption DEF Slots
  <2>2. conns'[t].added = (r # -1) /\ conns'[t].clientID = r
    BY <1>2, <1>4, Zenon
  <2> QED
    BY <2>1, <2>2, Zenon DEF Owns
<1>6. LoopTop # "closed"
  BY DEF LoopTop
<1> QED
  BY <1>2, <1>3, <1>4, <1>5, <1>6 DEF Slot

(* A connection that begins or ends has no record. *)
LEMMA NoneOwned ==
  ASSUME TypeOK, NEW t \in Conns, Connect(t) \/ Cleanup(t)
  PROVE  /\ ~Owns(t)'
         /\ \A u \in Conns : u # t => conns'[u] = conns[u] /\ Owns(u)' = Owns(u) /\ Slot(u)' = Slot(u)
<1>1. PICK x : conns' = [conns EXCEPT ![t] = x] /\ x.added = FALSE
  <2>1. CASE Connect(t)
    <3>1. PICK v : conns' = [conns EXCEPT ![t] = [Closed EXCEPT !.pc = LoopTop, !.clientID = v]]
      BY <2>1 DEF Connect
    <3>2. [Closed EXCEPT !.pc = LoopTop, !.clientID = v].added = FALSE
      BY DEF Closed
    <3> QED
      BY <3>1, <3>2
  <2>2. CASE Cleanup(t)
    <3>1. conns' = [conns EXCEPT ![t] = Closed]
      BY <2>2 DEF Cleanup
    <3>2. Closed.added = FALSE
      BY DEF Closed
    <3> QED
      BY <3>1, <3>2
  <2> QED
    BY <2>1, <2>2
<1>2. /\ conns'[t] = x
      /\ \A u \in Conns : u # t => conns'[u] = conns[u] /\ Owns(u)' = Owns(u) /\ Slot(u)' = Slot(u)
  BY <1>1, OthersOwn
<1> QED
  BY <1>1, <1>2 DEF Owns

(* OPEN_CHANNEL and CLOSE_CHANNEL leave every record its owner. *)
LEMMA SwitchOwns ==
  ASSUME TypeOK, NEW t \in Conns, Switches(t)
  PROVE  /\ \A u \in Conns : /\ Owns(u)' = Owns(u) /\ Slot(u)' = Slot(u)
                              /\ conns'[u].types = conns[u].types
         /\ \A u \in Conns : u # t => conns'[u] = conns[u]
         /\ conns'[t].pc # "closed"
<1>1. PICK o : conns' = [conns EXCEPT ![t].pc = LoopTop, ![t].opened = o]
  BY DEF Switches, SwitchChannel
<1>2. /\ \A u \in Conns : /\ conns'[u].added = conns[u].added /\ conns'[u].clientID = conns[u].clientID
                           /\ conns'[u].types = conns[u].types
      /\ \A u \in Conns : u # t => conns'[u] = conns[u]
      /\ conns'[t].pc = LoopTop
  BY <1>1 DEF TypeOK, Conn
<1>3. ASSUME NEW u \in Conns PROVE Owns(u)' = Owns(u) /\ Slot(u)' = Slot(u)
  BY <1>2, Zenon DEF Owns, Slot
<1>4. LoopTop # "closed"
  BY DEF LoopTop
<1> QED
  BY <1>2, <1>3, <1>4

LEMMA IdleOwns ==
  ASSUME TypeOK, Idle, NEW u \in Conns
  PROVE  Owns(u)' = Owns(u) /\ Slot(u)' = Slot(u)
<1>1. conns'[u].added = conns[u].added /\ conns'[u].clientID = conns[u].clientID
  BY DEF Idle
<1> QED
  BY <1>1, Zenon DEF Owns, Slot

(* A connection that ends without the mark "alien" takes its own record,   *)
(* or none.                                                                *)
LEMMA CleanupOwn ==
  ASSUME TypeOK, NEW t \in Conns, Cleanup(t), "alien" \notin faults'
  PROVE  \/ UNCHANGED tables
         \/ /\ Owns(t) /\ clients[Slot(t)].clientID # -1
            /\ clients' = DelClients(clients, Slot(t))
            /\ sessions' = DelSessions(sessions, clients, Slot(t))
<1>1. CASE Slot(t) \notin Slots
  BY <1>1 DEF Cleanup, Slot
<1>2. CASE Slot(t) \in Slots
  <2>1. clients' = DelClients(clients, Slot(t)) /\ sessions' = DelSessions(sessions, clients, Slot(t))
    BY <1>2 DEF Cleanup, Slot
  <2>2. Alien(t) => "alien" \in faults'
    BY DEF Cleanup, Faults
  <2>3. CASE clients[Slot(t)].clientID = -1
    BY <1>2, <2>1, <2>3, DelRecords DEF tables
  <2>4. CASE clients[Slot(t)].clientID # -1
    BY <1>2, <2>1, <2>2, <2>4 DEF Alien, Owns, Slot
  <2> QED
    BY <2>3, <2>4
<1> QED
  BY <1>1, <1>2

(* Every step keeps the owners and their records in step. *)
LEMMA ServingStep ==
  ASSUME TypeOK, ServingInv, [Next]_vars, ~quit', ~wild', "alien" \notin faults'
  PROVE  Serving'
<1>0. Serving /\ ~quit
  BY Steps DEF ServingInv
<1>s. \A i \in Slots : i # -1
  BY SizesAssumption DEF Slots
<1>r. \A t \in Conns : Owns(t) => Slot(t) \in Slots
  BY DEF Owns, Slot
<1>1. ASSUME sessionThr' = sessionThr,
             sessionThr = "starting" => \A i \in Slots : clients'[i].clientID # -1,
             \A u \in Conns : Owns(u)' => /\ Owns(u) /\ Slot(u)' = Slot(u)
                                          /\ clients'[Slot(u)].clientID = clients[Slot(u)].clientID
      PROVE  Serving'
  <2>1. \A t \in Conns : Owns(t)' => clients'[Slot(t)'].clientID = Slot(t)'
    BY <1>0, <1>1 DEF Serving
  <2>2. \A t, u \in Conns : Owns(t)' /\ Owns(u)' /\ Slot(u)' = Slot(t)' => t = u
    BY <1>0, <1>1 DEF Serving
  <2>3. sessionThr' = "starting" => \A t \in Conns : ~Owns(t)'
    BY <1>0, <1>1 DEF Serving
  <2> QED
    BY <1>1, <2>1, <2>2, <2>3 DEF Serving
<1>2. ASSUME NEW t \in Conns, Connect(t) PROVE Serving'
  <2>1. sessionThr' = sessionThr /\ clients' = clients
    BY <1>2 DEF Connect
  <2>2. \A u \in Conns : Owns(u)' => Owns(u) /\ Slot(u)' = Slot(u)
    BY <1>2, NoneOwned
  <2> QED
    BY <1>0, <1>1, <2>1, <2>2 DEF Serving
<1>3. ASSUME NEW t \in Conns, Cleanup(t) PROVE Serving'
  <2>1. sessionThr' = sessionThr
    BY <1>3 DEF Cleanup, global
  <2>2. \A u \in Conns : Owns(u)' => u # t /\ Owns(u) /\ Slot(u)' = Slot(u)
    BY <1>3, NoneOwned
  <2>3. CASE UNCHANGED tables
    BY <1>0, <1>1, <2>1, <2>2, <2>3 DEF Serving, tables
  <2>4. CASE Owns(t) /\ clients' = DelClients(clients, Slot(t))
    <3>1. sessionThr # "starting"
      BY <1>0, <2>4 DEF Serving
    <3>2. \A u \in Conns : Owns(u)' => Slot(u) \in Slots /\ Slot(u) # Slot(t)
      BY <1>0, <1>r, <2>2, <2>4 DEF Serving
    <3>3. \A k \in Slots : k # Slot(t) => clients'[k].clientID = clients[k].clientID
      BY <1>r, <2>4, DelRecords
    <3> QED
      BY <1>1, <2>1, <2>2, <3>1, <3>2, <3>3
  <2> QED
    BY <1>3, <2>3, <2>4, CleanupOwn
<1>4. ASSUME NEW t \in Conns, Adds(t) PROVE Serving'
  <2>1. sessionThr' = sessionThr
    BY <1>4 DEF Adds, global
  <2>2. PICK vp \in Int, ap \in Int : AddClient(t, vp, ap)
    BY <1>4 DEF Adds
  <2>3. CASE AddFails(t, vp, ap)
    <3>1. PICK r \in Int : r \notin Slots /\ AddReturns(t, r, vp, ap)
      BY <2>3 DEF AddFails
    <3>2. \A u \in Conns : Owns(u)' => u # t /\ Owns(u) /\ Slot(u)' = Slot(u)
      BY <3>1, AnswerOwns
    <3>3. \A k \in Slots : clients'[k].clientID = clients[k].clientID
      BY <2>3 DEF AddFails
    <3> QED
      BY <1>0, <1>1, <1>r, <2>1, <3>2, <3>3 DEF Serving
  <2>4. ASSUME NEW id \in Slots, NewClient(t, id, vp, ap) PROVE Serving'
    <3>1. /\ clients[id].clientID = -1 /\ clients'[id].clientID = id /\ AddReturns(t, id, vp, ap)
          /\ \A k \in Slots : k # id => clients'[k] = clients[k]
      BY <2>4 DEF NewClient
    <3>2. sessionThr # "starting"
      BY <1>0, <3>1 DEF Serving
    <3>3. id \in Int
      BY SizesAssumption DEF Slots
    <3>4. /\ Slot(t)' = id
          /\ \A u \in Conns : u # t => Owns(u)' = Owns(u) /\ Slot(u)' = Slot(u)
      BY <3>1, <3>3, AnswerOwns
    <3>5. \A u \in Conns : Owns(u) => Slot(u) # id
      BY <1>0, <1>s, <3>1 DEF Serving
    <3>6. ASSUME NEW u \in Conns, Owns(u)' PROVE clients'[Slot(u)'].clientID = Slot(u)'
      <4>1. CASE u = t
        BY <3>1, <3>4, <4>1
      <4>2. CASE u # t
        BY <1>0, <1>r, <3>1, <3>4, <3>5, <3>6, <4>2 DEF Serving
      <4> QED
        BY <4>1, <4>2
    <3>7. ASSUME NEW u \in Conns, NEW v \in Conns, Owns(u)', Owns(v)', Slot(u)' = Slot(v)'
          PROVE  u = v
      <4>1. CASE u # t /\ v # t
        BY <1>0, <3>4, <3>7, <4>1 DEF Serving
      <4>2. CASE u = t \/ v = t
        BY <3>4, <3>5, <3>7, <4>2
      <4> QED
        BY <4>1, <4>2
    <3> QED
      BY <2>1, <3>2, <3>6, <3>7 DEF Serving
  <2> QED
    BY <2>2, <2>3, <2>4, AddOutcome
<1>5. ASSUME NEW t \in Conns, Switches(t) PROVE Serving'
  BY <1>0, <1>1, <1>5, <1>r, SwitchOwns, SwitchRecords DEF Serving
<1>6. CASE init_session_tsk
  <2>1. sessionThr = "starting" /\ sessionThr' = "running" /\ conns' = conns
    BY <1>6 DEF init_session_tsk
  <2>2. \A u \in Conns : ~Owns(u)'
    BY <1>0, <2>1 DEF Serving, Owns
  <2> QED
    BY <2>1, <2>2 DEF Serving
<1>7. CASE delete_session_tsk \/ rtp_exit
  BY <1>0, <1>7 DEF delete_session_tsk, rtp_exit
<1>8. CASE Idle
  <2>1. UNCHANGED <<clients, sessionThr>> /\ \A u \in Conns : Owns(u)' = Owns(u) /\ Slot(u)' = Slot(u)
    BY <1>8, IdleOwns DEF Idle
  <2> QED
    BY <1>0, <1>1, <2>1 DEF Serving
<1> QED
  BY <1>2, <1>3, <1>4, <1>5, <1>6, <1>7, <1>8, Steps

(* The inductive invariant. *)
LEMMA ServingInductive == Spec => []ServingInv
<1>1. Init => ServingInv
  <2> SUFFICES ASSUME Init PROVE Serving
    BY DEF ServingInv
  <2>1. \A t \in Conns : ~Owns(t)
    BY DEF Init, Closed, Owns
  <2>2. \A i \in Slots : clients[i].clientID # -1
    BY DEF Init, ZeroClient
  <2> QED
    BY <2>1, <2>2 DEF Serving
<1>2. TypeOK /\ ServingInv /\ [Next]_vars => ServingInv'
  BY ServingStep DEF ServingInv
<1> QED
  BY <1>1, <1>2, TypeInvariant, PTL DEF Spec

(* A client told SUCCESS with a record stays registered, alone in that     *)
(* record, until its own connection ends: whatever number a service thread *)
(* starts with, until one that was never given a record acts on one.       *)
THEOREM ServedInvariant == Spec => []ServedUntilGone
<1>1. ServingInv => ServedUntilGone
  BY DEF ServingInv, Serving, ServedUntilGone, Slot
<1> QED
  BY <1>1, ServingInductive, PTL

(* The group of a channel, when the channels fill their groups. *)
LEMMA GroupOf ==
  ASSUME chs = NS * CHS_PER_SESSION, NEW ch \in 0 .. chs - 1
  PROVE  ch \in Chans /\ ch \div CHS_PER_SESSION \in Groups
<1>1. /\ CHS_PER_SESSION \in Nat \ {0} /\ NS \in Nat /\ chs \in Nat /\ chs <= MAX_VIDEO_CHANNEL
      /\ MAX_VIDEO_CHANNEL \in Nat
  BY SizesAssumption
<1>2. ch \in Chans
  BY <1>1 DEF Chans
<1>3. ASSUME NEW c \in Nat \ {0}, NEW n \in Nat, NEW x \in Nat, x < n * c
      PROVE  x \div c \in 0 .. n - 1
  <2> DEFINE q == x \div c
  <2>1. q \in Int /\ c * q <= x /\ x < c * q + c
    OBVIOUS
  <2> HIDE DEF q
  <2>2. q >= 0
    <3>1. \A a, b \in Int : a >= 1 /\ b <= -1 => a * b + a <= 0
      OBVIOUS
    <3> QED
      BY <2>1, <3>1
  <2>3. q < n
    <3>1. \A a, b, d \in Int : a >= 1 /\ b >= d => a * b >= d * a
      OBVIOUS
    <3> QED
      BY <1>3, <2>1, <3>1
  <2> QED
    BY <2>1, <2>2, <2>3 DEF q
<1>4. ch \in Nat /\ ch < NS * CHS_PER_SESSION
  BY <1>1
<1>5. ch \div CHS_PER_SESSION \in 0 .. NS - 1
  BY <1>1, <1>3, <1>4
<1> QED
  BY <1>2, <1>5 DEF Groups

(***************************************************************************)
(* Where a frame goes.                                                     *)
(***************************************************************************)
(* The entries of the record of connection t name the sessions that were   *)
(* made for it, one for each group of the streams it gave a port for.      *)
HasSessions(t, ty, g) ==
  LET s == clients[Slot(t)].ids[ty][g]
  IN  /\ ty \in conns[t].types => s \in Sids /\ sessions[s].pSession = Dest(t, ty, g)
      /\ ty \notin conns[t].types => s = -1

(* Every record in use is a connection's, its flags are the channels that  *)
(* the client was told are open, and its entries are its own sessions.     *)
Delivering ==
  /\ \A i \in Slots : Live(i) => \E t \in Conns : Owns(t) /\ Slot(t) = i
  /\ \A t \in Conns : Owns(t) => conns[t].pc # "closed"
  /\ \A t \in Conns, ch \in Chans :
       Owns(t) => (clients[Slot(t)].flag[ch] <=> ch \in conns[t].opened)
  /\ \A t \in Conns, ty \in Types, g \in Groups : Owns(t) => HasSessions(t, ty, g)

DeliverInv == ~quit /\ ~wild /\ faults \subseteq {"partial"} => Delivering

(* A step that keeps every owner, its record and its sessions. *)
LEMMA DeliveringSame ==
  ASSUME Delivering, NEW O \in SUBSET Conns, \A u \in Conns : Owns(u)' => u \in O,
         \A u \in O : /\ Owns(u) /\ Owns(u)' /\ Slot(u)' = Slot(u)
                      /\ conns'[u].types = conns[u].types
                      /\ conns'[u].pc = "closed" => conns[u].pc = "closed"
                      /\ clients'[Slot(u)].ids = clients[Slot(u)].ids,
         \A u \in O, ch \in Chans :
            clients'[Slot(u)].flag[ch] <=> ch \in conns'[u].opened,
         \A u \in O, ty \in Types, g \in Groups :
            clients[Slot(u)].ids[ty][g] \in Sids =>
               sessions'[clients[Slot(u)].ids[ty][g]].pSession
                 = sessions[clients[Slot(u)].ids[ty][g]].pSession,
         \A i \in Slots : Live(i)' => \E u \in O : Slot(u) = i
  PROVE  Delivering'
<1>1. \A i \in Slots : Live(i)' => \E t \in Conns : Owns(t)' /\ Slot(t)' = i
  OBVIOUS
<1>2. \A t \in Conns : Owns(t)' => conns'[t].pc # "closed"
  BY DEF Delivering
<1>3. \A t \in Conns, ch \in Chans :
         Owns(t)' => (clients'[Slot(t)'].flag[ch] <=> ch \in conns'[t].opened)
  OBVIOUS
<1>4. ASSUME NEW t \in Conns, NEW ty \in Types, NEW g \in Groups, Owns(t)'
      PROVE  HasSessions(t, ty, g)'
  <2>1. t \in O /\ HasSessions(t, ty, g)
    BY <1>4 DEF Delivering
  <2>2. clients'[Slot(t)'].ids[ty][g] = clients[Slot(t)].ids[ty][g] /\ conns'[t].types = conns[t].types
    BY <2>1
  <2> QED
    BY <2>1, <2>2 DEF HasSessions
<1> QED
  BY <1>1, <1>2, <1>3, <1>4 DEF Delivering

(* The end of a connection. *)
LEMMA CleanupDelivers ==
  ASSUME TypeOK, Serving, Delivering, NEW t \in Conns, Cleanup(t), faults' \subseteq {"partial"}
  PROVE  Delivering'
<1>s. \A i \in Slots : i # -1
  BY SizesAssumption DEF Slots
<1>n. -1 \notin Sids
  BY SizesAssumption DEF Sids
<1>r. \A u \in Conns : Owns(u) => Slot(u) \in Slots
  BY DEF Owns, Slot
<1> DEFINE O == {u \in Conns : u # t /\ Owns(u)}
<1>1. sessionThr' = sessionThr
  BY DEF Cleanup, global
<1>2. /\ ~Owns(t)'
      /\ \A u \in Conns : u # t => conns'[u] = conns[u] /\ Owns(u)' = Owns(u) /\ Slot(u)' = Slot(u)
  BY NoneOwned
<1>3. /\ O \in SUBSET Conns /\ \A u \in Conns : Owns(u)' => u \in O
      /\ \A u \in O : /\ Owns(u) /\ Owns(u)' /\ Slot(u)' = Slot(u) /\ Slot(u) \in Slots
                      /\ conns'[u].types = conns[u].types
                      /\ conns'[u].pc = "closed" => conns[u].pc = "closed"
                      /\ conns'[u].opened = conns[u].opened
  BY <1>2, <1>r
<1>4. \A u \in O : u \in Conns /\ u # t
  OBVIOUS
<1>5. CASE ~Owns(t)
  <2>1. UNCHANGED tables
    BY <1>5, CleanupOwn
  <2>2. \A i \in Slots : Live(i)' => \E u \in O : Slot(u) = i
    BY <1>1, <1>5, <2>1 DEF Delivering, Live, tables
  <2>3. \A u \in O, ch \in Chans : clients'[Slot(u)].flag[ch] <=> ch \in conns'[u].opened
    BY <1>3, <1>4, <2>1 DEF Delivering, tables
  <2> HIDE DEF O
  <2> QED
    BY <1>3, <1>4, <2>1, <2>2, <2>3, DeliveringSame DEF tables
<1>6. CASE Owns(t)
  <2> DEFINE c == Slot(t)
  <2>1. c \in Slots /\ clients[c].clientID # -1 /\ sessionThr # "starting"
    BY <1>6, <1>r, <1>s DEF Serving
  <2>2. clients' = DelClients(clients, c) /\ sessions' = DelSessions(sessions, clients, c)
    BY <2>1 DEF Cleanup, Slot
  <2>3. \A u \in O : Slot(u) # c /\ clients[Slot(u)].clientID # -1
    BY <1>3, <1>4, <1>6, <1>s DEF Serving
  <2>4. \A u \in O : Slot(u) # NS
    <3>1. c \in Slots \ {NS} /\ Live(NS) => "reset" \in faults'
      BY <2>1 DEF Cleanup, Faults, Slot
    <3>2. NS \in Slots
      BY SizesAssumption DEF Slots
    <3> QED
      BY <2>1, <2>3, <3>1, <3>2 DEF Live
  <2>5. /\ \A k \in Slots : k # c => clients'[k].clientID = clients[k].clientID
        /\ \A k \in Slots : clients'[k].flag = clients[k].flag
        /\ \A k \in Slots : k # NS => clients'[k].ids = clients[k].ids
        /\ clients'[c].clientID = -1
        /\ \A s \in Sids : s \notin IDs(clients, c) => sessions'[s] = sessions[s]
    BY <2>1, <2>2, DelRecords
  <2>6. ASSUME NEW u \in O, NEW ty \in Types, NEW g \in Groups, clients[Slot(u)].ids[ty][g] \in Sids
        PROVE  clients[Slot(u)].ids[ty][g] \notin IDs(clients, c)
    <3>1. ASSUME NEW x \in Types, NEW m \in Groups, clients[c].ids[x][m] = clients[Slot(u)].ids[ty][g]
          PROVE  FALSE
      <4>1. HasSessions(t, x, m) /\ HasSessions(u, ty, g)
        BY <1>3, <1>4, <1>6 DEF Delivering
      <4>2. Dest(t, x, m) = Dest(u, ty, g)
        BY <1>n, <2>6, <3>1, <4>1 DEF HasSessions
      <4> QED
        BY <1>4, <4>2, DestFields
    <3> QED
      BY <3>1 DEF IDs
  <2>7. \A i \in Slots : Live(i)' => \E u \in O : Slot(u) = i
    <3>1. ASSUME NEW i \in Slots, Live(i)' PROVE i # c /\ Live(i)
      BY <1>1, <2>5, <3>1 DEF Live
    <3> QED
      BY <3>1 DEF Delivering
  <2>8. \A u \in O, ch \in Chans : clients'[Slot(u)].flag[ch] <=> ch \in conns'[u].opened
    BY <1>3, <1>4, <2>5 DEF Delivering
  <2>9. \A u \in O : clients'[Slot(u)].ids = clients[Slot(u)].ids
    BY <1>3, <2>4, <2>5
  <2>10. \A u \in O, ty \in Types, g \in Groups :
            clients[Slot(u)].ids[ty][g] \in Sids =>
               sessions'[clients[Slot(u)].ids[ty][g]].pSession
                 = sessions[clients[Slot(u)].ids[ty][g]].pSession
    BY <2>5, <2>6
  <2> HIDE DEF O
  <2> QED
    BY <1>3, <2>7, <2>8, <2>9, <2>10, DeliveringSame
<1> QED
  BY <1>5, <1>6

(* ADD_CLIENT of a connection that has no client. *)
LEMMA AddDelivers ==
  ASSUME TypeOK, Serving, Delivering, NEW t \in Conns, NEW vp \in Int, NEW ap \in Int,
         AddClient(t, vp, ap), sessionThr' = sessionThr, faults' \subseteq {"partial"}
  PROVE  Delivering'
<1>s. \A i \in Slots : i # -1
  BY SizesAssumption DEF Slots
<1>r. \A u \in Conns : Owns(u) => Slot(u) \in Slots
  BY DEF Owns, Slot
<1>o. ~Owns(t)
  BY AddOutcome
<1>l. \A u \in Conns : Owns(u) => clients[Slot(u)].clientID # -1
  BY <1>r, <1>s DEF Serving
<1>k. ASSUME NEW u \in Conns, Owns(u), NEW ty \in Types, NEW g \in Groups,
             clients[Slot(u)].ids[ty][g] \in Sids
      PROVE  sessions[clients[Slot(u)].ids[ty][g]].pSession # NULL
  <2>1. HasSessions(u, ty, g) /\ -1 \notin Sids
    BY <1>k, SizesAssumption DEF Delivering, Sids
  <2> QED
    BY <1>k, <2>1, DestNotNull DEF HasSessions
<1> DEFINE O == {u \in Conns : u # t /\ Owns(u)}
<1>1. CASE AddFails(t, vp, ap)
  <2>1. PICK r \in Int : r \notin Slots /\ AddReturns(t, r, vp, ap)
    BY <1>1 DEF AddFails
  <2>2. /\ ~Owns(t)'
        /\ \A u \in Conns : u # t => conns'[u] = conns[u] /\ Owns(u)' = Owns(u) /\ Slot(u)' = Slot(u)
    BY <2>1, AnswerOwns
  <2>3. /\ O \in SUBSET Conns /\ \A u \in Conns : Owns(u)' => u \in O
        /\ \A u \in O : /\ Owns(u) /\ Owns(u)' /\ Slot(u)' = Slot(u) /\ conns'[u] = conns[u]
                        /\ clients'[Slot(u)] = clients[Slot(u)]
    BY <1>1, <1>l, <1>r, <2>2 DEF AddFails
  <2>4. \A u \in O, ch \in Chans : clients'[Slot(u)].flag[ch] <=> ch \in conns'[u].opened
    BY <2>3 DEF Delivering
  <2>5. \A u \in O, ty \in Types, g \in Groups :
            clients[Slot(u)].ids[ty][g] \in Sids =>
               sessions'[clients[Slot(u)].ids[ty][g]].pSession
                 = sessions[clients[Slot(u)].ids[ty][g]].pSession
    BY <1>1, <1>k DEF AddFails
  <2>6. \A i \in Slots : Live(i)' => \E u \in O : Slot(u) = i
    BY <1>1, <1>o DEF AddFails, Delivering, Live
  <2> HIDE DEF O
  <2> QED
    BY <2>3, <2>4, <2>5, <2>6, DeliveringSame
<1>2. ASSUME NEW id \in Slots, NewClient(t, id, vp, ap) PROVE Delivering'
  <2>0. id \in Int
    BY SizesAssumption DEF Slots
  <2>1. /\ clients[id].clientID = -1 /\ clients'[id].clientID = id /\ AddReturns(t, id, vp, ap)
        /\ \A ch \in Chans : ~clients'[id].flag[ch]
        /\ \A k \in Slots : k # id => clients'[k] = clients[k]
        /\ \A s \in Sids : sessions[s].pSession # NULL => sessions'[s] = sessions[s]
    BY <1>2 DEF NewClient
  <2>2. /\ Owns(t)' /\ Slot(t)' = id /\ conns'[t].opened = {} /\ conns'[t].pc # "closed"
        /\ \A ty \in Types : ty \in conns'[t].types <=> Port(ty, vp, ap) > 0
        /\ \A u \in Conns : u # t => conns'[u] = conns[u] /\ Owns(u)' = Owns(u) /\ Slot(u)' = Slot(u)
    BY <2>0, <2>1, AnswerOwns
  <2>3. \A u \in Conns : Owns(u) => Slot(u) # id /\ clients'[Slot(u)] = clients[Slot(u)]
    BY <1>l, <1>r, <2>1
  <2>4. ASSUME NEW i \in Slots, Live(i)' PROVE \E u \in Conns : Owns(u)' /\ Slot(u)' = i
    <3>1. CASE i = id
      BY <2>2, <3>1
    <3>2. CASE i # id
      <4>1. Live(i)
        BY <2>1, <2>4, <3>2 DEF Live
      <4>2. PICK u \in Conns : Owns(u) /\ Slot(u) = i
        BY <4>1 DEF Delivering
      <4> QED
        BY <1>o, <2>2, <4>2
    <3> QED
      BY <3>1, <3>2
  <2>5. \A u \in Conns : Owns(u)' => conns'[u].pc # "closed"
    BY <2>2 DEF Delivering
  <2>6. ASSUME NEW u \in Conns, NEW ch \in Chans, Owns(u)'
        PROVE  clients'[Slot(u)'].flag[ch] <=> ch \in conns'[u].opened
    <3>1. CASE u = t
      BY <2>1, <2>2, <3>1
    <3>2. CASE u # t
      BY <2>2, <2>3, <2>6, <3>2 DEF Delivering
    <3> QED
      BY <3>1, <3>2
  <2>7. ASSUME NEW u \in Conns, NEW ty \in Types, NEW g \in Groups, Owns(u)'
        PROVE  HasSessions(u, ty, g)'
    <3>1. CASE u = t
      <4>1. "stale" \notin faults'
        OBVIOUS
      <4>2. /\ Port(ty, vp, ap) > 0 =>
                 /\ clients'[id].ids[ty][g] \in Sids
                 /\ sessions'[clients'[id].ids[ty][g]].pSession = Dest(t, ty, g)
            /\ ~(Port(ty, vp, ap) > 0) => clients'[id].ids[ty][g] = -1
        BY <1>2, <4>1 DEF NewClient
      <4> QED
        BY <2>2, <3>1, <4>2 DEF HasSessions
    <3>2. CASE u # t
      <4>1. Owns(u) /\ HasSessions(u, ty, g)
        BY <2>2, <2>7, <3>2 DEF Delivering
      <4>2. clients'[Slot(u)'].ids[ty][g] = clients[Slot(u)].ids[ty][g] /\ conns'[u].types = conns[u].types
        BY <2>2, <2>3, <3>2, <4>1
      <4>3. clients[Slot(u)].ids[ty][g] \in Sids =>
               sessions'[clients[Slot(u)].ids[ty][g]] = sessions[clients[Slot(u)].ids[ty][g]]
        BY <1>k, <2>1, <4>1
      <4> QED
        BY <4>1, <4>2, <4>3 DEF HasSessions
    <3> QED
      BY <3>1, <3>2
  <2> QED
    BY <2>4, <2>5, <2>6, <2>7 DEF Delivering
<1> QED
  BY <1>1, <1>2, AddOutcome

(* OPEN_CHANNEL and CLOSE_CHANNEL. *)
LEMMA SwitchDelivers ==
  ASSUME TypeOK, Serving, Delivering, NEW t \in Conns, Switches(t), ~wild',
         faults' \subseteq {"partial"}
  PROVE  Delivering'
<1>s. \A i \in Slots : i # -1
  BY SizesAssumption DEF Slots
<1>r. \A u \in Conns : Owns(u) => Slot(u) \in Slots
  BY DEF Owns, Slot
<1> DEFINE O == {u \in Conns : Owns(u)}
<1>1. PICK ch \in 0 .. MAX_VIDEO_CHANNEL, on \in BOOLEAN : SwitchChannel(t, ch, on)
  BY DEF Switches
<1>2. /\ \A u \in Conns : /\ Owns(u)' = Owns(u) /\ Slot(u)' = Slot(u)
                          /\ conns'[u].types = conns[u].types
      /\ \A u \in Conns : u # t => conns'[u] = conns[u]
      /\ conns'[t].pc # "closed"
  BY SwitchOwns
<1>3. /\ sessions' = sessions /\ sessionThr' = sessionThr
      /\ \A k \in Slots : clients'[k].clientID = clients[k].clientID /\ clients'[k].ids = clients[k].ids
  BY SwitchRecords
<1>4. Slot(t) \in Slots /\ SetFlags(Slot(t), ch, on) /\ (Alien(t) => "alien" \in faults')
  BY <1>1 DEF SwitchChannel, Slot, Faults
<1>5. ASSUME NEW u \in Conns, NEW k \in Chans, Owns(u)
      PROVE  clients'[Slot(u)].flag[k] <=> k \in conns'[u].opened
  <2>0. clients[Slot(u)].flag[k] <=> k \in conns[u].opened
    BY <1>5 DEF Delivering
  <2>1. CASE ~Owns(t)
    <3>1. clients[Slot(t)].clientID = -1
      BY <1>4, <2>1 DEF Alien, Owns, Slot
    <3>2. clients' = clients
      BY <1>4, <3>1 DEF SetFlags
    <3> QED
      BY <1>2, <1>5, <2>0, <2>1, <3>2
  <2>2. CASE Owns(t)
    <3>1. clients[Slot(t)].clientID # -1
      BY <1>4, <1>s, <2>2 DEF Serving
    <3> DEFINE f == [c \in Chans |-> IF c \in Selected(ch) THEN on ELSE clients[Slot(t)].flag[c]]
    <3>2. clients' = [clients EXCEPT ![Slot(t)].flag = f]
      BY <1>4, <3>1 DEF SetFlags
    <3>3. f[k] = IF k \in Selected(ch) THEN on ELSE clients[Slot(t)].flag[k]
      OBVIOUS
    <3> HIDE DEF f
    <3>4. CASE u # t
      <4>1. Slot(u) # Slot(t) /\ Slot(u) \in Slots
        BY <1>5, <1>r, <2>2, <3>4 DEF Serving
      <4>2. clients'[Slot(u)] = clients[Slot(u)]
        BY <3>2, <4>1 DEF TypeOK
      <4> QED
        BY <1>2, <2>0, <3>4, <4>2
    <3>5. CASE u = t
      <4>1. clients'[Slot(t)].flag = f
        BY <1>4, <3>2 DEF TypeOK, Clients
      <4> DEFINE o == IF on THEN conns[t].opened \cup Selected(ch) ELSE conns[t].opened \ Selected(ch)
      <4>2. conns' = [conns EXCEPT ![t].pc = LoopTop, ![t].opened = o]
        BY <1>1, <2>2 DEF SwitchChannel
      <4>3. k \in o <=> IF k \in Selected(ch) THEN on ELSE k \in conns[t].opened
        OBVIOUS
      <4> HIDE DEF o
      <4>4. conns'[t].opened = o
        BY <4>2 DEF TypeOK, Conn
      <4> QED
        BY <2>0, <3>3, <3>5, <4>1, <4>3, <4>4
    <3> QED
      BY <3>4, <3>5
  <2> QED
    BY <2>1, <2>2
<1>6. /\ O \in SUBSET Conns /\ \A u \in Conns : Owns(u)' => u \in O
      /\ \A u \in O : /\ Owns(u) /\ Owns(u)' /\ Slot(u)' = Slot(u)
                      /\ conns'[u].types = conns[u].types
                      /\ conns'[u].pc = "closed" => conns[u].pc = "closed"
                      /\ clients'[Slot(u)].ids = clients[Slot(u)].ids
  BY <1>2, <1>3, <1>r
<1>7. \A u \in O, k \in Chans : clients'[Slot(u)].flag[k] <=> k \in conns'[u].opened
  BY <1>5
<1>8. \A i \in Slots : Live(i)' => \E u \in O : Slot(u) = i
  BY <1>3 DEF Delivering, Live
<1> HIDE DEF O
<1> QED
  BY <1>3, <1>6, <1>7, <1>8, DeliveringSame

(* Every step keeps the records, flags and sessions in step. *)
LEMMA DeliverStep ==
  ASSUME TypeOK, ServingInv, DeliverInv, [Next]_vars, ~quit', ~wild', faults' \subseteq {"partial"}
  PROVE  Delivering'
<1>0. Serving /\ Delivering /\ ~quit
  BY Steps DEF ServingInv, DeliverInv
<1>1. ASSUME NEW t \in Conns, Connect(t) PROVE Delivering'
  <2> DEFINE O == {u \in Conns : Owns(u)}
  <2>1. UNCHANGED <<clients, sessions, sessionThr>> /\ conns[t].pc = "closed"
    BY <1>1 DEF Connect
  <2>2. ~Owns(t)
    BY <1>0, <2>1 DEF Delivering
  <2>3. /\ ~Owns(t)'
        /\ \A u \in Conns : u # t => conns'[u] = conns[u] /\ Owns(u)' = Owns(u) /\ Slot(u)' = Slot(u)
    BY <1>1, NoneOwned
  <2>4. /\ O \in SUBSET Conns /\ \A u \in Conns : Owns(u)' => u \in O
        /\ \A u \in O : /\ Owns(u) /\ Owns(u)' /\ Slot(u)' = Slot(u) /\ conns'[u] = conns[u]
                        /\ clients'[Slot(u)] = clients[Slot(u)]
    BY <2>1, <2>2, <2>3
  <2>5. \A u \in O, ch \in Chans : clients'[Slot(u)].flag[ch] <=> ch \in conns'[u].opened
    BY <1>0, <2>4 DEF Delivering
  <2>6. \A i \in Slots : Live(i)' => \E u \in O : Slot(u) = i
    BY <1>0, <2>1 DEF Delivering, Live
  <2> HIDE DEF O
  <2> QED
    BY <1>0, <2>1, <2>4, <2>5, <2>6, DeliveringSame
<1>2. ASSUME NEW t \in Conns, Cleanup(t) PROVE Delivering'
  BY <1>0, <1>2, CleanupDelivers
<1>3. ASSUME NEW t \in Conns, Adds(t) PROVE Delivering'
  BY <1>0, <1>3, AddDelivers DEF Adds, global
<1>4. ASSUME NEW t \in Conns, Switches(t) PROVE Delivering'
  BY <1>0, <1>4, SwitchDelivers
<1>5. CASE init_session_tsk
  <2>1. \A u \in Conns : ~Owns(u)'
    BY <1>0, <1>5 DEF init_session_tsk, Serving, Owns
  <2>2. \A i \in Slots : ~Live(i)'
    BY <1>5 DEF init_session_tsk, TypeOK, Clients, Live
  <2> QED
    BY <2>1, <2>2 DEF Delivering
<1>6. CASE delete_session_tsk \/ rtp_exit
  BY <1>0, <1>6 DEF delete_session_tsk, rtp_exit
<1>7. CASE Idle
  <2> DEFINE O == {u \in Conns : Owns(u)}
  <2>1. \A u \in Conns : Owns(u)' = Owns(u) /\ Slot(u)' = Slot(u)
    BY <1>7, IdleOwns
  <2>2. UNCHANGED <<clients, sessionThr>>
    BY <1>7 DEF Idle
  <2>3. /\ O \in SUBSET Conns /\ \A u \in Conns : Owns(u)' => u \in O
        /\ \A u \in O : /\ Owns(u) /\ Owns(u)' /\ Slot(u)' = Slot(u)
                        /\ conns'[u].types = conns[u].types /\ conns'[u].opened = conns[u].opened
                        /\ conns'[u].pc = "closed" => conns[u].pc = "closed"
                        /\ clients'[Slot(u)] = clients[Slot(u)]
    BY <1>7, <2>1, <2>2 DEF Idle
  <2>4. \A u \in O, ch \in Chans : clients'[Slot(u)].flag[ch] <=> ch \in conns'[u].opened
    BY <1>0, <2>3 DEF Delivering
  <2>5. \A i \in Slots : Live(i)' => \E u \in O : Slot(u) = i
    BY <1>0, <2>2 DEF Delivering, Live
  <2>6. \A s \in Sids : sessions'[s].pSession = sessions[s].pSession
    BY <1>7 DEF Idle
  <2> HIDE DEF O
  <2> QED
    BY <1>0, <2>3, <2>4, <2>5, <2>6, DeliveringSame
<1> QED
  BY <1>1, <1>2, <1>3, <1>4, <1>5, <1>6, <1>7, Steps

(* The inductive invariant. *)
LEMMA DeliverInductive == Spec => []DeliverInv
<1>1. Init => DeliverInv
  <2> SUFFICES ASSUME Init PROVE Delivering
    BY DEF DeliverInv
  <2>1. (\A t \in Conns : ~Owns(t)) /\ \A i \in Slots : ~Live(i)
    BY DEF Init, Closed, Owns, Live
  <2> QED
    BY <2>1 DEF Delivering
<1>2. TypeOK /\ ServingInv /\ DeliverInv /\ [Next]_vars => DeliverInv'
  BY DeliverStep DEF DeliverInv
<1> QED
  BY <1>1, <1>2, TypeInvariant, ServingInductive, PTL DEF Spec

(* While the server works, send_to_client reaches exactly the clients that *)
(* opened the channel and gave a port for the stream, each by the session  *)
(* made for that group and type, whatever the sizes of the tables and      *)
(* however often add_client fails.                                         *)
THEOREM DeliveryInvariant ==
  ASSUME chs = NS * CHS_PER_SESSION
  PROVE  Spec => []DeliversExactly
<1>1. TypeOK /\ ServingInv /\ DeliverInv => DeliversExactly
  <2> SUFFICES ASSUME TypeOK, Serving, Delivering, sessionThr = "running",
                      NEW ch \in 0 .. chs - 1, NEW ty \in Types
               PROVE  Reached(ch, ty) =
                        {[dest |-> t, type |-> ty, grp |-> ch \div CHS_PER_SESSION] :
                           t \in {u \in Conns : Owns(u) /\ ty \in conns[u].types /\ ch \in conns[u].opened}}
    BY DEF DeliversExactly, ServingInv, DeliverInv
  <2>1. PICK g \in Groups : g = ch \div CHS_PER_SESSION
    BY GroupOf
  <2>c. ch \in Chans
    BY GroupOf
  <2>n. -1 \notin Sids /\ \A i \in Slots : i # -1
    BY SizesAssumption DEF Sids, Slots
  <2> DEFINE Openers == {u \in Conns : Owns(u) /\ ty \in conns[u].types /\ ch \in conns[u].opened}
  <2>2. ASSUME NEW i \in Receivers(ch)
        PROVE  \E u \in Conns : Owns(u) /\ Slot(u) = i /\ ch \in conns[u].opened
    <3>1. i \in Slots /\ Live(i) /\ clients[clients[i].clientID].flag[ch]
      BY DEF Receivers, Live
    <3>2. PICK u \in Conns : Owns(u) /\ Slot(u) = i
      BY <3>1 DEF Delivering
    <3>3. clients[i].clientID = i
      BY <3>2 DEF Serving
    <3> QED
      BY <2>c, <3>1, <3>2, <3>3 DEF Delivering
  <2>3. ASSUME NEW u \in Openers PROVE Slot(u) \in Receivers(ch)
    <3>1. Slot(u) \in Slots /\ clients[Slot(u)].clientID = Slot(u) /\ clients[Slot(u)].flag[ch]
      BY <2>c DEF Owns, Slot, Serving, Delivering
    <3> QED
      BY <2>n, <3>1 DEF Receivers
  <2>4. ASSUME NEW u \in Conns, Owns(u)
        PROVE  /\ ty \in conns[u].types =>
                    /\ SidFor(Slot(u), ch, ty) \in Sids
                    /\ sessions[SidFor(Slot(u), ch, ty)].pSession = Dest(u, ty, g)
                    /\ Dest(u, ty, g) # NULL
               /\ ty \notin conns[u].types => SidFor(Slot(u), ch, ty) \notin Sids
    <3>1. HasSessions(u, ty, g) /\ Dest(u, ty, g) # NULL
      BY <2>4, DestNotNull DEF Delivering
    <3> QED
      BY <2>1, <2>n, <3>1 DEF SidFor, HasSessions
  <2>5. Reached(ch, ty) = {Dest(u, ty, g) : u \in Openers}
    <3>1. ASSUME NEW d \in Reached(ch, ty) PROVE d \in {Dest(u, ty, g) : u \in Openers}
      <4>1. PICK i \in Receivers(ch) : /\ SidFor(i, ch, ty) \in Sids
                                       /\ d = sessions[SidFor(i, ch, ty)].pSession
        BY DEF Reached
      <4>2. PICK u \in Conns : Owns(u) /\ Slot(u) = i /\ ch \in conns[u].opened
        BY <2>2
      <4>3. ty \in conns[u].types /\ d = Dest(u, ty, g)
        BY <2>4, <4>1, <4>2
      <4> QED
        BY <4>2, <4>3
    <3>2. ASSUME NEW u \in Openers PROVE Dest(u, ty, g) \in Reached(ch, ty)
      <4>1. Slot(u) \in Receivers(ch)
        BY <2>3
      <4> QED
        BY <2>4, <4>1 DEF Reached
    <3> QED
      BY <3>1, <3>2
  <2> QED
    BY <2>1, <2>5 DEF Dest
<1> QED
  BY <1>1, TypeInvariant, ServingInductive, DeliverInductive, PTL
=============================================================================
