----------------------------- MODULE OsaQueSpec -----------------------------
(***************************************************************************)
(* What OSA_queCreate / OSA_quePut / OSA_queGet promise their callers: a   *)
(* bounded first-in first-out queue of which every call takes effect in    *)
(* one instant between its invocation and its return.  Nothing here speaks *)
(* of the ring, of the mutex or of the condition variables; a call made    *)
(* with OSA_TIMEOUT_FOREVER simply stays pending until it can take effect, *)
(* and one made with OSA_TIMEOUT_NONE may also fail when it cannot.        *)
(***************************************************************************)
EXTENDS Naturals, Sequences

CONSTANTS Threads, Values, len, NoValue

VARIABLES q,      \* the values stored, oldest first
          call,   \* call[t]: the operation thread t is in, or Idle
          ret     \* ret[t]: what t's last completed call returned

vars == <<q, call, ret>>

Timeouts == {"NONE", "FOREVER"}
Idle     == [op |-> "none", val |-> NoValue, timeout |-> "FOREVER"]
Calls    == [op : {"put"}, val : Values, timeout : Timeouts]
              \cup [op : {"get"}, val : {NoValue}, timeout : Timeouts]

Init == /\ q = <<>>
        /\ call = [t \in Threads |-> Idle]
        /\ ret = [t \in Threads |-> [status |-> "SOK", val |-> NoValue]]

Invoke(t) == /\ call[t] = Idle
             /\ \E c \in Calls : call' = [call EXCEPT ![t] = c]
             /\ UNCHANGED <<q, ret>>

Return(t, status, val) == /\ call' = [call EXCEPT ![t] = Idle]
                          /\ ret' = [ret EXCEPT ![t] = [status |-> status, val |-> val]]

Put(t) == /\ call[t].op = "put"
          /\ Len(q) < len
          /\ q' = Append(q, call[t].val)
          /\ Return(t, "SOK", NoValue)

Get(t) == /\ call[t].op = "get"
          /\ q # <<>>
          /\ q' = Tail(q)
          /\ Return(t, "SOK", Head(q))

Fail(t) == /\ call[t].timeout = "NONE"
           /\ \/ call[t].op = "put" /\ Len(q) = len
              \/ call[t].op = "get" /\ q = <<>>
           /\ UNCHANGED q
           /\ Return(t, "EFAIL", NoValue)

Next == \E t \in Threads : Invoke(t) \/ Put(t) \/ Get(t) \/ Fail(t)

Spec == Init /\ [][Next]_vars
=============================================================================
