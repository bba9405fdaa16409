------------------------------- MODULE OsaFlg -------------------------------
(***************************************************************************)
(* The event flags of utils/osa/src/osa_flg.c.  The pattern is a set of    *)
(* bits.  OSA_flgSet gives one cond_signal, whatever the sleepers wait     *)
(* for, so the object serves one waiting thread (FlgWaiters) and any       *)
(* number that set, clear and test.                                        *)
(***************************************************************************)
EXTENDS Naturals

CONSTANTS FlgWaiters, FlgBits

VARIABLES flgPattern, flgWait, flgGot

flgVars == <<flgPattern, flgWait, flgGot>>

Modes == {"AND", "OR"}
FlgIdle == [at |-> "idle", pattern |-> {}, mode |-> "OR", clr |-> FALSE]

(* OSA_flgCreate *)
flgInit == /\ flgPattern \in SUBSET FlgBits
           /\ flgWait = [w \in FlgWaiters |-> FlgIdle]
           /\ flgGot = [w \in FlgWaiters |-> {}]

(* The test of OSA_flgWait. *)
FlgFound(q) == IF q.mode = "AND" THEN q.pattern \subseteq flgPattern
                                 ELSE flgPattern \cap q.pattern # {}

(* One turn of its loop: the bits found are cleared if so asked, and only  *)
(* those.  flgGot keeps what was set when the wait ended.                  *)
flgTurn(w, q) ==
  \/ /\ FlgFound(q)
     /\ flgPattern' = IF q.clr THEN flgPattern \ q.pattern ELSE flgPattern
     /\ flgGot' = [flgGot EXCEPT ![w] = flgPattern \cap q.pattern]
     /\ flgWait' = [flgWait EXCEPT ![w] = [q EXCEPT !.at = "done"]]
  \/ /\ ~FlgFound(q)
     /\ flgWait' = [flgWait EXCEPT ![w] = [q EXCEPT !.at = "asleep"]]
     /\ UNCHANGED <<flgPattern, flgGot>>

OSA_flgWait(w) ==
  /\ flgWait[w].at \in {"idle", "done"}
  /\ \E p \in SUBSET FlgBits \ {{}}, m \in Modes, c \in BOOLEAN :
        flgTurn(w, [at |-> "run", pattern |-> p, mode |-> m, clr |-> c])

flgResume(w) == flgWait[w].at = "woken" /\ flgTurn(w, flgWait[w])

(* OSA_TIMEOUT_NONE: a failed test ends the call; OSA_flgIsSet is the AND  *)
(* test without clearing.                                                  *)
OSA_flgPoll(p, m, clr) ==
  /\ flgPattern' = IF clr /\ FlgFound([pattern |-> p, mode |-> m]) THEN flgPattern \ p ELSE flgPattern
  /\ UNCHANGED <<flgWait, flgGot>>

OSA_flgIsSet(p) == OSA_flgPoll(p, "AND", FALSE)

Sleeping == {w \in FlgWaiters : flgWait[w].at = "asleep"}
flgWake == IF Sleeping = {} THEN UNCHANGED flgWait
           ELSE \E w \in Sleeping : flgWait' = [flgWait EXCEPT ![w].at = "woken"]

flgSpurious == Sleeping # {} /\ flgWake /\ UNCHANGED <<flgPattern, flgGot>>

(* Mutant: a signal only when the pattern was empty. *)
OSA_flgSetOnEdge(p) ==
  /\ flgPattern' = flgPattern \cup p
  /\ IF flgPattern = {} THEN flgWake ELSE UNCHANGED flgWait
  /\ UNCHANGED flgGot

OSA_flgSet(p) == flgPattern' = flgPattern \cup p /\ flgWake /\ UNCHANGED flgGot

OSA_flgClear(p) == flgPattern' = flgPattern \ p /\ UNCHANGED <<flgWait, flgGot>>

flgNext == \/ \E w \in FlgWaiters : OSA_flgWait(w) \/ flgResume(w)
           \/ \E p \in SUBSET FlgBits : \/ OSA_flgSet(p) \/ OSA_flgClear(p) \/ OSA_flgIsSet(p)
                                        \/ \E m \in Modes, c \in BOOLEAN : OSA_flgPoll(p, m, c)
           \/ flgSpurious

flgSpec == flgInit /\ [][flgNext]_flgVars

-----------------------------------------------------------------------------
(* A waiter does not sleep while what it waits for is set, although its    *)
(* bits are set one by one and by several threads, and cleared and tested  *)
(* in between.                                                             *)
FlgNoLostWakeup == \A w \in Sleeping : ~FlgFound(flgWait[w])

(* A wait that has returned had its condition true when it took the bits:  *)
(* all of an AND pattern at the same time, some of an OR pattern.          *)
FlgGotRight == \A w \in FlgWaiters :
                 flgWait[w].at = "done" =>
                   IF flgWait[w].mode = "AND" THEN flgGot[w] = flgWait[w].pattern
                                              ELSE flgGot[w] # {}

(* The event flags: who can go on is not asleep, and who went on could     *)
(* (osa_flg.c).                                                            *)
FlgInv == FlgNoLostWakeup /\ FlgGotRight
=============================================================================
