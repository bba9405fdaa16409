------------------------------- MODULE OsaSem -------------------------------
(***************************************************************************)
(* The counting semaphore of utils/osa/src/osa_sem.c: a count between 0    *)
(* and maxCount under a mutex, and one condition variable.  Everything     *)
(* between lock and unlock, or cond_wait, is one step.  A thread that      *)
(* cond_wait has let go is woken until it has the mutex again; meanwhile   *)
(* another thread may take the count away from it.                         *)
(***************************************************************************)
EXTENDS Naturals, FiniteSets

CONSTANTS SemThreads, SemMax, SemInit   \* the users; maxCount and initVal of OSA_semCreate

ASSUME SemAssumption == IsFiniteSet(SemThreads) /\ SemMax \in Nat /\ SemInit \in Nat

VARIABLES semCount, semAsleep, semWoken

semVars == <<semCount, semAsleep, semWoken>>

(* OSA_semCreate: a limit of 0 is 1, a larger initial value is cut. *)
maxCount == IF SemMax = 0 THEN 1 ELSE SemMax

semInit == /\ semCount = IF SemInit > maxCount THEN maxCount ELSE SemInit
           /\ semAsleep = {}
           /\ semWoken = {}

SemIdle == SemThreads \ (semAsleep \cup semWoken)

(* OSA_semWait takes one, or fails at once without a timeout, or sleeps. *)
semTake(t) == /\ semCount > 0
              /\ semCount' = semCount - 1
              /\ semWoken' = semWoken \ {t}
              /\ UNCHANGED semAsleep

semSleep(t) == /\ semCount = 0
               /\ semAsleep' = semAsleep \cup {t}
               /\ semWoken' = semWoken \ {t}
               /\ UNCHANGED semCount

OSA_semWait(t) == t \in SemIdle /\ (semTake(t) \/ semSleep(t))
OSA_semPoll(t) == t \in SemIdle /\ (semTake(t) \/ (semCount = 0 /\ UNCHANGED semVars))
semResume(t)   == t \in semWoken /\ (semTake(t) \/ semSleep(t))

(* pthread_cond_signal lets one sleeper go, if there is one.  It may also  *)
(* go by itself (a spurious wake-up), which the loop around it is for.     *)
semWake == IF semAsleep = {} THEN UNCHANGED <<semAsleep, semWoken>>
           ELSE \E t \in semAsleep : /\ semAsleep' = semAsleep \ {t}
                                     /\ semWoken' = semWoken \cup {t}

semSpurious == semAsleep # {} /\ semWake /\ UNCHANGED semCount

(* Mutant: the signal is given only when the count was 0, so that the      *)
(* second of two posts wakes nobody.                                       *)
OSA_semSignalOnEdge(t) ==
  /\ t \in SemIdle
  /\ IF semCount < maxCount
     THEN /\ semCount' = semCount + 1
          /\ IF semCount = 0 THEN semWake ELSE UNCHANGED <<semAsleep, semWoken>>
     ELSE UNCHANGED semVars

(* OSA_semSignal: at the limit the post is lost, and wakes nobody. *)
OSA_semSignal(t) ==
  /\ t \in SemIdle
  /\ IF semCount < maxCount THEN semCount' = semCount + 1 /\ semWake
                            ELSE UNCHANGED semVars

semNext == \/ \E t \in SemThreads : \/ OSA_semWait(t) \/ OSA_semPoll(t)
                                    \/ semResume(t) \/ OSA_semSignal(t)
           \/ semSpurious

semSpec == semInit /\ [][semNext]_semVars

-----------------------------------------------------------------------------
SemTypeOK == /\ semCount \in 0 .. maxCount
             /\ semAsleep \subseteq SemThreads
             /\ semWoken \subseteq SemThreads
             /\ semAsleep \cap semWoken = {}

(* One cond_signal per post is enough: while threads sleep, everything in  *)
(* the count has a woken thread on its way to it.                          *)
SemNoLostWakeup == semAsleep # {} => semCount <= Cardinality(semWoken)

(* The semaphore: the count keeps to its range and no post is slept        *)
(* through (osa_sem.c).                                                    *)
SemInv == SemTypeOK /\ SemNoLostWakeup
=============================================================================
