------------------------------- MODULE OsaBuf -------------------------------
(***************************************************************************)
(* The frame buffers of utils/osa/src/osa_buf.c.  Buffer numbers travel    *)
(* through two queues of osa_que.c, here the FIFOs of OsaQueSpec: empty ->  *)
(* writer -> full -> readers -> empty.  One OSA_bufGetFull takes a full    *)
(* buffer for all numReaders readers; each of them gives it back with      *)
(* OSA_bufPutEmpty, and the last one, counted in curReaders under          *)
(* readerLock, recycles it.                                                *)
(***************************************************************************)
EXTENDS Naturals, Sequences, FiniteSets

CONSTANTS NumBuf, Writers, Readers, OSA_BUF_ID_INVALID

ASSUME BufAssumption == /\ NumBuf \in Nat /\ IsFiniteSet(Readers) /\ Readers # {}
                        /\ OSA_BUF_ID_INVALID \notin 0 .. NumBuf - 1

VARIABLES emptyQue, fullQue,
          curReaders,   \* curReaders[b]: readers that are done with b
          using,        \* the buffer each writer has, or OSA_BUF_ID_INVALID
          reading,      \* the buffers each reader has
          putBuf        \* the buffers each reader is to put into emptyQue

bufVars == <<emptyQue, fullQue, curReaders, using, reading, putBuf>>

Bufs == 0 .. NumBuf - 1
numReaders == Cardinality(Readers)

(* OSA_bufCreate *)
bufInit == /\ emptyQue = [i \in 1 .. NumBuf |-> i - 1]
           /\ fullQue = <<>>
           /\ curReaders = [b \in Bufs |-> 0]
           /\ using = [w \in Writers |-> OSA_BUF_ID_INVALID]
           /\ reading = [r \in Readers |-> {}]
           /\ putBuf = [r \in Readers |-> {}]

(* OSA_bufGetEmpty; without a buffer it waits, or returns OSA_SOK and an   *)
(* invalid number.                                                         *)
OSA_bufGetEmpty(w) ==
  /\ using[w] = OSA_BUF_ID_INVALID
  /\ emptyQue # <<>>
  /\ using' = [using EXCEPT ![w] = Head(emptyQue)]
  /\ emptyQue' = Tail(emptyQue)
  /\ UNCHANGED <<fullQue, curReaders, reading, putBuf>>

(* OSA_bufPutFull refuses an invalid number. *)
OSA_bufPutFull(w) ==
  /\ using[w] \in Bufs
  /\ Len(fullQue) < NumBuf
  /\ curReaders' = [curReaders EXCEPT ![using[w]] = 0]
  /\ fullQue' = Append(fullQue, using[w])
  /\ using' = [using EXCEPT ![w] = OSA_BUF_ID_INVALID]
  /\ UNCHANGED <<emptyQue, reading, putBuf>>

(* OSA_bufSwitchFull asks for an empty buffer without waiting.  The status *)
(* it tests is always OSA_SOK: without an empty buffer, too, it hands its  *)
(* own over, and is left with none.  A caller that has none to hand over   *)
(* does as OSA_bufGetEmpty.                                                *)
OSA_bufSwitchFull(w) ==
  /\ using[w] \in Bufs
  /\ Len(fullQue) < NumBuf
  /\ curReaders' = [curReaders EXCEPT ![using[w]] = 0]
  /\ fullQue' = Append(fullQue, using[w])
  /\ IF emptyQue = <<>>
     THEN using' = [using EXCEPT ![w] = OSA_BUF_ID_INVALID] /\ UNCHANGED emptyQue
     ELSE using' = [using EXCEPT ![w] = Head(emptyQue)] /\ emptyQue' = Tail(emptyQue)
  /\ UNCHANGED <<reading, putBuf>>

(* OSA_bufGetFull, for all the readers. *)
OSA_bufGetFull ==
  /\ fullQue # <<>>
  /\ reading' = [r \in Readers |-> reading[r] \cup {Head(fullQue)}]
  /\ fullQue' = Tail(fullQue)
  /\ UNCHANGED <<emptyQue, curReaders, using, putBuf>>

(* Mutants: the first reader recycles the buffer; nobody does. *)
FirstReader(n) == n = 1
NoReader(n)    == n > numReaders

LastReader(n) == n = numReaders

(* OSA_bufPutEmpty counts the reader under readerLock, and after the       *)
(* unlock the last one puts the buffer into the empty queue.               *)
OSA_bufPutEmpty(r, b) ==
  /\ b \in reading[r]
  /\ reading' = [reading EXCEPT ![r] = @ \ {b}]
  /\ curReaders' = [curReaders EXCEPT ![b] = @ + 1]
  /\ putBuf' = [putBuf EXCEPT ![r] = IF LastReader(curReaders[b] + 1) THEN @ \cup {b} ELSE @]
  /\ UNCHANGED <<emptyQue, fullQue, using>>

bufRecycle(r, b) ==
  /\ b \in putBuf[r]
  /\ Len(emptyQue) < NumBuf
  /\ emptyQue' = Append(emptyQue, b)
  /\ putBuf' = [putBuf EXCEPT ![r] = @ \ {b}]
  /\ UNCHANGED <<fullQue, curReaders, using, reading>>

(* OSA_bufSwitchEmpty: the next full buffer without waiting, then the      *)
(* reader's own goes back, as above; with one reader only.                 *)
OSA_bufSwitchEmpty(r, b) ==
  /\ Readers = {r} /\ b \in reading[r]
  /\ IF fullQue = <<>>
     THEN reading' = [reading EXCEPT ![r] = @ \ {b}] /\ UNCHANGED fullQue
     ELSE /\ reading' = [reading EXCEPT ![r] = (@ \ {b}) \cup {Head(fullQue)}]
          /\ fullQue' = Tail(fullQue)
  /\ curReaders' = [curReaders EXCEPT ![b] = @ + 1]
  /\ putBuf' = [putBuf EXCEPT ![r] = IF LastReader(curReaders[b] + 1) THEN @ \cup {b} ELSE @]
  /\ UNCHANGED <<emptyQue, using>>

bufRelease(r, b) == OSA_bufPutEmpty(r, b) \/ OSA_bufSwitchEmpty(r, b)

bufNext == \/ \E w \in Writers : OSA_bufGetEmpty(w) \/ OSA_bufPutFull(w) \/ OSA_bufSwitchFull(w)
           \/ OSA_bufGetFull
           \/ \E r \in Readers, b \in Bufs : bufRelease(r, b) \/ bufRecycle(r, b)

bufSpec == bufInit /\ [][bufNext]_bufVars

(* Readers take what is full, finish with what they have, and return from  *)
(* the calls they are in.                                                  *)
bufFair == /\ WF_bufVars(OSA_bufGetFull)
           /\ \A r \in Readers, b \in Bufs :
                 WF_bufVars(bufRelease(r, b)) /\ WF_bufVars(bufRecycle(r, b))

-----------------------------------------------------------------------------
Owners(b) == {<<"empty", i>> : i \in {j \in DOMAIN emptyQue : emptyQue[j] = b}}
      \cup {<<"full", i>> : i \in {j \in DOMAIN fullQue : fullQue[j] = b}}
      \cup {<<"writer", w>> : w \in {v \in Writers : using[v] = b}}
      \cup {<<"put", r>> : r \in {s \in Readers : b \in putBuf[s]}}

(* A buffer is in one queue, with one writer, on its way back, or with     *)
(* readers: never in two places, and never lost.  So a frame is not        *)
(* overwritten while somebody reads it, and, a queue having room for all   *)
(* buffers, the puts of this module never block.                           *)
BufOnePlace == \A b \in Bufs :
                 LET readers == {r \in Readers : b \in reading[r]} IN
                 IF readers = {} THEN Cardinality(Owners(b)) = 1 ELSE Owners(b) = {}

(* Every buffer that was put into the full queue comes back to the empty   *)
(* one, whatever the writers do.                                           *)
BufReturns == \A b \in Bufs : b \in {fullQue[i] : i \in DOMAIN fullQue}
                                ~> b \in {emptyQue[i] : i \in DOMAIN emptyQue}
=============================================================================
