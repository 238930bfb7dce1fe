---------------------------- MODULE LWLatchProofs ----------------------------
(***************************************************************************)
(* Proofs about LWLatch for every finite set of workers.                   *)
(***************************************************************************)
EXTENDS LWLatch, FiniteSetTheorems, SequenceTheorems, TLAPS

-----------------------------------------------------------------------------
(* Lists                                                                    *)

\* A sublist of a waiters list is a list of workers.
LEMMA SublistType ==
  ASSUME NEW s \in Seq(Workers), NEW S \in SUBSET Workers, NEW r \in Sublists(s, S)
  PROVE  r \in Seq(Workers) /\ Elems(r) = S
<1>1. IsFiniteSet(S)
  BY WorkersFinite, FS_Subset
<1>2. Cardinality(S) \in Nat
  BY <1>1, FS_CardinalityType
<1>3. r \in [1..Cardinality(S) -> S] /\ Elems(r) = S
  BY DEF Sublists
<1> QED
  BY <1>2, <1>3

\* A sublist of a list without repetition has none either.
LEMMA SublistNoRepetition ==
  ASSUME NEW s \in Seq(Workers), NEW S \in SUBSET Workers, NEW r \in Sublists(s, S),
         NoRepetition(s)
  PROVE  NoRepetition(r)
<1>1. r \in Seq(Workers)
  BY SublistType
<1>2. \A i, j \in DOMAIN r : i < j => r[i] # r[j]
  BY DEF Sublists, NoRepetition
<1>3. \A i \in DOMAIN r : i \in Nat
  BY <1>1
<1> QED
  BY <1>2, <1>3 DEF NoRepetition

\* Appending a worker that is not in a list.
LEMMA AppendElems ==
  ASSUME NEW s \in Seq(Workers), NEW w \in Workers
  PROVE  /\ Append(s, w) \in Seq(Workers)
         /\ Elems(Append(s, w)) = Elems(s) \cup {w}
         /\ Append(s, w) # <<>>
         /\ NoRepetition(s) /\ w \notin Elems(s) => NoRepetition(Append(s, w))
<1>1. /\ Append(s, w) \in Seq(Workers) /\ Append(s, w) # <<>>
      /\ DOMAIN Append(s, w) = 1..(Len(s) + 1)
      /\ DOMAIN s = 1..Len(s) /\ Len(s) \in Nat
      /\ \A i \in 1..Len(s) : Append(s, w)[i] = s[i]
      /\ Append(s, w)[Len(s) + 1] = w
  OBVIOUS
<1>2. Elems(Append(s, w)) = Elems(s) \cup {w}
  BY <1>1 DEF Elems
<1>3. ASSUME NoRepetition(s), w \notin Elems(s) PROVE NoRepetition(Append(s, w))
  BY <1>1, <1>3 DEF NoRepetition, Elems
<1> QED
  BY <1>1, <1>2, <1>3

\* Taking the first worker of a list without repetition.
LEMMA TailElems ==
  ASSUME NEW s \in Seq(Workers), s # <<>>, NoRepetition(s)
  PROVE  /\ Head(s) \in Elems(s) /\ Head(s) \in Workers
         /\ Tail(s) \in Seq(Workers)
         /\ Elems(Tail(s)) = Elems(s) \ {Head(s)}
         /\ NoRepetition(Tail(s))
<1>1. /\ Len(s) \in Nat \ {0} /\ DOMAIN s = 1..Len(s) /\ Head(s) = s[1]
      /\ Tail(s) \in Seq(Workers) /\ DOMAIN Tail(s) = 1..(Len(s) - 1)
      /\ \A i \in 1..(Len(s) - 1) : Tail(s)[i] = s[i + 1]
      /\ \A i \in 1..Len(s) : s[i] \in Workers
  OBVIOUS
<1>2. Head(s) \in Elems(s) /\ Head(s) \in Workers
  BY <1>1 DEF Elems
<1>3. Elems(Tail(s)) \subseteq Elems(s) \ {Head(s)}
  BY <1>1 DEF Elems, NoRepetition
<1>4. ASSUME NEW x \in Elems(s) \ {Head(s)} PROVE x \in Elems(Tail(s))
  <2>1. PICK i \in 1..Len(s) : s[i] = x /\ i # 1
    BY <1>1, <1>4 DEF Elems
  <2>2. i - 1 \in 1..(Len(s) - 1) /\ Tail(s)[i - 1] = x
    BY <1>1, <2>1
  <2> QED
    BY <1>1, <2>2 DEF Elems
<1>5. NoRepetition(Tail(s))
  BY <1>1 DEF NoRepetition
<1> QED
  BY <1>1, <1>2, <1>3, <1>4, <1>5

\* The elements of a list of workers are workers.
LEMMA ElemsType ==
  ASSUME NEW s \in Seq(Workers)
  PROVE  Elems(s) \in SUBSET Workers /\ (Elems(s) = {} <=> s = <<>>)
BY DEF Elems

\* The scan of wakeup() takes only workers that are in the list.
LEMMA ToWakeupType ==
  ASSUME TypeOK
  PROVE  ToWakeup \in SUBSET Elems(waiters) /\ ToWakeup \in SUBSET Workers
<1>1. waiters \in Seq(Workers)
  BY DEF TypeOK
<1>2. Elems(waiters) \in SUBSET Workers
  BY <1>1, ElemsType
<1>3. waiters # <<>> => Head(waiters) \in Elems(waiters)
  BY <1>1 DEF Elems
<1> QED
  BY <1>2, <1>3 DEF ToWakeup

\* The value an exclusive lock adds to the count; its size does not matter.
LEMMA ExclusiveIsLarge == ExclusiveLockValue \in Nat /\ ExclusiveLockValue > SharedLockValue
BY SMT DEF ExclusiveLockValue, SharedLockValue

-----------------------------------------------------------------------------
(* One step lemma per part of the inductive invariant                      *)

\* Every step keeps the types.
LEMMA TypeStep ==
  TypeOK /\ CountInv /\ [Next]_vars => TypeOK'
<1> SUFFICES ASSUME TypeOK /\ CountInv, [Next]_vars
             PROVE  TypeOK'
  OBVIOUS
<1>0. ToWakeup \in SUBSET Workers
  BY ToWakeupType
<1> USE DEF TypeOK, HoldingPc, ListPc, QueuedPc, WakerPc, OtherPc, LockStates, Modes, Share, Exclusive,
           SharedLockValue
<1>1. ASSUME NEW w \in Workers, NEW mode \in Modes, StartLock(w, mode) PROVE TypeOK'
  BY <1>1 DEF StartLock, Goto, latchVars, workerVars, localVars
<1>2. ASSUME NEW w \in Workers, FirstAttempt(w) PROVE TypeOK'
  <2>1. CASE lockCount = 0
    <3>1. lockCount' \in {SharedLockValue, ExclusiveLockValue}
      BY <1>2, <2>1, ExclusiveIsLarge DEF FirstAttempt, AttemptLock, LockValue
    <3> QED
      BY <1>2, <2>1, <3>1 DEF FirstAttempt, AttemptLock, Goto, workerVars, localVars
  <2>2. CASE lockCount # 0
    BY <1>2, <2>2 DEF FirstAttempt, AttemptLock, Goto, workerVars, localVars
  <2> QED
    BY <2>1, <2>2
<1>3. ASSUME NEW w \in Workers, QueueLock(w) PROVE TypeOK'
  BY <1>3 DEF QueueLock, WaitListLock, Goto, latchVars, workerVars, localVars
<1>4. ASSUME NEW w \in Workers, QueueMark(w) PROVE TypeOK'
  BY <1>4 DEF QueueMark, Goto, latchVars, workerVars, localVars
<1>5. ASSUME NEW w \in Workers, QueuePush(w) PROVE TypeOK'
  <2>1. waiters' \in Seq(Workers)
    BY <1>5, AppendElems DEF QueuePush
  <2> QED
    BY <1>5, <2>1 DEF QueuePush, WaitListUnlock, Goto, latchVars, workerVars, localVars
<1>6. ASSUME NEW w \in Workers, SecondAttempt(w) PROVE TypeOK'
  <2>1. CASE lockCount = 0
    <3>1. lockCount' \in {SharedLockValue, ExclusiveLockValue}
      BY <1>6, <2>1, ExclusiveIsLarge DEF SecondAttempt, AttemptLock, LockValue
    <3> QED
      BY <1>6, <2>1, <3>1 DEF SecondAttempt, AttemptLock, Goto, workerVars, localVars
  <2>2. CASE lockCount # 0
    BY <1>6, <2>2 DEF SecondAttempt, AttemptLock, Goto, workerVars, localVars
  <2> QED
    BY <2>1, <2>2
<1>7. ASSUME NEW w \in Workers, SleepAcquire(w) PROVE TypeOK'
  <2>1. sema' \in [Workers -> Nat]
    BY <1>7 DEF SleepAcquire
  <2> QED
    BY <1>7, <2>1 DEF SleepAcquire, Goto, latchVars, localVars
<1>8. ASSUME NEW w \in Workers, SleepCheck(w) PROVE TypeOK'
  <2>1. CASE lockState[w] = "NotWaiting"
    BY <1>8, <2>1 DEF SleepCheck, Goto, latchVars, workerVars
  <2>2. CASE lockState[w] # "NotWaiting"
    <3>1. extraWaits' = [extraWaits EXCEPT ![w] = @ + 1] /\ pc' = [pc EXCEPT ![w] = "sleep"]
      BY <1>8, <2>2 DEF SleepCheck, Goto
    <3> QED
      BY <1>8, <3>1 DEF SleepCheck, latchVars, workerVars
  <2> QED
    BY <2>1, <2>2
<1>9. ASSUME NEW w \in Workers, SleepReset(w) PROVE TypeOK'
  BY <1>9 DEF SleepReset, Goto, latchVars, workerVars, localVars
<1>10. ASSUME NEW w \in Workers, Granted(w) PROVE TypeOK'
  BY <1>10 DEF Granted, Goto, latchVars, workerVars, localVars
<1>11. ASSUME NEW w \in Workers, DequeueLock(w) PROVE TypeOK'
  <2>1. waiters' \in Seq(Workers)
    BY <1>11, SublistType, ElemsType DEF DequeueLock
  <2> QED
    BY <1>11, <2>1 DEF DequeueLock, WaitListLock, Goto, workerVars, localVars
<1>12. ASSUME NEW w \in Workers, DequeueFlag(w) PROVE TypeOK'
  BY <1>12 DEF DequeueFlag, Goto, latchVars, workerVars, localVars
<1>13. ASSUME NEW w \in Workers, DequeueUnlock(w) PROVE TypeOK'
  <2>1. CASE pc' = [pc EXCEPT ![w] = "granted"] /\ lockState' = [lockState EXCEPT ![w] = "NotWaiting"]
    BY <1>13, <2>1 DEF DequeueUnlock, WaitListUnlock, localVars
  <2>2. CASE pc' = [pc EXCEPT ![w] = "dequeueReset"] /\ UNCHANGED lockState
    BY <1>13, <2>2 DEF DequeueUnlock, WaitListUnlock, localVars
  <2> QED
    BY <1>13, <2>1, <2>2 DEF DequeueUnlock, Goto
<1>14. ASSUME NEW w \in Workers, DequeueReset(w) PROVE TypeOK'
  BY <1>14 DEF DequeueReset, Goto, latchVars, workerVars, localVars
<1>15. ASSUME NEW w \in Workers, DequeueAcquire(w) PROVE TypeOK'
  <2>1. sema' \in [Workers -> Nat]
    BY <1>15 DEF DequeueAcquire
  <2> QED
    BY <1>15, <2>1 DEF DequeueAcquire, Goto, latchVars, localVars
<1>16. ASSUME NEW w \in Workers, DequeueCheck(w) PROVE TypeOK'
  <2>1. CASE lockState[w] = "NotWaiting"
    BY <1>16, <2>1 DEF DequeueCheck, Goto, latchVars, workerVars
  <2>2. CASE lockState[w] # "NotWaiting"
    <3>1. dequeueWaits' = [dequeueWaits EXCEPT ![w] = @ + 1] /\ pc' = [pc EXCEPT ![w] = "dequeueSleep"]
      BY <1>16, <2>2 DEF DequeueCheck, Goto
    <3> QED
      BY <1>16, <3>1 DEF DequeueCheck, latchVars, workerVars
  <2> QED
    BY <2>1, <2>2
<1>17. ASSUME NEW w \in Workers, DequeueReturn(w) PROVE TypeOK'
  BY <1>17 DEF DequeueReturn, Goto, latchVars, workerVars, localVars
<1>18. ASSUME NEW w \in Workers, Unlock(w) PROVE TypeOK'
  <2>1. lockCount' = 0
    BY <1>18, ExclusiveIsLarge DEF Unlock, Goto, CountInv, Holders, LockValue, HoldingPc, SharedLockValue
  <2> QED
    BY <1>18, <2>1 DEF Unlock, Goto, workerVars, localVars
<1>19. ASSUME NEW w \in Workers, UnlockAssert(w) PROVE TypeOK'
  BY <1>19 DEF UnlockAssert, Goto, latchVars, workerVars, localVars
<1>20. ASSUME NEW w \in Workers, WakeupLock(w) PROVE TypeOK'
  BY <1>20 DEF WakeupLock, WaitListLock, Goto, latchVars, workerVars, localVars
<1>21. ASSUME NEW w \in Workers, WakeupScan(w) PROVE TypeOK'
  <2>1. ToWakeup \in SUBSET Workers /\ Elems(waiters) \in SUBSET Workers
    BY <1>0, ElemsType
  <2>2. waiters' \in Seq(Workers)
    BY <1>21, <2>1, SublistType DEF WakeupScan
  <2>3. PICK woken \in Sublists(waiters, ToWakeup) :
               wakeupList' = [wakeupList EXCEPT ![w] = woken]
    BY <1>21 DEF WakeupScan
  <2>4. woken \in Seq(Workers)
    BY <2>1, SublistType
  <2> QED
    BY <1>21, <2>2, <2>3, <2>4 DEF WakeupScan, Goto
<1>22. ASSUME NEW w \in Workers, WakeupPublish(w) PROVE TypeOK'
  BY <1>22 DEF WakeupPublish, WaitListUnlock, Goto, latchVars, workerVars, localVars
<1>23. ASSUME NEW w \in Workers, WakeupNext(w) PROVE TypeOK'
  <2>1. wakeupList[w] \in Seq(Workers) /\ wakeupList[w] # <<>>
    BY <1>23 DEF WakeupNext
  <2>2. Head(wakeupList[w]) \in Workers /\ Tail(wakeupList[w]) \in Seq(Workers)
    BY <2>1
  <2>3. target' \in [Workers -> Workers] /\ wakeupList' \in [Workers -> Seq(Workers)]
    BY <1>23, <2>2 DEF WakeupNext
  <2>4. lockState' \in [Workers -> LockStates]
    BY <1>23 DEF WakeupNext
  <2>5. pc' = [pc EXCEPT ![w] = "wakeupRelease"]
        /\ UNCHANGED <<latchVars, sema, lockMode, extraWaits, dequeueWaits>>
    BY <1>23 DEF WakeupNext, Goto
  <2> QED
    BY <2>3, <2>4, <2>5 DEF latchVars
<1>24. ASSUME NEW w \in Workers, WakeupRelease(w) PROVE TypeOK'
  <2>1. sema' \in [Workers -> Nat]
    BY <1>24 DEF WakeupRelease
  <2> QED
    BY <1>24, <2>1 DEF WakeupRelease, Goto, latchVars
<1>25. ASSUME NEW w \in Workers, WakeupDone(w) PROVE TypeOK'
  BY <1>25 DEF WakeupDone, Goto, latchVars, workerVars, localVars
<1>26. CASE UNCHANGED vars
  BY <1>26 DEF vars, latchVars, workerVars, localVars
<1> QED
  BY <1>1, <1>2, <1>3, <1>4, <1>5, <1>6, <1>7, <1>8, <1>9, <1>10, <1>11,
     <1>12, <1>13, <1>14, <1>15, <1>16, <1>17, <1>18, <1>19, <1>20, <1>21,
     <1>22, <1>23, <1>24, <1>25, <1>26
  DEF Next, LockStep, UnlockStep

\* A step of one worker that neither enters nor leaves the list lock.
LEMMA ListLockKept ==
  ASSUME TypeOK, ListLockInv, NEW w \in Workers, NEW to,
         pc' = [pc EXCEPT ![w] = to],
         pc[w] \in ListPc <=> to \in ListPc,
         UNCHANGED listLocked
  PROVE  ListLockInv'
<1>1. \A v \in Workers : pc'[v] \in ListPc <=> pc[v] \in ListPc
  BY DEF TypeOK
<1> QED
  BY <1>1 DEF ListLockInv

\* A step of one worker that takes the free list lock.
LEMMA ListLockTaken ==
  ASSUME TypeOK, ListLockInv, NEW w \in Workers, NEW to,
         pc' = [pc EXCEPT ![w] = to],
         to \in ListPc, ~listLocked, listLocked' = TRUE
  PROVE  ListLockInv'
<1>1. \A v \in Workers : pc'[v] \in ListPc <=> v = w
  BY DEF TypeOK, ListLockInv
<1> QED
  BY <1>1 DEF ListLockInv

\* A step of one worker that gives the list lock back.
LEMMA ListLockReleased ==
  ASSUME TypeOK, ListLockInv, NEW w \in Workers, NEW to,
         pc' = [pc EXCEPT ![w] = to],
         pc[w] \in ListPc, to \notin ListPc, listLocked' = FALSE
  PROVE  ListLockInv'
<1>1. \A v \in Workers : pc'[v] \notin ListPc
  BY DEF TypeOK, ListLockInv
<1> QED
  BY <1>1 DEF ListLockInv

\* Every step keeps the list lock exclusive.
LEMMA ListLockStep ==
  TypeOK /\ ListLockInv /\ [Next]_vars => ListLockInv'
<1> SUFFICES ASSUME TypeOK /\ ListLockInv, [Next]_vars
             PROVE  ListLockInv'
  OBVIOUS
<1>1. ASSUME NEW w \in Workers, NEW mode \in Modes, StartLock(w, mode) PROVE ListLockInv'
  <2>1. pc[w] = "idle" /\ pc' = [pc EXCEPT ![w] = "attempt"] /\ UNCHANGED listLocked
    BY <1>1 DEF StartLock, Goto, latchVars
  <2> QED
    BY <2>1, ListLockKept DEF ListPc
<1>2. ASSUME NEW w \in Workers, FirstAttempt(w) PROVE ListLockInv'
  <2>1. UNCHANGED listLocked
    BY <1>2 DEF FirstAttempt, latchVars
  <2>2. CASE pc[w] = "attempt" /\ pc' = [pc EXCEPT ![w] = "granted"]
    BY <2>1, <2>2, ListLockKept DEF ListPc
  <2>3. CASE pc[w] = "attempt" /\ pc' = [pc EXCEPT ![w] = "queueLock"]
    BY <2>1, <2>3, ListLockKept DEF ListPc
  <2> QED
    BY <1>2, <2>2, <2>3 DEF FirstAttempt, AttemptLock, Goto
<1>3. ASSUME NEW w \in Workers, QueueLock(w) PROVE ListLockInv'
  <2>1. pc[w] = "queueLock" /\ pc' = [pc EXCEPT ![w] = "queueMark"] /\ ~listLocked /\ listLocked' = TRUE
    BY <1>3 DEF QueueLock, Goto, WaitListLock
  <2> QED
    BY <2>1, ListLockTaken DEF ListPc
<1>4. ASSUME NEW w \in Workers, QueueMark(w) PROVE ListLockInv'
  <2>1. pc[w] = "queueMark" /\ pc' = [pc EXCEPT ![w] = "queuePush"] /\ UNCHANGED listLocked
    BY <1>4 DEF QueueMark, Goto, latchVars
  <2> QED
    BY <2>1, ListLockKept DEF ListPc
<1>5. ASSUME NEW w \in Workers, QueuePush(w) PROVE ListLockInv'
  <2>1. pc[w] = "queuePush" /\ pc' = [pc EXCEPT ![w] = "reattempt"] /\ listLocked' = FALSE
    BY <1>5 DEF QueuePush, Goto, WaitListUnlock
  <2> QED
    BY <2>1, ListLockReleased DEF ListPc
<1>6. ASSUME NEW w \in Workers, SecondAttempt(w) PROVE ListLockInv'
  <2>1. UNCHANGED listLocked
    BY <1>6 DEF SecondAttempt, latchVars
  <2>2. CASE pc[w] = "reattempt" /\ pc' = [pc EXCEPT ![w] = "dequeueLock"]
    BY <2>1, <2>2, ListLockKept DEF ListPc
  <2>3. CASE pc[w] = "reattempt" /\ pc' = [pc EXCEPT ![w] = "sleep"]
    BY <2>1, <2>3, ListLockKept DEF ListPc
  <2> QED
    BY <1>6, <2>2, <2>3 DEF SecondAttempt, AttemptLock, Goto
<1>7. ASSUME NEW w \in Workers, SleepAcquire(w) PROVE ListLockInv'
  <2>1. pc[w] = "sleep" /\ pc' = [pc EXCEPT ![w] = "sleepCheck"] /\ UNCHANGED listLocked
    BY <1>7 DEF SleepAcquire, Goto, latchVars
  <2> QED
    BY <2>1, ListLockKept DEF ListPc
<1>8. ASSUME NEW w \in Workers, SleepCheck(w) PROVE ListLockInv'
  <2>1. UNCHANGED listLocked
    BY <1>8 DEF SleepCheck, latchVars
  <2>2. CASE pc[w] = "sleepCheck" /\ pc' = [pc EXCEPT ![w] = "reset"]
    BY <2>1, <2>2, ListLockKept DEF ListPc
  <2>3. CASE pc[w] = "sleepCheck" /\ pc' = [pc EXCEPT ![w] = "sleep"]
    BY <2>1, <2>3, ListLockKept DEF ListPc
  <2> QED
    BY <1>8, <2>2, <2>3 DEF SleepCheck, Goto
<1>9. ASSUME NEW w \in Workers, SleepReset(w) PROVE ListLockInv'
  <2>1. pc[w] = "reset" /\ pc' = [pc EXCEPT ![w] = "attempt"] /\ UNCHANGED listLocked
    BY <1>9 DEF SleepReset, Goto, latchVars
  <2> QED
    BY <2>1, ListLockKept DEF ListPc
<1>10. ASSUME NEW w \in Workers, Granted(w) PROVE ListLockInv'
  <2>1. pc[w] = "granted" /\ pc' = [pc EXCEPT ![w] = "held"] /\ UNCHANGED listLocked
    BY <1>10 DEF Granted, Goto, latchVars
  <2> QED
    BY <2>1, ListLockKept DEF ListPc
<1>11. ASSUME NEW w \in Workers, DequeueLock(w) PROVE ListLockInv'
  <2>1. ~listLocked /\ listLocked' = TRUE
    BY <1>11 DEF DequeueLock, WaitListLock
  <2>2. CASE pc[w] = "dequeueLock" /\ pc' = [pc EXCEPT ![w] = "dequeueSelf"]
    BY <2>1, <2>2, ListLockTaken DEF ListPc
  <2>3. CASE pc[w] = "dequeueLock" /\ pc' = [pc EXCEPT ![w] = "dequeueWoken"]
    BY <2>1, <2>3, ListLockTaken DEF ListPc
  <2> QED
    BY <1>11, <2>2, <2>3 DEF DequeueLock, Goto
<1>12. ASSUME NEW w \in Workers, DequeueFlag(w) PROVE ListLockInv'
  <2>1. UNCHANGED listLocked
    BY <1>12 DEF DequeueFlag, latchVars
  <2>2. CASE pc[w] = "dequeueSelf" /\ pc' = [pc EXCEPT ![w] = "dequeueSelfUnlock"]
    BY <2>1, <2>2, ListLockKept DEF ListPc
  <2>3. CASE pc[w] = "dequeueWoken" /\ pc' = [pc EXCEPT ![w] = "dequeueWokenUnlock"]
    BY <2>1, <2>3, ListLockKept DEF ListPc
  <2> QED
    BY <1>12, <2>2, <2>3 DEF DequeueFlag, Goto
<1>13. ASSUME NEW w \in Workers, DequeueUnlock(w) PROVE ListLockInv'
  <2>1. listLocked' = FALSE
    BY <1>13 DEF DequeueUnlock, WaitListUnlock
  <2>2. CASE pc[w] = "dequeueSelfUnlock" /\ pc' = [pc EXCEPT ![w] = "granted"]
    BY <2>1, <2>2, ListLockReleased DEF ListPc
  <2>3. CASE pc[w] = "dequeueWokenUnlock" /\ pc' = [pc EXCEPT ![w] = "dequeueReset"]
    BY <2>1, <2>3, ListLockReleased DEF ListPc
  <2> QED
    BY <1>13, <2>2, <2>3 DEF DequeueUnlock, Goto
<1>14. ASSUME NEW w \in Workers, DequeueReset(w) PROVE ListLockInv'
  <2>1. pc[w] = "dequeueReset" /\ pc' = [pc EXCEPT ![w] = "dequeueSleep"] /\ UNCHANGED listLocked
    BY <1>14 DEF DequeueReset, Goto, latchVars
  <2> QED
    BY <2>1, ListLockKept DEF ListPc
<1>15. ASSUME NEW w \in Workers, DequeueAcquire(w) PROVE ListLockInv'
  <2>1. pc[w] = "dequeueSleep" /\ pc' = [pc EXCEPT ![w] = "dequeueCheck"] /\ UNCHANGED listLocked
    BY <1>15 DEF DequeueAcquire, Goto, latchVars
  <2> QED
    BY <2>1, ListLockKept DEF ListPc
<1>16. ASSUME NEW w \in Workers, DequeueCheck(w) PROVE ListLockInv'
  <2>1. UNCHANGED listLocked
    BY <1>16 DEF DequeueCheck, latchVars
  <2>2. CASE pc[w] = "dequeueCheck" /\ pc' = [pc EXCEPT ![w] = "dequeueReturn"]
    BY <2>1, <2>2, ListLockKept DEF ListPc
  <2>3. CASE pc[w] = "dequeueCheck" /\ pc' = [pc EXCEPT ![w] = "dequeueSleep"]
    BY <2>1, <2>3, ListLockKept DEF ListPc
  <2> QED
    BY <1>16, <2>2, <2>3 DEF DequeueCheck, Goto
<1>17. ASSUME NEW w \in Workers, DequeueReturn(w) PROVE ListLockInv'
  <2>1. pc[w] = "dequeueReturn" /\ pc' = [pc EXCEPT ![w] = "granted"] /\ UNCHANGED listLocked
    BY <1>17 DEF DequeueReturn, Goto, latchVars
  <2> QED
    BY <2>1, ListLockKept DEF ListPc
<1>18. ASSUME NEW w \in Workers, Unlock(w) PROVE ListLockInv'
  <2>1. UNCHANGED listLocked
    BY <1>18 DEF Unlock, latchVars
  <2>2. CASE pc[w] = "held" /\ pc' = [pc EXCEPT ![w] = "unlockedWakeup"]
    BY <2>1, <2>2, ListLockKept DEF ListPc
  <2>3. CASE pc[w] = "held" /\ pc' = [pc EXCEPT ![w] = "unlockedReturn"]
    BY <2>1, <2>3, ListLockKept DEF ListPc
  <2> QED
    BY <1>18, <2>2, <2>3 DEF Unlock, Goto
<1>19. ASSUME NEW w \in Workers, UnlockAssert(w) PROVE ListLockInv'
  <2>1. UNCHANGED listLocked
    BY <1>19 DEF UnlockAssert, latchVars
  <2>2. CASE pc[w] = "unlockedWakeup" /\ pc' = [pc EXCEPT ![w] = "wakeupLock"]
    BY <2>1, <2>2, ListLockKept DEF ListPc
  <2>3. CASE pc[w] = "unlockedReturn" /\ pc' = [pc EXCEPT ![w] = "idle"]
    BY <2>1, <2>3, ListLockKept DEF ListPc
  <2> QED
    BY <1>19, <2>2, <2>3 DEF UnlockAssert, Goto
<1>20. ASSUME NEW w \in Workers, WakeupLock(w) PROVE ListLockInv'
  <2>1. pc[w] = "wakeupLock" /\ pc' = [pc EXCEPT ![w] = "wakeupScan"] /\ ~listLocked /\ listLocked' = TRUE
    BY <1>20 DEF WakeupLock, Goto, WaitListLock
  <2> QED
    BY <2>1, ListLockTaken DEF ListPc
<1>21. ASSUME NEW w \in Workers, WakeupScan(w) PROVE ListLockInv'
  <2>1. pc[w] = "wakeupScan" /\ pc' = [pc EXCEPT ![w] = "wakeupPublish"] /\ UNCHANGED listLocked
    BY <1>21 DEF WakeupScan, Goto, latchVars
  <2> QED
    BY <2>1, ListLockKept DEF ListPc
<1>22. ASSUME NEW w \in Workers, WakeupPublish(w) PROVE ListLockInv'
  <2>1. pc[w] = "wakeupPublish" /\ pc' = [pc EXCEPT ![w] = "wakeupNext"] /\ listLocked' = FALSE
    BY <1>22 DEF WakeupPublish, Goto, WaitListUnlock
  <2> QED
    BY <2>1, ListLockReleased DEF ListPc
<1>23. ASSUME NEW w \in Workers, WakeupNext(w) PROVE ListLockInv'
  <2>1. pc[w] = "wakeupNext" /\ pc' = [pc EXCEPT ![w] = "wakeupRelease"] /\ UNCHANGED listLocked
    BY <1>23 DEF WakeupNext, Goto, latchVars
  <2> QED
    BY <2>1, ListLockKept DEF ListPc
<1>24. ASSUME NEW w \in Workers, WakeupRelease(w) PROVE ListLockInv'
  <2>1. pc[w] = "wakeupRelease" /\ pc' = [pc EXCEPT ![w] = "wakeupNext"] /\ UNCHANGED listLocked
    BY <1>24 DEF WakeupRelease, Goto, latchVars
  <2> QED
    BY <2>1, ListLockKept DEF ListPc
<1>25. ASSUME NEW w \in Workers, WakeupDone(w) PROVE ListLockInv'
  <2>1. pc[w] = "wakeupNext" /\ pc' = [pc EXCEPT ![w] = "idle"] /\ UNCHANGED listLocked
    BY <1>25 DEF WakeupDone, Goto, latchVars
  <2> QED
    BY <2>1, ListLockKept DEF ListPc
<1>26. CASE UNCHANGED vars
  BY <1>26 DEF vars, latchVars, ListLockInv
<1> QED
  BY <1>1, <1>2, <1>3, <1>4, <1>5, <1>6, <1>7, <1>8, <1>9, <1>10, <1>11,
     <1>12, <1>13, <1>14, <1>15, <1>16, <1>17, <1>18, <1>19, <1>20, <1>21,
     <1>22, <1>23, <1>24, <1>25, <1>26
  DEF Next, LockStep, UnlockStep

\* A step of one worker that neither takes the latch nor gives it up.
LEMMA CountKept ==
  ASSUME TypeOK, CountInv, NEW w \in Workers, NEW to,
         pc' = [pc EXCEPT ![w] = to],
         pc[w] \in HoldingPc <=> to \in HoldingPc,
         UNCHANGED <<lockCount, lockMode>>
  PROVE  CountInv'
<1>1. \A v \in Workers : pc'[v] \in HoldingPc <=> pc[v] \in HoldingPc
  BY DEF TypeOK
<1>2. Holders' = Holders
  BY <1>1 DEF Holders
<1>3. \A v \in Workers : LockValue(lockMode[v])' = LockValue(lockMode[v])
  BY DEF LockValue
<1>4. \A v \in Holders : v \in Workers
  BY DEF Holders
<1> QED
  BY <1>2, <1>3, <1>4 DEF CountInv

\* Every step keeps the count equal to the only holder's lock value.
LEMMA CountStep ==
  TypeOK /\ CountInv /\ [Next]_vars => CountInv'
<1> SUFFICES ASSUME TypeOK /\ CountInv, [Next]_vars
             PROVE  CountInv'
  OBVIOUS
<1>1. ASSUME NEW w \in Workers, NEW mode \in Modes, StartLock(w, mode) PROVE CountInv'
  <2>1. /\ pc[w] = "idle" /\ pc' = [pc EXCEPT ![w] = "attempt"]
        /\ lockMode' = [lockMode EXCEPT ![w] = mode] /\ UNCHANGED lockCount
    BY <1>1 DEF StartLock, Goto, latchVars
  <2>2. Holders' = Holders /\ w \notin Holders
    BY <2>1 DEF Holders, HoldingPc, TypeOK
  <2>3. \A v \in Holders : lockMode'[v] = lockMode[v]
    BY <2>1, <2>2 DEF Holders, TypeOK
  <2> QED
    BY <2>1, <2>2, <2>3 DEF CountInv, LockValue
<1>2. ASSUME NEW w \in Workers, FirstAttempt(w) PROVE CountInv'
  <2>1. CASE lockCount = 0
    <3>1. /\ lockCount' = LockValue(lockMode[w])
          /\ pc' = [pc EXCEPT ![w] = "granted"] /\ UNCHANGED lockMode
      BY <1>2, <2>1, ExclusiveIsLarge DEF FirstAttempt, AttemptLock, Goto, LockValue, SharedLockValue,
          workerVars
    <3>2. Holders = {}
      BY <2>1, ExclusiveIsLarge DEF CountInv, LockValue, SharedLockValue
    <3>3. Holders' = {w}
      BY <3>1, <3>2 DEF Holders, HoldingPc, TypeOK
    <3> QED
      BY <3>1, <3>3 DEF CountInv, LockValue
  <2>2. CASE lockCount # 0
    <3>1. /\ UNCHANGED <<lockCount, lockMode>> /\ pc[w] = "attempt"
          /\ pc' = [pc EXCEPT ![w] = "queueLock"]
      BY <1>2, <2>2 DEF FirstAttempt, AttemptLock, Goto, workerVars
    <3> QED
      BY <3>1, CountKept DEF HoldingPc
  <2> QED
    BY <2>1, <2>2
<1>3. ASSUME NEW w \in Workers, QueueLock(w) PROVE CountInv'
  <2>1. pc[w] = "queueLock" /\ pc' = [pc EXCEPT ![w] = "queueMark"] /\ UNCHANGED <<lockCount, lockMode>>
    BY <1>3 DEF QueueLock, Goto, latchVars, workerVars
  <2> QED
    BY <2>1, CountKept DEF HoldingPc
<1>4. ASSUME NEW w \in Workers, QueueMark(w) PROVE CountInv'
  <2>1. pc[w] = "queueMark" /\ pc' = [pc EXCEPT ![w] = "queuePush"] /\ UNCHANGED <<lockCount, lockMode>>
    BY <1>4 DEF QueueMark, Goto, latchVars, workerVars
  <2> QED
    BY <2>1, CountKept DEF HoldingPc
<1>5. ASSUME NEW w \in Workers, QueuePush(w) PROVE CountInv'
  <2>1. pc[w] = "queuePush" /\ pc' = [pc EXCEPT ![w] = "reattempt"] /\ UNCHANGED <<lockCount, lockMode>>
    BY <1>5 DEF QueuePush, Goto, latchVars, workerVars
  <2> QED
    BY <2>1, CountKept DEF HoldingPc
<1>6. ASSUME NEW w \in Workers, SecondAttempt(w) PROVE CountInv'
  <2>1. CASE lockCount = 0
    <3>1. /\ lockCount' = LockValue(lockMode[w])
          /\ pc' = [pc EXCEPT ![w] = "dequeueLock"] /\ UNCHANGED lockMode
      BY <1>6, <2>1, ExclusiveIsLarge DEF SecondAttempt, AttemptLock, Goto, LockValue, SharedLockValue,
          workerVars
    <3>2. Holders = {}
      BY <2>1, ExclusiveIsLarge DEF CountInv, LockValue, SharedLockValue
    <3>3. Holders' = {w}
      BY <3>1, <3>2 DEF Holders, HoldingPc, TypeOK
    <3> QED
      BY <3>1, <3>3 DEF CountInv, LockValue
  <2>2. CASE lockCount # 0
    <3>1. /\ UNCHANGED <<lockCount, lockMode>> /\ pc[w] = "reattempt"
          /\ pc' = [pc EXCEPT ![w] = "sleep"]
      BY <1>6, <2>2 DEF SecondAttempt, AttemptLock, Goto, workerVars
    <3> QED
      BY <3>1, CountKept DEF HoldingPc
  <2> QED
    BY <2>1, <2>2
<1>7. ASSUME NEW w \in Workers, SleepAcquire(w) PROVE CountInv'
  <2>1. pc[w] = "sleep" /\ pc' = [pc EXCEPT ![w] = "sleepCheck"] /\ UNCHANGED <<lockCount, lockMode>>
    BY <1>7 DEF SleepAcquire, Goto, latchVars, workerVars
  <2> QED
    BY <2>1, CountKept DEF HoldingPc
<1>8. ASSUME NEW w \in Workers, SleepCheck(w) PROVE CountInv'
  <2>1. UNCHANGED <<lockCount, lockMode>>
    BY <1>8 DEF SleepCheck, latchVars, workerVars
  <2>2. CASE pc[w] = "sleepCheck" /\ pc' = [pc EXCEPT ![w] = "reset"]
    BY <2>1, <2>2, CountKept DEF HoldingPc
  <2>3. CASE pc[w] = "sleepCheck" /\ pc' = [pc EXCEPT ![w] = "sleep"]
    BY <2>1, <2>3, CountKept DEF HoldingPc
  <2> QED
    BY <1>8, <2>2, <2>3 DEF SleepCheck, Goto
<1>9. ASSUME NEW w \in Workers, SleepReset(w) PROVE CountInv'
  <2>1. pc[w] = "reset" /\ pc' = [pc EXCEPT ![w] = "attempt"] /\ UNCHANGED <<lockCount, lockMode>>
    BY <1>9 DEF SleepReset, Goto, latchVars, workerVars
  <2> QED
    BY <2>1, CountKept DEF HoldingPc
<1>10. ASSUME NEW w \in Workers, Granted(w) PROVE CountInv'
  <2>1. pc[w] = "granted" /\ pc' = [pc EXCEPT ![w] = "held"] /\ UNCHANGED <<lockCount, lockMode>>
    BY <1>10 DEF Granted, Goto, latchVars, workerVars
  <2> QED
    BY <2>1, CountKept DEF HoldingPc
<1>11. ASSUME NEW w \in Workers, DequeueLock(w) PROVE CountInv'
  <2>1. UNCHANGED <<lockCount, lockMode>>
    BY <1>11 DEF DequeueLock, latchVars, workerVars
  <2>2. CASE pc[w] = "dequeueLock" /\ pc' = [pc EXCEPT ![w] = "dequeueSelf"]
    BY <2>1, <2>2, CountKept DEF HoldingPc
  <2>3. CASE pc[w] = "dequeueLock" /\ pc' = [pc EXCEPT ![w] = "dequeueWoken"]
    BY <2>1, <2>3, CountKept DEF HoldingPc
  <2> QED
    BY <1>11, <2>2, <2>3 DEF DequeueLock, Goto
<1>12. ASSUME NEW w \in Workers, DequeueFlag(w) PROVE CountInv'
  <2>1. UNCHANGED <<lockCount, lockMode>>
    BY <1>12 DEF DequeueFlag, latchVars, workerVars
  <2>2. CASE pc[w] = "dequeueSelf" /\ pc' = [pc EXCEPT ![w] = "dequeueSelfUnlock"]
    BY <2>1, <2>2, CountKept DEF HoldingPc
  <2>3. CASE pc[w] = "dequeueWoken" /\ pc' = [pc EXCEPT ![w] = "dequeueWokenUnlock"]
    BY <2>1, <2>3, CountKept DEF HoldingPc
  <2> QED
    BY <1>12, <2>2, <2>3 DEF DequeueFlag, Goto
<1>13. ASSUME NEW w \in Workers, DequeueUnlock(w) PROVE CountInv'
  <2>1. UNCHANGED <<lockCount, lockMode>>
    BY <1>13 DEF DequeueUnlock, latchVars, workerVars
  <2>2. CASE pc[w] = "dequeueSelfUnlock" /\ pc' = [pc EXCEPT ![w] = "granted"]
    BY <2>1, <2>2, CountKept DEF HoldingPc
  <2>3. CASE pc[w] = "dequeueWokenUnlock" /\ pc' = [pc EXCEPT ![w] = "dequeueReset"]
    BY <2>1, <2>3, CountKept DEF HoldingPc
  <2> QED
    BY <1>13, <2>2, <2>3 DEF DequeueUnlock, Goto
<1>14. ASSUME NEW w \in Workers, DequeueReset(w) PROVE CountInv'
  <2>1. pc[w] = "dequeueReset" /\ pc' = [pc EXCEPT ![w] = "dequeueSleep"] /\ UNCHANGED <<lockCount, lockMode>>
    BY <1>14 DEF DequeueReset, Goto, latchVars, workerVars
  <2> QED
    BY <2>1, CountKept DEF HoldingPc
<1>15. ASSUME NEW w \in Workers, DequeueAcquire(w) PROVE CountInv'
  <2>1. pc[w] = "dequeueSleep" /\ pc' = [pc EXCEPT ![w] = "dequeueCheck"] /\ UNCHANGED <<lockCount, lockMode>>
    BY <1>15 DEF DequeueAcquire, Goto, latchVars, workerVars
  <2> QED
    BY <2>1, CountKept DEF HoldingPc
<1>16. ASSUME NEW w \in Workers, DequeueCheck(w) PROVE CountInv'
  <2>1. UNCHANGED <<lockCount, lockMode>>
    BY <1>16 DEF DequeueCheck, latchVars, workerVars
  <2>2. CASE pc[w] = "dequeueCheck" /\ pc' = [pc EXCEPT ![w] = "dequeueReturn"]
    BY <2>1, <2>2, CountKept DEF HoldingPc
  <2>3. CASE pc[w] = "dequeueCheck" /\ pc' = [pc EXCEPT ![w] = "dequeueSleep"]
    BY <2>1, <2>3, CountKept DEF HoldingPc
  <2> QED
    BY <1>16, <2>2, <2>3 DEF DequeueCheck, Goto
<1>17. ASSUME NEW w \in Workers, DequeueReturn(w) PROVE CountInv'
  <2>1. pc[w] = "dequeueReturn" /\ pc' = [pc EXCEPT ![w] = "granted"] /\ UNCHANGED <<lockCount, lockMode>>
    BY <1>17 DEF DequeueReturn, Goto, latchVars, workerVars
  <2> QED
    BY <2>1, CountKept DEF HoldingPc
<1>18. ASSUME NEW w \in Workers, Unlock(w) PROVE CountInv'
  <2>1. /\ pc[w] = "held" /\ lockCount' = lockCount - LockValue(lockMode[w])
        /\ \E to \in {"unlockedWakeup", "unlockedReturn"} : pc' = [pc EXCEPT ![w] = to]
    BY <1>18 DEF Unlock, Goto
  <2>2. Holders = {w}
    BY <2>1 DEF CountInv, Holders, HoldingPc
  <2>3. lockCount' = 0
    BY <2>1, <2>2, ExclusiveIsLarge DEF CountInv, LockValue, SharedLockValue
  <2>4. Holders' = {}
    BY <2>1, <2>2 DEF Holders, HoldingPc, TypeOK
  <2> QED
    BY <2>3, <2>4 DEF CountInv
<1>19. ASSUME NEW w \in Workers, UnlockAssert(w) PROVE CountInv'
  <2>1. UNCHANGED <<lockCount, lockMode>>
    BY <1>19 DEF UnlockAssert, latchVars, workerVars
  <2>2. CASE pc[w] = "unlockedWakeup" /\ pc' = [pc EXCEPT ![w] = "wakeupLock"]
    BY <2>1, <2>2, CountKept DEF HoldingPc
  <2>3. CASE pc[w] = "unlockedReturn" /\ pc' = [pc EXCEPT ![w] = "idle"]
    BY <2>1, <2>3, CountKept DEF HoldingPc
  <2> QED
    BY <1>19, <2>2, <2>3 DEF UnlockAssert, Goto
<1>20. ASSUME NEW w \in Workers, WakeupLock(w) PROVE CountInv'
  <2>1. pc[w] = "wakeupLock" /\ pc' = [pc EXCEPT ![w] = "wakeupScan"] /\ UNCHANGED <<lockCount, lockMode>>
    BY <1>20 DEF WakeupLock, Goto, latchVars, workerVars
  <2> QED
    BY <2>1, CountKept DEF HoldingPc
<1>21. ASSUME NEW w \in Workers, WakeupScan(w) PROVE CountInv'
  <2>1. pc[w] = "wakeupScan" /\ pc' = [pc EXCEPT ![w] = "wakeupPublish"] /\ UNCHANGED <<lockCount, lockMode>>
    BY <1>21 DEF WakeupScan, Goto, latchVars, workerVars
  <2> QED
    BY <2>1, CountKept DEF HoldingPc
<1>22. ASSUME NEW w \in Workers, WakeupPublish(w) PROVE CountInv'
  <2>1. pc[w] = "wakeupPublish" /\ pc' = [pc EXCEPT ![w] = "wakeupNext"] /\ UNCHANGED <<lockCount, lockMode>>
    BY <1>22 DEF WakeupPublish, Goto, latchVars, workerVars
  <2> QED
    BY <2>1, CountKept DEF HoldingPc
<1>23. ASSUME NEW w \in Workers, WakeupNext(w) PROVE CountInv'
  <2>1. pc[w] = "wakeupNext" /\ pc' = [pc EXCEPT ![w] = "wakeupRelease"] /\ UNCHANGED <<lockCount, lockMode>>
    BY <1>23 DEF WakeupNext, Goto, latchVars, workerVars
  <2> QED
    BY <2>1, CountKept DEF HoldingPc
<1>24. ASSUME NEW w \in Workers, WakeupRelease(w) PROVE CountInv'
  <2>1. pc[w] = "wakeupRelease" /\ pc' = [pc EXCEPT ![w] = "wakeupNext"] /\ UNCHANGED <<lockCount, lockMode>>
    BY <1>24 DEF WakeupRelease, Goto, latchVars, workerVars
  <2> QED
    BY <2>1, CountKept DEF HoldingPc
<1>25. ASSUME NEW w \in Workers, WakeupDone(w) PROVE CountInv'
  <2>1. pc[w] = "wakeupNext" /\ pc' = [pc EXCEPT ![w] = "idle"] /\ UNCHANGED <<lockCount, lockMode>>
    BY <1>25 DEF WakeupDone, Goto, latchVars, workerVars
  <2> QED
    BY <2>1, CountKept DEF HoldingPc
<1>26. CASE UNCHANGED vars
  <2>1. UNCHANGED <<pc, lockCount, lockMode>>
    BY <1>26 DEF vars, latchVars, workerVars
  <2> QED
    BY <2>1 DEF CountInv, Holders, LockValue
<1> QED
  BY <1>1, <1>2, <1>3, <1>4, <1>5, <1>6, <1>7, <1>8, <1>9, <1>10, <1>11,
     <1>12, <1>13, <1>14, <1>15, <1>16, <1>17, <1>18, <1>19, <1>20, <1>21,
     <1>22, <1>23, <1>24, <1>25, <1>26
  DEF Next, LockStep, UnlockStep

\* A step of one worker outside the sections that change the list.
LEMMA FlagKept ==
  ASSUME TypeOK, FlagInv, NEW w \in Workers, NEW to,
         pc' = [pc EXCEPT ![w] = to],
         pc[w] \notin {"queuePush", "dequeueSelf", "wakeupPublish"},
         to # "queuePush",
         UNCHANGED <<waiters, hasWaiters>>
  PROVE  FlagInv'
<1>1. \A v \in Workers \ {w} : pc'[v] = pc[v]
  BY DEF TypeOK
<1>2. pc'[w] # "queuePush"
  BY DEF TypeOK
<1> QED
  BY <1>1, <1>2 DEF FlagInv

\* Every step keeps HasWaiters in agreement with the list.
LEMMA FlagStep ==
  TypeOK /\ ListLockInv /\ FlagInv /\ [Next]_vars => FlagInv'
<1> SUFFICES ASSUME TypeOK /\ ListLockInv /\ FlagInv, [Next]_vars
             PROVE  FlagInv'
  OBVIOUS
<1>0. ToWakeup \in SUBSET Workers
  BY ToWakeupType
<1> USE DEF FlagInv, ListLockInv, TypeOK, ListPc
<1>1. ASSUME NEW w \in Workers, NEW mode \in Modes, StartLock(w, mode) PROVE FlagInv'
  BY <1>1 DEF StartLock, Goto, latchVars, workerVars, localVars
<1>2. ASSUME NEW w \in Workers, FirstAttempt(w) PROVE FlagInv'
  <2>1. UNCHANGED <<waiters, hasWaiters>>
    BY <1>2 DEF FirstAttempt, latchVars
  <2>2. CASE pc[w] = "attempt" /\ pc' = [pc EXCEPT ![w] = "granted"]
    BY <2>1, <2>2, FlagKept
  <2>3. CASE pc[w] = "attempt" /\ pc' = [pc EXCEPT ![w] = "queueLock"]
    BY <2>1, <2>3, FlagKept
  <2> QED
    BY <1>2, <2>2, <2>3 DEF FirstAttempt, AttemptLock, Goto
<1>3. ASSUME NEW w \in Workers, QueueLock(w) PROVE FlagInv'
  <2>1. pc[w] = "queueLock" /\ pc' = [pc EXCEPT ![w] = "queueMark"] /\ UNCHANGED <<waiters, hasWaiters>>
    BY <1>3 DEF QueueLock, Goto, latchVars
  <2> QED
    BY <2>1, FlagKept
<1>4. ASSUME NEW w \in Workers, QueueMark(w) PROVE FlagInv'
  BY <1>4 DEF QueueMark, Goto, latchVars, workerVars, localVars
<1>5. ASSUME NEW w \in Workers, QueuePush(w) PROVE FlagInv'
  <2>1. waiters' # <<>> /\ hasWaiters'
    BY <1>5, AppendElems DEF QueuePush, Goto
  <2> QED
    BY <1>5, <2>1 DEF QueuePush, Goto
<1>6. ASSUME NEW w \in Workers, SecondAttempt(w) PROVE FlagInv'
  <2>1. UNCHANGED <<waiters, hasWaiters>>
    BY <1>6 DEF SecondAttempt, latchVars
  <2>2. CASE pc[w] = "reattempt" /\ pc' = [pc EXCEPT ![w] = "dequeueLock"]
    BY <2>1, <2>2, FlagKept
  <2>3. CASE pc[w] = "reattempt" /\ pc' = [pc EXCEPT ![w] = "sleep"]
    BY <2>1, <2>3, FlagKept
  <2> QED
    BY <1>6, <2>2, <2>3 DEF SecondAttempt, AttemptLock, Goto
<1>7. ASSUME NEW w \in Workers, SleepAcquire(w) PROVE FlagInv'
  <2>1. pc[w] = "sleep" /\ pc' = [pc EXCEPT ![w] = "sleepCheck"] /\ UNCHANGED <<waiters, hasWaiters>>
    BY <1>7 DEF SleepAcquire, Goto, latchVars
  <2> QED
    BY <2>1, FlagKept
<1>8. ASSUME NEW w \in Workers, SleepCheck(w) PROVE FlagInv'
  <2>1. UNCHANGED <<waiters, hasWaiters>>
    BY <1>8 DEF SleepCheck, latchVars
  <2>2. CASE pc[w] = "sleepCheck" /\ pc' = [pc EXCEPT ![w] = "reset"]
    BY <2>1, <2>2, FlagKept
  <2>3. CASE pc[w] = "sleepCheck" /\ pc' = [pc EXCEPT ![w] = "sleep"]
    BY <2>1, <2>3, FlagKept
  <2> QED
    BY <1>8, <2>2, <2>3 DEF SleepCheck, Goto
<1>9. ASSUME NEW w \in Workers, SleepReset(w) PROVE FlagInv'
  <2>1. pc[w] = "reset" /\ pc' = [pc EXCEPT ![w] = "attempt"] /\ UNCHANGED <<waiters, hasWaiters>>
    BY <1>9 DEF SleepReset, Goto, latchVars
  <2> QED
    BY <2>1, FlagKept
<1>10. ASSUME NEW w \in Workers, Granted(w) PROVE FlagInv'
  <2>1. pc[w] = "granted" /\ pc' = [pc EXCEPT ![w] = "held"] /\ UNCHANGED <<waiters, hasWaiters>>
    BY <1>10 DEF Granted, Goto, latchVars
  <2> QED
    BY <2>1, FlagKept
<1>11. ASSUME NEW w \in Workers, DequeueLock(w) PROVE FlagInv'
  <2>1. CASE lockState[w] = "Waiting"
    <3>1. Elems(waiters') = Elems(waiters) \ {w} /\ waiters' \in Seq(Workers)
      BY <1>11, <2>1, SublistType, ElemsType DEF DequeueLock
    <3>2. waiters' # <<>> => waiters # <<>>
      BY <3>1, ElemsType
    <3>3. pc' = [pc EXCEPT ![w] = "dequeueSelf"] /\ pc[w] = "dequeueLock"
      BY <1>11, <2>1 DEF DequeueLock, Goto
    <3> QED
      BY <1>11, <3>2, <3>3 DEF DequeueLock
  <2>2. CASE lockState[w] # "Waiting"
    <3>1. pc' = [pc EXCEPT ![w] = "dequeueWoken"] /\ pc[w] = "dequeueLock" /\ UNCHANGED waiters
      BY <1>11, <2>2 DEF DequeueLock, Goto
    <3> QED
      BY <1>11, <3>1 DEF DequeueLock
  <2> QED
    BY <2>1, <2>2
<1>12. ASSUME NEW w \in Workers, DequeueFlag(w) PROVE FlagInv'
  <2>1. CASE pc[w] = "dequeueSelf" /\ pc' = [pc EXCEPT ![w] = "dequeueSelfUnlock"]
    BY <1>12, <2>1 DEF DequeueFlag, Goto
  <2>2. CASE pc[w] = "dequeueWoken" /\ pc' = [pc EXCEPT ![w] = "dequeueWokenUnlock"]
    BY <1>12, <2>2 DEF DequeueFlag, Goto
  <2> QED
    BY <1>12, <2>1, <2>2 DEF DequeueFlag, Goto
<1>13. ASSUME NEW w \in Workers, DequeueUnlock(w) PROVE FlagInv'
  <2>1. UNCHANGED <<waiters, hasWaiters>>
    BY <1>13 DEF DequeueUnlock, latchVars
  <2>2. CASE pc[w] = "dequeueSelfUnlock" /\ pc' = [pc EXCEPT ![w] = "granted"]
    BY <2>1, <2>2, FlagKept
  <2>3. CASE pc[w] = "dequeueWokenUnlock" /\ pc' = [pc EXCEPT ![w] = "dequeueReset"]
    BY <2>1, <2>3, FlagKept
  <2> QED
    BY <1>13, <2>2, <2>3 DEF DequeueUnlock, Goto
<1>14. ASSUME NEW w \in Workers, DequeueReset(w) PROVE FlagInv'
  <2>1. pc[w] = "dequeueReset" /\ pc' = [pc EXCEPT ![w] = "dequeueSleep"] /\ UNCHANGED <<waiters, hasWaiters>>
    BY <1>14 DEF DequeueReset, Goto, latchVars
  <2> QED
    BY <2>1, FlagKept
<1>15. ASSUME NEW w \in Workers, DequeueAcquire(w) PROVE FlagInv'
  <2>1. pc[w] = "dequeueSleep" /\ pc' = [pc EXCEPT ![w] = "dequeueCheck"] /\ UNCHANGED <<waiters, hasWaiters>>
    BY <1>15 DEF DequeueAcquire, Goto, latchVars
  <2> QED
    BY <2>1, FlagKept
<1>16. ASSUME NEW w \in Workers, DequeueCheck(w) PROVE FlagInv'
  <2>1. UNCHANGED <<waiters, hasWaiters>>
    BY <1>16 DEF DequeueCheck, latchVars
  <2>2. CASE pc[w] = "dequeueCheck" /\ pc' = [pc EXCEPT ![w] = "dequeueReturn"]
    BY <2>1, <2>2, FlagKept
  <2>3. CASE pc[w] = "dequeueCheck" /\ pc' = [pc EXCEPT ![w] = "dequeueSleep"]
    BY <2>1, <2>3, FlagKept
  <2> QED
    BY <1>16, <2>2, <2>3 DEF DequeueCheck, Goto
<1>17. ASSUME NEW w \in Workers, DequeueReturn(w) PROVE FlagInv'
  <2>1. pc[w] = "dequeueReturn" /\ pc' = [pc EXCEPT ![w] = "granted"] /\ UNCHANGED <<waiters, hasWaiters>>
    BY <1>17 DEF DequeueReturn, Goto, latchVars
  <2> QED
    BY <2>1, FlagKept
<1>18. ASSUME NEW w \in Workers, Unlock(w) PROVE FlagInv'
  <2>1. UNCHANGED <<waiters, hasWaiters>>
    BY <1>18 DEF Unlock, latchVars
  <2>2. CASE pc[w] = "held" /\ pc' = [pc EXCEPT ![w] = "unlockedWakeup"]
    BY <2>1, <2>2, FlagKept
  <2>3. CASE pc[w] = "held" /\ pc' = [pc EXCEPT ![w] = "unlockedReturn"]
    BY <2>1, <2>3, FlagKept
  <2> QED
    BY <1>18, <2>2, <2>3 DEF Unlock, Goto
<1>19. ASSUME NEW w \in Workers, UnlockAssert(w) PROVE FlagInv'
  <2>1. UNCHANGED <<waiters, hasWaiters>>
    BY <1>19 DEF UnlockAssert, latchVars
  <2>2. CASE pc[w] = "unlockedWakeup" /\ pc' = [pc EXCEPT ![w] = "wakeupLock"]
    BY <2>1, <2>2, FlagKept
  <2>3. CASE pc[w] = "unlockedReturn" /\ pc' = [pc EXCEPT ![w] = "idle"]
    BY <2>1, <2>3, FlagKept
  <2> QED
    BY <1>19, <2>2, <2>3 DEF UnlockAssert, Goto
<1>20. ASSUME NEW w \in Workers, WakeupLock(w) PROVE FlagInv'
  <2>1. pc[w] = "wakeupLock" /\ pc' = [pc EXCEPT ![w] = "wakeupScan"] /\ UNCHANGED <<waiters, hasWaiters>>
    BY <1>20 DEF WakeupLock, Goto, latchVars
  <2> QED
    BY <2>1, FlagKept
<1>21. ASSUME NEW w \in Workers, WakeupScan(w) PROVE FlagInv'
  <2>1. ToWakeup \in SUBSET Workers /\ Elems(waiters) \in SUBSET Workers
    BY <1>0, ElemsType
  <2>2. Elems(waiters') = Elems(waiters) \ ToWakeup /\ waiters' \in Seq(Workers)
    BY <1>21, <2>1, SublistType DEF WakeupScan
  <2>3. waiters' # <<>> => waiters # <<>>
    BY <2>2, ElemsType
  <2> QED
    BY <1>21, <2>3 DEF WakeupScan, Goto
<1>22. ASSUME NEW w \in Workers, WakeupPublish(w) PROVE FlagInv'
  BY <1>22 DEF WakeupPublish, WaitListUnlock, Goto, latchVars, workerVars, localVars
<1>23. ASSUME NEW w \in Workers, WakeupNext(w) PROVE FlagInv'
  <2>1. pc[w] = "wakeupNext" /\ pc' = [pc EXCEPT ![w] = "wakeupRelease"] /\ UNCHANGED <<waiters, hasWaiters>>
    BY <1>23 DEF WakeupNext, Goto, latchVars
  <2> QED
    BY <2>1, FlagKept
<1>24. ASSUME NEW w \in Workers, WakeupRelease(w) PROVE FlagInv'
  <2>1. pc[w] = "wakeupRelease" /\ pc' = [pc EXCEPT ![w] = "wakeupNext"] /\ UNCHANGED <<waiters, hasWaiters>>
    BY <1>24 DEF WakeupRelease, Goto, latchVars
  <2> QED
    BY <2>1, FlagKept
<1>25. ASSUME NEW w \in Workers, WakeupDone(w) PROVE FlagInv'
  <2>1. pc[w] = "wakeupNext" /\ pc' = [pc EXCEPT ![w] = "idle"] /\ UNCHANGED <<waiters, hasWaiters>>
    BY <1>25 DEF WakeupDone, Goto, latchVars
  <2> QED
    BY <2>1, FlagKept
<1>26. CASE UNCHANGED vars
  BY <1>26 DEF vars, latchVars, workerVars, localVars
<1> QED
  BY <1>1, <1>2, <1>3, <1>4, <1>5, <1>6, <1>7, <1>8, <1>9, <1>10, <1>11,
     <1>12, <1>13, <1>14, <1>15, <1>16, <1>17, <1>18, <1>19, <1>20, <1>21,
     <1>22, <1>23, <1>24, <1>25, <1>26
  DEF Next, LockStep, UnlockStep

\* A step that only moves one worker keeps the lists right when the place it
\* moves to agrees with the lists the worker is in.
LEMMA QueueMove ==
  ASSUME TypeOK, QueueInv, NEW w \in Workers, NEW to,
         pc' = [pc EXCEPT ![w] = to],
         UNCHANGED <<waiters, wakeupList, lockState>>,
         to \notin WakerPc => wakeupList[w] = <<>>,
         w \in Elems(waiters) => to \in {"reattempt", "sleep", "sleepCheck", "dequeueLock"},
         lockState[w] = "Waiting" =>
           w \in Elems(waiters) \/ to \in {"dequeueSelf", "dequeueSelfUnlock"},
         to \in {"dequeueSelf", "dequeueSelfUnlock"} => lockState[w] = "Waiting",
         lockState[w] = "PendingWakeup" => to \in QueuedPc
  PROVE  QueueInv'
<1>1. \A v \in Workers : pc'[v] = IF v = w THEN to ELSE pc[v]
  BY DEF TypeOK
<1>2. Elems(waiters)' = Elems(waiters) /\ \A v \in Workers : Pending(v)' = Pending(v)
  BY DEF Pending, Elems
<1>3. NoRepetition(waiters)' /\ \A v \in Workers : NoRepetition(wakeupList[v])'
  BY DEF QueueInv, NoRepetition
<1> QED
  BY <1>1, <1>2, <1>3 DEF QueueInv

\* Every step keeps the lists, the lock states and the places in agreement.
LEMMA QueueStep ==
  TypeOK /\ QueueInv /\ [Next]_vars => QueueInv'
<1> SUFFICES ASSUME TypeOK /\ QueueInv, [Next]_vars
             PROVE  QueueInv'
  OBVIOUS
<1>1. ASSUME NEW w \in Workers, NEW mode \in Modes, StartLock(w, mode) PROVE QueueInv'
  <2>1. /\ pc[w] = "idle" /\ pc' = [pc EXCEPT ![w] = "attempt"]
        /\ UNCHANGED <<waiters, wakeupList, lockState>>
    BY <1>1 DEF StartLock, Goto, latchVars, workerVars, localVars
  <2> QED
    BY <2>1, QueueMove DEF QueueInv, WakerPc, QueuedPc
<1>2. ASSUME NEW w \in Workers, FirstAttempt(w) PROVE QueueInv'
  <2>1. CASE pc[w] = "attempt" /\ pc' = [pc EXCEPT ![w] = "granted"]
    <3>1. UNCHANGED <<waiters, wakeupList, lockState>>
      BY <1>2, <2>1 DEF FirstAttempt, latchVars, workerVars, localVars
    <3> QED
      BY <2>1, <3>1, QueueMove DEF QueueInv, WakerPc, QueuedPc
  <2>2. CASE pc[w] = "attempt" /\ pc' = [pc EXCEPT ![w] = "queueLock"]
    <3>1. UNCHANGED <<waiters, wakeupList, lockState>>
      BY <1>2, <2>2 DEF FirstAttempt, latchVars, workerVars, localVars
    <3> QED
      BY <2>2, <3>1, QueueMove DEF QueueInv, WakerPc, QueuedPc
  <2> QED
    BY <1>2, <2>1, <2>2 DEF FirstAttempt, AttemptLock, Goto
<1>3. ASSUME NEW w \in Workers, QueueLock(w) PROVE QueueInv'
  <2>1. /\ pc[w] = "queueLock" /\ pc' = [pc EXCEPT ![w] = "queueMark"]
        /\ UNCHANGED <<waiters, wakeupList, lockState>>
    BY <1>3 DEF QueueLock, Goto, latchVars, workerVars, localVars
  <2> QED
    BY <2>1, QueueMove DEF QueueInv, WakerPc, QueuedPc
<1>4. ASSUME NEW w \in Workers, QueueMark(w) PROVE QueueInv'
  <2>1. /\ pc[w] = "queueMark" /\ pc' = [pc EXCEPT ![w] = "queuePush"]
        /\ UNCHANGED <<waiters, wakeupList, lockState>>
    BY <1>4 DEF QueueMark, Goto, latchVars, workerVars, localVars
  <2> QED
    BY <2>1, QueueMove DEF QueueInv, WakerPc, QueuedPc
<1>5. ASSUME NEW w \in Workers, QueuePush(w) PROVE QueueInv'
  <2>1. /\ pc[w] = "queuePush" /\ pc' = [pc EXCEPT ![w] = "reattempt"]
        /\ lockState' = [lockState EXCEPT ![w] = "Waiting"]
        /\ waiters' = Append(waiters, w) /\ UNCHANGED wakeupList
    BY <1>5 DEF QueuePush, Goto, localVars
  <2>2. w \notin Elems(waiters) /\ lockState[w] # "PendingWakeup"
    BY <2>1 DEF QueueInv, QueuedPc
  <2>3. Elems(waiters)' = Elems(waiters) \cup {w} /\ NoRepetition(waiters)'
    BY <2>1, <2>2, AppendElems DEF TypeOK, QueueInv
  <2>4. \A v \in Workers : Pending(v)' = Pending(v) /\ NoRepetition(wakeupList[v])'
    BY <2>1 DEF Pending, Elems, QueueInv, NoRepetition
  <2>5. \A v \in Workers : /\ pc'[v] = IF v = w THEN "reattempt" ELSE pc[v]
                          /\ lockState'[v] = IF v = w THEN "Waiting" ELSE lockState[v]
    BY <2>1 DEF TypeOK
  <2>6. \A v \in Workers : pc'[v] \notin WakerPc => wakeupList'[v] = <<>>
    BY <2>1, <2>5 DEF QueueInv, WakerPc
  <2> QED
    BY <2>2, <2>3, <2>4, <2>5, <2>6 DEF QueueInv, QueuedPc
<1>6. ASSUME NEW w \in Workers, SecondAttempt(w) PROVE QueueInv'
  <2>1. CASE pc[w] = "reattempt" /\ pc' = [pc EXCEPT ![w] = "dequeueLock"]
    <3>1. UNCHANGED <<waiters, wakeupList, lockState>>
      BY <1>6, <2>1 DEF SecondAttempt, latchVars, workerVars, localVars
    <3> QED
      BY <2>1, <3>1, QueueMove DEF QueueInv, WakerPc, QueuedPc
  <2>2. CASE pc[w] = "reattempt" /\ pc' = [pc EXCEPT ![w] = "sleep"]
    <3>1. UNCHANGED <<waiters, wakeupList, lockState>>
      BY <1>6, <2>2 DEF SecondAttempt, latchVars, workerVars, localVars
    <3> QED
      BY <2>2, <3>1, QueueMove DEF QueueInv, WakerPc, QueuedPc
  <2> QED
    BY <1>6, <2>1, <2>2 DEF SecondAttempt, AttemptLock, Goto
<1>7. ASSUME NEW w \in Workers, SleepAcquire(w) PROVE QueueInv'
  <2>1. /\ pc[w] = "sleep" /\ pc' = [pc EXCEPT ![w] = "sleepCheck"]
        /\ UNCHANGED <<waiters, wakeupList, lockState>>
    BY <1>7 DEF SleepAcquire, Goto, latchVars, workerVars, localVars
  <2> QED
    BY <2>1, QueueMove DEF QueueInv, WakerPc, QueuedPc
<1>8. ASSUME NEW w \in Workers, SleepCheck(w) PROVE QueueInv'
  <2>1. CASE pc[w] = "sleepCheck" /\ pc' = [pc EXCEPT ![w] = "reset"] /\ lockState[w] = "NotWaiting"
    <3>1. UNCHANGED <<waiters, wakeupList, lockState>>
      BY <1>8, <2>1 DEF SleepCheck, latchVars, workerVars, localVars
    <3> QED
      BY <2>1, <3>1, QueueMove DEF QueueInv, WakerPc, QueuedPc
  <2>2. CASE pc[w] = "sleepCheck" /\ pc' = [pc EXCEPT ![w] = "sleep"]
    <3>1. UNCHANGED <<waiters, wakeupList, lockState>>
      BY <1>8, <2>2 DEF SleepCheck, latchVars, workerVars, localVars
    <3> QED
      BY <2>2, <3>1, QueueMove DEF QueueInv, WakerPc, QueuedPc
  <2> QED
    BY <1>8, <2>1, <2>2 DEF SleepCheck, Goto
<1>9. ASSUME NEW w \in Workers, SleepReset(w) PROVE QueueInv'
  <2>1. /\ pc[w] = "reset" /\ pc' = [pc EXCEPT ![w] = "attempt"]
        /\ UNCHANGED <<waiters, wakeupList, lockState>>
    BY <1>9 DEF SleepReset, Goto, latchVars, workerVars, localVars
  <2> QED
    BY <2>1, QueueMove DEF QueueInv, WakerPc, QueuedPc
<1>10. ASSUME NEW w \in Workers, Granted(w) PROVE QueueInv'
  <2>1. /\ pc[w] = "granted" /\ pc' = [pc EXCEPT ![w] = "held"]
        /\ UNCHANGED <<waiters, wakeupList, lockState>>
    BY <1>10 DEF Granted, Goto, latchVars, workerVars, localVars
  <2> QED
    BY <2>1, QueueMove DEF QueueInv, WakerPc, QueuedPc
<1>11. ASSUME NEW w \in Workers, DequeueLock(w) PROVE QueueInv'
  <2>1. CASE lockState[w] = "Waiting"
    <3>1. /\ pc[w] = "dequeueLock" /\ pc' = [pc EXCEPT ![w] = "dequeueSelf"]
          /\ waiters' \in Sublists(waiters, Elems(waiters) \ {w})
          /\ UNCHANGED <<wakeupList, lockState>>
      BY <1>11, <2>1 DEF DequeueLock, Goto, workerVars, localVars
    <3>2. Elems(waiters)' = Elems(waiters) \ {w}
      BY <3>1, SublistType, ElemsType DEF TypeOK
    <3>3. NoRepetition(waiters)'
      BY <3>1, SublistNoRepetition, ElemsType DEF TypeOK, QueueInv
    <3>4. \A v \in Workers : Pending(v)' = Pending(v) /\ NoRepetition(wakeupList[v])'
      BY <3>1 DEF Pending, Elems, QueueInv, NoRepetition
    <3>5. \A v \in Workers : pc'[v] = IF v = w THEN "dequeueSelf" ELSE pc[v]
      BY <3>1 DEF TypeOK
    <3>6. lockState[w] # "PendingWakeup" /\ wakeupList[w] = <<>>
      BY <2>1, <3>1 DEF QueueInv, WakerPc
    <3>7. \A v \in Workers : pc'[v] \notin WakerPc => wakeupList'[v] = <<>>
      BY <3>1, <3>5, <3>6 DEF QueueInv
    <3> QED
      BY <2>1, <3>1, <3>2, <3>3, <3>4, <3>5, <3>6, <3>7 DEF QueueInv
  <2>2. CASE lockState[w] # "Waiting"
    <3>1. /\ pc[w] = "dequeueLock" /\ pc' = [pc EXCEPT ![w] = "dequeueWoken"]
          /\ UNCHANGED <<waiters, wakeupList, lockState>>
      BY <1>11, <2>2 DEF DequeueLock, Goto, workerVars, localVars
    <3> QED
      BY <2>2, <3>1, QueueMove DEF QueueInv, WakerPc, QueuedPc
  <2> QED
    BY <2>1, <2>2
<1>12. ASSUME NEW w \in Workers, DequeueFlag(w) PROVE QueueInv'
  <2>1. CASE pc[w] = "dequeueSelf" /\ pc' = [pc EXCEPT ![w] = "dequeueSelfUnlock"]
    <3>1. UNCHANGED <<waiters, wakeupList, lockState>>
      BY <1>12, <2>1 DEF DequeueFlag, latchVars, workerVars, localVars
    <3> QED
      BY <2>1, <3>1, QueueMove DEF QueueInv, WakerPc, QueuedPc
  <2>2. CASE pc[w] = "dequeueWoken" /\ pc' = [pc EXCEPT ![w] = "dequeueWokenUnlock"]
    <3>1. UNCHANGED <<waiters, wakeupList, lockState>>
      BY <1>12, <2>2 DEF DequeueFlag, latchVars, workerVars, localVars
    <3> QED
      BY <2>2, <3>1, QueueMove DEF QueueInv, WakerPc, QueuedPc
  <2> QED
    BY <1>12, <2>1, <2>2 DEF DequeueFlag, Goto
<1>13. ASSUME NEW w \in Workers, DequeueUnlock(w) PROVE QueueInv'
  <2>1. CASE pc[w] = "dequeueSelfUnlock" /\ pc' = [pc EXCEPT ![w] = "granted"]
    <3>1. /\ lockState' = [lockState EXCEPT ![w] = "NotWaiting"]
          /\ UNCHANGED <<waiters, wakeupList>>
      BY <1>13, <2>1 DEF DequeueUnlock, Goto, localVars
    <3>2. Elems(waiters)' = Elems(waiters) /\ \A v \in Workers : Pending(v)' = Pending(v)
      BY <3>1 DEF Pending, Elems
    <3>3. NoRepetition(waiters)' /\ \A v \in Workers : NoRepetition(wakeupList[v])'
      BY <3>1 DEF QueueInv, NoRepetition
    <3>4. \A v \in Workers : /\ pc'[v] = IF v = w THEN "granted" ELSE pc[v]
                            /\ lockState'[v] = IF v = w THEN "NotWaiting" ELSE lockState[v]
      BY <2>1, <3>1 DEF TypeOK
    <3>5. w \notin Elems(waiters) /\ lockState[w] = "Waiting" /\ wakeupList[w] = <<>>
      BY <2>1 DEF QueueInv, WakerPc
    <3>6. \A v \in Workers : pc'[v] \notin WakerPc => wakeupList'[v] = <<>>
      BY <3>1, <3>4, <3>5 DEF QueueInv
    <3> QED
      BY <3>2, <3>3, <3>4, <3>5, <3>6 DEF QueueInv
  <2>2. CASE pc[w] = "dequeueWokenUnlock" /\ pc' = [pc EXCEPT ![w] = "dequeueReset"]
    <3>1. UNCHANGED <<waiters, wakeupList, lockState>>
      BY <1>13, <2>2 DEF DequeueUnlock, Goto, localVars
    <3> QED
      BY <2>2, <3>1, QueueMove DEF QueueInv, WakerPc, QueuedPc
  <2> QED
    BY <1>13, <2>1, <2>2 DEF DequeueUnlock, Goto
<1>14. ASSUME NEW w \in Workers, DequeueReset(w) PROVE QueueInv'
  <2>1. /\ pc[w] = "dequeueReset" /\ pc' = [pc EXCEPT ![w] = "dequeueSleep"]
        /\ UNCHANGED <<waiters, wakeupList, lockState>>
    BY <1>14 DEF DequeueReset, Goto, latchVars, workerVars, localVars
  <2> QED
    BY <2>1, QueueMove DEF QueueInv, WakerPc, QueuedPc
<1>15. ASSUME NEW w \in Workers, DequeueAcquire(w) PROVE QueueInv'
  <2>1. /\ pc[w] = "dequeueSleep" /\ pc' = [pc EXCEPT ![w] = "dequeueCheck"]
        /\ UNCHANGED <<waiters, wakeupList, lockState>>
    BY <1>15 DEF DequeueAcquire, Goto, latchVars, workerVars, localVars
  <2> QED
    BY <2>1, QueueMove DEF QueueInv, WakerPc, QueuedPc
<1>16. ASSUME NEW w \in Workers, DequeueCheck(w) PROVE QueueInv'
  <2>1. CASE pc[w] = "dequeueCheck" /\ pc' = [pc EXCEPT ![w] = "dequeueReturn"] /\ lockState[w] = "NotWaiting"
    <3>1. UNCHANGED <<waiters, wakeupList, lockState>>
      BY <1>16, <2>1 DEF DequeueCheck, latchVars, workerVars, localVars
    <3> QED
      BY <2>1, <3>1, QueueMove DEF QueueInv, WakerPc, QueuedPc
  <2>2. CASE pc[w] = "dequeueCheck" /\ pc' = [pc EXCEPT ![w] = "dequeueSleep"]
    <3>1. UNCHANGED <<waiters, wakeupList, lockState>>
      BY <1>16, <2>2 DEF DequeueCheck, latchVars, workerVars, localVars
    <3> QED
      BY <2>2, <3>1, QueueMove DEF QueueInv, WakerPc, QueuedPc
  <2> QED
    BY <1>16, <2>1, <2>2 DEF DequeueCheck, Goto
<1>17. ASSUME NEW w \in Workers, DequeueReturn(w) PROVE QueueInv'
  <2>1. /\ pc[w] = "dequeueReturn" /\ pc' = [pc EXCEPT ![w] = "granted"]
        /\ UNCHANGED <<waiters, wakeupList, lockState>>
    BY <1>17 DEF DequeueReturn, Goto, latchVars, workerVars, localVars
  <2> QED
    BY <2>1, QueueMove DEF QueueInv, WakerPc, QueuedPc
<1>18. ASSUME NEW w \in Workers, Unlock(w) PROVE QueueInv'
  <2>1. CASE pc[w] = "held" /\ pc' = [pc EXCEPT ![w] = "unlockedWakeup"]
    <3>1. UNCHANGED <<waiters, wakeupList, lockState>>
      BY <1>18, <2>1 DEF Unlock, latchVars, workerVars, localVars
    <3> QED
      BY <2>1, <3>1, QueueMove DEF QueueInv, WakerPc, QueuedPc
  <2>2. CASE pc[w] = "held" /\ pc' = [pc EXCEPT ![w] = "unlockedReturn"]
    <3>1. UNCHANGED <<waiters, wakeupList, lockState>>
      BY <1>18, <2>2 DEF Unlock, latchVars, workerVars, localVars
    <3> QED
      BY <2>2, <3>1, QueueMove DEF QueueInv, WakerPc, QueuedPc
  <2> QED
    BY <1>18, <2>1, <2>2 DEF Unlock, Goto
<1>19. ASSUME NEW w \in Workers, UnlockAssert(w) PROVE QueueInv'
  <2>1. CASE pc[w] = "unlockedWakeup" /\ pc' = [pc EXCEPT ![w] = "wakeupLock"]
    <3>1. UNCHANGED <<waiters, wakeupList, lockState>>
      BY <1>19, <2>1 DEF UnlockAssert, latchVars, workerVars, localVars
    <3> QED
      BY <2>1, <3>1, QueueMove DEF QueueInv, WakerPc, QueuedPc
  <2>2. CASE pc[w] = "unlockedReturn" /\ pc' = [pc EXCEPT ![w] = "idle"]
    <3>1. UNCHANGED <<waiters, wakeupList, lockState>>
      BY <1>19, <2>2 DEF UnlockAssert, latchVars, workerVars, localVars
    <3> QED
      BY <2>2, <3>1, QueueMove DEF QueueInv, WakerPc, QueuedPc
  <2> QED
    BY <1>19, <2>1, <2>2 DEF UnlockAssert, Goto
<1>20. ASSUME NEW w \in Workers, WakeupLock(w) PROVE QueueInv'
  <2>1. /\ pc[w] = "wakeupLock" /\ pc' = [pc EXCEPT ![w] = "wakeupScan"]
        /\ UNCHANGED <<waiters, wakeupList, lockState>>
    BY <1>20 DEF WakeupLock, Goto, latchVars, workerVars, localVars
  <2> QED
    BY <2>1, QueueMove DEF QueueInv, WakerPc, QueuedPc
<1>21. ASSUME NEW w \in Workers, WakeupScan(w) PROVE QueueInv'
  <2>1. ToWakeup \in SUBSET Elems(waiters) /\ Elems(waiters) \in SUBSET Workers
    BY ToWakeupType, ElemsType DEF TypeOK
  <2>2. PICK woken \in Sublists(waiters, ToWakeup) :
               wakeupList' = [wakeupList EXCEPT ![w] = woken]
    BY <1>21 DEF WakeupScan
  <2>3. Elems(woken) = ToWakeup /\ NoRepetition(woken)
    BY <2>1, SublistType, SublistNoRepetition DEF TypeOK, QueueInv
  <2>4. Elems(waiters)' = Elems(waiters) \ ToWakeup /\ NoRepetition(waiters)'
    BY <1>21, <2>1, SublistType, SublistNoRepetition DEF WakeupScan, TypeOK, QueueInv
  <2>5. /\ pc[w] = "wakeupScan" /\ pc' = [pc EXCEPT ![w] = "wakeupPublish"]
        /\ lockState' = [v \in Workers |-> IF v \in ToWakeup THEN "PendingWakeup" ELSE lockState[v]]
    BY <1>21 DEF WakeupScan, Goto
  <2>6. Pending(w)' = ToWakeup /\ NoRepetition(wakeupList[w])'
    BY <2>2, <2>3 DEF Pending, TypeOK
  <2>7. ASSUME NEW v \in Workers, v # w
        PROVE  Pending(v)' = Pending(v) /\ NoRepetition(wakeupList[v])'
    BY <2>2, <2>7 DEF Pending, TypeOK, QueueInv
  <2>8. Pending(w) = {}
    BY <2>5 DEF QueueInv, Pending, Elems, WakerPc
  <2>9. \A v \in ToWakeup : lockState[v] = "Waiting" /\ pc[v] \in QueuedPc /\ v # w
    BY <2>1, <2>5 DEF QueueInv, QueuedPc
  <2>10. \A v \in Workers : lockState'[v] = "PendingWakeup" <=> \E k \in Workers : v \in Pending(k)'
    BY <2>1, <2>5, <2>6, <2>7, <2>8 DEF QueueInv
  <2>11. \A v, k \in Workers : v # k => Pending(v)' \cap Pending(k)' = {}
    BY <2>1, <2>6, <2>7, <2>9 DEF QueueInv
  <2>12. \A v \in Workers : pc'[v] \notin WakerPc => wakeupList'[v] = <<>>
    BY <2>2, <2>5 DEF QueueInv, TypeOK, WakerPc
  <2>13. \A v \in Workers : pc'[v] = IF v = w THEN "wakeupPublish" ELSE pc[v]
    BY <2>5 DEF TypeOK
  <2> QED
    BY <2>1, <2>4, <2>5, <2>6, <2>7, <2>9, <2>10, <2>11, <2>12, <2>13 DEF QueueInv, QueuedPc
<1>22. ASSUME NEW w \in Workers, WakeupPublish(w) PROVE QueueInv'
  <2>1. /\ pc[w] = "wakeupPublish" /\ pc' = [pc EXCEPT ![w] = "wakeupNext"]
        /\ UNCHANGED <<waiters, wakeupList, lockState>>
    BY <1>22 DEF WakeupPublish, Goto, latchVars, workerVars, localVars
  <2> QED
    BY <2>1, QueueMove DEF QueueInv, WakerPc, QueuedPc
<1>23. ASSUME NEW w \in Workers, WakeupNext(w) PROVE QueueInv'
  <2>0. PICK h : h = Head(wakeupList[w])
    OBVIOUS
  <2>1. /\ pc[w] = "wakeupNext" /\ pc' = [pc EXCEPT ![w] = "wakeupRelease"]
        /\ wakeupList[w] # <<>> /\ wakeupList' = [wakeupList EXCEPT ![w] = Tail(wakeupList[w])]
        /\ lockState' = [lockState EXCEPT ![h] = "NotWaiting"] /\ UNCHANGED waiters
    BY <1>23, <2>0 DEF WakeupNext, Goto, latchVars
  <2>2. /\ h \in Pending(w) /\ h \in Workers
        /\ Elems(Tail(wakeupList[w])) = Pending(w) \ {h} /\ NoRepetition(Tail(wakeupList[w]))
    BY <2>0, <2>1, TailElems DEF TypeOK, QueueInv, Pending
  <2>3. lockState[h] = "PendingWakeup" /\ pc[h] \in QueuedPc /\ h # w
    BY <2>1, <2>2 DEF QueueInv, QueuedPc
  <2>4. Pending(w)' = Pending(w) \ {h} /\ NoRepetition(wakeupList[w])'
    <3>1. wakeupList'[w] = Tail(wakeupList[w])
      BY <2>1 DEF TypeOK
    <3> QED
      BY <2>2, <3>1 DEF Pending
  <2>5. ASSUME NEW v \in Workers, v # w
        PROVE  Pending(v)' = Pending(v) /\ NoRepetition(wakeupList[v])' /\ h \notin Pending(v)
    BY <2>1, <2>2, <2>5 DEF Pending, TypeOK, QueueInv
  <2>6. Elems(waiters)' = Elems(waiters) /\ NoRepetition(waiters)'
    BY <2>1 DEF QueueInv
  <2>7. \A v \in Workers : lockState'[v] = IF v = h THEN "NotWaiting" ELSE lockState[v]
    BY <2>1, <2>2 DEF TypeOK
  <2>8. \A v \in Workers : lockState'[v] = "PendingWakeup" <=> \E k \in Workers : v \in Pending(k)'
    BY <2>2, <2>4, <2>5, <2>7 DEF QueueInv
  <2>9. \A v, k \in Workers : v # k => Pending(v)' \cap Pending(k)' = {}
    BY <2>4, <2>5 DEF QueueInv
  <2>10. \A v \in Workers : pc'[v] = IF v = w THEN "wakeupRelease" ELSE pc[v]
    BY <2>1 DEF TypeOK
  <2>11. \A v \in Workers : pc'[v] \notin WakerPc => wakeupList'[v] = <<>>
    BY <2>1, <2>10 DEF QueueInv, TypeOK, WakerPc
  <2> QED
    BY <2>1, <2>2, <2>3, <2>4, <2>5, <2>6, <2>7, <2>8, <2>9, <2>10, <2>11 DEF QueueInv, QueuedPc
<1>24. ASSUME NEW w \in Workers, WakeupRelease(w) PROVE QueueInv'
  <2>1. /\ pc[w] = "wakeupRelease" /\ pc' = [pc EXCEPT ![w] = "wakeupNext"]
        /\ UNCHANGED <<waiters, wakeupList, lockState>>
    BY <1>24 DEF WakeupRelease, Goto, latchVars, workerVars, localVars
  <2> QED
    BY <2>1, QueueMove DEF QueueInv, WakerPc, QueuedPc
<1>25. ASSUME NEW w \in Workers, WakeupDone(w) PROVE QueueInv'
  <2>1. /\ pc[w] = "wakeupNext" /\ pc' = [pc EXCEPT ![w] = "idle"]
        /\ UNCHANGED <<waiters, wakeupList, lockState>> /\ wakeupList[w] = <<>>
    BY <1>25 DEF WakeupDone, Goto, latchVars, workerVars, localVars
  <2> QED
    BY <2>1, QueueMove DEF QueueInv, WakerPc, QueuedPc
<1>26. CASE UNCHANGED vars
  <2>1. UNCHANGED <<waiters, wakeupList, lockState, pc>>
    BY <1>26 DEF vars, latchVars, workerVars, localVars
  <2>2. Elems(waiters)' = Elems(waiters) /\ NoRepetition(waiters)'
    BY <2>1 DEF QueueInv
  <2>3. \A v \in Workers : Pending(v)' = Pending(v) /\ NoRepetition(wakeupList[v])'
    BY <2>1 DEF QueueInv, Pending
  <2> QED
    BY <2>1, <2>2, <2>3 DEF QueueInv
<1> QED
  BY <1>1, <1>2, <1>3, <1>4, <1>5, <1>6, <1>7, <1>8, <1>9, <1>10, <1>11,
     <1>12, <1>13, <1>14, <1>15, <1>16, <1>17, <1>18, <1>19, <1>20, <1>21,
     <1>22, <1>23, <1>24, <1>25, <1>26
  DEF Next, LockStep, UnlockStep

\* The tokens of one worker.
Tokens(w) == sema[w] + extraWaits[w] + dequeueWaits[w] + InCheck(w)

\* A worker's releases are finitely many, and the token sum is a number.
LEMMA TokensType ==
  ASSUME TypeOK, NEW w \in Workers
  PROVE  /\ Tokens(w) \in Nat /\ InCheck(w) \in {0, 1} /\ Woken(w) \in {0, 1}
         /\ sema[w] \in Nat /\ extraWaits[w] \in Nat /\ dequeueWaits[w] \in Nat
         /\ IsFiniteSet(Releasing(w)) /\ Cardinality(Releasing(w)) \in Nat
<1>1. IsFiniteSet(Releasing(w))
  BY WorkersFinite, FS_Subset DEF Releasing
<1>2. Cardinality(Releasing(w)) \in Nat
  BY <1>1, FS_CardinalityType
<1> QED
  BY <1>1, <1>2 DEF TypeOK, Tokens, InCheck, Woken

\* TokensConserved in terms of Tokens.
LEMMA TokensSum ==
  ASSUME TypeOK, NEW w \in Workers
  PROVE  (sema[w] + extraWaits[w] + dequeueWaits[w] + InCheck(w) + Cardinality(Releasing(w))
            = 1 + Woken(w))
         <=> (Tokens(w) + Cardinality(Releasing(w)) = 1 + Woken(w))
BY DEF Tokens

\* A step of one worker, not into or out of a release, that balances that
\* worker's own tokens keeps every sum.
LEMMA TokenMove ==
  ASSUME TypeOK, TokenInv, NEW w \in Workers, NEW to,
         pc' = [pc EXCEPT ![w] = to],
         pc[w] # "wakeupRelease", to # "wakeupRelease", UNCHANGED target,
         \A v \in Workers \ {w} : /\ sema'[v] = sema[v] /\ extraWaits'[v] = extraWaits[v]
                                  /\ dequeueWaits'[v] = dequeueWaits[v]
                                  /\ Woken(v)' = Woken(v),
         Tokens(w)' \in Nat,
         Tokens(w)' + Woken(w) = Tokens(w) + Woken(w)',
         extraWaits'[w] + dequeueWaits'[w] <= 1
  PROVE  TokenInv'
<1>1. \A v \in Workers : pc'[v] = IF v = w THEN to ELSE pc[v]
  BY DEF TypeOK
<1>2. \A v \in Workers : Releasing(v)' = Releasing(v)
  BY <1>1 DEF Releasing
<1>3. \A v \in Workers \ {w} : InCheck(v)' = InCheck(v)
  BY <1>1 DEF InCheck
<1>4. ASSUME NEW v \in Workers
      PROVE  /\ Tokens(v)' + Cardinality(Releasing(v)') = 1 + Woken(v)'
             /\ extraWaits'[v] + dequeueWaits'[v] <= 1
  <2>1. /\ Tokens(v) + Cardinality(Releasing(v)) = 1 + Woken(v)
        /\ extraWaits[v] + dequeueWaits[v] <= 1
    BY TokensSum DEF TokenInv, TokensConserved
  <2>2. CASE v # w
    <3>1. Tokens(v)' = Tokens(v) /\ Woken(v)' = Woken(v)
      BY <1>3, <2>2 DEF Tokens
    <3> QED
      BY <1>2, <2>1, <2>2, <3>1
  <2>3. CASE v = w
    <3>1. Tokens(w) \in Nat /\ Woken(w) \in Nat /\ Cardinality(Releasing(w)) \in Nat
      BY TokensType
    <3>2. Woken(w)' \in Nat
      BY DEF Woken
    <3> QED
      BY <1>2, <2>1, <2>3, <3>1, <3>2
  <2> QED
    BY <2>2, <2>3
<1>5. TokensConserved'
  BY <1>4 DEF TokensConserved, Tokens
<1> QED
  BY <1>4, <1>5 DEF TokenInv

\* A step that moves one worker and touches no token keeps every sum, if the
\* worker does not take part in the token protocol on either side of the step
\* or takes part in it in the same way.
LEMMA TokenStill ==
  ASSUME TypeOK, TokenInv, NEW w \in Workers, NEW to,
         pc' = [pc EXCEPT ![w] = to],
         {pc[w], to} \cap {"wakeupRelease", "sleepCheck", "dequeueCheck"} = {},
         UNCHANGED <<sema, lockState, extraWaits, dequeueWaits, target>>,
         lockState[w] # "Waiting" => (pc[w] \in QueuedPc <=> to \in QueuedPc)
  PROVE  TokenInv'
<1>1. \A v \in Workers : pc'[v] = IF v = w THEN to ELSE pc[v]
  BY DEF TypeOK
<1>2. \A v \in Workers : Woken(v)' = Woken(v) /\ InCheck(v)' = InCheck(v)
  BY <1>1 DEF Woken, InCheck
<1>3. Tokens(w)' = Tokens(w)
  BY <1>2 DEF Tokens
<1>4. extraWaits'[w] + dequeueWaits'[w] <= 1
  BY DEF TokenInv
<1>5. Tokens(w) \in Nat /\ Woken(w) \in Nat
  BY TokensType
<1> QED
  BY <1>2, <1>3, <1>4, <1>5, TokenMove

\* Every step keeps the semaphore tokens.
LEMMA TokenStep ==
  TypeOK /\ CountInv /\ QueueInv /\ TokenInv /\ [Next]_vars => TokenInv'
<1> SUFFICES ASSUME TypeOK /\ CountInv /\ QueueInv /\ TokenInv, [Next]_vars
             PROVE  TokenInv'
  OBVIOUS
<1>0. TypeOK /\ QueueInv /\ TokenInv
  OBVIOUS
<1>1. ASSUME NEW w \in Workers, NEW mode \in Modes, StartLock(w, mode) PROVE TokenInv'
  <2>1. /\ pc[w] = "idle" /\ pc' = [pc EXCEPT ![w] = "attempt"]
        /\ UNCHANGED <<sema, lockState, extraWaits, dequeueWaits, target>>
    BY <1>1 DEF StartLock, Goto, latchVars, workerVars, localVars
  <2> QED
    BY <2>1, <1>0, TokenStill DEF QueuedPc
<1>2. ASSUME NEW w \in Workers, FirstAttempt(w) PROVE TokenInv'
  <2>1. CASE pc[w] = "attempt" /\ pc' = [pc EXCEPT ![w] = "granted"]
    <3>1. UNCHANGED <<sema, lockState, extraWaits, dequeueWaits, target>>
      BY <1>2, <2>1 DEF FirstAttempt, latchVars, workerVars, localVars
    <3> QED
      BY <2>1, <3>1, <1>0, TokenStill DEF QueuedPc
  <2>2. CASE pc[w] = "attempt" /\ pc' = [pc EXCEPT ![w] = "queueLock"]
    <3>1. UNCHANGED <<sema, lockState, extraWaits, dequeueWaits, target>>
      BY <1>2, <2>2 DEF FirstAttempt, latchVars, workerVars, localVars
    <3> QED
      BY <2>2, <3>1, <1>0, TokenStill DEF QueuedPc
  <2> QED
    BY <1>2, <2>1, <2>2 DEF FirstAttempt, AttemptLock, Goto
<1>3. ASSUME NEW w \in Workers, QueueLock(w) PROVE TokenInv'
  <2>1. /\ pc[w] = "queueLock" /\ pc' = [pc EXCEPT ![w] = "queueMark"]
        /\ UNCHANGED <<sema, lockState, extraWaits, dequeueWaits, target>>
    BY <1>3 DEF QueueLock, Goto, latchVars, workerVars, localVars
  <2> QED
    BY <2>1, <1>0, TokenStill DEF QueuedPc
<1>4. ASSUME NEW w \in Workers, QueueMark(w) PROVE TokenInv'
  <2>1. /\ pc[w] = "queueMark" /\ pc' = [pc EXCEPT ![w] = "queuePush"]
        /\ UNCHANGED <<sema, lockState, extraWaits, dequeueWaits, target>>
    BY <1>4 DEF QueueMark, Goto, latchVars, workerVars, localVars
  <2> QED
    BY <2>1, <1>0, TokenStill DEF QueuedPc
<1>5. ASSUME NEW w \in Workers, QueuePush(w) PROVE TokenInv'
  <2>1. /\ pc[w] = "queuePush" /\ pc' = [pc EXCEPT ![w] = "reattempt"] /\ UNCHANGED target
        /\ lockState' = [lockState EXCEPT ![w] = "Waiting"] /\ UNCHANGED <<sema, extraWaits, dequeueWaits>>
    BY <1>5 DEF QueuePush, Goto, localVars
  <2>2. \A v \in Workers \ {w} : /\ sema'[v] = sema[v] /\ extraWaits'[v] = extraWaits[v]
                                   /\ dequeueWaits'[v] = dequeueWaits[v]
                                   /\ pc'[v] = pc[v] /\ lockState'[v] = lockState[v]
    BY <2>1 DEF TypeOK
  <2>3. /\ sema[w] + extraWaits[w] + dequeueWaits[w] + InCheck(w) + Cardinality(Releasing(w))
             = 1 + Woken(w)
        /\ extraWaits[w] + dequeueWaits[w] <= 1
    BY <1>0 DEF TokenInv, TokensConserved
  <2>4. /\ sema[w] \in Nat /\ extraWaits[w] \in Nat /\ dequeueWaits[w] \in Nat
        /\ Cardinality(Releasing(w)) \in Nat
    BY TokensType
  <2>5. pc'[w] = "reattempt" /\ lockState'[w] = "Waiting"
    BY <2>1 DEF TypeOK
  <2>6. InCheck(w) = 0 /\ InCheck(w)' = 0 /\ Woken(w) = 0 /\ Woken(w)' = 0
    BY <2>1, <2>5 DEF InCheck, Woken, QueuedPc
  <2>7. /\ Tokens(w)' \in Nat /\ Tokens(w)' + Woken(w) = Tokens(w) + Woken(w)'
        /\ extraWaits'[w] + dequeueWaits'[w] <= 1
    BY <2>1, <2>3, <2>4, <2>5, <2>6 DEF Tokens
  <2> QED
    BY <2>1, <2>2, <2>7, <1>0, TokenMove DEF Woken
<1>6. ASSUME NEW w \in Workers, SecondAttempt(w) PROVE TokenInv'
  <2>1. CASE pc[w] = "reattempt" /\ pc' = [pc EXCEPT ![w] = "dequeueLock"]
    <3>1. UNCHANGED <<sema, lockState, extraWaits, dequeueWaits, target>>
      BY <1>6, <2>1 DEF SecondAttempt, latchVars, workerVars, localVars
    <3> QED
      BY <2>1, <3>1, <1>0, TokenStill DEF QueuedPc
  <2>2. CASE pc[w] = "reattempt" /\ pc' = [pc EXCEPT ![w] = "sleep"]
    <3>1. UNCHANGED <<sema, lockState, extraWaits, dequeueWaits, target>>
      BY <1>6, <2>2 DEF SecondAttempt, latchVars, workerVars, localVars
    <3> QED
      BY <2>2, <3>1, <1>0, TokenStill DEF QueuedPc
  <2> QED
    BY <1>6, <2>1, <2>2 DEF SecondAttempt, AttemptLock, Goto
<1>7. ASSUME NEW w \in Workers, SleepAcquire(w) PROVE TokenInv'
  <2>1. /\ pc[w] = "sleep" /\ pc' = [pc EXCEPT ![w] = "sleepCheck"] /\ UNCHANGED target
        /\ sema[w] > 0 /\ sema' = [sema EXCEPT ![w] = sema[w] - 1] /\ UNCHANGED <<lockState, extraWaits,
            dequeueWaits>>
    BY <1>7 DEF SleepAcquire, Goto, localVars
  <2>2. \A v \in Workers \ {w} : /\ sema'[v] = sema[v] /\ extraWaits'[v] = extraWaits[v]
                                   /\ dequeueWaits'[v] = dequeueWaits[v]
                                   /\ pc'[v] = pc[v] /\ lockState'[v] = lockState[v]
    BY <2>1 DEF TypeOK
  <2>3. /\ sema[w] + extraWaits[w] + dequeueWaits[w] + InCheck(w) + Cardinality(Releasing(w))
             = 1 + Woken(w)
        /\ extraWaits[w] + dequeueWaits[w] <= 1
    BY <1>0 DEF TokenInv, TokensConserved
  <2>4. /\ sema[w] \in Nat /\ extraWaits[w] \in Nat /\ dequeueWaits[w] \in Nat
        /\ Cardinality(Releasing(w)) \in Nat
    BY TokensType
  <2>5. pc'[w] = "sleepCheck" /\ sema'[w] = sema[w] - 1
    BY <2>1 DEF TypeOK
  <2>6. InCheck(w) = 0 /\ InCheck(w)' = 1 /\ Woken(w)' = Woken(w) /\ Woken(w) \in Nat
    BY <2>1, <2>5 DEF InCheck, Woken, QueuedPc
  <2>7. /\ Tokens(w)' \in Nat /\ Tokens(w)' + Woken(w) = Tokens(w) + Woken(w)'
        /\ extraWaits'[w] + dequeueWaits'[w] <= 1
    BY <2>1, <2>3, <2>4, <2>5, <2>6 DEF Tokens
  <2> QED
    BY <2>1, <2>2, <2>7, <1>0, TokenMove DEF Woken
<1>8. ASSUME NEW w \in Workers, SleepCheck(w) PROVE TokenInv'
  <2>1. CASE lockState[w] = "NotWaiting"
    <3>1. /\ pc[w] = "sleepCheck" /\ pc' = [pc EXCEPT ![w] = "reset"] /\ UNCHANGED target
          /\ lockState[w] = "NotWaiting" /\ UNCHANGED <<sema, lockState, extraWaits, dequeueWaits>>
      BY <1>8, <2>1 DEF SleepCheck, Goto, workerVars
    <3>2. \A v \in Workers \ {w} : /\ sema'[v] = sema[v] /\ extraWaits'[v] = extraWaits[v]
                                     /\ dequeueWaits'[v] = dequeueWaits[v]
                                     /\ pc'[v] = pc[v] /\ lockState'[v] = lockState[v]
      BY <3>1 DEF TypeOK
    <3>3. /\ sema[w] + extraWaits[w] + dequeueWaits[w] + InCheck(w) + Cardinality(Releasing(w))
               = 1 + Woken(w)
          /\ extraWaits[w] + dequeueWaits[w] <= 1
      BY <1>0 DEF TokenInv, TokensConserved
    <3>4. /\ sema[w] \in Nat /\ extraWaits[w] \in Nat /\ dequeueWaits[w] \in Nat
          /\ Cardinality(Releasing(w)) \in Nat
      BY TokensType
    <3>5. pc'[w] = "reset"
      BY <3>1 DEF TypeOK
    <3>6. InCheck(w) = 1 /\ InCheck(w)' = 0 /\ Woken(w) = 1 /\ Woken(w)' = 0
      BY <3>1, <3>5 DEF InCheck, Woken, QueuedPc
    <3>7. /\ Tokens(w)' \in Nat /\ Tokens(w)' + Woken(w) = Tokens(w) + Woken(w)'
          /\ extraWaits'[w] + dequeueWaits'[w] <= 1
      BY <3>1, <3>3, <3>4, <3>5, <3>6 DEF Tokens
    <3> QED
      BY <3>1, <3>2, <3>7, <1>0, TokenMove DEF Woken
  <2>2. CASE lockState[w] # "NotWaiting"
    <3>1. /\ pc[w] = "sleepCheck" /\ pc' = [pc EXCEPT ![w] = "sleep"] /\ UNCHANGED target
          /\ lockState[w] # "NotWaiting" /\ extraWaits' = [extraWaits EXCEPT ![w] = extraWaits[w] + 1] /\ UNCHANGED <<sema, lockState, dequeueWaits>>
      BY <1>8, <2>2 DEF SleepCheck, Goto, workerVars
    <3>2. \A v \in Workers \ {w} : /\ sema'[v] = sema[v] /\ extraWaits'[v] = extraWaits[v]
                                     /\ dequeueWaits'[v] = dequeueWaits[v]
                                     /\ pc'[v] = pc[v] /\ lockState'[v] = lockState[v]
      BY <3>1 DEF TypeOK
    <3>3. /\ sema[w] + extraWaits[w] + dequeueWaits[w] + InCheck(w) + Cardinality(Releasing(w))
               = 1 + Woken(w)
          /\ extraWaits[w] + dequeueWaits[w] <= 1
      BY <1>0 DEF TokenInv, TokensConserved
    <3>4. /\ sema[w] \in Nat /\ extraWaits[w] \in Nat /\ dequeueWaits[w] \in Nat
          /\ Cardinality(Releasing(w)) \in Nat
      BY TokensType
    <3>5. pc'[w] = "sleep" /\ extraWaits'[w] = extraWaits[w] + 1
      BY <3>1 DEF TypeOK
    <3>6. InCheck(w) = 1 /\ InCheck(w)' = 0 /\ Woken(w) = 0 /\ Woken(w)' = 0
      BY <3>1, <3>5 DEF InCheck, Woken, QueuedPc
    <3>7. /\ Tokens(w)' \in Nat /\ Tokens(w)' + Woken(w) = Tokens(w) + Woken(w)'
          /\ extraWaits'[w] + dequeueWaits'[w] <= 1
      BY <3>1, <3>3, <3>4, <3>5, <3>6 DEF Tokens
    <3> QED
      BY <3>1, <3>2, <3>7, <1>0, TokenMove DEF Woken
  <2> QED
    BY <2>1, <2>2
<1>9. ASSUME NEW w \in Workers, SleepReset(w) PROVE TokenInv'
  <2>1. /\ pc[w] = "reset" /\ pc' = [pc EXCEPT ![w] = "attempt"]
        /\ UNCHANGED <<sema, lockState, extraWaits, dequeueWaits, target>>
    BY <1>9 DEF SleepReset, Goto, latchVars, workerVars, localVars
  <2> QED
    BY <2>1, <1>0, TokenStill DEF QueuedPc
<1>10. ASSUME NEW w \in Workers, Granted(w) PROVE TokenInv'
  <2>1. /\ pc[w] = "granted" /\ pc' = [pc EXCEPT ![w] = "held"] /\ UNCHANGED target
        /\ sema' = [sema EXCEPT ![w] = sema[w] + extraWaits[w]]
        /\ extraWaits' = [extraWaits EXCEPT ![w] = 0] /\ UNCHANGED <<lockState, dequeueWaits>>
    BY <1>10 DEF Granted, Goto, localVars
  <2>2. \A v \in Workers \ {w} : /\ sema'[v] = sema[v] /\ extraWaits'[v] = extraWaits[v]
                                   /\ dequeueWaits'[v] = dequeueWaits[v]
                                   /\ pc'[v] = pc[v] /\ lockState'[v] = lockState[v]
    BY <2>1 DEF TypeOK
  <2>3. /\ sema[w] + extraWaits[w] + dequeueWaits[w] + InCheck(w) + Cardinality(Releasing(w))
             = 1 + Woken(w)
        /\ extraWaits[w] + dequeueWaits[w] <= 1
    BY <1>0 DEF TokenInv, TokensConserved
  <2>4. /\ sema[w] \in Nat /\ extraWaits[w] \in Nat /\ dequeueWaits[w] \in Nat
        /\ Cardinality(Releasing(w)) \in Nat
    BY TokensType
  <2>5. pc'[w] = "held" /\ sema'[w] = sema[w] + extraWaits[w] /\ extraWaits'[w] = 0
    BY <2>1 DEF TypeOK
  <2>6. InCheck(w) = 0 /\ InCheck(w)' = 0 /\ Woken(w) = 0 /\ Woken(w)' = 0
    BY <2>1, <2>5 DEF InCheck, Woken, QueuedPc
  <2>7. /\ Tokens(w)' \in Nat /\ Tokens(w)' + Woken(w) = Tokens(w) + Woken(w)'
        /\ extraWaits'[w] + dequeueWaits'[w] <= 1
    BY <2>1, <2>3, <2>4, <2>5, <2>6 DEF Tokens
  <2> QED
    BY <2>1, <2>2, <2>7, <1>0, TokenMove DEF Woken
<1>11. ASSUME NEW w \in Workers, DequeueLock(w) PROVE TokenInv'
  <2>1. CASE lockState[w] = "Waiting"
    <3>1. /\ pc[w] = "dequeueLock" /\ pc' = [pc EXCEPT ![w] = "dequeueSelf"]
          /\ UNCHANGED <<sema, lockState, extraWaits, dequeueWaits, target>>
      BY <1>11, <2>1 DEF DequeueLock, Goto, workerVars, localVars
    <3> QED
      BY <2>1, <3>1, <1>0, TokenStill
  <2>2. CASE lockState[w] # "Waiting"
    <3>1. /\ pc[w] = "dequeueLock" /\ pc' = [pc EXCEPT ![w] = "dequeueWoken"]
          /\ UNCHANGED <<sema, lockState, extraWaits, dequeueWaits, target>>
      BY <1>11, <2>2 DEF DequeueLock, Goto, workerVars, localVars
    <3> QED
      BY <3>1, <1>0, TokenStill DEF QueuedPc
  <2> QED
    BY <2>1, <2>2
<1>12. ASSUME NEW w \in Workers, DequeueFlag(w) PROVE TokenInv'
  <2>1. CASE pc[w] = "dequeueSelf" /\ pc' = [pc EXCEPT ![w] = "dequeueSelfUnlock"]
    <3>1. UNCHANGED <<sema, lockState, extraWaits, dequeueWaits, target>>
      BY <1>12, <2>1 DEF DequeueFlag, latchVars, workerVars, localVars
    <3> QED
      BY <2>1, <3>1, <1>0, TokenStill DEF QueuedPc
  <2>2. CASE pc[w] = "dequeueWoken" /\ pc' = [pc EXCEPT ![w] = "dequeueWokenUnlock"]
    <3>1. UNCHANGED <<sema, lockState, extraWaits, dequeueWaits, target>>
      BY <1>12, <2>2 DEF DequeueFlag, latchVars, workerVars, localVars
    <3> QED
      BY <2>2, <3>1, <1>0, TokenStill DEF QueuedPc
  <2> QED
    BY <1>12, <2>1, <2>2 DEF DequeueFlag, Goto
<1>13. ASSUME NEW w \in Workers, DequeueUnlock(w) PROVE TokenInv'
  <2>1. CASE pc[w] = "dequeueSelfUnlock" /\ pc' = [pc EXCEPT ![w] = "granted"]
    <3>1. /\ pc[w] = "dequeueSelfUnlock" /\ pc' = [pc EXCEPT ![w] = "granted"] /\ UNCHANGED target
          /\ lockState' = [lockState EXCEPT ![w] = "NotWaiting"] /\ UNCHANGED <<sema, extraWaits,
              dequeueWaits>>
      BY <1>13, <2>1 DEF DequeueUnlock, Goto, localVars
    <3>2. \A v \in Workers \ {w} : /\ sema'[v] = sema[v] /\ extraWaits'[v] = extraWaits[v]
                                     /\ dequeueWaits'[v] = dequeueWaits[v]
                                     /\ pc'[v] = pc[v] /\ lockState'[v] = lockState[v]
      BY <3>1 DEF TypeOK
    <3>3. /\ sema[w] + extraWaits[w] + dequeueWaits[w] + InCheck(w) + Cardinality(Releasing(w))
               = 1 + Woken(w)
          /\ extraWaits[w] + dequeueWaits[w] <= 1
      BY <1>0 DEF TokenInv, TokensConserved
    <3>4. /\ sema[w] \in Nat /\ extraWaits[w] \in Nat /\ dequeueWaits[w] \in Nat
          /\ Cardinality(Releasing(w)) \in Nat
      BY TokensType
    <3>5. pc'[w] = "granted"
      BY <3>1 DEF TypeOK
    <3>6. InCheck(w) = 0 /\ InCheck(w)' = 0 /\ Woken(w) = 0 /\ Woken(w)' = 0
      BY <3>1, <3>5 DEF InCheck, Woken, QueuedPc
    <3>7. /\ Tokens(w)' \in Nat /\ Tokens(w)' + Woken(w) = Tokens(w) + Woken(w)'
          /\ extraWaits'[w] + dequeueWaits'[w] <= 1
      BY <3>1, <3>3, <3>4, <3>5, <3>6 DEF Tokens
    <3> QED
      BY <3>1, <3>2, <3>7, <1>0, TokenMove DEF Woken
  <2>2. CASE pc[w] = "dequeueWokenUnlock" /\ pc' = [pc EXCEPT ![w] = "dequeueReset"]
    <3>1. UNCHANGED <<sema, lockState, extraWaits, dequeueWaits, target>>
      BY <1>13, <2>2 DEF DequeueUnlock, Goto, localVars
    <3> QED
      BY <2>2, <3>1, <1>0, TokenStill DEF QueuedPc
  <2> QED
    BY <1>13, <2>1, <2>2 DEF DequeueUnlock, Goto
<1>14. ASSUME NEW w \in Workers, DequeueReset(w) PROVE TokenInv'
  <2>1. /\ pc[w] = "dequeueReset" /\ pc' = [pc EXCEPT ![w] = "dequeueSleep"]
        /\ UNCHANGED <<sema, lockState, extraWaits, dequeueWaits, target>>
    BY <1>14 DEF DequeueReset, Goto, latchVars, workerVars, localVars
  <2> QED
    BY <2>1, <1>0, TokenStill DEF QueuedPc
<1>15. ASSUME NEW w \in Workers, DequeueAcquire(w) PROVE TokenInv'
  <2>1. /\ pc[w] = "dequeueSleep" /\ pc' = [pc EXCEPT ![w] = "dequeueCheck"] /\ UNCHANGED target
        /\ sema[w] > 0 /\ sema' = [sema EXCEPT ![w] = sema[w] - 1] /\ UNCHANGED <<lockState, extraWaits,
            dequeueWaits>>
    BY <1>15 DEF DequeueAcquire, Goto, localVars
  <2>2. \A v \in Workers \ {w} : /\ sema'[v] = sema[v] /\ extraWaits'[v] = extraWaits[v]
                                   /\ dequeueWaits'[v] = dequeueWaits[v]
                                   /\ pc'[v] = pc[v] /\ lockState'[v] = lockState[v]
    BY <2>1 DEF TypeOK
  <2>3. /\ sema[w] + extraWaits[w] + dequeueWaits[w] + InCheck(w) + Cardinality(Releasing(w))
             = 1 + Woken(w)
        /\ extraWaits[w] + dequeueWaits[w] <= 1
    BY <1>0 DEF TokenInv, TokensConserved
  <2>4. /\ sema[w] \in Nat /\ extraWaits[w] \in Nat /\ dequeueWaits[w] \in Nat
        /\ Cardinality(Releasing(w)) \in Nat
    BY TokensType
  <2>5. pc'[w] = "dequeueCheck" /\ sema'[w] = sema[w] - 1
    BY <2>1 DEF TypeOK
  <2>6. InCheck(w) = 0 /\ InCheck(w)' = 1 /\ Woken(w)' = Woken(w) /\ Woken(w) \in Nat
    BY <2>1, <2>5 DEF InCheck, Woken, QueuedPc
  <2>7. /\ Tokens(w)' \in Nat /\ Tokens(w)' + Woken(w) = Tokens(w) + Woken(w)'
        /\ extraWaits'[w] + dequeueWaits'[w] <= 1
    BY <2>1, <2>3, <2>4, <2>5, <2>6 DEF Tokens
  <2> QED
    BY <2>1, <2>2, <2>7, <1>0, TokenMove DEF Woken
<1>16. ASSUME NEW w \in Workers, DequeueCheck(w) PROVE TokenInv'
  <2>1. CASE lockState[w] = "NotWaiting"
    <3>1. /\ pc[w] = "dequeueCheck" /\ pc' = [pc EXCEPT ![w] = "dequeueReturn"] /\ UNCHANGED target
          /\ lockState[w] = "NotWaiting" /\ UNCHANGED <<sema, lockState, extraWaits, dequeueWaits>>
      BY <1>16, <2>1 DEF DequeueCheck, Goto, workerVars
    <3>2. \A v \in Workers \ {w} : /\ sema'[v] = sema[v] /\ extraWaits'[v] = extraWaits[v]
                                     /\ dequeueWaits'[v] = dequeueWaits[v]
                                     /\ pc'[v] = pc[v] /\ lockState'[v] = lockState[v]
      BY <3>1 DEF TypeOK
    <3>3. /\ sema[w] + extraWaits[w] + dequeueWaits[w] + InCheck(w) + Cardinality(Releasing(w))
               = 1 + Woken(w)
          /\ extraWaits[w] + dequeueWaits[w] <= 1
      BY <1>0 DEF TokenInv, TokensConserved
    <3>4. /\ sema[w] \in Nat /\ extraWaits[w] \in Nat /\ dequeueWaits[w] \in Nat
          /\ Cardinality(Releasing(w)) \in Nat
      BY TokensType
    <3>5. pc'[w] = "dequeueReturn"
      BY <3>1 DEF TypeOK
    <3>6. InCheck(w) = 1 /\ InCheck(w)' = 0 /\ Woken(w) = 1 /\ Woken(w)' = 0
      BY <3>1, <3>5 DEF InCheck, Woken, QueuedPc
    <3>7. /\ Tokens(w)' \in Nat /\ Tokens(w)' + Woken(w) = Tokens(w) + Woken(w)'
          /\ extraWaits'[w] + dequeueWaits'[w] <= 1
      BY <3>1, <3>3, <3>4, <3>5, <3>6 DEF Tokens
    <3> QED
      BY <3>1, <3>2, <3>7, <1>0, TokenMove DEF Woken
  <2>2. CASE lockState[w] # "NotWaiting"
    <3>1. /\ pc[w] = "dequeueCheck" /\ pc' = [pc EXCEPT ![w] = "dequeueSleep"] /\ UNCHANGED target
          /\ lockState[w] # "NotWaiting" /\ dequeueWaits' = [dequeueWaits EXCEPT ![w] = dequeueWaits[w] + 1] /\ UNCHANGED <<sema, lockState, extraWaits>>
      BY <1>16, <2>2 DEF DequeueCheck, Goto, workerVars
    <3>2. \A v \in Workers \ {w} : /\ sema'[v] = sema[v] /\ extraWaits'[v] = extraWaits[v]
                                     /\ dequeueWaits'[v] = dequeueWaits[v]
                                     /\ pc'[v] = pc[v] /\ lockState'[v] = lockState[v]
      BY <3>1 DEF TypeOK
    <3>3. /\ sema[w] + extraWaits[w] + dequeueWaits[w] + InCheck(w) + Cardinality(Releasing(w))
               = 1 + Woken(w)
          /\ extraWaits[w] + dequeueWaits[w] <= 1
      BY <1>0 DEF TokenInv, TokensConserved
    <3>4. /\ sema[w] \in Nat /\ extraWaits[w] \in Nat /\ dequeueWaits[w] \in Nat
          /\ Cardinality(Releasing(w)) \in Nat
      BY TokensType
    <3>5. pc'[w] = "dequeueSleep" /\ dequeueWaits'[w] = dequeueWaits[w] + 1
      BY <3>1 DEF TypeOK
    <3>6. InCheck(w) = 1 /\ InCheck(w)' = 0 /\ Woken(w) = 0 /\ Woken(w)' = 0
      BY <3>1, <3>5 DEF InCheck, Woken, QueuedPc
    <3>7. /\ Tokens(w)' \in Nat /\ Tokens(w)' + Woken(w) = Tokens(w) + Woken(w)'
          /\ extraWaits'[w] + dequeueWaits'[w] <= 1
      BY <3>1, <3>3, <3>4, <3>5, <3>6 DEF Tokens
    <3> QED
      BY <3>1, <3>2, <3>7, <1>0, TokenMove DEF Woken
  <2> QED
    BY <2>1, <2>2
<1>17. ASSUME NEW w \in Workers, DequeueReturn(w) PROVE TokenInv'
  <2>1. /\ pc[w] = "dequeueReturn" /\ pc' = [pc EXCEPT ![w] = "granted"] /\ UNCHANGED target
        /\ sema' = [sema EXCEPT ![w] = sema[w] + dequeueWaits[w]]
        /\ dequeueWaits' = [dequeueWaits EXCEPT ![w] = 0] /\ UNCHANGED <<lockState, extraWaits>>
    BY <1>17 DEF DequeueReturn, Goto, localVars
  <2>2. \A v \in Workers \ {w} : /\ sema'[v] = sema[v] /\ extraWaits'[v] = extraWaits[v]
                                   /\ dequeueWaits'[v] = dequeueWaits[v]
                                   /\ pc'[v] = pc[v] /\ lockState'[v] = lockState[v]
    BY <2>1 DEF TypeOK
  <2>3. /\ sema[w] + extraWaits[w] + dequeueWaits[w] + InCheck(w) + Cardinality(Releasing(w))
             = 1 + Woken(w)
        /\ extraWaits[w] + dequeueWaits[w] <= 1
    BY <1>0 DEF TokenInv, TokensConserved
  <2>4. /\ sema[w] \in Nat /\ extraWaits[w] \in Nat /\ dequeueWaits[w] \in Nat
        /\ Cardinality(Releasing(w)) \in Nat
    BY TokensType
  <2>5. pc'[w] = "granted" /\ sema'[w] = sema[w] + dequeueWaits[w] /\ dequeueWaits'[w] = 0
    BY <2>1 DEF TypeOK
  <2>6. InCheck(w) = 0 /\ InCheck(w)' = 0 /\ Woken(w) = 0 /\ Woken(w)' = 0
    BY <2>1, <2>5 DEF InCheck, Woken, QueuedPc
  <2>7. /\ Tokens(w)' \in Nat /\ Tokens(w)' + Woken(w) = Tokens(w) + Woken(w)'
        /\ extraWaits'[w] + dequeueWaits'[w] <= 1
    BY <2>1, <2>3, <2>4, <2>5, <2>6 DEF Tokens
  <2> QED
    BY <2>1, <2>2, <2>7, <1>0, TokenMove DEF Woken
<1>18. ASSUME NEW w \in Workers, Unlock(w) PROVE TokenInv'
  <2>1. CASE pc[w] = "held" /\ pc' = [pc EXCEPT ![w] = "unlockedWakeup"]
    <3>1. UNCHANGED <<sema, lockState, extraWaits, dequeueWaits, target>>
      BY <1>18, <2>1 DEF Unlock, latchVars, workerVars, localVars
    <3> QED
      BY <2>1, <3>1, <1>0, TokenStill DEF QueuedPc
  <2>2. CASE pc[w] = "held" /\ pc' = [pc EXCEPT ![w] = "unlockedReturn"]
    <3>1. UNCHANGED <<sema, lockState, extraWaits, dequeueWaits, target>>
      BY <1>18, <2>2 DEF Unlock, latchVars, workerVars, localVars
    <3> QED
      BY <2>2, <3>1, <1>0, TokenStill DEF QueuedPc
  <2> QED
    BY <1>18, <2>1, <2>2 DEF Unlock, Goto
<1>19. ASSUME NEW w \in Workers, UnlockAssert(w) PROVE TokenInv'
  <2>1. CASE pc[w] = "unlockedWakeup" /\ pc' = [pc EXCEPT ![w] = "wakeupLock"]
    <3>1. UNCHANGED <<sema, lockState, extraWaits, dequeueWaits, target>>
      BY <1>19, <2>1 DEF UnlockAssert, latchVars, workerVars, localVars
    <3> QED
      BY <2>1, <3>1, <1>0, TokenStill DEF QueuedPc
  <2>2. CASE pc[w] = "unlockedReturn" /\ pc' = [pc EXCEPT ![w] = "idle"]
    <3>1. UNCHANGED <<sema, lockState, extraWaits, dequeueWaits, target>>
      BY <1>19, <2>2 DEF UnlockAssert, latchVars, workerVars, localVars
    <3> QED
      BY <2>2, <3>1, <1>0, TokenStill DEF QueuedPc
  <2> QED
    BY <1>19, <2>1, <2>2 DEF UnlockAssert, Goto
<1>20. ASSUME NEW w \in Workers, WakeupLock(w) PROVE TokenInv'
  <2>1. /\ pc[w] = "wakeupLock" /\ pc' = [pc EXCEPT ![w] = "wakeupScan"]
        /\ UNCHANGED <<sema, lockState, extraWaits, dequeueWaits, target>>
    BY <1>20 DEF WakeupLock, Goto, latchVars, workerVars, localVars
  <2> QED
    BY <2>1, <1>0, TokenStill DEF QueuedPc
<1>21. ASSUME NEW w \in Workers, WakeupScan(w) PROVE TokenInv'
  <2>1. /\ pc[w] = "wakeupScan" /\ pc' = [pc EXCEPT ![w] = "wakeupPublish"]
        /\ UNCHANGED <<sema, extraWaits, dequeueWaits, target>>
        /\ lockState' = [v \in Workers |-> IF v \in ToWakeup THEN "PendingWakeup" ELSE lockState[v]]
    BY <1>21 DEF WakeupScan, Goto
  <2>2. \A v \in ToWakeup : lockState[v] = "Waiting"
    BY <1>0, ToWakeupType DEF QueueInv
  <2>3. \A v \in Workers : Woken(v)' = Woken(v) /\ InCheck(v)' = InCheck(v)
    BY <2>1, <2>2 DEF Woken, InCheck, QueuedPc, TypeOK
  <2>4. Tokens(w)' = Tokens(w) /\ Tokens(w) \in Nat /\ Woken(w) \in Nat
    BY <2>1, <2>3, TokensType DEF Tokens
  <2>5. extraWaits'[w] + dequeueWaits'[w] <= 1
    BY <2>1 DEF TokenInv
  <2> QED
    BY <2>1, <2>3, <2>4, <2>5, <1>0, TokenMove
<1>22. ASSUME NEW w \in Workers, WakeupPublish(w) PROVE TokenInv'
  <2>1. /\ pc[w] = "wakeupPublish" /\ pc' = [pc EXCEPT ![w] = "wakeupNext"]
        /\ UNCHANGED <<sema, lockState, extraWaits, dequeueWaits, target>>
    BY <1>22 DEF WakeupPublish, Goto, latchVars, workerVars, localVars
  <2> QED
    BY <2>1, <1>0, TokenStill DEF QueuedPc
<1>23. ASSUME NEW w \in Workers, WakeupNext(w) PROVE TokenInv'
  <2>0. PICK h : h = Head(wakeupList[w])
    OBVIOUS
  <2>1. /\ pc[w] = "wakeupNext" /\ pc' = [pc EXCEPT ![w] = "wakeupRelease"]
        /\ wakeupList[w] # <<>> /\ target' = [target EXCEPT ![w] = h]
        /\ lockState' = [lockState EXCEPT ![h] = "NotWaiting"]
        /\ UNCHANGED <<sema, extraWaits, dequeueWaits>>
    BY <1>23, <2>0 DEF WakeupNext, Goto
  <2>2. h \in Pending(w) /\ h \in Workers
    BY <2>0, <2>1, TailElems DEF TypeOK, QueueInv, Pending
  <2>3. lockState[h] = "PendingWakeup" /\ pc[h] \in QueuedPc /\ h # w
    BY <2>1, <2>2 DEF QueueInv, QueuedPc
  <2>4. /\ \A v \in Workers : pc'[v] = IF v = w THEN "wakeupRelease" ELSE pc[v]
        /\ \A v \in Workers : lockState'[v] = IF v = h THEN "NotWaiting" ELSE lockState[v]
        /\ \A v \in Workers : target'[v] = IF v = w THEN h ELSE target[v]
    <3>1. \A v \in Workers : pc'[v] = IF v = w THEN "wakeupRelease" ELSE pc[v]
      BY <2>1 DEF TypeOK
    <3>2. \A v \in Workers : lockState'[v] = IF v = h THEN "NotWaiting" ELSE lockState[v]
      BY <2>1, <2>2 DEF TypeOK
    <3>3. \A v \in Workers : target'[v] = IF v = w THEN h ELSE target[v]
      BY <2>1 DEF TypeOK
    <3> QED
      BY <3>1, <3>2, <3>3
  <2>5. Releasing(h)' = Releasing(h) \cup {w} /\ w \notin Releasing(h)
    BY <2>1, <2>4 DEF Releasing
  <2>6. \A v \in Workers \ {h} : Releasing(v)' = Releasing(v)
    BY <2>1, <2>4 DEF Releasing
  <2>7. Cardinality(Releasing(h)') = Cardinality(Releasing(h)) + 1
    BY <2>2, <2>5, TokensType, FS_AddElement
  <2>8. \A v \in Workers : Tokens(v)' = Tokens(v)
    BY <2>1, <2>4 DEF Tokens, InCheck
  <2>9. /\ Woken(h) = 0 /\ Woken(h)' = 1
        /\ \A v \in Workers \ {h} : Woken(v)' = Woken(v)
    BY <2>1, <2>2, <2>3, <2>4 DEF Woken, QueuedPc
  <2>10. ASSUME NEW v \in Workers
        PROVE  /\ Tokens(v)' + Cardinality(Releasing(v)') = 1 + Woken(v)'
               /\ extraWaits'[v] + dequeueWaits'[v] <= 1
    <3>1. /\ Tokens(v) + Cardinality(Releasing(v)) = 1 + Woken(v)
          /\ extraWaits[v] + dequeueWaits[v] <= 1
          /\ Tokens(v) \in Nat /\ Cardinality(Releasing(v)) \in Nat /\ Woken(v) \in {0, 1}
      BY TokensSum, TokensType DEF TokenInv, TokensConserved
    <3>2. CASE v = h
      BY <2>1, <2>6, <2>7, <2>8, <2>9, <3>1, <3>2
    <3>3. CASE v # h
      BY <2>1, <2>6, <2>7, <2>8, <2>9, <3>1, <3>3
    <3> QED
      BY <3>2, <3>3
  <2>11. TokensConserved'
    BY <2>10 DEF TokensConserved, Tokens
  <2> QED
    BY <2>10, <2>11 DEF TokenInv
<1>24. ASSUME NEW w \in Workers, WakeupRelease(w) PROVE TokenInv'
  <2>0. PICK h \in Workers : h = target[w]
    BY DEF TypeOK
  <2>1. /\ pc[w] = "wakeupRelease" /\ pc' = [pc EXCEPT ![w] = "wakeupNext"]
        /\ target' = [target EXCEPT ![w] = w] /\ sema' = [sema EXCEPT ![h] = sema[h] + 1]
        /\ UNCHANGED <<lockState, extraWaits, dequeueWaits>>
    BY <1>24, <2>0 DEF WakeupRelease, Goto
  <2>2. /\ \A v \in Workers : pc'[v] = IF v = w THEN "wakeupNext" ELSE pc[v]
        /\ \A v \in Workers : target'[v] = IF v = w THEN w ELSE target[v]
        /\ \A v \in Workers : sema'[v] = IF v = h THEN sema[v] + 1 ELSE sema[v]
    <3>1. \A v \in Workers : pc'[v] = IF v = w THEN "wakeupNext" ELSE pc[v]
      BY <2>1 DEF TypeOK
    <3>2. \A v \in Workers : target'[v] = IF v = w THEN w ELSE target[v]
      BY <2>1 DEF TypeOK
    <3>3. \A v \in Workers : sema'[v] = IF v = h THEN sema[v] + 1 ELSE sema[v]
      BY <2>1 DEF TypeOK
    <3> QED
      BY <3>1, <3>2, <3>3
  <2>3. Releasing(h)' = Releasing(h) \ {w} /\ w \in Releasing(h)
    BY <2>0, <2>1, <2>2 DEF Releasing
  <2>4. \A v \in Workers \ {h} : Releasing(v)' = Releasing(v)
    BY <2>0, <2>1, <2>2 DEF Releasing
  <2>5. Cardinality(Releasing(h)') = Cardinality(Releasing(h)) - 1
    BY <2>3, TokensType, FS_RemoveElement
  <2>6. \A v \in Workers : Woken(v)' = Woken(v) /\ InCheck(v)' = InCheck(v)
    BY <2>1, <2>2 DEF Woken, InCheck, QueuedPc
  <2>7. \A v \in Workers : Tokens(v)' = IF v = h THEN Tokens(v) + 1 ELSE Tokens(v)
    <3> SUFFICES ASSUME NEW v \in Workers
                 PROVE  Tokens(v)' = IF v = h THEN Tokens(v) + 1 ELSE Tokens(v)
      OBVIOUS
    <3>1. /\ sema[v] \in Nat /\ extraWaits[v] \in Nat /\ dequeueWaits[v] \in Nat /\ InCheck(v) \in Nat
          /\ extraWaits'[v] = extraWaits[v] /\ dequeueWaits'[v] = dequeueWaits[v]
      BY <2>1, TokensType
    <3> QED
      BY <2>2, <2>6, <3>1 DEF Tokens
  <2>8. ASSUME NEW v \in Workers
        PROVE  /\ Tokens(v)' + Cardinality(Releasing(v)') = 1 + Woken(v)'
               /\ extraWaits'[v] + dequeueWaits'[v] <= 1
    <3>1. /\ Tokens(v) + Cardinality(Releasing(v)) = 1 + Woken(v)
          /\ extraWaits[v] + dequeueWaits[v] <= 1
          /\ Tokens(v) \in Nat /\ Cardinality(Releasing(v)) \in Nat /\ Woken(v) \in {0, 1}
      BY TokensSum, TokensType DEF TokenInv, TokensConserved
    <3>2. CASE v = h
      BY <2>1, <2>4, <2>5, <2>6, <2>7, <3>1, <3>2
    <3>3. CASE v # h
      BY <2>1, <2>4, <2>5, <2>6, <2>7, <3>1, <3>3
    <3> QED
      BY <3>2, <3>3
  <2>9. TokensConserved'
    BY <2>8 DEF TokensConserved, Tokens
  <2> QED
    BY <2>8, <2>9 DEF TokenInv
<1>25. ASSUME NEW w \in Workers, WakeupDone(w) PROVE TokenInv'
  <2>1. /\ pc[w] = "wakeupNext" /\ pc' = [pc EXCEPT ![w] = "idle"]
        /\ UNCHANGED <<sema, lockState, extraWaits, dequeueWaits, target>>
    BY <1>25 DEF WakeupDone, Goto, latchVars, workerVars, localVars
  <2> QED
    BY <2>1, <1>0, TokenStill DEF QueuedPc
<1>26. CASE UNCHANGED vars
  <2>1. UNCHANGED <<sema, extraWaits, dequeueWaits, lockState, pc, target>>
    BY <1>26 DEF vars, latchVars, workerVars, localVars
  <2>2. \A v \in Workers : /\ Releasing(v)' = Releasing(v) /\ InCheck(v)' = InCheck(v)
                          /\ Woken(v)' = Woken(v)
    BY <2>1 DEF Releasing, InCheck, Woken
  <2> QED
    BY <2>1, <2>2 DEF TokenInv, TokensConserved
<1> QED
  BY <1>1, <1>2, <1>3, <1>4, <1>5, <1>6, <1>7, <1>8, <1>9, <1>10, <1>11,
     <1>12, <1>13, <1>14, <1>15, <1>16, <1>17, <1>18, <1>19, <1>20, <1>21,
     <1>22, <1>23, <1>24, <1>25, <1>26
  DEF Next, LockStep, UnlockStep

-----------------------------------------------------------------------------
(* The theorems                                                             *)

\* The inductive invariant holds in every reachable state.
THEOREM Invariance == Spec => []IndInv
<1>1. Init => IndInv
  <2> SUFFICES ASSUME Init PROVE IndInv
    OBVIOUS
  <2>1. TypeOK
    <3>1. <<>> \in Seq(Workers) /\ Share \in Modes /\ "NotWaiting" \in LockStates /\ "idle" \in OtherPc
      BY DEF Modes, LockStates, OtherPc
    <3>2. lockMode \in [Workers -> Modes] /\ lockState \in [Workers -> LockStates]
      BY <3>1 DEF Init
    <3>3. wakeupList \in [Workers -> Seq(Workers)] /\ target \in [Workers -> Workers]
      BY <3>1 DEF Init
    <3>4. pc \in [Workers -> HoldingPc \cup ListPc \cup QueuedPc \cup WakerPc \cup OtherPc]
      BY <3>1 DEF Init
    <3> QED
      BY <3>1, <3>2, <3>3, <3>4 DEF Init, TypeOK
  <2>2. ListLockInv /\ CountInv /\ FlagInv
    BY DEF Init, ListLockInv, CountInv, FlagInv, Holders, HoldingPc, ListPc
  <2>3. QueueInv
    BY DEF Init, QueueInv, NoRepetition, Pending, Elems
  <2>4. \A w \in Workers : Releasing(w) = {} /\ InCheck(w) = 0 /\ Woken(w) = 0
    BY DEF Init, Releasing, InCheck, Woken, QueuedPc
  <2>5. TokenInv
    <3>1. Cardinality({}) = 0
      BY FS_EmptySet
    <3>2. \A w \in Workers : sema[w] = 1 /\ extraWaits[w] = 0 /\ dequeueWaits[w] = 0
      BY DEF Init
    <3>3. \A w \in Workers : Cardinality(Releasing(w)) = 0
      BY <2>4, <3>1
    <3> QED
      BY <2>4, <3>2, <3>3 DEF TokenInv, TokensConserved
  <2> QED
    BY <2>1, <2>2, <2>3, <2>5 DEF IndInv
<1>2. IndInv /\ [Next]_vars => IndInv'
  BY TypeStep, ListLockStep, CountStep, FlagStep, QueueStep, TokenStep DEF IndInv
<1> QED
  BY <1>1, <1>2, PTL DEF Spec

\* The latch word, the worker locks and the locals keep their types.
THEOREM TypeCorrect == Spec => []TypeOK
<1>1. IndInv => TypeOK
  BY DEF IndInv
<1> QED
  BY <1>1, Invariance, PTL

\* Lock() never lets a worker in beside an exclusive holder, for any number of
\* workers and any interleaving of their steps.
THEOREM ExclusionHolds == Spec => []MutualExclusion
<1>1. IndInv => MutualExclusion
  BY DEF IndInv, CountInv, MutualExclusion
<1> QED
  BY <1>1, Invariance, PTL

\* HasWaiters is exact whenever the list lock is free.
THEOREM FlagHolds == Spec => []WaitersFlagged
<1>1. IndInv => WaitersFlagged
  BY DEF IndInv, FlagInv, ListLockInv, WaitersFlagged, ListPc
<1> QED
  BY <1>1, Invariance, PTL

\* queueSelf(), dequeueSelf() and wakeup() never put a worker into two lists or
\* leave a lock state that contradicts the lists.
THEOREM MembershipHolds == Spec => []ListMembership
<1>1. IndInv => ListMembership
  BY DEF IndInv, QueueInv, ListMembership, NoRepetition
<1> QED
  BY <1>1, Invariance, PTL

\* The spurious-wakeup accounting of Lock() and dequeueSelf() loses no
\* semaphore token and makes none up.
THEOREM TokensHold == Spec => []TokensConserved
<1>1. IndInv => TokensConserved
  BY DEF IndInv, TokenInv
<1> QED
  BY <1>1, Invariance, PTL

\* No worker that wakeup() has released waits for a token that was given away.
THEOREM WokenTokenHolds == Spec => []WokenHasToken
<1>1. ASSUME IndInv PROVE WokenHasToken
  <2> SUFFICES ASSUME NEW w \in Workers, Woken(w) = 1
               PROVE  sema[w] + InCheck(w) + Cardinality(Releasing(w)) >= 1
    BY DEF WokenHasToken
  <2>1. /\ sema[w] + extraWaits[w] + dequeueWaits[w] + InCheck(w) + Cardinality(Releasing(w)) = 2
        /\ extraWaits[w] + dequeueWaits[w] <= 1
    BY <1>1 DEF IndInv, TokenInv, TokensConserved
  <2>2. /\ sema[w] \in Nat /\ extraWaits[w] \in Nat /\ dequeueWaits[w] \in Nat
        /\ InCheck(w) \in Nat /\ Cardinality(Releasing(w)) \in Nat
    BY <1>1, TokensType DEF IndInv
  <2> QED
    BY <2>1, <2>2
<1> QED
  BY <1>1, Invariance, PTL

\* The abstract owners change only by a grant nobody conflicts with or by a
\* release: Lock() and Unlock() implement the abstract latch.
THEOREM Refinement == Spec => ImplementsLatch
<1>1. Init => Abstract!Init
  BY DEF Init, Abstract!Init, Owner, HoldingPc
<1>2. IndInv /\ IndInv' /\ [Next]_vars => [Abstract!Next]_Owner
  <2> SUFFICES ASSUME IndInv, IndInv', [Next]_vars
               PROVE  [Abstract!Next]_Owner
    OBVIOUS
  <2> USE DEF Abstract!Next, Abstract!Modes, Abstract!Share, Abstract!Exclusive, Modes, Share, Exclusive
  <2>0. TypeOK /\ CountInv /\ CountInv'
    BY DEF IndInv
  <2>1. ASSUME NEW w \in Workers, NEW to, pc' = [pc EXCEPT ![w] = to],
               pc[w] \in HoldingPc <=> to \in HoldingPc,
               \A v \in Workers : pc[v] \in HoldingPc => lockMode'[v] = lockMode[v]
        PROVE  UNCHANGED Owner
    <3>1. \A v \in Workers : pc'[v] = IF v = w THEN to ELSE pc[v]
      BY <2>0, <2>1 DEF TypeOK
    <3> QED
      BY <2>1, <3>1 DEF Owner
  <2>2. ASSUME NEW w \in Workers, NEW to, pc' = [pc EXCEPT ![w] = to], UNCHANGED lockMode,
               lockCount = 0, to \in HoldingPc
        PROVE  Abstract!Acquire(w, lockMode[w])
    <3>1. Holders = {}
      BY <2>0, <2>2, ExclusiveIsLarge DEF CountInv, LockValue, SharedLockValue
    <3>2. Owner = [v \in Workers |-> "none"]
      BY <3>1 DEF Owner, Holders
    <3>3. \A v \in Workers : pc'[v] = IF v = w THEN to ELSE pc[v]
      BY <2>0, <2>2 DEF TypeOK
    <3>4. Owner' = [Owner EXCEPT ![w] = lockMode[w]]
      BY <2>2, <3>1, <3>2, <3>3 DEF Owner, Holders
    <3> QED
      BY <3>2, <3>4 DEF Abstract!Acquire
  <2>3. ASSUME NEW w \in Workers, Unlock(w)
        PROVE  Abstract!Release(w)
    <3>1. /\ pc[w] = "held" /\ UNCHANGED lockMode
          /\ \A v \in Workers \ {w} : pc'[v] = pc[v]
          /\ pc'[w] \in {"unlockedWakeup", "unlockedReturn"}
      BY <2>0, <2>3 DEF Unlock, Goto, TypeOK, workerVars
    <3>2. Owner[w] # "none"
      BY <2>0, <3>1 DEF Owner, TypeOK, HoldingPc
    <3>3. Owner' = [Owner EXCEPT ![w] = "none"]
      BY <3>1 DEF Owner, HoldingPc
    <3> QED
      BY <3>2, <3>3 DEF Abstract!Release
  <2>4. ASSUME NEW w \in Workers, NEW mode \in Modes, StartLock(w, mode) PROVE UNCHANGED Owner
    <3>1. /\ pc[w] = "idle" /\ pc' = [pc EXCEPT ![w] = "attempt"]
          /\ lockMode' = [lockMode EXCEPT ![w] = mode]
      BY <2>4 DEF StartLock, Goto
    <3>2. \A v \in Workers : pc[v] \in HoldingPc => lockMode'[v] = lockMode[v]
      BY <2>0, <3>1 DEF TypeOK, HoldingPc
    <3> QED
      BY <2>1, <3>1, <3>2 DEF HoldingPc
  <2>5. ASSUME NEW w \in Workers, FirstAttempt(w)
        PROVE  Abstract!Acquire(w, lockMode[w]) \/ UNCHANGED Owner
    <3>1. CASE lockCount = 0
      <4>1. pc' = [pc EXCEPT ![w] = "granted"] /\ UNCHANGED lockMode
        BY <2>5, <3>1 DEF FirstAttempt, AttemptLock, Goto, workerVars
      <4> QED
        BY <2>2, <3>1, <4>1 DEF HoldingPc
    <3>2. CASE lockCount # 0
      <4>1. pc[w] = "attempt" /\ pc' = [pc EXCEPT ![w] = "queueLock"] /\ UNCHANGED lockMode
        BY <2>5, <3>2 DEF FirstAttempt, AttemptLock, Goto, workerVars
      <4> QED
        BY <2>1, <4>1 DEF HoldingPc
    <3> QED
      BY <3>1, <3>2
  <2>6. ASSUME NEW w \in Workers, SecondAttempt(w)
        PROVE  Abstract!Acquire(w, lockMode[w]) \/ UNCHANGED Owner
    <3>1. CASE lockCount = 0
      <4>1. pc' = [pc EXCEPT ![w] = "dequeueLock"] /\ UNCHANGED lockMode
        BY <2>6, <3>1 DEF SecondAttempt, AttemptLock, Goto, workerVars
      <4> QED
        BY <2>2, <3>1, <4>1 DEF HoldingPc
    <3>2. CASE lockCount # 0
      <4>1. pc[w] = "reattempt" /\ pc' = [pc EXCEPT ![w] = "sleep"] /\ UNCHANGED lockMode
        BY <2>6, <3>2 DEF SecondAttempt, AttemptLock, Goto, workerVars
      <4> QED
        BY <2>1, <4>1 DEF HoldingPc
    <3> QED
      BY <3>1, <3>2
  <2>7. ASSUME NEW w \in Workers, QueueLock(w) PROVE UNCHANGED Owner
    <3>1. pc[w] = "queueLock" /\ pc' = [pc EXCEPT ![w] = "queueMark"] /\ UNCHANGED lockMode
      BY <2>7 DEF QueueLock, Goto, workerVars
    <3> QED
      BY <2>1, <3>1 DEF HoldingPc
  <2>8. ASSUME NEW w \in Workers, QueueMark(w) PROVE UNCHANGED Owner
    <3>1. pc[w] = "queueMark" /\ pc' = [pc EXCEPT ![w] = "queuePush"] /\ UNCHANGED lockMode
      BY <2>8 DEF QueueMark, Goto, workerVars
    <3> QED
      BY <2>1, <3>1 DEF HoldingPc
  <2>9. ASSUME NEW w \in Workers, QueuePush(w) PROVE UNCHANGED Owner
    <3>1. pc[w] = "queuePush" /\ pc' = [pc EXCEPT ![w] = "reattempt"] /\ UNCHANGED lockMode
      BY <2>9 DEF QueuePush, Goto
    <3> QED
      BY <2>1, <3>1 DEF HoldingPc
  <2>10. ASSUME NEW w \in Workers, SleepAcquire(w) PROVE UNCHANGED Owner
    <3>1. pc[w] = "sleep" /\ pc' = [pc EXCEPT ![w] = "sleepCheck"] /\ UNCHANGED lockMode
      BY <2>10 DEF SleepAcquire, Goto
    <3> QED
      BY <2>1, <3>1 DEF HoldingPc
  <2>11. ASSUME NEW w \in Workers, SleepCheck(w) PROVE UNCHANGED Owner
    <3>1. UNCHANGED lockMode
      BY <2>11 DEF SleepCheck, Goto, workerVars
    <3>2. \/ pc[w] = "sleepCheck" /\ pc' = [pc EXCEPT ![w] = "reset"]
          \/ pc[w] = "sleepCheck" /\ pc' = [pc EXCEPT ![w] = "sleep"]
      BY <2>11 DEF SleepCheck, Goto
    <3> QED
      BY <2>1, <3>1, <3>2 DEF HoldingPc
  <2>12. ASSUME NEW w \in Workers, SleepReset(w) PROVE UNCHANGED Owner
    <3>1. pc[w] = "reset" /\ pc' = [pc EXCEPT ![w] = "attempt"] /\ UNCHANGED lockMode
      BY <2>12 DEF SleepReset, Goto, workerVars
    <3> QED
      BY <2>1, <3>1 DEF HoldingPc
  <2>13. ASSUME NEW w \in Workers, Granted(w) PROVE UNCHANGED Owner
    <3>1. pc[w] = "granted" /\ pc' = [pc EXCEPT ![w] = "held"] /\ UNCHANGED lockMode
      BY <2>13 DEF Granted, Goto
    <3> QED
      BY <2>1, <3>1 DEF HoldingPc
  <2>14. ASSUME NEW w \in Workers, DequeueLock(w) PROVE UNCHANGED Owner
    <3>1. UNCHANGED lockMode
      BY <2>14 DEF DequeueLock, Goto, workerVars
    <3>2. \/ pc[w] = "dequeueLock" /\ pc' = [pc EXCEPT ![w] = "dequeueSelf"]
          \/ pc[w] = "dequeueLock" /\ pc' = [pc EXCEPT ![w] = "dequeueWoken"]
      BY <2>14 DEF DequeueLock, Goto
    <3> QED
      BY <2>1, <3>1, <3>2 DEF HoldingPc
  <2>15. ASSUME NEW w \in Workers, DequeueFlag(w) PROVE UNCHANGED Owner
    <3>1. UNCHANGED lockMode
      BY <2>15 DEF DequeueFlag, Goto, workerVars
    <3>2. \/ pc[w] = "dequeueSelf" /\ pc' = [pc EXCEPT ![w] = "dequeueSelfUnlock"]
          \/ pc[w] = "dequeueWoken" /\ pc' = [pc EXCEPT ![w] = "dequeueWokenUnlock"]
      BY <2>15 DEF DequeueFlag, Goto
    <3> QED
      BY <2>1, <3>1, <3>2 DEF HoldingPc
  <2>16. ASSUME NEW w \in Workers, DequeueUnlock(w) PROVE UNCHANGED Owner
    <3>1. UNCHANGED lockMode
      BY <2>16 DEF DequeueUnlock, Goto
    <3>2. \/ pc[w] = "dequeueSelfUnlock" /\ pc' = [pc EXCEPT ![w] = "granted"]
          \/ pc[w] = "dequeueWokenUnlock" /\ pc' = [pc EXCEPT ![w] = "dequeueReset"]
      BY <2>16 DEF DequeueUnlock, Goto
    <3> QED
      BY <2>1, <3>1, <3>2 DEF HoldingPc
  <2>17. ASSUME NEW w \in Workers, DequeueReset(w) PROVE UNCHANGED Owner
    <3>1. pc[w] = "dequeueReset" /\ pc' = [pc EXCEPT ![w] = "dequeueSleep"] /\ UNCHANGED lockMode
      BY <2>17 DEF DequeueReset, Goto, workerVars
    <3> QED
      BY <2>1, <3>1 DEF HoldingPc
  <2>18. ASSUME NEW w \in Workers, DequeueAcquire(w) PROVE UNCHANGED Owner
    <3>1. pc[w] = "dequeueSleep" /\ pc' = [pc EXCEPT ![w] = "dequeueCheck"] /\ UNCHANGED lockMode
      BY <2>18 DEF DequeueAcquire, Goto
    <3> QED
      BY <2>1, <3>1 DEF HoldingPc
  <2>19. ASSUME NEW w \in Workers, DequeueCheck(w) PROVE UNCHANGED Owner
    <3>1. UNCHANGED lockMode
      BY <2>19 DEF DequeueCheck, Goto, workerVars
    <3>2. \/ pc[w] = "dequeueCheck" /\ pc' = [pc EXCEPT ![w] = "dequeueReturn"]
          \/ pc[w] = "dequeueCheck" /\ pc' = [pc EXCEPT ![w] = "dequeueSleep"]
      BY <2>19 DEF DequeueCheck, Goto
    <3> QED
      BY <2>1, <3>1, <3>2 DEF HoldingPc
  <2>20. ASSUME NEW w \in Workers, DequeueReturn(w) PROVE UNCHANGED Owner
    <3>1. pc[w] = "dequeueReturn" /\ pc' = [pc EXCEPT ![w] = "granted"] /\ UNCHANGED lockMode
      BY <2>20 DEF DequeueReturn, Goto
    <3> QED
      BY <2>1, <3>1 DEF HoldingPc
  <2>21. ASSUME NEW w \in Workers, UnlockAssert(w) PROVE UNCHANGED Owner
    <3>1. UNCHANGED lockMode
      BY <2>21 DEF UnlockAssert, Goto, workerVars
    <3>2. \/ pc[w] = "unlockedWakeup" /\ pc' = [pc EXCEPT ![w] = "wakeupLock"]
          \/ pc[w] = "unlockedReturn" /\ pc' = [pc EXCEPT ![w] = "idle"]
      BY <2>21 DEF UnlockAssert, Goto
    <3> QED
      BY <2>1, <3>1, <3>2 DEF HoldingPc
  <2>22. ASSUME NEW w \in Workers, WakeupLock(w) PROVE UNCHANGED Owner
    <3>1. pc[w] = "wakeupLock" /\ pc' = [pc EXCEPT ![w] = "wakeupScan"] /\ UNCHANGED lockMode
      BY <2>22 DEF WakeupLock, Goto, workerVars
    <3> QED
      BY <2>1, <3>1 DEF HoldingPc
  <2>23. ASSUME NEW w \in Workers, WakeupScan(w) PROVE UNCHANGED Owner
    <3>1. pc[w] = "wakeupScan" /\ pc' = [pc EXCEPT ![w] = "wakeupPublish"] /\ UNCHANGED lockMode
      BY <2>23 DEF WakeupScan, Goto
    <3> QED
      BY <2>1, <3>1 DEF HoldingPc
  <2>24. ASSUME NEW w \in Workers, WakeupPublish(w) PROVE UNCHANGED Owner
    <3>1. pc[w] = "wakeupPublish" /\ pc' = [pc EXCEPT ![w] = "wakeupNext"] /\ UNCHANGED lockMode
      BY <2>24 DEF WakeupPublish, Goto, workerVars
    <3> QED
      BY <2>1, <3>1 DEF HoldingPc
  <2>25. ASSUME NEW w \in Workers, WakeupNext(w) PROVE UNCHANGED Owner
    <3>1. pc[w] = "wakeupNext" /\ pc' = [pc EXCEPT ![w] = "wakeupRelease"] /\ UNCHANGED lockMode
      BY <2>25 DEF WakeupNext, Goto
    <3> QED
      BY <2>1, <3>1 DEF HoldingPc
  <2>26. ASSUME NEW w \in Workers, WakeupRelease(w) PROVE UNCHANGED Owner
    <3>1. pc[w] = "wakeupRelease" /\ pc' = [pc EXCEPT ![w] = "wakeupNext"] /\ UNCHANGED lockMode
      BY <2>26 DEF WakeupRelease, Goto
    <3> QED
      BY <2>1, <3>1 DEF HoldingPc
  <2>27. ASSUME NEW w \in Workers, WakeupDone(w) PROVE UNCHANGED Owner
    <3>1. pc[w] = "wakeupNext" /\ pc' = [pc EXCEPT ![w] = "idle"] /\ UNCHANGED lockMode
      BY <2>27 DEF WakeupDone, Goto, workerVars
    <3> QED
      BY <2>1, <3>1 DEF HoldingPc
  <2>28. CASE UNCHANGED vars
    BY <2>28 DEF vars, workerVars, Owner
  <2>29. ASSUME NEW w \in Workers, LockStep(w) \/ UnlockStep(w)
        PROVE  \/ Abstract!Acquire(w, lockMode[w]) \/ Abstract!Release(w) \/ UNCHANGED Owner
    BY <2>29, <2>3, <2>5, <2>6, <2>7, <2>8, <2>9, <2>10, <2>11, <2>12,
       <2>13, <2>14, <2>15, <2>16, <2>17, <2>18, <2>19, <2>20, <2>21,
       <2>22, <2>23, <2>24, <2>25, <2>26, <2>27
    DEF LockStep, UnlockStep
  <2>30. \A w \in Workers : lockMode[w] \in Modes
    BY <2>0 DEF TypeOK
  <2> QED
    BY <2>4, <2>28, <2>29, <2>30 DEF Next
<1> QED
  BY <1>1, <1>2, Invariance, PTL DEF Spec, ImplementsLatch, Abstract!Spec
=============================================================================
