------------------------------- MODULE LWLatch -------------------------------
(***************************************************************************)
(* The light-weight latch of lock/LWLatch.cpp: one 32-bit atomic word      *)
(* (lock count and three flags), a FIFO list of waiting workers guarded by *)
(* the ListLocked bit of that word, and one semaphore per worker on which  *)
(* the worker sleeps.                                                      *)
(*                                                                         *)
(* Every step below is one atomic read-modify-write of the word, one       *)
(* operation on a semaphore, or a group of accesses made under the list    *)
(* lock together with the one access of the group other workers can see.   *)
(***************************************************************************)
EXTENDS Naturals, Sequences, FiniteSets

CONSTANT Workers     \* worker threads, each with one WorkerLock

ASSUME WorkersFinite == IsFiniteSet(Workers)

VARIABLES
  \* _state: the lock count and the flags ListLocked, UnlockWaiter, HasWaiters
  lockCount, listLocked, unlockWaiter, hasWaiters,
  waiters,           \* _waiters, in list order
  \* WorkerLock: _sema, _lockState, _lockMode
  sema, lockState, lockMode,
  \* Per worker: where it is, and the locals extraWaits of Lock(), extraWaits
  \* of dequeueSelf(), the list wakeup and the waiter being woken in wakeup()
  \* (the worker itself when there is none)
  pc, extraWaits, dequeueWaits, wakeupList, target

latchVars  == <<lockCount, listLocked, unlockWaiter, hasWaiters, waiters>>
workerVars == <<sema, lockState, lockMode>>
localVars  == <<extraWaits, dequeueWaits, wakeupList, target>>
vars == <<latchVars, workerVars, localVars, pc>>

Share     == "Share"
Exclusive == "Exclusive"
Modes == {Share, Exclusive}

SharedLockValue    == 1
ExclusiveLockValue == 268435456     \* 1 << 28

LockValue(mode) == IF mode = Exclusive THEN ExclusiveLockValue ELSE SharedLockValue

LockStates == {"NotWaiting", "Waiting", "PendingWakeup"}

Elems(s) == {s[i] : i \in DOMAIN s}

\* The sublist of s made of the workers of S: what LockListHead::Delete leaves
\* when the others are taken out. It has one element for S \subseteq Elems(s)
\* and s without repetitions.
Sublists(s, S) ==
  {r \in [1..Cardinality(S) -> S] :
     /\ Elems(r) = S
     /\ \A i, j \in DOMAIN r : i < j =>
          \E k, l \in DOMAIN s : k < l /\ s[k] = r[i] /\ s[l] = r[j]}

Goto(w, from, to) == pc[w] = from /\ pc' = [pc EXCEPT ![w] = to]

Init ==
  /\ lockCount = 0
  /\ listLocked = FALSE /\ unlockWaiter = TRUE /\ hasWaiters = FALSE
  /\ waiters = <<>>
  /\ sema = [w \in Workers |-> 1]
  /\ lockState = [w \in Workers |-> "NotWaiting"]
  /\ lockMode = [w \in Workers |-> Share]
  /\ pc = [w \in Workers |-> "idle"]
  /\ extraWaits = [w \in Workers |-> 0]
  /\ dequeueWaits = [w \in Workers |-> 0]
  /\ wakeupList = [w \in Workers |-> <<>>]
  /\ target = [w \in Workers |-> w]

-----------------------------------------------------------------------------
(* The list lock: a bit of the word, taken by spinning.                     *)

WaitListLock == ~listLocked /\ listLocked' = TRUE
WaitListUnlock == listLocked' = FALSE

\* Mutant: an exclusive lock does not mind a shared holder.
AttemptOverShare(w, from, taken, failed) ==
  \/ /\ lockCount = 0 \/ (lockMode[w] = Exclusive /\ lockCount = SharedLockValue)
     /\ lockCount' = LockValue(lockMode[w])
     /\ Goto(w, from, taken)
  \/ /\ lockCount # 0
     /\ UNCHANGED lockCount
     /\ Goto(w, from, failed)

(* attemptLock: one compare-and-swap that takes the latch when nobody holds  *)
(* it, in either mode, and changes nothing otherwise.                        *)
AttemptLock(w, from, taken, failed) ==
  \/ /\ lockCount = 0
     /\ lockCount' = lockCount + LockValue(lockMode[w])
     /\ Goto(w, from, taken)
  \/ /\ lockCount # 0
     /\ UNCHANGED lockCount
     /\ Goto(w, from, failed)

-----------------------------------------------------------------------------
(* Lock()                                                                   *)

\* Lock(mode) is entered; mode is kept in lockMode from here on: the field
\* itself is read only by a wakeup() that finds the worker in the list, after
\* queueSelf() has stored the same value.
StartLock(w, mode) ==
  /\ Goto(w, "idle", "attempt")
  /\ lockMode' = [lockMode EXCEPT ![w] = mode]
  /\ UNCHANGED <<latchVars, sema, lockState, localVars>>

FirstAttempt(w) ==
  /\ AttemptLock(w, "attempt", "granted", "queueLock")
  /\ UNCHANGED <<listLocked, unlockWaiter, hasWaiters, waiters, workerVars, localVars>>

QueueLock(w) ==
  /\ Goto(w, "queueLock", "queueMark")
  /\ WaitListLock
  /\ UNCHANGED <<lockCount, unlockWaiter, hasWaiters, waiters, workerVars, localVars>>

\* Mutant: HasWaiters is not set.
QueueUnmarked(w) ==
  /\ Goto(w, "queueMark", "queuePush")
  /\ UNCHANGED <<latchVars, workerVars, localVars>>

QueueMark(w) ==
  /\ Goto(w, "queueMark", "queuePush")
  /\ hasWaiters' = TRUE
  /\ UNCHANGED <<lockCount, listLocked, unlockWaiter, waiters, workerVars, localVars>>

QueuePush(w) ==
  /\ Goto(w, "queuePush", "reattempt")
  /\ lockState' = [lockState EXCEPT ![w] = "Waiting"]
  /\ waiters' = Append(waiters, w)
  /\ WaitListUnlock
  /\ UNCHANGED <<lockCount, unlockWaiter, hasWaiters, sema, lockMode, localVars>>

SecondAttempt(w) ==
  /\ AttemptLock(w, "reattempt", "dequeueLock", "sleep")
  /\ UNCHANGED <<listLocked, unlockWaiter, hasWaiters, waiters, workerVars, localVars>>

\* The semaphore is acquired ...
SleepAcquire(w) ==
  /\ Goto(w, "sleep", "sleepCheck")
  /\ sema[w] > 0
  /\ sema' = [sema EXCEPT ![w] = @ - 1]
  /\ UNCHANGED <<latchVars, lockState, lockMode, localVars>>

\* ... and the wakeup may turn out to be spurious.
SleepCheck(w) ==
  /\ \/ /\ lockState[w] = "NotWaiting"
        /\ Goto(w, "sleepCheck", "reset")
        /\ UNCHANGED extraWaits
     \/ /\ lockState[w] # "NotWaiting"
        /\ Goto(w, "sleepCheck", "sleep")
        /\ extraWaits' = [extraWaits EXCEPT ![w] = @ + 1]
  /\ UNCHANGED <<latchVars, workerVars, dequeueWaits, wakeupList, target>>

\* A worker that was woken lets Unlock() wake others again, and retries.
SleepReset(w) ==
  /\ Goto(w, "reset", "attempt")
  /\ unlockWaiter' = TRUE
  /\ UNCHANGED <<lockCount, listLocked, hasWaiters, waiters, workerVars, localVars>>

\* Mutant: the spurious wakeups are forgotten.
GrantedKeeping(w) ==
  /\ Goto(w, "granted", "held")
  /\ extraWaits' = [extraWaits EXCEPT ![w] = 0]
  /\ UNCHANGED <<latchVars, workerVars, dequeueWaits, wakeupList, target>>

\* The end of Lock(): the spurious wakeups are given back.
Granted(w) ==
  /\ Goto(w, "granted", "held")
  /\ sema' = [sema EXCEPT ![w] = @ + extraWaits[w]]
  /\ extraWaits' = [extraWaits EXCEPT ![w] = 0]
  /\ UNCHANGED <<latchVars, lockState, lockMode, dequeueWaits, wakeupList, target>>

-----------------------------------------------------------------------------
(* dequeueSelf(), called when the second attempt took the latch             *)

DequeueLock(w) ==
  /\ WaitListLock
  /\ \/ /\ lockState[w] = "Waiting"
        /\ waiters' \in Sublists(waiters, Elems(waiters) \ {w})
        /\ Goto(w, "dequeueLock", "dequeueSelf")
     \/ /\ lockState[w] # "Waiting"
        /\ Goto(w, "dequeueLock", "dequeueWoken")
        /\ UNCHANGED waiters
  /\ UNCHANGED <<lockCount, unlockWaiter, hasWaiters, workerVars, localVars>>

\* HasWaiters is cleared, with the list lock held, when the list became empty.
DequeueFlag(w) ==
  /\ \/ Goto(w, "dequeueSelf", "dequeueSelfUnlock")
     \/ Goto(w, "dequeueWoken", "dequeueWokenUnlock")
  /\ hasWaiters' = (hasWaiters /\ waiters # <<>>)
  /\ UNCHANGED <<lockCount, listLocked, unlockWaiter, waiters, workerVars, localVars>>

\* Mutant: the lock state is not reset.
DequeueUnlockOnly(w) ==
  /\ WaitListUnlock
  /\ \/ Goto(w, "dequeueSelfUnlock", "granted")
     \/ Goto(w, "dequeueWokenUnlock", "dequeueReset")
  /\ UNCHANGED <<lockCount, unlockWaiter, hasWaiters, waiters, workerVars, localVars>>

\* The list is unlocked. A worker that took itself out of the list is in no
\* list now, so nobody else reads the lock state it then resets.
DequeueUnlock(w) ==
  /\ WaitListUnlock
  /\ \/ /\ Goto(w, "dequeueSelfUnlock", "granted")
        /\ lockState' = [lockState EXCEPT ![w] = "NotWaiting"]
     \/ /\ Goto(w, "dequeueWokenUnlock", "dequeueReset")
        /\ UNCHANGED lockState
  /\ UNCHANGED <<lockCount, unlockWaiter, hasWaiters, waiters, sema, lockMode, localVars>>

\* Somebody removed the worker from the list and is about to wake it: the
\* wakeup is awaited here, so that it does not reach a later sleep.
DequeueReset(w) ==
  /\ Goto(w, "dequeueReset", "dequeueSleep")
  /\ unlockWaiter' = TRUE
  /\ UNCHANGED <<lockCount, listLocked, hasWaiters, waiters, workerVars, localVars>>

DequeueAcquire(w) ==
  /\ Goto(w, "dequeueSleep", "dequeueCheck")
  /\ sema[w] > 0
  /\ sema' = [sema EXCEPT ![w] = @ - 1]
  /\ UNCHANGED <<latchVars, lockState, lockMode, localVars>>

DequeueCheck(w) ==
  /\ \/ /\ lockState[w] = "NotWaiting"
        /\ Goto(w, "dequeueCheck", "dequeueReturn")
        /\ UNCHANGED dequeueWaits
     \/ /\ lockState[w] # "NotWaiting"
        /\ Goto(w, "dequeueCheck", "dequeueSleep")
        /\ dequeueWaits' = [dequeueWaits EXCEPT ![w] = @ + 1]
  /\ UNCHANGED <<latchVars, workerVars, extraWaits, wakeupList, target>>

DequeueReturn(w) ==
  /\ Goto(w, "dequeueReturn", "granted")
  /\ sema' = [sema EXCEPT ![w] = @ + dequeueWaits[w]]
  /\ dequeueWaits' = [dequeueWaits EXCEPT ![w] = 0]
  /\ UNCHANGED <<latchVars, lockState, lockMode, extraWaits, wakeupList, target>>

-----------------------------------------------------------------------------
(* Unlock() and wakeup()                                                    *)

\* The word before the subtraction decides whether the waiters are looked at.
MustWakeup(w) ==
  /\ hasWaiters /\ unlockWaiter
  /\ lockMode[w] = Exclusive \/ lockCount = 1

\* Mutant: the shared value is subtracted whatever the mode.
UnlockAsShared(w) ==
  /\ Goto(w, "held", IF MustWakeup(w) THEN "unlockedWakeup" ELSE "unlockedReturn")
  /\ lockCount' = lockCount - SharedLockValue
  /\ UNCHANGED <<listLocked, unlockWaiter, hasWaiters, waiters, workerVars, localVars>>

Unlock(w) ==
  /\ Goto(w, "held", IF MustWakeup(w) THEN "unlockedWakeup" ELSE "unlockedReturn")
  /\ lockCount' = lockCount - LockValue(lockMode[w])
  /\ UNCHANGED <<listLocked, unlockWaiter, hasWaiters, waiters, workerVars, localVars>>

\* The word is loaded again for an assertion that nobody holds it exclusively
\* by now, which another worker may; the decision was taken on the word read
\* before.
UnlockAssert(w) ==
  /\ \/ Goto(w, "unlockedWakeup", "wakeupLock")
     \/ Goto(w, "unlockedReturn", "idle")
  /\ UNCHANGED <<latchVars, workerVars, localVars>>

\* Whom the scan of wakeup() takes out of the list: the first waiter, and if
\* it waits for a shared lock, every other waiter for a shared lock.
ToWakeup ==
  IF waiters = <<>> THEN {}
  ELSE IF lockMode[Head(waiters)] = Exclusive THEN {Head(waiters)}
  ELSE {v \in Elems(waiters) : lockMode[v] = Share}

WakeupLock(w) ==
  /\ Goto(w, "wakeupLock", "wakeupScan")
  /\ WaitListLock
  /\ UNCHANGED <<lockCount, unlockWaiter, hasWaiters, waiters, workerVars, localVars>>

WakeupScan(w) ==
  /\ Goto(w, "wakeupScan", "wakeupPublish")
  /\ \E woken \in Sublists(waiters, ToWakeup) :
       wakeupList' = [wakeupList EXCEPT ![w] = woken]
  /\ waiters' \in Sublists(waiters, Elems(waiters) \ ToWakeup)
  /\ lockState' = [v \in Workers |-> IF v \in ToWakeup THEN "PendingWakeup" ELSE lockState[v]]
  /\ UNCHANGED <<lockCount, listLocked, unlockWaiter, hasWaiters, sema, lockMode,
                 extraWaits, dequeueWaits, target>>

\* One compare-and-swap clears UnlockWaiter, HasWaiters if the list is empty,
\* and the list lock.
WakeupPublish(w) ==
  /\ Goto(w, "wakeupPublish", "wakeupNext")
  /\ unlockWaiter' = FALSE
  /\ hasWaiters' = (hasWaiters /\ waiters # <<>>)
  /\ WaitListUnlock
  /\ UNCHANGED <<lockCount, waiters, workerVars, localVars>>

WakeupNext(w) ==
  /\ wakeupList[w] # <<>>
  /\ Goto(w, "wakeupNext", "wakeupRelease")
  /\ target' = [target EXCEPT ![w] = Head(wakeupList[w])]
  /\ wakeupList' = [wakeupList EXCEPT ![w] = Tail(@)]
  /\ lockState' = [lockState EXCEPT ![Head(wakeupList[w])] = "NotWaiting"]
  /\ UNCHANGED <<latchVars, sema, lockMode, extraWaits, dequeueWaits>>

\* Mutant: the semaphore is not released.
WakeupWithoutRelease(w) ==
  /\ Goto(w, "wakeupRelease", "wakeupNext")
  /\ target' = [target EXCEPT ![w] = w]
  /\ UNCHANGED <<latchVars, workerVars, extraWaits, dequeueWaits, wakeupList>>

WakeupRelease(w) ==
  /\ Goto(w, "wakeupRelease", "wakeupNext")
  /\ sema' = [sema EXCEPT ![target[w]] = @ + 1]
  /\ target' = [target EXCEPT ![w] = w]
  /\ UNCHANGED <<latchVars, lockState, lockMode, extraWaits, dequeueWaits, wakeupList>>

WakeupDone(w) ==
  /\ wakeupList[w] = <<>>
  /\ Goto(w, "wakeupNext", "idle")
  /\ UNCHANGED <<latchVars, workerVars, localVars>>

-----------------------------------------------------------------------------

\* The steps of a worker inside Lock() or Unlock().
LockStep(w) ==
  \/ FirstAttempt(w) \/ QueueLock(w) \/ QueueMark(w) \/ QueuePush(w)
  \/ SecondAttempt(w) \/ SleepAcquire(w) \/ SleepCheck(w) \/ SleepReset(w)
  \/ Granted(w)
  \/ DequeueLock(w) \/ DequeueFlag(w) \/ DequeueUnlock(w) \/ DequeueReset(w)
  \/ DequeueAcquire(w) \/ DequeueCheck(w) \/ DequeueReturn(w)

UnlockStep(w) ==
  \/ Unlock(w) \/ UnlockAssert(w)
  \/ WakeupLock(w) \/ WakeupScan(w) \/ WakeupPublish(w)
  \/ WakeupNext(w) \/ WakeupRelease(w) \/ WakeupDone(w)

Next ==
  \E w \in Workers :
    \/ \E mode \in Modes : StartLock(w, mode)
    \/ LockStep(w)
    \/ UnlockStep(w)

Spec == Init /\ [][Next]_vars

-----------------------------------------------------------------------------
(* What the latch promises                                                  *)

\* Where a worker holds the latch.
HoldingPc ==
  {"granted", "held", "dequeueLock", "dequeueSelf", "dequeueSelfUnlock",
   "dequeueWoken", "dequeueWokenUnlock", "dequeueReset", "dequeueSleep",
   "dequeueCheck", "dequeueReturn"}

\* Where a worker holds the list lock.
ListPc ==
  {"queueMark", "queuePush", "dequeueSelf", "dequeueSelfUnlock",
   "dequeueWoken", "dequeueWokenUnlock", "wakeupScan", "wakeupPublish"}

\* Where a worker has queued itself and may still be found in a list.
QueuedPc ==
  {"reattempt", "sleep", "sleepCheck", "dequeueLock", "dequeueWoken",
   "dequeueWokenUnlock", "dequeueReset", "dequeueSleep", "dequeueCheck"}

\* Where the local list of wakeup() may hold workers.
WakerPc == {"wakeupPublish", "wakeupNext", "wakeupRelease"}

OtherPc == {"idle", "attempt", "queueLock", "reset",
            "unlockedWakeup", "unlockedReturn", "wakeupLock"}

Holders == {w \in Workers : pc[w] \in HoldingPc}

\* The types of the latch word, of the WorkerLocks and of the locals.
TypeOK ==
  /\ lockCount \in {0, SharedLockValue, ExclusiveLockValue}
  /\ {listLocked, unlockWaiter, hasWaiters} \subseteq BOOLEAN
  /\ waiters \in Seq(Workers)
  /\ sema \in [Workers -> Nat]
  /\ lockState \in [Workers -> LockStates]
  /\ lockMode \in [Workers -> Modes]
  /\ pc \in [Workers -> HoldingPc \cup ListPc \cup QueuedPc \cup WakerPc \cup OtherPc]
  /\ extraWaits \in [Workers -> Nat]
  /\ dequeueWaits \in [Workers -> Nat]
  /\ wakeupList \in [Workers -> Seq(Workers)]
  /\ target \in [Workers -> Workers]

\* An exclusive holder is alone, whatever the other workers are doing in
\* Lock(), dequeueSelf() and Unlock().
MutualExclusion ==
  \A v, w \in Holders : v # w => lockMode[v] = Share /\ lockMode[w] = Share

\* The owners of the latch as a caller sees them.
Owner == [w \in Workers |-> IF pc[w] \in HoldingPc THEN lockMode[w] ELSE "none"]

Abstract == INSTANCE Latch WITH owner <- Owner

\* Lock() and Unlock() implement a reader-writer latch: seen from outside, they
\* only ever grant it to a worker no owner is in conflict with, and give it up.
ImplementsLatch == Abstract!Spec

\* The list lock protects the list: HasWaiters tells a releasing worker the
\* truth about the list whenever the list is not being changed.
WaitersFlagged == ~listLocked => (hasWaiters <=> waiters # <<>>)

\* Workers in wakeup()'s local list.
Pending(w) == Elems(wakeupList[w])

\* A worker is in at most one list and at most once, and its lock state says
\* which: Waiting in _waiters, PendingWakeup in the local list of one
\* wakeup(), NotWaiting in none (asserted by the scan, LWLatch.cpp:211).
ListMembership ==
  /\ \A i, j \in DOMAIN waiters : waiters[i] = waiters[j] => i = j
  /\ \A w \in Workers :
       /\ \A i, j \in DOMAIN wakeupList[w] : wakeupList[w][i] = wakeupList[w][j] => i = j
       /\ \A v \in Workers : v # w => Pending(v) \cap Pending(w) = {}
  /\ \A w \in Workers :
       /\ w \in Elems(waiters) => lockState[w] = "Waiting"
       /\ (lockState[w] = "PendingWakeup") <=> \E v \in Workers : w \in Pending(v)
       /\ lockState[w] = "Waiting" => w \in Elems(waiters) \/ pc[w] \in {"dequeueSelf", "dequeueSelfUnlock"}
       /\ lockState[w] = "PendingWakeup" => pc[w] \in QueuedPc

\* Wakers that reset w's lock state and did not release its semaphore yet.
Releasing(w) == {k \in Workers : pc[k] = "wakeupRelease" /\ target[k] = w}

\* w has taken a token of its semaphore and not looked at its lock state yet.
InCheck(w) == IF pc[w] \in {"sleepCheck", "dequeueCheck"} THEN 1 ELSE 0

\* w was woken and did not consume the token of that wakeup yet.
Woken(w) == IF lockState[w] = "NotWaiting" /\ pc[w] \in QueuedPc THEN 1 ELSE 0

\* Semaphore tokens are neither lost nor made up: beside the initial one, a
\* worker's semaphore, its spurious-wakeup counters and the releases under way
\* hold exactly the token of a wakeup the worker has not consumed yet.
TokensConserved ==
  \A w \in Workers :
    sema[w] + extraWaits[w] + dequeueWaits[w] + InCheck(w) + Cardinality(Releasing(w))
      = 1 + Woken(w)

\* A worker whose lock state was reset has, or is about to get, a token to
\* leave its sleep with, however many spurious wakeups it counted before.
WokenHasToken ==
  \A w \in Workers :
    Woken(w) = 1 => sema[w] + InCheck(w) + Cardinality(Releasing(w)) >= 1

-----------------------------------------------------------------------------
(* The inductive invariant                                                  *)

\* At most one worker is inside the list lock, and the bit says so.
ListLockInv ==
  /\ listLocked <=> \E w \in Workers : pc[w] \in ListPc
  /\ \A v, w \in Workers : pc[v] \in ListPc /\ pc[w] \in ListPc => v = w

\* The count is the value of the only holder's mode.
CountInv ==
  /\ \A v, w \in Holders : v = w
  /\ \A w \in Holders : lockCount = LockValue(lockMode[w])
  /\ Holders = {} => lockCount = 0

\* HasWaiters and the list disagree only where the list lock is held.
FlagInv ==
  /\ waiters # <<>> => hasWaiters
  /\ hasWaiters /\ waiters = <<>> =>
       \E w \in Workers : pc[w] \in {"queuePush", "dequeueSelf", "wakeupPublish"}
  /\ \A w \in Workers : pc[w] = "queuePush" => hasWaiters

NoRepetition(s) == \A i, j \in DOMAIN s : s[i] = s[j] => i = j

\* Which lists a worker can be in, from where it is.
QueueInv ==
  /\ NoRepetition(waiters)
  /\ \A w \in Workers :
       /\ NoRepetition(wakeupList[w])
       /\ pc[w] \notin WakerPc => wakeupList[w] = <<>>
       /\ w \in Elems(waiters) => pc[w] \in {"reattempt", "sleep", "sleepCheck", "dequeueLock"}
       /\ w \in Elems(waiters) => lockState[w] = "Waiting"
       /\ lockState[w] = "Waiting" =>
            w \in Elems(waiters) \/ pc[w] \in {"dequeueSelf", "dequeueSelfUnlock"}
       /\ pc[w] \in {"dequeueSelf", "dequeueSelfUnlock"} => lockState[w] = "Waiting"
       /\ lockState[w] = "PendingWakeup" => pc[w] \in QueuedPc
       /\ lockState[w] = "PendingWakeup" <=> \E v \in Workers : w \in Pending(v)
       /\ \A v \in Workers : v # w => Pending(v) \cap Pending(w) = {}

TokenInv ==
  /\ TokensConserved
  /\ \A w \in Workers : extraWaits[w] + dequeueWaits[w] <= 1

IndInv == TypeOK /\ ListLockInv /\ CountInv /\ FlagInv /\ QueueInv /\ TokenInv
=============================================================================
