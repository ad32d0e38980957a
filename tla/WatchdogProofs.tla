--------------------------- MODULE WatchdogProofs ---------------------------
(***************************************************************************)
(* RoomsMu excludes, and the watchdog raises no false alarm: for any       *)
(* numbers of readers and writers, and any times such that a creator's     *)
(* sleep is shorter than the watchdog's patience.                          *)
(***************************************************************************)
EXTENDS Watchdog, FiniteSetTheorems, TLAPS

Owning == {"locked", "retaken", "sleeping", "stalled"}
Steps == Owning \cup {"idle", "locking", "evicting", "relocking", "panicked"}

Typed ==
    /\ readers \subseteq Readers
    /\ blocked \subseteq Readers
    /\ step \in [Writers -> Steps]
    /\ left \in [Writers -> 0..HoldTime]
    /\ limit \in Nat
    /\ probe \in Probes \cup {Nobody}
    /\ lockAcquired \in BOOLEAN
    /\ IsHealthy \in BOOLEAN

\* Without a panic, whoever is past Lock holds the inner mutex, and either sleeps
\* for the readers that it still waits for, or there are none.
Excluding ==
    /\ announced \in BOOLEAN /\ (announced <=> inner # Nobody)
    /\ inner \in Writers \cup {Nobody}
    /\ \A w \in Writers : step[w] \in Owning <=> inner = w
    /\ asleep \subseteq {w \in Writers : inner = w /\ step[w] \in {"locked", "retaken"}}
    /\ asleep # {} => readerWait = Cardinality(readers) /\ readers # {}
    /\ asleep = {} => readerWait = 0
    /\ announced /\ asleep = {} => readers = {}
    /\ ~announced => blocked = {}

\* As long as nothing is stuck: while the probe is blocked, time passes only in the
\* sleep of the creator that it waits for, so the limit stays ahead of that sleep.
InTime ==
    /\ IsHealthy
    /\ probe # Nobody =>
        /\ lockAcquired \/ probe \in readers \cup blocked
        /\ limit >= Timeout - HoldTime
        /\ \A w \in Writers : probe \in blocked /\ inner = w =>
            IF step[w] = "sleeping" THEN limit >= Timeout - HoldTime + left[w]
            ELSE limit >= Timeout

IInv ==
    /\ Typed
    /\ ~Panicked => Excluding
    /\ ~Panicked /\ ~Stalled => InTime

-----------------------------------------------------------------------------
\* Every step keeps the types.
LEMMA TypedNext == ASSUME Typed, Next PROVE Typed'
<1> USE TimesAssumption, GoroutinesAssumption DEF Typed, Owning, Steps
<1>1. ASSUME NEW r \in Readers, HandlerReads(r) PROVE Typed'
  BY <1>1 DEF HandlerReads, RLock, lockVars, dogVars
<1>2. ASSUME NEW r \in Readers, ReaderLeaves(r) PROVE Typed'
  BY <1>2 DEF ReaderLeaves, RUnlock, lockVars, dogVars
<1>3. ASSUME NEW w \in Writers, WriterWants(w) PROVE Typed'
  BY <1>3 DEF WriterWants, Goto, lockVars, dogVars
<1>4. ASSUME NEW w \in Writers, WriterLocks(w) PROVE Typed'
  BY <1>4 DEF WriterLocks, Lock, Goto, lockVars, dogVars
<1>5. ASSUME NEW w \in Writers, WriterUnlocks(w) PROVE Typed'
  BY <1>5 DEF WriterUnlocks, Release, Unlock, Goto, lockVars, dogVars
<1>6. ASSUME NEW w \in Writers, CreatorSleeps(w) PROVE Typed'
  BY <1>6 DEF CreatorSleeps, Inside, Goto, lockVars, dogVars
<1>7. ASSUME NEW w \in Writers, CreatorReturns(w) PROVE Typed'
  BY <1>7 DEF CreatorReturns, Release, Unlock, Goto, lockVars, dogVars
<1>8. ASSUME NEW w \in Writers, EvictUnlocks(w) PROVE Typed'
  BY <1>8 DEF EvictUnlocks, Release, Unlock, Goto, lockVars, dogVars
<1>9. ASSUME NEW w \in Writers, EvictRelocks(w) PROVE Typed'
  BY <1>9 DEF EvictRelocks, Goto, lockVars, dogVars
<1>10. ASSUME NEW w \in Writers, EvictPanics(w) PROVE Typed'
  BY <1>10 DEF EvictPanics, Release, Unlock, Goto, lockVars, dogVars
<1>11. ASSUME NEW w \in Writers, Stall(w) PROVE Typed'
  BY <1>11 DEF Stall, Inside, Goto, lockVars, dogVars
<1>12. CASE DogStarts
  BY <1>12 DEF DogStarts, RLock, lockVars, dogVars
<1>13. CASE DogHears
  BY <1>13 DEF DogHears, lockVars, dogVars
<1>14. CASE DogTimesOut
  BY <1>14 DEF DogTimesOut, lockVars, dogVars
<1>15. CASE Tick
  BY <1>15 DEF Tick, Less, lockVars, dogVars
<1>16. QED
  BY <1>1, <1>2, <1>3, <1>4, <1>5, <1>6, <1>7, <1>8, <1>9, <1>10, <1>11, <1>12,
     <1>13, <1>14, <1>15 DEF Next, Running, WriterStep, DogStep

\* Every step but a panic keeps the discipline of the lock.
LEMMA ExcludingNext ==
    ASSUME Typed, Excluding, ~Panicked, ~Panicked', Next
    PROVE  Excluding'
<1> USE TimesAssumption, GoroutinesAssumption
    DEF Typed, Excluding, Panicked, Owning, Steps
<1>1. ASSUME NEW r \in Readers, HandlerReads(r) PROVE Excluding'
  BY <1>1 DEF HandlerReads, RLock, lockVars, dogVars
<1>2. ASSUME NEW r \in Readers, ReaderLeaves(r) PROVE Excluding'
  <2>1. /\ r \in readers /\ readers' = readers \ {r}
        /\ UNCHANGED <<blocked, inner, announced, step>>
    BY <1>2 DEF ReaderLeaves, RUnlock
  <2>2. /\ Cardinality(readers) \in Nat
        /\ Cardinality(readers') = Cardinality(readers) - 1
        /\ Cardinality(readers') = 0 <=> readers' = {}
    <3>1. IsFiniteSet(readers)
      BY FS_Subset
    <3>2. QED
      BY <2>1, <3>1, FS_RemoveElement, FS_CardinalityType, FS_EmptySet
  <2>3. CASE asleep = {}
    <3>1. ~announced
      BY <2>1, <2>3
    <3>2. UNCHANGED <<readerWait, asleep>>
      BY <1>2, <3>1 DEF ReaderLeaves, RUnlock
    <3>3. QED
      BY <2>1, <2>3, <3>1, <3>2
  <2>4. CASE asleep # {}
    <3>1. announced /\ readerWait' = readerWait - 1
      BY <1>2, <2>4 DEF ReaderLeaves, RUnlock
    <3>2. CASE readerWait = 1
      <4>1. asleep' = {} /\ readerWait' = 0 /\ readers' = {}
        BY <1>2, <2>2, <2>4, <3>1, <3>2 DEF ReaderLeaves, RUnlock
      <4>2. QED
        BY <2>1, <3>1, <4>1
    <3>3. CASE readerWait # 1
      <4>1. asleep' = asleep /\ readers' # {}
        BY <1>2, <2>2, <2>4, <3>1, <3>3 DEF ReaderLeaves, RUnlock
      <4>2. QED
        BY <2>1, <2>2, <2>4, <3>1, <4>1
    <3>4. QED
      BY <3>2, <3>3
  <2>5. QED
    BY <2>3, <2>4
<1>3. ASSUME NEW w \in Writers, WriterWants(w) PROVE Excluding'
  BY <1>3 DEF WriterWants, Goto, lockVars, dogVars
<1>4. ASSUME NEW w \in Writers, WriterLocks(w) PROVE Excluding'
  <2>1. /\ inner = Nobody /\ inner' = w /\ announced' /\ UNCHANGED <<readers, blocked>>
        /\ readerWait' = readerWait + Cardinality(readers)
        /\ asleep' = IF readers = {} THEN asleep ELSE asleep \cup {w}
    BY <1>4 DEF WriterLocks, Lock
  <2>2. PICK label \in {"locked", "retaken"} : step' = [step EXCEPT ![w] = label]
    BY <1>4 DEF WriterLocks, Goto
  <2>3. asleep = {} /\ readerWait = 0
    BY <2>1
  <2>4. Cardinality(readers) \in Nat /\ (Cardinality(readers) = 0 <=> readers = {})
    <3>1. IsFiniteSet(readers)
      BY FS_Subset
    <3>2. QED
      BY <3>1, FS_CardinalityType, FS_EmptySet
  <2>5. QED
    BY <2>1, <2>2, <2>3, <2>4
<1>5. ASSUME NEW w \in Writers, WriterUnlocks(w) PROVE Excluding'
  BY <1>5 DEF WriterUnlocks, Release, Unlock, Goto, lockVars, dogVars
<1>6. ASSUME NEW w \in Writers, CreatorSleeps(w) PROVE Excluding'
  BY <1>6 DEF CreatorSleeps, Inside, Goto, lockVars, dogVars
<1>7. ASSUME NEW w \in Writers, CreatorReturns(w) PROVE Excluding'
  BY <1>7 DEF CreatorReturns, Release, Unlock, Goto, lockVars, dogVars
<1>8. ASSUME NEW w \in Writers, EvictUnlocks(w) PROVE Excluding'
  BY <1>8 DEF EvictUnlocks, Release, Unlock, Goto, lockVars, dogVars
<1>9. ASSUME NEW w \in Writers, EvictRelocks(w) PROVE Excluding'
  BY <1>9 DEF EvictRelocks, Goto, lockVars, dogVars
<1>10. ASSUME NEW w \in Writers, EvictPanics(w) PROVE Excluding'
  BY <1>10 DEF EvictPanics, Release, Unlock, Goto, lockVars, dogVars
<1>11. ASSUME NEW w \in Writers, Stall(w) PROVE Excluding'
  BY <1>11 DEF Stall, Inside, Goto, lockVars, dogVars
<1>12. CASE DogStarts
  BY <1>12 DEF DogStarts, RLock, lockVars, dogVars
<1>13. CASE DogHears
  BY <1>13 DEF DogHears, lockVars, dogVars
<1>14. CASE DogTimesOut
  BY <1>14 DEF DogTimesOut, lockVars, dogVars
<1>15. CASE Tick
  BY <1>15 DEF Tick, Less, lockVars, dogVars
<1>16. QED
  BY <1>1, <1>2, <1>3, <1>4, <1>5, <1>6, <1>7, <1>8, <1>9, <1>10, <1>11, <1>12,
     <1>13, <1>14, <1>15 DEF Next, Running, WriterStep, DogStep

\* Every step that is not a stall keeps the limit ahead: a tick takes as much from the
\* creator's sleep as from the limit, and DogTimesOut finds the limit above 0.
LEMMA InTimeNext ==
    ASSUME Typed, Typed', Excluding, Excluding', InTime,
           ~Panicked, ~Stalled, ~Stalled', Next
    PROVE  InTime'
<1> USE TimesAssumption, GoroutinesAssumption
    DEF Typed, Excluding, InTime, Owning, Steps, Stalled
<1>1. ASSUME NEW r \in Readers, HandlerReads(r) PROVE InTime'
  BY <1>1 DEF HandlerReads, RLock, lockVars, dogVars
<1>2. ASSUME NEW r \in Readers, ReaderLeaves(r) PROVE InTime'
  BY <1>2 DEF ReaderLeaves, RUnlock, lockVars, dogVars
<1>3. ASSUME NEW w \in Writers, WriterWants(w) PROVE InTime'
  BY <1>3 DEF WriterWants, Goto, lockVars, dogVars
<1>4. ASSUME NEW w \in Writers, WriterLocks(w) PROVE InTime'
  BY <1>4 DEF WriterLocks, Lock, Goto, lockVars, dogVars
<1>5. ASSUME NEW w \in Writers, WriterUnlocks(w) PROVE InTime'
  BY <1>5 DEF WriterUnlocks, Release, Unlock, Goto, lockVars, dogVars
<1>6. ASSUME NEW w \in Writers, CreatorSleeps(w) PROVE InTime'
  BY <1>6 DEF CreatorSleeps, Inside, Goto, lockVars, dogVars
<1>7. ASSUME NEW w \in Writers, CreatorReturns(w) PROVE InTime'
  BY <1>7 DEF CreatorReturns, Release, Unlock, Goto, lockVars, dogVars
<1>8. ASSUME NEW w \in Writers, EvictUnlocks(w) PROVE InTime'
  BY <1>8 DEF EvictUnlocks, Release, Unlock, Goto, lockVars, dogVars
<1>9. ASSUME NEW w \in Writers, EvictRelocks(w) PROVE InTime'
  BY <1>9 DEF EvictRelocks, Goto, lockVars, dogVars
<1>10. ASSUME NEW w \in Writers, EvictPanics(w) PROVE InTime'
  BY <1>10 DEF EvictPanics, Release, Unlock, Goto, lockVars, dogVars
<1>11. ASSUME NEW w \in Writers, Stall(w) PROVE InTime'
  BY <1>11 DEF Stall, Inside, Goto, lockVars, dogVars
<1>12. CASE DogStarts
  BY <1>12 DEF DogStarts, RLock, lockVars, dogVars
<1>13. CASE DogHears
  BY <1>13 DEF DogHears, lockVars, dogVars
<1>14. CASE DogTimesOut
  BY <1>14 DEF DogTimesOut, lockVars, dogVars
<1>15. CASE Tick
  <2>1. /\ readers = {}
        /\ UNCHANGED <<readers, blocked, inner, step, probe, lockAcquired, IsHealthy>>
        /\ limit' = Less(limit) /\ left' = [w \in Writers |-> Less(left[w])]
    BY <1>15 DEF Tick, Busy, lockVars
  <2>2. SUFFICES ASSUME probe # Nobody
                 PROVE  InTime'
    BY <2>1
  <2>3. ~lockAcquired /\ probe \in blocked
    BY <1>15, <2>1, <2>2 DEF Tick, Busy
  <2>4. PICK w \in Writers : inner = w
    BY <2>3
  <2>5. step[w] = "sleeping" /\ left[w] > 0
    <3>1. step[w] \in {"locked", "retaken", "sleeping"}
      BY <2>4
    <3>2. asleep = {}
      BY <2>1
    <3>3. QED
      BY <1>15, <2>4, <3>1, <3>2 DEF Tick, Busy, Inside
  <2>6. left[w] \in Nat /\ limit >= Timeout - HoldTime + left[w] /\ limit' = limit - 1
    BY <2>1, <2>2, <2>3, <2>4, <2>5 DEF Less
  <2>7. left'[w] = left[w] - 1 /\ limit' >= Timeout - HoldTime + left'[w]
    BY <2>1, <2>5, <2>6 DEF Less
  <2>8. limit' >= Timeout - HoldTime
    BY <2>5, <2>6
  <2>9. QED
    BY <2>1, <2>3, <2>4, <2>5, <2>7, <2>8
<1>16. QED
  BY <1>1, <1>2, <1>3, <1>4, <1>5, <1>6, <1>7, <1>8, <1>9, <1>10, <1>11, <1>12,
     <1>13, <1>14, <1>15 DEF Next, Running, WriterStep, DogStep

-----------------------------------------------------------------------------
\* The invariant holds at first.
LEMMA InvInit == Init => IInv
<1> SUFFICES ASSUME Init PROVE IInv
  OBVIOUS
<1> USE TimesAssumption, GoroutinesAssumption DEF Init, LockInit
<1>1. Typed
  <2>1. step \in [Writers -> Steps]
    BY DEF Steps
  <2>2. left \in [Writers -> 0..HoldTime]
    OBVIOUS
  <2>3. QED
    BY <2>1, <2>2 DEF Typed
<1>2. Excluding
  BY DEF Excluding, Owning
<1>3. InTime
  BY DEF InTime
<1>4. QED
  BY <1>1, <1>2, <1>3 DEF IInv

\* A step that changes nothing keeps it.
LEMMA InvStutters == ASSUME IInv, UNCHANGED vars PROVE IInv'
BY DEF IInv, Typed, Excluding, InTime, Panicked, Stalled, vars, lockVars, dogVars

\* A panicked or stalled goroutine stays so.
LEMMA StuckForGood ==
    ASSUME Typed, Next
    PROVE  (Panicked => Panicked') /\ (Stalled => Stalled')
<1>1. ASSUME NEW v \in Writers, step[v] \in {"panicked", "stalled"}
      PROVE  step'[v] = step[v]
  BY <1>1 DEF Typed, Next, Running, HandlerReads, ReaderLeaves, WriterWants,
     WriterLocks,
     WriterUnlocks, CreatorSleeps, CreatorReturns, EvictUnlocks, EvictRelocks, EvictPanics,
     Stall, WriterStep, DogStep, DogStarts, DogHears, DogTimesOut, Tick, Inside, Goto
<1>2. QED
  BY <1>1 DEF Panicked, Stalled

\* The inductive invariant holds in every reachable state.
THEOREM WatchdogInvariant == Spec => []IInv
<1>1. IInv /\ [Next]_vars => IInv'
  <2>1. ASSUME IInv, Next PROVE IInv'
    <3>1. Typed'
      BY <2>1, TypedNext DEF IInv
    <3>2. ASSUME ~Panicked' PROVE Excluding'
      BY <2>1, <3>2, ExcludingNext, StuckForGood DEF IInv
    <3>3. ASSUME ~Panicked', ~Stalled' PROVE InTime'
      BY <2>1, <3>1, <3>2, <3>3, InTimeNext, StuckForGood DEF IInv
    <3>4. QED
      BY <3>1, <3>2, <3>3 DEF IInv
  <2>2. QED
    BY <2>1, InvStutters
<1>2. QED
  BY InvInit, <1>1, PTL DEF Spec

\* Without a panic, whoever is in a write section of RoomsMu has it to itself, also
\* after an eviction gave it away and took it again (HandleCreatePath).
THEOREM WritesExcludeHolds == Spec => []WritesExclude
<1>1. ASSUME IInv, ~Panicked, NEW w \in Writers, HasLock(w)
      PROVE  inner = w /\ announced /\ readers = {}
  <2>1. step[w] \in Owning /\ w \notin asleep
    BY <1>1 DEF HasLock, Inside, Owning, IInv, Excluding
  <2>2. inner = w /\ announced
    BY <1>1, <2>1, GoroutinesAssumption DEF IInv, Excluding
  <2>3. asleep = {}
    BY <1>1, <2>1, <2>2 DEF IInv, Excluding
  <2>4. QED
    BY <1>1, <2>2, <2>3 DEF IInv, Excluding
<1>2. IInv => WritesExclude
  BY <1>1 DEF WritesExclude
<1>3. QED
  BY WatchdogInvariant, <1>2, PTL

\* Without a panic, whoever sleeps for RoomsMu has somebody to wake it: blocked readers
\* imply an announced writer, and a sleeping writer implies readers (HandleCreatePath).
THEOREM SleepersAreAwaitedHolds == Spec => []SleepersAreAwaited
<1>1. ASSUME IInv, ~Panicked, blocked # {}
      PROVE  \E w \in Writers : HasLock(w) \/ w \in asleep
  <2>1. inner \in Writers
    BY <1>1 DEF IInv, Excluding
  <2>2. step[inner] \in Owning
    BY <1>1, <2>1 DEF IInv, Excluding
  <2>3. HasLock(inner) \/ inner \in asleep
    BY <2>2 DEF HasLock, Inside, Owning
  <2>4. QED
    BY <2>1, <2>3
<1>2. IInv => SleepersAreAwaited
  BY <1>1 DEF SleepersAreAwaited, IInv, Excluding
<1>3. QED
  BY WatchdogInvariant, <1>2, PTL

\* DeadlockWatchdog never ends an instance in which nothing is stuck, however many
\* creators sleep under RoomsMu one after the other.
THEOREM NoFalseAlarmHolds == Spec => []NoFalseAlarm
<1>1. IInv => NoFalseAlarm
  BY DEF IInv, InTime, NoFalseAlarm
<1>2. QED
  BY WatchdogInvariant, <1>1, PTL
=============================================================================
