------------------------------ MODULE Watchdog ------------------------------
(***************************************************************************)
(* RoomsMu over time: the handlers that read under it, the writers, among  *)
(* them the creators that hold it while they sleep (HandleCreatePath), and *)
(* the watchdog that ends the process when it cannot read-lock it in time  *)
(* (DeadlockWatchdog, InstanceHealthHandler.go).                           *)
(*                                                                         *)
(* A unit of time is a second.  What is not a sleep, a timer or a write to *)
(* a socket takes no time: time stands still while somebody is Busy.       *)
(***************************************************************************)
EXTENDS RWMutex

CONSTANTS
    Probes,     \* the readers that the watchdog starts; the others are handlers
    HoldTime,   \* the sleep of a creator with a reuse token
    Timeout,    \* what the watchdog allows for a read lock
    Period,     \* of the watchdog's ticker
    TerminateWhenUnhealthy

ASSUME TimesAssumption ==
    /\ Probes \subseteq Readers
    /\ HoldTime \in Nat
    /\ Timeout \in Nat
    /\ HoldTime < Timeout
    /\ Period \in Nat \ {0}
    /\ TerminateWhenUnhealthy \in BOOLEAN

VARIABLES
    step,       \* where each writer is
    left,       \* what is left of its sleep
    ticker,     \* time to the next tick
    tick,       \* the ticker's channel holds a tick
    probe,      \* the reader that the watchdog waits for
    lockAcquired,   \* that reader has reported
    limit,      \* time left for it
    IsHealthy,
    fate        \* "running", "terminated" by the watchdog, or "fatal"

dogVars == <<ticker, tick, probe, lockAcquired, limit, IsHealthy>>
vars == <<lockVars, step, left, dogVars, fate>>

Goto(w, label) == step' = [step EXCEPT ![w] = label]

Init ==
    /\ LockInit
    /\ step = [w \in Writers |-> "idle"]
    /\ left = [w \in Writers |-> 0]
    /\ ticker = Period
    /\ tick = FALSE
    /\ probe = Nobody
    /\ lockAcquired = FALSE
    /\ limit = 0
    /\ IsHealthy = TRUE
    /\ fate = "running"

\* Has the lock, unless somebody else has unlocked it.
Inside(w) == step[w] \in {"locked", "retaken"} /\ w \notin asleep

HandlerReads(r) ==
    /\ r \in Readers \ Probes
    /\ RLock(r)
    /\ UNCHANGED <<step, left, dogVars, fate>>

ReaderLeaves(r) ==
    /\ RUnlock(r)
    /\ lockAcquired' = (lockAcquired \/ r = probe)
    /\ UNCHANGED <<step, left, ticker, tick, probe, limit, IsHealthy, fate>>

WriterWants(w) ==
    /\ step[w] = "idle"
    /\ Goto(w, "locking")
    /\ UNCHANGED <<lockVars, left, dogVars, fate>>

WriterLocks(w) ==
    /\ \/ step[w] = "locking" /\ Goto(w, "locked")
       \/ step[w] = "relocking" /\ Goto(w, "retaken")
    /\ Lock(w)
    /\ UNCHANGED <<left, dogVars, fate>>

\* To unlock what is not locked ends the process.
Release ==
    \/ Unlock /\ UNCHANGED fate
    \/ ~announced /\ fate' = "fatal" /\ UNCHANGED lockVars

\* Every critical section but that of a creator with a reuse token is brief.
WriterUnlocks(w) ==
    /\ step[w] = "locked" /\ w \notin asleep
    /\ Goto(w, "idle")
    /\ Release
    /\ UNCHANGED <<left, dogVars>>

CreatorSleeps(w) ==
    /\ Inside(w)
    /\ left' = [left EXCEPT ![w] = HoldTime]
    /\ Goto(w, "sleeping")
    /\ UNCHANGED <<lockVars, dogVars, fate>>

\* Variant: returns with the lock.
CreatorKeepsLock(w) ==
    /\ step[w] = "sleeping" /\ left[w] = 0
    /\ Goto(w, "idle")
    /\ UNCHANGED <<lockVars, left, dogVars, fate>>

CreatorReturns(w) ==
    /\ step[w] = "sleeping" /\ left[w] = 0
    /\ Goto(w, "idle")
    /\ Release
    /\ UNCHANGED <<left, dogVars>>

EvictUnlocks(w) ==
    /\ step[w] = "locked" /\ w \notin asleep
    /\ Goto(w, "evicting")
    /\ Release
    /\ UNCHANGED <<left, dogVars>>

\* Variant: goes on without the lock.
EvictKeepsOn(w) ==
    /\ step[w] = "evicting"
    /\ Goto(w, "retaken")
    /\ UNCHANGED <<lockVars, left, dogVars, fate>>

\* The old host has its close frame and the 50 ms are over.
EvictRelocks(w) ==
    /\ step[w] = "evicting"
    /\ Goto(w, "relocking")
    /\ UNCHANGED <<lockVars, left, dogVars, fate>>

(***************************************************************************)
(* The close frame meets another write to the old host's socket (of a      *)
(* client that announces itself under HostMu) and the WebSocket library    *)
(* panics.  The deferred Unlock then runs in a goroutine that has no lock. *)
(***************************************************************************)
EvictPanics(w) ==
    /\ step[w] = "evicting"
    /\ Goto(w, "panicked")
    /\ Release
    /\ UNCHANGED <<left, dogVars>>

\* Outside the code: something done under the lock, such as a write to the
\* log, does not return.
Stall(w) ==
    /\ Inside(w)
    /\ Goto(w, "stalled")
    /\ UNCHANGED <<lockVars, left, dogVars, fate>>

WriterStep(w) ==
    \/ WriterLocks(w)
    \/ WriterUnlocks(w)
    \/ CreatorSleeps(w)
    \/ CreatorReturns(w)
    \/ EvictUnlocks(w)
    \/ EvictRelocks(w)

-----------------------------------------------------------------------------
(* The watchdog *)

\* Variant: the limit is the period of the ticker.
DogStartsBriefly ==
    /\ tick /\ probe = Nobody
    /\ \E p \in Probes : RLock(p) /\ probe' = p
    /\ tick' = FALSE
    /\ lockAcquired' = FALSE
    /\ limit' = Period
    /\ UNCHANGED <<step, left, ticker, IsHealthy, fate>>

DogStarts ==
    /\ tick /\ probe = Nobody
    /\ \E p \in Probes : RLock(p) /\ probe' = p
    /\ tick' = FALSE
    /\ lockAcquired' = FALSE
    /\ limit' = Timeout
    /\ UNCHANGED <<step, left, ticker, IsHealthy, fate>>

DogHears ==
    /\ probe # Nobody /\ lockAcquired
    /\ probe' = Nobody
    /\ IsHealthy' = TRUE
    /\ UNCHANGED <<lockVars, step, left, ticker, tick, lockAcquired, limit, fate>>

\* Variant: reports, and stays healthy.
DogOnlyReports ==
    /\ probe # Nobody /\ limit = 0
    /\ probe' = Nobody
    /\ UNCHANGED <<lockVars, step, left, ticker, tick, lockAcquired, limit,
                   IsHealthy, fate>>

DogTimesOut ==
    /\ probe # Nobody /\ limit = 0
    /\ probe' = Nobody
    /\ IsHealthy' = FALSE
    /\ fate' = IF TerminateWhenUnhealthy THEN "terminated" ELSE fate
    /\ UNCHANGED <<lockVars, step, left, ticker, tick, lockAcquired, limit>>

DogStep == DogStarts \/ DogHears \/ DogTimesOut

-----------------------------------------------------------------------------
Less(n) == IF n = 0 THEN 0 ELSE n - 1

Busy ==
    \/ readers # {}
    \/ \E w \in Writers :
        \/ Inside(w)
        \/ step[w] \in {"locking", "relocking"} /\ inner = Nobody
        \/ step[w] = "sleeping" /\ left[w] = 0
    \/ probe = Nobody /\ tick
    \/ probe # Nobody /\ (lockAcquired \/ limit = 0)

\* A tick that finds the channel full is dropped.
Tick ==
    /\ ~Busy
    /\ left' = [w \in Writers |-> Less(left[w])]
    /\ limit' = Less(limit)
    /\ ticker' = IF ticker = 1 THEN Period ELSE ticker - 1
    /\ tick' = (tick \/ ticker = 1)
    /\ UNCHANGED <<lockVars, step, probe, lockAcquired, IsHealthy, fate>>

Running ==
    \/ \E r \in Readers : HandlerReads(r) \/ ReaderLeaves(r)
    \/ \E w \in Writers : WriterWants(w) \/ WriterStep(w) \/ EvictPanics(w) \/ Stall(w)
    \/ DogStep
    \/ Tick

Next == fate = "running" /\ Running

Spec == Init /\ [][Next]_vars

(***************************************************************************)
(* Go schedules what can run; a waiter for a sync.Mutex is handed the      *)
(* mutex after a millisecond at the latest (strong fairness of Lock);      *)
(* the clock goes on.                                                      *)
(***************************************************************************)
Fairness ==
    /\ \A r \in Readers : WF_vars(fate = "running" /\ ReaderLeaves(r))
    /\ \A w \in Writers : SF_vars(fate = "running" /\ WriterLocks(w))
    /\ \A w \in Writers : WF_vars(fate = "running" /\ WriterStep(w))
    /\ WF_vars(fate = "running" /\ DogStep)
    /\ WF_vars(fate = "running" /\ Tick)

FairSpec == Spec /\ Fairness

-----------------------------------------------------------------------------
Stalled == \E w \in Writers : step[w] = "stalled"
Panicked == \E w \in Writers : step[w] = "panicked"

\* The watchdog never finds an instance unhealthy, and never ends it, because
\* creators hold RoomsMu for 5 s one after the other: whoever waits to read
\* waits for one of them (RoomCreation.go:120 against
\* InstanceHealthHandler.go:41-42).
NoFalseAlarm == ~IsHealthy => Stalled \/ Panicked

\* Whoever is in a write section of RoomsMu has it to itself, also after it
\* gave the lock away for an eviction (RoomCreation.go:107-113), unless a
\* creator has panicked.
HasLock(w) == Inside(w) \/ step[w] \in {"sleeping", "stalled"}

WritesExclude ==
    \A w \in Writers :
        HasLock(w) /\ ~Panicked =>
            /\ inner = w /\ announced
            /\ readers = {}
            /\ \A v \in Writers \ {w} : ~HasLock(v)

\* Nobody sleeps for RoomsMu with no one to wake it: handlers sleep only behind a
\* writer that is still going to unlock, or to lock first, and a writer only behind
\* readers that are still inside.  HandleCreatePath, which unlocks and locks again
\* between two sleeps, leaves no one behind on any way out but a panic.
SleepersAreAwaited ==
    ~Panicked =>
        /\ blocked # {} => \E w \in Writers : HasLock(w) \/ w \in asleep
        /\ asleep # {} => readers # {}

\* Whoever waits for RoomsMu gets it, however many creators come, or the
\* watchdog ends the process.  A writer may also be lost to a panic.
LockIsGranted ==
    /\ \A r \in Readers : r \in blocked ~> r \notin blocked \/ fate # "running"
    /\ \A w \in Writers :
        step[w] \in {"locking", "relocking"} \/ w \in asleep
            ~> Inside(w) \/ fate # "running" \/ Panicked

\* RoomCreation.go:117, "since we have the lock": a creator that took the lock
\* again after an eviction has it when it deletes the old room.
CreatorHasLock ==
    \A w \in Writers :
        step[w] = "retaken" /\ w \notin asleep => inner = w
=============================================================================
