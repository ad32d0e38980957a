------------------------------ MODULE RWMutex ------------------------------
(***************************************************************************)
(* sync.RWMutex of the Go library, as the relay uses it for RoomsMu.       *)
(*                                                                         *)
(* A writer takes an inner mutex and announces itself.  From then on new   *)
(* readers sleep, and the writer sleeps until the readers that are inside  *)
(* have left.  Unlock lets every sleeping reader in before it frees the    *)
(* inner mutex, and it does not look at who calls it: a goroutine may      *)
(* unlock what another one has locked.  To unlock what nobody has locked   *)
(* ends the process.                                                       *)
(***************************************************************************)
EXTENDS Integers, FiniteSets

CONSTANTS Readers, Writers, Nobody

ASSUME GoroutinesAssumption ==
    /\ IsFiniteSet(Readers)
    /\ Nobody \notin Readers \cup Writers

VARIABLES
    readers,        \* inside for reading
    blocked,        \* readers asleep until the writer unlocks
    inner,          \* who has the inner mutex
    announced,      \* a writer has it, or waits for the readers inside
    readerWait,     \* how many readers a sleeping writer still waits for
    asleep          \* the writers that sleep until readers have left

lockVars == <<readers, blocked, inner, announced, readerWait, asleep>>

LockInit ==
    /\ readers = {}
    /\ blocked = {}
    /\ inner = Nobody
    /\ announced = FALSE
    /\ readerWait = 0
    /\ asleep = {}

RLock(r) ==
    /\ r \notin readers \cup blocked
    /\ IF announced
       THEN blocked' = blocked \cup {r} /\ UNCHANGED readers
       ELSE readers' = readers \cup {r} /\ UNCHANGED blocked
    /\ UNCHANGED <<inner, announced, readerWait, asleep>>

\* The last reader that a writer waits for wakes one of the sleeping writers.
RUnlock(r) ==
    /\ r \in readers
    /\ readers' = readers \ {r}
    /\ readerWait' = IF announced THEN readerWait - 1 ELSE readerWait
    /\ IF announced /\ readerWait = 1
       THEN \E w \in asleep : asleep' = asleep \ {w}
       ELSE UNCHANGED asleep
    /\ UNCHANGED <<blocked, inner, announced>>

\* Lock: w has the lock as soon as it is not asleep.
Lock(w) ==
    /\ inner = Nobody
    /\ inner' = w
    /\ announced' = TRUE
    /\ readerWait' = readerWait + Cardinality(readers)
    /\ asleep' = IF readers = {} THEN asleep ELSE asleep \cup {w}
    /\ UNCHANGED <<readers, blocked>>

Unlock ==
    /\ announced
    /\ announced' = FALSE
    /\ readers' = readers \cup blocked
    /\ blocked' = {}
    /\ inner' = Nobody
    /\ UNCHANGED <<readerWait, asleep>>
=============================================================================
