------------------------------ MODULE Admission ------------------------------
(***************************************************************************)
(* What a /create request passes before it may make a room: the challenge  *)
(* of /pow (GenerateProofOfWork), its verification and the salts already   *)
(* used (IsProofOfWorkValid, isReplay, StartCleanupLoop), and the          *)
(* difficulty that the traffic monitor sets (MonitorTraffic).              *)
(*                                                                         *)
(* Time is the Unix time in seconds, which is what expiry times and the    *)
(* cleanup loop compare.  A token signed by somebody else changes nothing  *)
(* and is left out; whether a nonce solves its challenge is free.          *)
(***************************************************************************)
EXTENDS Integers

CONSTANTS
    Tokens, Salts,      \* challenges, and the salts they draw
    Visits,             \* /create requests
    Lifetime,           \* powTokenExpiryMinutes, in seconds
    MaxPause,           \* seconds a request may take between its two checks
    MaxTime,            \* bound of the clock
    Difficulty6Threshold, Difficulty7Threshold,
    DifficultyCooldown, \* what the configuration says, in seconds
    Absent

ASSUME ClockAssumption == /\ Lifetime \in Nat \ {0}
                          /\ MaxPause \in Nat
                          /\ MaxTime \in Nat

ASSUME ThresholdAssumption == /\ Difficulty6Threshold \in Nat
                              /\ Difficulty7Threshold \in Nat

ASSUME AbsentAssumption == /\ Absent \notin Int
                           /\ Absent \notin Salts
                           /\ Absent \notin Tokens

VARIABLES
    now,
    UsedSalts,              \* salt -> expiry
    salt, expiry,           \* the claims of each token, Absent before /pow
    stage, token, verifiedAt,   \* the locals of each /create request
    HandshakeCounter, CurrentDifficulty, LastUpped

claims == <<salt, expiry>>
visits == <<stage, token, verifiedAt>>
traffic == <<HandshakeCounter, CurrentDifficulty, LastUpped>>
vars == <<now, UsedSalts, claims, visits, traffic>>

Init ==
    /\ now = 0
    /\ UsedSalts = [s \in Salts |-> Absent]
    /\ salt = [t \in Tokens |-> Absent]
    /\ expiry = [t \in Tokens |-> Absent]
    /\ stage = [v \in Visits |-> "idle"]
    /\ token = [v \in Visits |-> Absent]
    /\ verifiedAt = [v \in Visits |-> Absent]
    /\ HandshakeCounter = 0
    /\ CurrentDifficulty = 5
    /\ LastUpped = -DifficultyCooldown - 1  \* the zero time: long ago

\* A request that has been verified is at its second check MaxPause later.
Tick ==
    /\ now < MaxTime
    /\ \A v \in Visits : stage[v] = "verified" => now < verifiedAt[v] + MaxPause
    /\ now' = now + 1
    /\ UNCHANGED <<UsedSalts, claims, visits, traffic>>

(***************************************************************************)
(* The salt is the time in milliseconds and a number below 100000: nothing *)
(* keeps two challenges from sharing it, nor their expiry times, taken     *)
(* later, from being apart.  The difficulty goes into the token and only   *)
(* decides which nonces solve it.  The clock has room left to pass the     *)
(* expiry of every challenge.                                              *)
(***************************************************************************)
GenerateProofOfWork(t, s) ==
    /\ salt[t] = Absent
    /\ now + Lifetime < MaxTime
    /\ salt' = [salt EXCEPT ![t] = s]
    /\ expiry' = [expiry EXCEPT ![t] = now + Lifetime]
    /\ UNCHANGED <<now, UsedSalts, visits, traffic>>

\* verifyAndGetPayload: an expired token is refused.
Verify(v, t) ==
    /\ stage[v] = "idle"
    /\ salt[t] # Absent
    /\ stage' = [stage EXCEPT ![v] = IF now < expiry[t] THEN "verified" ELSE "refused"]
    /\ token' = [token EXCEPT ![v] = t]
    /\ verifiedAt' = [verifiedAt EXCEPT ![v] = now]
    /\ UNCHANGED <<now, UsedSalts, claims, traffic>>

\* isReplay, under UsedSaltsMutex, and the hash: a wrong nonce spends the salt.
CheckReplay(v) ==
    /\ stage[v] = "verified"
    /\ \/ /\ UsedSalts[salt[token[v]]] # Absent
          /\ stage' = [stage EXCEPT ![v] = "refused"]
          /\ UNCHANGED UsedSalts
       \/ /\ UsedSalts[salt[token[v]]] = Absent
          /\ UsedSalts' = [UsedSalts EXCEPT ![salt[token[v]]] = expiry[token[v]]]
          /\ \E result \in {"solved", "refused"} : stage' = [stage EXCEPT ![v] = result]
    /\ UNCHANGED <<now, claims, token, verifiedAt, traffic>>

CountHandshake(v) ==
    /\ stage[v] = "solved"
    /\ stage' = [stage EXCEPT ![v] = "accepted"]
    /\ HandshakeCounter' = HandshakeCounter + 1
    /\ UNCHANGED <<now, UsedSalts, claims, token, verifiedAt, CurrentDifficulty, LastUpped>>

\* Variant: forgets a salt one second early.
OutdatedEarly(s) == UsedSalts[s] # Absent /\ now >= UsedSalts[s]

\* Variant: the comparison is the other way round.
OutdatedBackwards(s) == UsedSalts[s] # Absent /\ now < UsedSalts[s]

Outdated(s) == UsedSalts[s] # Absent /\ now > UsedSalts[s]

\* One turn of StartCleanupLoop.
ForgetSalts ==
    /\ UsedSalts' = [s \in Salts |-> IF Outdated(s) THEN Absent ELSE UsedSalts[s]]
    /\ UNCHANGED <<now, claims, visits, traffic>>

TargetDifficulty ==
    IF HandshakeCounter > Difficulty7Threshold THEN 7
    ELSE IF HandshakeCounter > Difficulty6Threshold THEN 6 ELSE 5

MonitorRaises ==
    /\ TargetDifficulty > CurrentDifficulty
    /\ CurrentDifficulty' = TargetDifficulty
    /\ LastUpped' = now
    /\ HandshakeCounter' = 0
    /\ UNCHANGED <<now, UsedSalts, claims, visits>>

(***************************************************************************)
(* The cooldown is compared as time.Duration(30_000): nanoseconds.  Within *)
(* one second of this clock those 30 microseconds may be over or not.      *)
(***************************************************************************)
MonitorLowers ==
    /\ TargetDifficulty < CurrentDifficulty
    /\ CurrentDifficulty' = TargetDifficulty
    /\ HandshakeCounter' = 0
    /\ UNCHANGED <<now, UsedSalts, claims, visits, LastUpped>>

\* Variant: loads the counter where the code swaps it with zero.
MonitorOnlyLoads ==
    /\ \/ TargetDifficulty = CurrentDifficulty
       \/ TargetDifficulty < CurrentDifficulty /\ now = LastUpped
    /\ UNCHANGED vars

MonitorKeeps ==
    /\ \/ TargetDifficulty = CurrentDifficulty
       \/ TargetDifficulty < CurrentDifficulty /\ now = LastUpped
    /\ HandshakeCounter' = 0
    /\ UNCHANGED <<now, UsedSalts, claims, visits, CurrentDifficulty, LastUpped>>

Next ==
    \/ Tick
    \/ \E t \in Tokens, s \in Salts : GenerateProofOfWork(t, s)
    \/ \E v \in Visits : \/ \E t \in Tokens : Verify(v, t)
                         \/ CheckReplay(v)
                         \/ CountHandshake(v)
    \/ ForgetSalts
    \/ MonitorRaises
    \/ MonitorLowers
    \/ MonitorKeeps

Spec == Init /\ [][Next]_vars

(***************************************************************************)
(* Time passes, a request in progress proceeds, and both loops turn.  Two  *)
(* turns of the monitor are a second apart in the long run, so the         *)
(* microseconds of the cooldown do not keep it from lowering for ever.     *)
(***************************************************************************)
Fairness ==
    /\ WF_vars(Tick)
    /\ \A v \in Visits : WF_vars(CheckReplay(v)) /\ WF_vars(CountHandshake(v))
    /\ WF_vars(ForgetSalts)
    /\ WF_vars(MonitorRaises) /\ WF_vars(MonitorKeeps)
    /\ SF_vars(MonitorLowers)

FairSpec == Spec /\ Fairness

-----------------------------------------------------------------------------
\* One solved challenge makes one room: however the requests that carry it
\* interleave with each other and with the cleanup of old salts, a token is
\* accepted once (ProofOfWork.go:28-56, and the 400 of RoomCreation.go:45).
\* This holds only as long as no request pauses for more than a second between
\* its two checks (MaxPause <= 1), which the code does not see to.
AcceptedOnce ==
    \A v, w \in Visits :
        /\ stage[v] \in {"solved", "accepted"}
        /\ stage[w] \in {"solved", "accepted"}
        /\ token[v] = token[w]
        => v = w

\* The map of used salts does not grow for ever: each salt is forgotten.
SaltsForgotten == \A s \in Salts : UsedSalts[s] # Absent ~> UsedSalts[s] = Absent

\* Once nobody asks for a room, the difficulty goes back to normal, also when
\* the last handshakes are counted while the monitor swaps the counter.
DifficultyRecovers ==
    (\A v \in Visits : stage[v] \in {"accepted", "refused"}) ~> CurrentDifficulty = 5
=============================================================================
