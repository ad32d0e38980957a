--------------------------- MODULE AdmissionProofs ---------------------------
(***************************************************************************)
(* A token is accepted once, for any number of tokens, salts and requests  *)
(* and any lifetime, if a request takes less than a second of the clock's  *)
(* ticks between the two checks of IsProofOfWorkValid.                     *)
(***************************************************************************)
EXTENDS Admission, TLAPS

\* The types the argument needs: those of the clock, the salts and the claims.
ClaimsType ==
    /\ now \in Int
    /\ UsedSalts \in [Salts -> Int \cup {Absent}]
    /\ salt \in [Tokens -> Salts \cup {Absent}]
    /\ expiry \in [Tokens -> Int \cup {Absent}]
    /\ stage \in [Visits -> {"idle", "verified", "refused", "solved", "accepted"}]
    /\ token \in [Visits -> Tokens \cup {Absent}]
    /\ verifiedAt \in [Visits -> Int \cup {Absent}]

Dated == \A t \in Tokens : salt[t] # Absent => expiry[t] \in Int

Passed(v) == stage[v] \in {"solved", "accepted"}

\* A request past its first check carries a challenge that was made.
Carried ==
    \A v \in Visits : Passed(v) \/ stage[v] = "verified"
        => token[v] \in Tokens /\ salt[token[v]] # Absent

\* The second check is made before or in the second of the expiry.
InTime ==
    \A v \in Visits : stage[v] = "verified"
        => /\ verifiedAt[v] \in Int
           /\ verifiedAt[v] < expiry[token[v]]
           /\ now <= verifiedAt[v] + MaxPause

\* Until it has expired, the salt of a token that passed is in the map.
Remembered ==
    \A v \in Visits : Passed(v) /\ now <= expiry[token[v]]
        => UsedSalts[salt[token[v]]] = expiry[token[v]]

AdmissionInv == ClaimsType /\ Dated /\ Carried /\ InTime /\ Remembered /\ AcceptedOnce

USE ClockAssumption, AbsentAssumption

\* Nothing has been made at the start.
LEMMA AdmissionInit == Init => AdmissionInv
  BY DEF Init, AdmissionInv, ClaimsType, Dated, Carried, InTime, Remembered,
         AcceptedOnce, Passed

\* Every step keeps the invariant: the clock does not pass a verified request
\* by more than a tick, and a salt is only forgotten after its expiry.
LEMMA AdmissionStep ==
    ASSUME MaxPause <= 1, AdmissionInv, [Next]_vars
    PROVE  AdmissionInv'
<1> USE DEF AdmissionInv, ClaimsType, Dated, Carried, InTime, Remembered,
            AcceptedOnce, Passed, claims, visits, traffic
<1>1. CASE Tick
  BY <1>1 DEF Tick
<1>2. ASSUME NEW t \in Tokens, NEW s \in Salts, GenerateProofOfWork(t, s)
      PROVE  AdmissionInv'
  BY <1>2 DEF GenerateProofOfWork
<1>3. ASSUME NEW v \in Visits, NEW t \in Tokens, Verify(v, t)
      PROVE  AdmissionInv'
  BY <1>3 DEF Verify
<1>4. ASSUME NEW v \in Visits, CheckReplay(v)
      PROVE  AdmissionInv'
  <2> DEFINE s == salt[token[v]]
             e == expiry[token[v]]
  <2>1. stage[v] = "verified" /\ token[v] \in Tokens /\ s \in Salts /\ e \in Int /\ now <= e
    BY <1>4, MaxPause <= 1 DEF CheckReplay
  <2>2. CASE UsedSalts[s] # Absent
    BY <1>4, <2>1, <2>2 DEF CheckReplay
  <2>3. CASE UsedSalts[s] = Absent
    <3>1. \A w \in Visits : Passed(w) => token[w] # token[v]
      BY <2>1, <2>3
    <3>2. \A w \in Visits : Passed(w) /\ now <= expiry[token[w]] => salt[token[w]] # s
      BY <2>1, <2>3
    <3>3. UsedSalts' = [UsedSalts EXCEPT ![s] = e]
      BY <1>4, <2>3 DEF CheckReplay
    <3>4. PICK result \in {"solved", "refused"} : stage' = [stage EXCEPT ![v] = result]
      BY <1>4, <2>3 DEF CheckReplay
    <3>5. UNCHANGED <<now, claims, token, verifiedAt>>
      BY <1>4 DEF CheckReplay
    <3>6. ClaimsType' /\ Dated' /\ Carried' /\ InTime'
      BY <2>1, <3>3, <3>4, <3>5
    <3>7. Remembered'
      BY <2>1, <3>2, <3>3, <3>4, <3>5
    <3>8. AcceptedOnce'
      BY <2>1, <3>1, <3>4, <3>5
    <3> QED BY <3>6, <3>7, <3>8
  <2> QED BY <2>2, <2>3
<1>5. ASSUME NEW v \in Visits, CountHandshake(v)
      PROVE  AdmissionInv'
  BY <1>5 DEF CountHandshake
<1>6. CASE ForgetSalts
  BY <1>6 DEF ForgetSalts, Outdated
<1>7. CASE MonitorRaises \/ MonitorLowers \/ MonitorKeeps
  BY <1>7 DEF MonitorRaises, MonitorLowers, MonitorKeeps
<1>8. CASE UNCHANGED vars
  BY <1>8 DEF vars
<1> QED BY <1>1, <1>2, <1>3, <1>4, <1>5, <1>6, <1>7, <1>8 DEF Next

\* One solved challenge makes one room (isReplay, StartCleanupLoop), given that
\* a request does not pause for more than a second between its two checks.
THEOREM AcceptedOnceHolds == ASSUME MaxPause <= 1 PROVE Spec => []AcceptedOnce
<1>1. AdmissionInv /\ [Next]_vars => AdmissionInv'
  BY AdmissionStep
<1>2. AdmissionInv => AcceptedOnce
  BY DEF AdmissionInv
<1> QED BY AdmissionInit, <1>1, <1>2, PTL DEF Spec
=============================================================================
