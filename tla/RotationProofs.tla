---------------------------- MODULE RotationProofs ----------------------------
(***************************************************************************)
(* Proofs about Rotation: type correctness for any callers, and for a      *)
(* single caller, as in a running process, what rotate promises, for any   *)
(* number of credentials, threshold and limit.                             *)
(***************************************************************************)
EXTENDS Rotation, TLAPS

-----------------------------------------------------------------------------
(* Arithmetic of the candidates *)

(* Counting on from a credential wraps around at most once. *)
LEMMA WrapAround ==
    ASSUME NEW x \in 0..(2 * N - 1)
    PROVE  x % N = IF x < N THEN x ELSE x - N
  <1>1. CASE x < N
    BY <1>1, NAssumption
  <1>2. CASE x >= N
    <2>1. x \in N..(2 * N - 1)
      BY <1>2, NAssumption
    <2> QED
      BY <1>2, <2>1, NAssumption
  <1> QED
    BY <1>1, <1>2, NAssumption

(* The two cases of counting modulo the number of credentials. *)
LEMMA CandidateValue ==
    ASSUME active \in Entries, NEW i \in 1..(N - 1)
    PROVE  /\ Candidate(i) = IF active + i < N THEN active + i ELSE active + i - N
           /\ Candidate(i) \in Entries
           /\ Candidate(i) # active
  <1> DEFINE x == active + i
  <1>1. x \in 0..(2 * N - 1)
    BY NAssumption DEF Entries
  <1>2. x % N = IF x < N THEN x ELSE x - N
    <2> HIDE DEF x
    <2> QED
      BY <1>1, WrapAround
  <1> QED
    BY <1>2, NAssumption DEF Candidate, Entries

(* No credential is a candidate twice. *)
LEMMA CandidatesDiffer ==
    ASSUME active \in Entries, NEW i \in 1..(N - 1), NEW j \in 1..(N - 1), i # j
    PROVE  Candidate(i) # Candidate(j)
  <1>1. Candidate(i) = IF active + i < N THEN active + i ELSE active + i - N
    BY CandidateValue
  <1>2. Candidate(j) = IF active + j < N THEN active + j ELSE active + j - N
    BY CandidateValue
  <1> QED
    BY <1>1, <1>2, NAssumption DEF Entries

(* Every other credential is a candidate. *)
LEMMA CandidatesCover ==
    ASSUME active \in Entries
    PROVE  {Candidate(i) : i \in 1..(N - 1)} = Entries \ {active}
  <1>1. ASSUME NEW e \in Entries, e # active
        PROVE  \E i \in 1..(N - 1) : Candidate(i) = e
    <2> DEFINE i == IF e > active THEN e - active ELSE e - active + N
    <2>1. i \in 1..(N - 1)
      BY <1>1, NAssumption DEF Entries
    <2>2. Candidate(i) = IF active + i < N THEN active + i ELSE active + i - N
      BY <2>1, CandidateValue
    <2>3. Candidate(i) = e
      BY <1>1, <2>2, NAssumption DEF Entries
    <2> QED
      BY <2>1, <2>3
  <1> QED
    BY <1>1, CandidateValue

-----------------------------------------------------------------------------
(* Type correctness *)

(* The candidates of a rotation in progress are counted below N. *)
StepInRange ==
    \A c \in Callers : pc[c] \in {"candidate", "decide"} => step[c] < N

TypeInv == TypeOK /\ StepInRange

(* A candidate is one of the credentials. *)
LEMMA CandidateIsEntry ==
    ASSUME active \in Entries, NEW i \in Nat
    PROVE  Candidate(i) \in Entries
  BY NAssumption DEF Candidate, Entries

(* The pool begins with its types. *)
LEMMA TypeInvInit == Init => TypeInv
  BY NAssumption, LimitAssumption, ChangesAssumption
  DEF Init, TypeInv, TypeOK, StepInRange, Entries, Unknown, NoAnswer

(* Every step of any caller keeps the types. *)
LEMMA TypeInvStep == TypeInv /\ [Next]_vars => TypeInv'
  <1> SUFFICES ASSUME TypeOK, StepInRange, [Next]_vars
               PROVE  TypeOK' /\ StepInRange'
    BY DEF TypeInv
  <1> USE NAssumption, LimitAssumption, ChangesAssumption
      DEF TypeOK, StepInRange, Unknown, NoAnswer, callerVars, rotateVars, worldVars
  <1>1. 0 \in Entries
    BY DEF Entries
  <1>2. ASSUME NEW c \in Callers, NEW there \in {"store", "decide"},
               Ask(c, there), there = "decide" => step[c] < N
        PROVE  TypeOK' /\ StepInRange'
    <2>1. CASE answer' = [answer EXCEPT ![c] = NoAnswer]
      <3>1. changes' \in 0..MaxChanges
        BY <1>2 DEF Ask, Change
      <3> QED
        BY <1>2, <2>1, <3>1 DEF Ask
    <2>2. CASE answer' = [answer EXCEPT ![c] = actual[entry[c]]] /\ UNCHANGED changes
      BY <1>2, <2>2 DEF Ask
    <2> QED
      BY <1>2, <2>1, <2>2 DEF Ask
  <1>3. ASSUME NEW c \in Callers, Begin(c)
        PROVE  TypeOK' /\ StepInRange'
    BY <1>3 DEF Begin
  <1>4. ASSUME NEW c \in Callers, Fetch(c)
        PROVE  TypeOK' /\ StepInRange'
    BY <1>2, <1>4 DEF Fetch
  <1>5. ASSUME NEW c \in Callers, PingFails(c)
        PROVE  TypeOK' /\ StepInRange'
    BY <1>1, <1>5 DEF PingFails, Return
  <1>6. ASSUME NEW c \in Callers, NoRotation(c)
        PROVE  TypeOK' /\ StepInRange'
    BY <1>1, <1>6 DEF NoRotation, Record, Return
  <1>7. ASSUME NEW c \in Callers, Low(c)
        PROVE  TypeOK' /\ StepInRange'
    <2>1. Candidate(1) \in Entries
      BY CandidateIsEntry
    <2>2. remaining' \in [Entries -> Unknown..Limit]
      BY <1>7 DEF Low, Record
    <2> QED
      BY <1>7, <2>1, <2>2 DEF Low
  <1>8. ASSUME NEW c \in Callers, AskCandidate(c)
        PROVE  TypeOK' /\ StepInRange'
    BY <1>2, <1>8 DEF AskCandidate
  <1>9. ASSUME NEW c \in Callers, Switch(c)
        PROVE  TypeOK' /\ StepInRange'
    BY <1>1, <1>9 DEF Switch, Record, Return
  <1>10. ASSUME NEW c \in Callers, Judge(c)
         PROVE  /\ remaining' \in [Entries -> Unknown..Limit]
                /\ BestSoFar(c) \in Entries
                /\ Tried(c) \in SUBSET Entries
                /\ Answered(c) \in SUBSET Entries
                /\ Better(c) => answer[c] \in Unknown..Limit
    BY <1>10 DEF Judge, Record, BestSoFar, Better, Tried, Answered
  <1>11. ASSUME NEW c \in Callers, JudgeAndGoOn(c)
         PROVE  TypeOK' /\ StepInRange'
    <2>1. Candidate(step[c] + 1) \in Entries
      BY CandidateIsEntry
    <2> QED
      BY <1>10, <1>11, <2>1 DEF JudgeAndGoOn
  <1>12. ASSUME NEW c \in Callers, JudgeAndSettle(c)
         PROVE  TypeOK' /\ StepInRange'
    BY <1>1, <1>10, <1>12 DEF JudgeAndSettle, Return
  <1>13. CASE World
    BY <1>13 DEF World, Use, Restore, Revoke, Change
  <1>14. CASE UNCHANGED vars
    BY <1>14 DEF vars
  <1> QED
    BY <1>3, <1>4, <1>5, <1>6, <1>7, <1>8, <1>9, <1>11, <1>12, <1>13, <1>14
    DEF Next, CallerStep

(* Every credential index the pool uses is one of its credentials, for any *)
(* number of credentials and callers.                                      *)
THEOREM TypeCorrect == Spec => []TypeOK
  <1>1. Spec => []TypeInv
    BY TypeInvInit, TypeInvStep, PTL DEF Spec
  <1>2. TypeInv => TypeOK
    BY DEF TypeInv
  <1> QED
    BY <1>1, <1>2, PTL

-----------------------------------------------------------------------------
(* What rotate promises a single caller *)

Asking(c)   == pc[c] \in {"fetch", "store"}
Rotating(c) == pc[c] \in {"candidate", "decide"}

(* A ping asks about the active credential until it rotates. *)
AsksActive(c) == Asking(c) => entry[c] = active

(* Loop step i of rotate is at candidate i, with those before it tried. *)
AtCandidate(c) ==
    Rotating(c) =>
        /\ step[c] \in 1..(N - 1)
        /\ entry[c] = Candidate(step[c])
        /\ tried[c] = {Candidate(i) : i \in 1..(step[c] - 1)}
        /\ answered[c] \subseteq tried[c]

(* best has the highest count of those known now, and a low one. *)
BestKnown(c) ==
    Rotating(c) =>
        /\ best[c] \in answered[c] \cup {active}
        /\ remaining[best[c]] = bestRemaining[c]
        /\ bestRemaining[c] < Threshold
        /\ \A e \in answered[c] \cup {active} : remaining[e] <= bestRemaining[c]
        /\ best[c] # active => bestRemaining[c] > remaining[active]

CallerInv(c) == AsksActive(c) /\ AtCandidate(c) /\ BestKnown(c)

(* A caller that is not in Ping knows nothing. *)
NothingTried == \A c \in Callers : ~Rotating(c) => tried[c] = {} /\ answered[c] = {}

RotationInv == TypeInv /\ InactiveAreLow /\ NothingTried /\ \A c \in Callers : CallerInv(c)

(* No rotation is in progress at first. *)
LEMMA RotationInvInit == Init => RotationInv
  <1> SUFFICES ASSUME Init PROVE RotationInv
    OBVIOUS
  <1>1. TypeInv
    BY TypeInvInit
  <1>2. InactiveAreLow
    BY LimitAssumption DEF Init, InactiveAreLow, Unknown
  <1>3. NothingTried /\ \A c \in Callers : CallerInv(c)
    BY DEF Init, NothingTried, CallerInv, AsksActive, AtCandidate, BestKnown,
           Asking, Rotating
  <1> QED
    BY <1>1, <1>2, <1>3 DEF RotationInv

(* The candidate a rotation asks about is new to it. *)
LEMMA CandidateIsNew ==
    ASSUME RotationInv, NEW c \in Callers, Rotating(c)
    PROVE  /\ entry[c] \notin tried[c] \cup {active}
           /\ Tried(c) = {Candidate(i) : i \in 1..step[c]}
  <1> USE DEF RotationInv, CallerInv, AtCandidate
  <1>1. active \in Entries
    BY DEF TypeInv, TypeOK
  <1>2. step[c] \in 1..(N - 1) /\ entry[c] = Candidate(step[c])
    OBVIOUS
  <1>3. entry[c] # active
    BY <1>1, <1>2, CandidateValue
  <1>4. ASSUME NEW i \in 1..(step[c] - 1)
        PROVE  Candidate(i) # entry[c]
    <2>1. i \in 1..(N - 1) /\ i # step[c]
      BY <1>2, NAssumption
    <2> QED
      BY <1>1, <1>2, <2>1, CandidatesDiffer
  <1>5. entry[c] \notin tried[c]
    BY <1>4
  <1>6. 1..step[c] = 1..(step[c] - 1) \cup {step[c]}
    BY <1>2, NAssumption
  <1>7. Tried(c) = {Candidate(i) : i \in 1..step[c]}
    BY <1>2, <1>6 DEF Tried
  <1> QED
    BY <1>3, <1>5, <1>7

(* The decisions of a rotation preserve what it knows of the best.         *)
LEMMA BestStays ==
    ASSUME RotationInv, NEW c \in Callers, Judge(c)
    PROVE  /\ BestSoFar(c) \in Answered(c) \cup {active}
           /\ remaining'[BestSoFar(c)] = (IF Better(c) THEN answer[c] ELSE bestRemaining[c])
           /\ remaining'[BestSoFar(c)] < Threshold
           /\ \A e \in Answered(c) \cup {active} :
                  remaining'[e] <= remaining'[BestSoFar(c)]
           /\ remaining'[active] = remaining[active]
           /\ BestSoFar(c) # active => remaining'[BestSoFar(c)] > remaining[active]
           /\ Answered(c) \subseteq Tried(c)
           /\ \A e \in Entries : remaining'[e] < Threshold
  <1>1. Rotating(c)
    BY DEF Judge, Rotating
  <1>2. entry[c] \notin tried[c] \cup {active}
    BY <1>1, CandidateIsNew
  <1>3. BestKnown(c) /\ answered[c] \subseteq tried[c]
    BY <1>1 DEF RotationInv, CallerInv, AtCandidate
  <1>4. /\ active \in Entries /\ entry[c] \in Entries /\ best[c] \in Entries
        /\ remaining \in [Entries -> Unknown..Limit]
        /\ answer[c] \in NoAnswer..Limit
        /\ bestRemaining[c] \in Unknown..Limit
        /\ answered[c] \in SUBSET Entries
    BY DEF RotationInv, TypeInv, TypeOK
  <1>5. \A e \in Entries : remaining[e] < Threshold
    <2>1. remaining[active] < Threshold
      BY <1>1, <1>3, <1>4, LimitAssumption DEF BestKnown, Unknown
    <2> QED
      BY <1>4, <2>1, LimitAssumption DEF RotationInv, InactiveAreLow, Unknown
  <1> USE <1>1, <1>2, <1>3, <1>4, <1>5, LimitAssumption
      DEF Judge, Record, BestKnown, BestSoFar, Better, Answered, Tried, Unknown, NoAnswer
  <1>6. CASE answer[c] = NoAnswer
    BY <1>6
  <1>7. CASE answer[c] # NoAnswer
    <2>1. remaining' = [remaining EXCEPT ![entry[c]] = answer[c]]
      BY <1>7
    <2>2. CASE answer[c] > bestRemaining[c]
      BY <1>7, <2>1, <2>2
    <2>3. CASE answer[c] <= bestRemaining[c]
      BY <1>7, <2>1, <2>3
    <2> QED
      BY <2>2, <2>3
  <1> QED
    BY <1>6, <1>7

(* With a single caller every step preserves the invariant. *)
LEMMA RotationInvStep ==
    ASSUME NEW c \in Callers, Callers = {c}, RotationInv, [Next]_vars
    PROVE  RotationInv'
  <1>1. TypeInv /\ TypeInv'
    BY TypeInvStep DEF RotationInv
  <1> DEFINE Goal == /\ InactiveAreLow'
                     /\ CallerInv(c)'
                     /\ (~Rotating(c) => tried[c] = {} /\ answered[c] = {})'
  <1> SUFFICES Goal
    BY <1>1 DEF RotationInv, NothingTried
  <1>2. /\ InactiveAreLow /\ AsksActive(c) /\ AtCandidate(c) /\ BestKnown(c)
        /\ ~Rotating(c) => tried[c] = {} /\ answered[c] = {}
    BY DEF RotationInv, CallerInv, NothingTried
  <1>3. /\ active \in Entries /\ active' \in Entries
        /\ remaining \in [Entries -> Unknown..Limit]
        /\ remaining' \in [Entries -> Unknown..Limit]
        /\ pc \in [Callers -> {"idle", "fetch", "store", "candidate", "decide"}]
        /\ entry \in [Callers -> Entries]
        /\ answer \in [Callers -> NoAnswer..Limit]
        /\ step \in [Callers -> 1..N]
        /\ best \in [Callers -> Entries]
        /\ bestRemaining \in [Callers -> Unknown..Limit]
        /\ tried \in [Callers -> SUBSET Entries]
        /\ answered \in [Callers -> SUBSET Entries]
    BY <1>1 DEF TypeInv, TypeOK
  <1> USE <1>3 DEF Asking, Rotating
  (* Steps that change nothing the invariant is about. *)
  <1>4. CASE UNCHANGED <<active, remaining, callerVars>>
    BY <1>2, <1>4
    DEF InactiveAreLow, CallerInv, AsksActive, AtCandidate, BestKnown, Candidate,
        callerVars, rotateVars
  <1>5. CASE World \/ UNCHANGED vars
    BY <1>4, <1>5 DEF World, Use, Restore, Revoke, vars, worldVars
  <1>6. CASE Begin(c)
    BY <1>2, <1>6
    DEF Begin, InactiveAreLow, CallerInv, AsksActive, AtCandidate, BestKnown, rotateVars
  <1>7. CASE Fetch(c) \/ AskCandidate(c)
    BY <1>2, <1>7
    DEF Fetch, AskCandidate, Ask, InactiveAreLow, CallerInv, AsksActive, AtCandidate,
        BestKnown, Candidate, rotateVars
  <1>8. ASSUME Return(c), InactiveAreLow'
        PROVE  Goal
    BY <1>8 DEF Return, CallerInv, AsksActive, AtCandidate, BestKnown
  <1>9. CASE PingFails(c)
    BY <1>2, <1>8, <1>9 DEF PingFails, InactiveAreLow
  <1>10. CASE NoRotation(c)
    <2>1. InactiveAreLow'
      BY <1>2, <1>10 DEF NoRotation, Record, InactiveAreLow, AsksActive
    <2> QED
      BY <1>8, <1>10, <2>1 DEF NoRotation
  <1>11. CASE Low(c)
    <2>1. entry[c] = active /\ remaining' = [remaining EXCEPT ![active] = answer[c]]
      BY <1>2, <1>11 DEF Low, Record, AsksActive
    <2>2. tried[c] = {} /\ answered[c] = {}
      BY <1>2, <1>11 DEF Low
    <2>3. InactiveAreLow'
      BY <1>2, <1>11, <2>1 DEF Low, InactiveAreLow
    <2>4. AtCandidate(c)'
      BY <1>11, <2>2, NAssumption DEF Low, AtCandidate, Candidate
    <2>5. BestKnown(c)'
      BY <1>11, <2>1, <2>2, LimitAssumption DEF Low, BestKnown, Unknown, NoAnswer
    <2> QED
      BY <1>11, <2>3, <2>4, <2>5 DEF Low, CallerInv, AsksActive
  <1>12. CASE Switch(c)
    <2>1. remaining[active] < Threshold
      BY <1>2, <1>12, LimitAssumption DEF Switch, BestKnown, Unknown
    <2>2. InactiveAreLow'
      BY <1>2, <1>12, <2>1, LimitAssumption DEF Switch, Record, InactiveAreLow, Unknown
    <2> QED
      BY <1>8, <1>12, <2>2 DEF Switch
  <1>13. CASE JudgeAndGoOn(c)
    <2>1. Judge(c) /\ Rotating(c)
      BY <1>13 DEF JudgeAndGoOn, Judge
    <2>2. InactiveAreLow'
      <3>1. \A e \in Entries : remaining'[e] < Threshold
        BY <2>1, BestStays
      <3> QED
        BY <3>1, LimitAssumption DEF InactiveAreLow, Unknown
    <2>3. AtCandidate(c)'
      <3>1. Tried(c) = {Candidate(i) : i \in 1..step[c]}
        BY <2>1, CandidateIsNew
      <3>2. Answered(c) \subseteq Tried(c)
        BY <2>1, BestStays
      <3>3. step[c] + 1 \in 1..(N - 1) /\ (step[c] + 1) - 1 = step[c]
        BY <1>13, NAssumption DEF JudgeAndGoOn
      <3> QED
        BY <1>13, <3>1, <3>2, <3>3 DEF JudgeAndGoOn, AtCandidate, Candidate
    <2>4. BestKnown(c)'
      BY <1>13, <2>1, BestStays DEF JudgeAndGoOn, BestKnown
    <2> QED
      BY <1>13, <2>2, <2>3, <2>4 DEF JudgeAndGoOn, CallerInv, AsksActive
  <1>14. CASE JudgeAndSettle(c)
    <2>1. InactiveAreLow'
      <3>1. \A e \in Entries : remaining'[e] < Threshold
        BY <1>14, BestStays DEF JudgeAndSettle
      <3> QED
        BY <3>1, LimitAssumption DEF InactiveAreLow, Unknown
    <2> QED
      BY <1>8, <1>14, <2>1 DEF JudgeAndSettle
  <1> QED
    BY <1>5, <1>6, <1>7, <1>9, <1>10, <1>11, <1>12, <1>13, <1>14 DEF Next, CallerStep

(* With a single caller the invariant holds always. *)
LEMMA RotationInvHolds ==
    ASSUME NEW c0 \in Callers, Callers = {c0}
    PROVE  Spec => []RotationInv
  <1>1. RotationInv /\ [Next]_vars => RotationInv'
    BY RotationInvStep
  <1> QED
    BY <1>1, RotationInvInit, PTL DEF Spec

(* With a single caller, no credential that last reported enough calls is  *)
(* left aside for another one.                                             *)
THEOREM SingleCallerInactiveAreLow ==
    ASSUME NEW c0 \in Callers, Callers = {c0}
    PROVE  Spec => []InactiveAreLow
  <1>1. RotationInv => InactiveAreLow
    BY DEF RotationInv
  <1> QED
    BY <1>1, RotationInvHolds, PTL

(* With a single caller, rotate settles only when it has asked about every *)
(* other credential, however many there are.                               *)
THEOREM SingleCallerAsksAll ==
    ASSUME NEW c0 \in Callers, Callers = {c0}
    PROVE  Spec => AsksAllBeforeSettling
  <1>1. ASSUME RotationInv, NEW c \in Callers, JudgeAndSettle(c)
        PROVE  Tried(c) = Entries \ {active}
    <2>1. Rotating(c) /\ active \in Entries
      BY <1>1 DEF JudgeAndSettle, Judge, Rotating, RotationInv, TypeInv, TypeOK
    <2>2. step[c] = N - 1
      BY <1>1, <2>1, NAssumption
      DEF JudgeAndSettle, RotationInv, CallerInv, AtCandidate
    <2> QED
      BY <1>1, <2>1, <2>2, CandidateIsNew, CandidatesCover
  <1>2. RotationInv /\ [Next]_vars => [SettlesAfterAll]_vars
    BY <1>1 DEF SettlesAfterAll
  <1> QED
    BY <1>2, RotationInvHolds, PTL DEF Spec, AsksAllBeforeSettling

(* With a single caller, rotate settles on the highest count it knows.     *)
THEOREM SingleCallerSettlesOnHighest ==
    ASSUME NEW c0 \in Callers, Callers = {c0}
    PROVE  Spec => SettlesOnHighest
  <1>1. ASSUME RotationInv, NEW c \in Callers, JudgeAndSettle(c)
        PROVE  \A e \in Answered(c) \cup {active} : remaining'[e] <= remaining'[active']
    <2>1. Judge(c) /\ active' = BestSoFar(c)
      BY <1>1 DEF JudgeAndSettle
    <2> QED
      BY <1>1, <2>1, BestStays
  <1>2. RotationInv /\ [Next]_vars => [SettlesAtMax]_vars
    BY <1>1 DEF SettlesAtMax
  <1> QED
    BY <1>2, RotationInvHolds, PTL DEF Spec, SettlesOnHighest
=============================================================================
