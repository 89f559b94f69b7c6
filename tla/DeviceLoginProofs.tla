-------------------------- MODULE DeviceLoginProofs --------------------------
(***************************************************************************)
(* Theorems about DeviceLogin, for any terminals, accounts, platforms and  *)
(* times.                                                                  *)
(***************************************************************************)
EXTENDS DeviceLogin, TLAPS

Polling(p) == pc[p] \in {"loop", "sleep", "poll"}

(* PollForToken sleeps as long as GitHub requires; a flow that is over     *)
(* leaves nothing behind.                                                  *)
PaceInv(p) ==
    IF InFlow(p)
    THEN /\ interval[p] = required[p]
         /\ required[p] + MaxSlowDowns <= Horizon + slowDowns[p]
         /\ pc[p] = "sleep" => /\ nap[p] <= required[p]
                               /\ sincePoll[p] + nap[p] >= required[p]
         /\ pc[p] = "poll" => sincePoll[p] >= required[p]
    ELSE age[p] = 0 /\ delay[p] = 0 /\ slowDowns[p] = 0 /\ ~inTime[p]

(* The deadline passes after the code has expired, but only by the time    *)
(* the code was under way, and so does what follows the deadline.          *)
DeadlineInv(p) ==
    /\ pc[p] = "issued" => age[p] <= delay[p]
    /\ Polling(p) => /\ age[p] + left[p] >= ExpiresIn
                     /\ left[p] > 0 => age[p] + left[p] <= MaxDelay + ExpiresIn
    /\ pc[p] = "loop" => age[p] <= MaxDelay + ExpiresIn + interval[p] + MaxDelay
    /\ pc[p] = "sleep" => age[p] + nap[p] <= MaxDelay + ExpiresIn + interval[p]
    /\ pc[p] = "poll" => age[p] <= MaxDelay + ExpiresIn + interval[p] + delay[p]

(* A code that was entered early enough is polled before it expires.       *)
InTimeInv(p) ==
    inTime[p] =>
        /\ decision[p] # "pending" /\ Polling(p)
        /\ pc[p] = "loop" => age[p] + required[p] + MaxDelay < ExpiresIn
        /\ pc[p] = "sleep" => age[p] + nap[p] + MaxDelay < ExpiresIn
        /\ pc[p] = "poll" => age[p] + MaxDelay < ExpiresIn + delay[p]

FlowAt(p) == PaceInv(p) /\ DeadlineInv(p) /\ InTimeInv(p)
FlowInv == \A p \in Procs : FlowAt(p)

(* Only verified tokens are written, and so only these are found.          *)
VaultInv ==
    /\ \A p \in Procs :
          /\ pc[p] = "verify" => decision[p] \in Accounts
          /\ pc[p] \in {"set", "add"} => decision[p] \in verified
    /\ \A k \in Keys : vault[k] \in verified \cup {None, Empty}
    /\ used # None => used \in verified

LoginInv == TypeOK /\ FlowInv /\ VaultInv

-----------------------------------------------------------------------------
(* Types *)

USE DEF MinInterval, InFlow

Values == Accounts \cup {None, Empty}

(* A command that ends leaves its terminal as it was. *)
LEMMA EndType ==
    ASSUME TypeOK, NEW p \in Procs, End(p),
           vault' \in [Keys -> Values], kept' \in Accounts \cup {None}
    PROVE  TypeOK'
BY ClockAssumption DEF TypeOK, End, FlowOver, Keys, Values

(* Every step keeps the types. *)
LEMMA TypeStep ==
    ASSUME TypeOK, VaultInv, [Next]_vars
    PROVE  TypeOK'
<1> USE ClockAssumption, AccountsAssumption
    DEF TypeOK, Go, codeVars, flowVars, vaultVars, Values
<1>1. ASSUME NEW p \in Procs, Flow(p) PROVE TypeOK'
  <2>1. CASE RequestCode(p)
    BY <2>1 DEF RequestCode, RequiredInterval, PollInterval
  <2>2. CASE ReceiveCode(p) \/ Sleep(p) \/ Wake(p)
    BY <2>2 DEF ReceiveCode, Sleep, Wake
  <2>3. CASE DeadlinePassed(p) \/ PollFails(p)
    BY <2>3, EndType DEF DeadlinePassed, PollFails
  <2>4. CASE AnswerPending(p)
    BY <2>4 DEF AnswerPending, PollAgain
  <2>5. CASE AnswerSlowDown(p)
    BY <2>5 DEF AnswerSlowDown, PollAgain, Slower, EarlyEnough
  <2>6. CASE AnswerToken(p)
    BY <2>6 DEF AnswerToken, FlowOver
  <2>7. CASE Decide(p)
    BY <2>7 DEF Decide, EarlyEnough
  <2> QED BY <1>1, <2>1, <2>2, <2>3, <2>4, <2>5, <2>6, <2>7 DEF Flow
<1>2. ASSUME NEW k \in Keys, NEW v \in Values
      PROVE  [vault EXCEPT ![k] = v] \in [Keys -> Values]
  OBVIOUS
<1>3. \A p \in Procs : key[p] \in Keys /\ vault[key[p]] \in Values
  OBVIOUS
<1>4. ASSUME NEW p \in Procs, FinishSet(p)
      PROVE  decision[p] \in Accounts /\ vault' \in [Keys -> Values]
  <2>1. decision[p] \in Accounts
    BY <1>4 DEF FinishSet, VaultInv
  <2>2. Written(p) \subseteq Values
    BY <1>3, <2>1 DEF Written
  <2> QED BY <1>2, <1>3, <1>4, <2>1, <2>2 DEF FinishSet
<1>5. ASSUME NEW p \in Procs, Store(p) PROVE TypeOK'
  <2>1. CASE Verify(p)
    BY <2>1 DEF Verify, VaultInv
  <2>2. CASE VerifyFails(p) \/ SetFails(p)
    BY <2>2, EndType DEF VerifyFails, SetFails
  <2>3. CASE BeginSet(p)
    <3>1. Cleared(key[p]) \subseteq Values
      BY <1>3 DEF Cleared
    <3>2. vault' \in [Keys -> Values]
      BY <1>2, <1>3, <2>3, <3>1 DEF BeginSet
    <3> QED BY <2>3, <3>2 DEF BeginSet
  <2>4. CASE TokenSaved(p)
    <3>1. vault' \in [Keys -> Values] /\ kept' \in Accounts
      BY <1>4, <2>4 DEF TokenSaved
    <3>2. CASE End(p)
      BY <3>1, <3>2, EndType
    <3>3. CASE ~End(p)
      BY <2>4, <3>1, <3>3 DEF TokenSaved, Keys
    <3> QED BY <3>2, <3>3
  <2>5. CASE UserSaved(p)
    BY <1>4, <2>5, EndType DEF UserSaved
  <2> QED BY <1>5, <2>1, <2>2, <2>3, <2>4, <2>5 DEF Store
<1>6. ASSUME NEW p \in Procs, Logout(p) \/ DeleteToken(p) \/ DeleteUser(p) \/ Kill(p)
      PROVE  TypeOK'
  <2>1. \A k \in Keys : Deleted(k) => vault' \in [Keys -> Values]
    BY <1>2 DEF Deleted
  <2>2. CASE Logout(p)
    BY <2>2 DEF Logout
  <2>3. CASE DeleteToken(p)
    BY <2>1, <2>3 DEF DeleteToken, Keys
  <2>4. CASE DeleteUser(p)
    BY <2>1, <2>4, EndType DEF DeleteUser, Keys
  <2>5. CASE Kill(p)
    BY <2>5, EndType DEF Kill
  <2> QED BY <1>6, <2>2, <2>3, <2>4, <2>5
<1>7. CASE Load
  BY <1>7 DEF Load, Keys
<1>8. CASE Tick
  BY <1>8 DEF Tick, Less, Older, UnderWay
<1>9. CASE UNCHANGED vars
  BY <1>9 DEF vars
<1> QED BY <1>1, <1>5, <1>6, <1>7, <1>8, <1>9 DEF Next
-----------------------------------------------------------------------------
(* The vault *)

(* Every step keeps a vault whose full entries belong to verified logins. *)
LEMMA VaultStep ==
    ASSUME TypeOK, VaultInv, [Next]_vars
    PROVE  VaultInv'
<1> USE AccountsAssumption DEF TypeOK, VaultInv, Go, codeVars, flowVars, vaultVars
<1>1. ASSUME NEW p \in Procs, End(p), \A k \in Keys : vault'[k] \in verified \cup {None, Empty}
      PROVE  VaultInv'
  BY <1>1 DEF End
<1>2. ASSUME NEW p \in Procs, Flow(p) PROVE VaultInv'
  <2>1. CASE RequestCode(p) \/ ReceiveCode(p) \/ Sleep(p) \/ Wake(p)
    BY <2>1 DEF RequestCode, ReceiveCode, Sleep, Wake
  <2>2. CASE DeadlinePassed(p) \/ PollFails(p)
    BY <1>1, <2>2 DEF DeadlinePassed, PollFails
  <2>3. CASE AnswerPending(p) \/ AnswerSlowDown(p)
    BY <2>3 DEF AnswerPending, AnswerSlowDown, PollAgain
  <2>4. CASE AnswerToken(p) \/ Decide(p)
    BY <2>4 DEF AnswerToken, Decide
  <2> QED BY <1>2, <2>1, <2>2, <2>3, <2>4 DEF Flow
<1>3. ASSUME NEW p \in Procs, FinishSet(p)
      PROVE  \A k \in Keys : vault'[k] \in verified \cup {None, Empty}
  BY <1>3 DEF FinishSet, Written
<1>4. ASSUME NEW p \in Procs, Store(p) PROVE VaultInv'
  <2>1. CASE Verify(p)
    BY <2>1 DEF Verify
  <2>2. CASE VerifyFails(p) \/ SetFails(p)
    BY <1>1, <2>2 DEF VerifyFails, SetFails
  <2>3. CASE BeginSet(p)
    BY <2>3 DEF BeginSet, Cleared
  <2>4. CASE TokenSaved(p)
    <3>1. CASE End(p)
      BY <1>1, <1>3, <2>4, <3>1 DEF TokenSaved
    <3>2. CASE ~End(p)
      BY <1>3, <2>4, <3>2 DEF TokenSaved, FinishSet
    <3> QED BY <3>1, <3>2
  <2>5. CASE UserSaved(p)
    BY <1>1, <1>3, <2>5 DEF UserSaved
  <2> QED BY <1>4, <2>1, <2>2, <2>3, <2>4, <2>5 DEF Store
<1>5. ASSUME NEW p \in Procs, Logout(p) \/ DeleteToken(p) \/ DeleteUser(p) \/ Kill(p)
      PROVE  VaultInv'
  <2>1. \A k \in Keys : Deleted(k) => \A j \in Keys : vault'[j] \in verified \cup {None, Empty}
    BY DEF Deleted
  <2>2. CASE Logout(p)
    BY <2>2 DEF Logout
  <2>3. CASE DeleteToken(p)
    BY <2>1, <2>3 DEF DeleteToken, Keys
  <2>4. CASE DeleteUser(p)
    BY <1>1, <2>1, <2>4 DEF DeleteUser, Keys
  <2>5. CASE Kill(p)
    BY <1>1, <2>5 DEF Kill
  <2> QED BY <1>5, <2>2, <2>3, <2>4, <2>5
<1>6. CASE Load
  BY <1>6 DEF Load, Usable, Keys
<1>7. CASE Tick \/ UNCHANGED vars
  BY <1>7 DEF Tick, vars
<1> QED BY <1>2, <1>4, <1>5, <1>6, <1>7 DEF Next

-----------------------------------------------------------------------------
(* The device flow *)

(* What a command does leaves the flows of the others alone. *)
Same(q) ==
    /\ pc'[q] = pc[q] /\ left'[q] = left[q] /\ interval'[q] = interval[q]
    /\ nap'[q] = nap[q] /\ delay'[q] = delay[q] /\ age'[q] = age[q]
    /\ decision'[q] = decision[q] /\ required'[q] = required[q]
    /\ slowDowns'[q] = slowDowns[q] /\ sincePoll'[q] = sincePoll[q]
    /\ inTime'[q] = inTime[q]

(* A flow whose variables a step leaves alone keeps its invariants. *)
LEMMA SameStep ==
    ASSUME NEW q \in Procs, FlowAt(q), Same(q)
    PROVE  FlowAt(q)'
BY DEF Same, FlowAt, PaceInv, DeadlineInv, InTimeInv, Polling

Command(p) ==
    Flow(p) \/ Store(p) \/ Logout(p) \/ DeleteToken(p) \/ DeleteUser(p) \/ Kill(p)

(* A step of one command leaves the flows of the others alone. *)
LEMMA OthersStay ==
    ASSUME TypeOK, NEW p \in Procs, Command(p), NEW q \in Procs, q # p
    PROVE  Same(q)
<1> USE DEF TypeOK, Go, codeVars, flowVars, Same
<1>1. CASE End(p)
  BY <1>1 DEF End, FlowOver
<1>2. CASE RequestCode(p) \/ ReceiveCode(p) \/ Sleep(p) \/ Wake(p)
  BY <1>2 DEF RequestCode, ReceiveCode, Sleep, Wake
<1>3. CASE AnswerPending(p) \/ AnswerSlowDown(p)
  BY <1>3 DEF AnswerPending, AnswerSlowDown, PollAgain
<1>4. CASE AnswerToken(p) \/ Decide(p)
  BY <1>4 DEF AnswerToken, FlowOver, Decide
<1>5. CASE Verify(p) \/ BeginSet(p) \/ Logout(p) \/ DeleteToken(p)
  BY <1>5 DEF Verify, BeginSet, Logout, DeleteToken
<1>6. CASE TokenSaved(p)
  BY <1>1, <1>6 DEF TokenSaved, FinishSet
<1> QED
  BY <1>1, <1>2, <1>3, <1>4, <1>5, <1>6 DEF Command, Flow, Store, DeadlinePassed, PollFails,
     VerifyFails, UserSaved, SetFails, DeleteUser, Kill

(* A flow that is over. *)
LEMMA OverStep ==
    ASSUME TypeOK, NEW p \in Procs, FlowOver(p), pc'[p] \notin {"issued", "loop", "sleep", "poll"}
    PROVE  FlowAt(p)'
BY DEF TypeOK, FlowOver, FlowAt, PaceInv, DeadlineInv, InTimeInv, Polling

(* A step of a command keeps the invariants of its own flow. *)
LEMMA OwnStep ==
    ASSUME TypeOK, NEW p \in Procs, FlowAt(p), Command(p)
    PROVE  FlowAt(p)'
<1> USE ClockAssumption DEF TypeOK, Go, codeVars, flowVars
<1>1. CASE End(p)
  BY <1>1, OverStep DEF End
<1>2. CASE RequestCode(p)
  <2>1. /\ pc[p] = "idle" /\ pc'[p] = "issued" /\ interval'[p] = required'[p]
        /\ required'[p] + MaxSlowDowns <= Horizon
        /\ age'[p] = age[p] /\ delay'[p] = delay[p] /\ slowDowns'[p] = slowDowns[p]
        /\ inTime'[p] = inTime[p]
    BY <1>2 DEF RequestCode, RequiredInterval, PollInterval
  <2> QED BY <2>1 DEF FlowAt, PaceInv, DeadlineInv, InTimeInv, Polling
<1>3. CASE ReceiveCode(p) \/ Sleep(p) \/ Wake(p)
  BY <1>3 DEF ReceiveCode, Sleep, Wake, FlowAt, PaceInv, DeadlineInv, InTimeInv, Polling
<1>4. CASE AnswerPending(p)
  BY <1>4 DEF AnswerPending, PollAgain, FlowAt, PaceInv, DeadlineInv, InTimeInv, Polling
<1>5. CASE AnswerSlowDown(p)
  <2>1. /\ pc[p] = "poll" /\ pc'[p] = "loop" /\ slowDowns[p] < MaxSlowDowns
        /\ slowDowns'[p] = slowDowns[p] + 1
        /\ interval'[p] = interval[p] + 1 /\ required'[p] = required[p] + 1
        /\ left'[p] = left[p] /\ age'[p] = age[p] /\ decision'[p] = decision[p]
    BY <1>5 DEF AnswerSlowDown, PollAgain, Slower
  <2>2. inTime'[p] => inTime[p] /\ EarlyEnough(p, required'[p])
    BY <1>5 DEF AnswerSlowDown
  <2>3. PaceInv(p)' /\ DeadlineInv(p)'
    BY <2>1 DEF FlowAt, PaceInv, DeadlineInv, Polling
  <2>4. InTimeInv(p)'
    BY <2>1, <2>2 DEF FlowAt, InTimeInv, EarlyEnough, Polling
  <2> QED BY <2>3, <2>4 DEF FlowAt
<1>6. CASE AnswerToken(p)
  BY <1>6, OverStep DEF AnswerToken
<1>7. CASE Decide(p)
  <2>1. /\ pc[p] \in {"loop", "sleep", "poll"} /\ pc' = pc /\ left' = left /\ nap' = nap
        /\ interval' = interval /\ required' = required /\ slowDowns' = slowDowns
        /\ delay' = delay /\ age' = age /\ sincePoll' = sincePoll
    BY <1>7 DEF Decide
  <2>2. inTime'[p] => decision'[p] # "pending" /\ EarlyEnough(p, required[p])
    <3>1. PICK d \in {"denied"} \cup Accounts :
             /\ decision' = [decision EXCEPT ![p] = d]
             /\ inTime' = [inTime EXCEPT ![p] =
                              d \in Accounts /\ EarlyEnough(p, required[p])]
      BY <1>7 DEF Decide
    <3>2. decision'[p] # "pending"
      BY <3>1, AccountsAssumption
    <3>3. inTime'[p] <=> (d \in Accounts /\ EarlyEnough(p, required[p]))
      BY <3>1, Zenon
    <3> QED BY <3>2, <3>3
  <2>3. PaceInv(p)' /\ DeadlineInv(p)'
    BY <2>1 DEF FlowAt, PaceInv, DeadlineInv, Polling
  <2>4. InTimeInv(p)'
    BY <2>1, <2>2 DEF FlowAt, PaceInv, InTimeInv, EarlyEnough, Polling
  <2> QED BY <2>3, <2>4 DEF FlowAt
<1>8. CASE Verify(p) \/ BeginSet(p) \/ Logout(p) \/ DeleteToken(p) \/ TokenSaved(p)
  BY <1>1, <1>8 DEF Verify, BeginSet, Logout, DeleteToken, TokenSaved, FinishSet, FlowAt, PaceInv,
     DeadlineInv, InTimeInv, Polling
<1> QED
  BY <1>1, <1>2, <1>3, <1>4, <1>5, <1>6, <1>7, <1>8 DEF Command, Flow, Store, DeadlinePassed,
     PollFails, VerifyFails, UserSaved, SetFails, DeleteUser, Kill

(* Time takes from the nap and the deadline what it adds to the ages. *)
LEMMA TickStep ==
    ASSUME TypeOK, NEW p \in Procs, FlowAt(p), Tick
    PROVE  FlowAt(p)'
<1> USE ClockAssumption DEF TypeOK, FlowAt, Tick, Older, Less, UnderWay
<1>1. PaceInv(p)'
  BY DEF PaceInv
<1>2. DeadlineInv(p)'
  BY DEF PaceInv, DeadlineInv, Polling
<1>3. InTimeInv(p)'
  BY DEF PaceInv, InTimeInv, Polling
<1> QED BY <1>1, <1>2, <1>3

(* Every step keeps the invariants of every flow. *)
LEMMA FlowStep ==
    ASSUME TypeOK, FlowInv, [Next]_vars
    PROVE  FlowInv'
<1> SUFFICES ASSUME NEW q \in Procs PROVE FlowAt(q)'
  BY DEF FlowInv
<1>1. FlowAt(q)
  BY DEF FlowInv
<1>2. ASSUME NEW p \in Procs, Command(p) PROVE FlowAt(q)'
  <2>1. CASE q = p
    BY <1>1, <1>2, <2>1, OwnStep
  <2>2. CASE q # p
    BY <1>1, <1>2, <2>2, OthersStay, SameStep
  <2> QED BY <2>1, <2>2
<1>3. CASE Load \/ UNCHANGED vars
  BY <1>1, <1>3, SameStep DEF Load, vars, flowVars, codeVars, Same
<1>4. CASE Tick
  BY <1>1, <1>4, TickStep
<1> QED BY <1>2, <1>3, <1>4 DEF Next, Command

-----------------------------------------------------------------------------

(* The invariant of pace, deadline, approval and vault holds always. *)
THEOREM InvariantHolds == Spec => []LoginInv
<1>1. Init => LoginInv
  <2> SUFFICES ASSUME Init PROVE LoginInv
    OBVIOUS
  <2> USE ClockAssumption, AccountsAssumption DEF Init
  <2>1. TypeOK
    BY DEF TypeOK, Keys
  <2>2. FlowInv
    BY DEF FlowInv, FlowAt, PaceInv, DeadlineInv, InTimeInv, Polling
  <2>3. VaultInv
    BY DEF VaultInv
  <2> QED BY <2>1, <2>2, <2>3 DEF LoginInv
<1>2. LoginInv /\ [Next]_vars => LoginInv'
  BY TypeStep, FlowStep, VaultStep DEF LoginInv
<1> QED BY <1>1, <1>2, PTL DEF Spec

(* Every variable has its type. *)
THEOREM TypeCorrect == Spec => []TypeOK
BY InvariantHolds, PTL DEF LoginInv

(* No poll comes sooner than GitHub requires, whatever it has answered.    *)
THEOREM PollsAreApart == Spec => []PollsFarEnoughApart
<1>1. LoginInv => PollsFarEnoughApart
  BY DEF LoginInv, FlowInv, FlowAt, PaceInv, PollsFarEnoughApart
<1> QED BY <1>1, InvariantHolds, PTL

(* A device flow is over soon after its deadline.                          *)
THEOREM FlowsEnd == Spec => []FlowIsBounded
<1>1. LoginInv => FlowIsBounded
  <2> SUFFICES ASSUME LoginInv, NEW p \in Procs, InFlow(p)
               PROVE  age[p] <= MaxDelay + ExpiresIn + interval[p] + MaxDelay
    BY DEF FlowIsBounded
  <2>1. TypeOK /\ DeadlineInv(p)
    BY DEF LoginInv, FlowInv, FlowAt
  <2> QED BY <2>1, ClockAssumption DEF TypeOK, DeadlineInv
<1> QED BY <1>1, InvariantHolds, PTL

(* Bootstrap uses only tokens that GitHub has accepted.                    *)
THEOREM OnlyVerifiedAreUsed == Spec => []UsesOnlyVerified
<1>1. LoginInv => UsesOnlyVerified
  BY DEF LoginInv, VaultInv, UsesOnlyVerified
<1> QED BY <1>1, InvariantHolds, PTL

(* A code that is entered in time does not expire.                         *)
THEOREM CodesInTimeAreUsed == Spec => InTimeIsEnough
<1>1. LoginInv /\ [Next]_vars => [\A p \in Procs : EndsExpired(p) => ~inTime[p]]_vars
  <2> SUFFICES ASSUME LoginInv, NEW p \in Procs, EndsExpired(p), inTime[p]
               PROVE  FALSE
    OBVIOUS
  <2>1. TypeOK /\ DeadlineInv(p) /\ InTimeInv(p)
    BY DEF LoginInv, FlowInv, FlowAt
  <2>2. CASE DeadlinePassed(p)
    BY <2>1, <2>2, ClockAssumption DEF DeadlinePassed, TypeOK, DeadlineInv, InTimeInv, Polling
  <2>3. CASE AnswerExpired(p)
    BY <2>1, <2>3, ClockAssumption DEF AnswerExpired, PollFails, CodeExpired, TypeOK, InTimeInv
  <2> QED BY <2>2, <2>3 DEF EndsExpired
<1> QED BY <1>1, InvariantHolds, PTL DEF Spec, InTimeIsEnough
=============================================================================
