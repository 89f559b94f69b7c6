------------------------------- MODULE Rotation -------------------------------
(***************************************************************************)
(* The pool of GitHub credentials: GitHubService of                        *)
(* internal/services/github.go. Ping and SelfTest fetch the rate limit of  *)
(* the active credential and call rotate when it is low. rotate holds the  *)
(* mutex except while it asks GitHub about a candidate, so each stretch    *)
(* between two requests to GitHub is one action here. Other goroutines     *)
(* (the collector, the proxy handlers) use whatever credential is active.  *)
(*                                                                         *)
(* Ping is called by the health loop and SelfTest before that loop starts, *)
(* so a running process has one caller. CheckHealth is exported for other  *)
(* callers too; Callers says how many there are.                           *)
(***************************************************************************)
EXTENDS Integers

CONSTANTS
    N,           \* number of credentials, len(s.entries)
    Callers,     \* goroutines that call Ping or SelfTest
    Threshold,   \* cfg.RateLimitThreshold, or 100
    Limit,       \* the core rate limit of a credential
    MaxChanges   \* bound on what GitHub and the other goroutines do

Entries == 0..(N - 1)
Unknown == -1    \* clientEntry.remaining before the first answer

ASSUME NAssumption == N \in Nat \ {0}
ASSUME LimitAssumption == Threshold \in Nat /\ Limit \in Nat /\ Threshold <= Limit
ASSUME ChangesAssumption == MaxChanges \in Nat

VARIABLES
    active,     \* s.active
    remaining,  \* s.entries[e].remaining, as last stored
    \* --- local variables of each caller in Ping and rotate ----------------
    pc,         \* "idle", "fetch", "store", "candidate" or "decide"
    entry,      \* the entry it asks GitHub about: e of Ping, idx of rotate
    answer,     \* the remaining calls GitHub reported for it, or NoAnswer
    step,       \* loop variable i of rotate
    best,
    bestRemaining,
    \* --- history: the candidates rotate asked about, and got answers for --
    tried,
    answered,
    \* --- GitHub ------------------------------------------------------------
    actual,     \* what is left of the rate limit of each credential
    broken,     \* credentials GitHub refuses (revoked, suspended)
    changes     \* how many of MaxChanges have happened

NoAnswer == -2

rotateVars == <<step, best, bestRemaining, tried, answered>>
callerVars == <<pc, entry, answer, rotateVars>>
worldVars  == <<actual, broken, changes>>
vars == <<active, remaining, callerVars, worldVars>>

TypeOK ==
    /\ active \in Entries
    /\ remaining \in [Entries -> Unknown..Limit]
    /\ pc \in [Callers -> {"idle", "fetch", "store", "candidate", "decide"}]
    /\ entry \in [Callers -> Entries]
    /\ answer \in [Callers -> NoAnswer..Limit]
    /\ step \in [Callers -> 1..N]
    /\ best \in [Callers -> Entries]
    /\ bestRemaining \in [Callers -> Unknown..Limit]
    /\ tried \in [Callers -> SUBSET Entries]
    /\ answered \in [Callers -> SUBSET Entries]
    /\ actual \in [Entries -> 0..Limit]
    /\ broken \in SUBSET Entries
    /\ changes \in 0..MaxChanges

Init ==
    /\ active = 0
    /\ remaining = [e \in Entries |-> Unknown]
    /\ pc = [c \in Callers |-> "idle"]
    /\ entry = [c \in Callers |-> 0]
    /\ answer = [c \in Callers |-> NoAnswer]
    /\ step = [c \in Callers |-> 1]
    /\ best = [c \in Callers |-> 0]
    /\ bestRemaining = [c \in Callers |-> Unknown]
    /\ tried = [c \in Callers |-> {}]
    /\ answered = [c \in Callers |-> {}]
    /\ actual \in [Entries -> {0, Limit}]
    /\ broken = {}
    /\ changes = 0

Change == changes < MaxChanges /\ changes' = changes + 1

(* Ping returns: its local variables are gone. *)
Return(c) ==
    /\ pc' = [pc EXCEPT ![c] = "idle"]
    /\ entry' = [entry EXCEPT ![c] = 0]
    /\ answer' = [answer EXCEPT ![c] = NoAnswer]
    /\ step' = [step EXCEPT ![c] = 1]
    /\ best' = [best EXCEPT ![c] = 0]
    /\ bestRemaining' = [bestRemaining EXCEPT ![c] = Unknown]
    /\ tried' = [tried EXCEPT ![c] = {}]
    /\ answered' = [answered EXCEPT ![c] = {}]
    /\ UNCHANGED worldVars

Record(c) == remaining' = [remaining EXCEPT ![entry[c]] = answer[c]]

-----------------------------------------------------------------------------
(* RateLimit.Get with the client of an entry: it answers truthfully, fails *)
(* always for a broken credential, and may fail for any (a timeout, the    *)
(* five seconds of the ping being over).                                   *)
Ask(c, there) ==
    /\ pc' = [pc EXCEPT ![c] = there]
    /\ \/ /\ entry[c] \notin broken
          /\ answer' = [answer EXCEPT ![c] = actual[entry[c]]]
          /\ UNCHANGED changes
       \/ /\ answer' = [answer EXCEPT ![c] = NoAnswer]
          /\ IF entry[c] \in broken THEN UNCHANGED changes ELSE Change
    /\ UNCHANGED <<active, remaining, entry, rotateVars, actual, broken>>

-----------------------------------------------------------------------------
(* Ping, and SelfTest from its rate limit check on *)

(* activeEntry *)
BeginAtFirst(c) ==     \* mutant: Ping watches entries[0], not the active one
    /\ pc[c] = "idle"
    /\ pc' = [pc EXCEPT ![c] = "fetch"]
    /\ entry' = [entry EXCEPT ![c] = 0]
    /\ UNCHANGED <<active, remaining, answer, rotateVars, worldVars>>
Begin(c) ==
    /\ pc[c] = "idle"
    /\ pc' = [pc EXCEPT ![c] = "fetch"]
    /\ entry' = [entry EXCEPT ![c] = active]
    /\ UNCHANGED <<active, remaining, answer, rotateVars, worldVars>>

Fetch(c) == pc[c] = "fetch" /\ Ask(c, "store")

(* Without an answer Ping returns the error and does not rotate. *)
PingFails(c) ==
    /\ pc[c] = "store" /\ answer[c] = NoAnswer
    /\ Return(c)
    /\ UNCHANGED <<active, remaining>>

(* The limit is not low, or there is no other credential. *)
NoRotation(c) ==
    /\ pc[c] = "store" /\ answer[c] # NoAnswer
    /\ answer[c] >= Threshold \/ N <= 1
    /\ Record(c)
    /\ Return(c)
    /\ UNCHANGED active

-----------------------------------------------------------------------------
(* rotate *)

(* The candidate of loop step i, counted from the credential active now.   *)
CandidateIgnoringStep(i) == (active + 1) % N      \* mutant: loop variable lost
CandidateUnwrapped(i) == active + i               \* mutant: no wrap-around
Candidate(i) == (active + i) % N

(* The limit is low: rotate starts at the first other credential. Storing  *)
(* the answer and taking the mutex again are one step, for nothing but the *)
(* metric is done in between.                                              *)
Low(c) ==
    /\ pc[c] = "store" /\ answer[c] # NoAnswer
    /\ answer[c] < Threshold /\ N > 1
    /\ Record(c)
    /\ best' = [best EXCEPT ![c] = active]
    /\ bestRemaining' = [bestRemaining EXCEPT ![c] = remaining'[active]]
    /\ step' = [step EXCEPT ![c] = 1]
    /\ pc' = [pc EXCEPT ![c] = "candidate"]
    /\ entry' = [entry EXCEPT ![c] = Candidate(1)]
    /\ UNCHANGED <<active, answer, tried, answered, worldVars>>

AskCandidate(c) == pc[c] = "candidate" /\ Ask(c, "decide")

(* A candidate above the threshold becomes active, and rotate returns. *)
Switch(c) ==
    /\ pc[c] = "decide" /\ answer[c] >= Threshold
    /\ Record(c)
    /\ active' = entry[c]
    /\ Return(c)

(* Otherwise it may be the best so far. *)
BetterLast(c) == answer[c] # NoAnswer   \* mutant: the last answer wins
Better(c) == answer[c] > bestRemaining[c]

BestSoFar(c) == IF Better(c) THEN entry[c] ELSE best[c]
Tried(c) == tried[c] \cup {entry[c]}
Answered(c) == answered[c] \cup (IF answer[c] = NoAnswer THEN {} ELSE {entry[c]})

Judge(c) ==
    /\ pc[c] = "decide" /\ answer[c] < Threshold
    /\ IF answer[c] = NoAnswer THEN UNCHANGED remaining ELSE Record(c)

(* Go on with the next candidate, of the credential active by now ... *)
JudgeAndGoOn(c) ==
    /\ Judge(c) /\ step[c] + 1 < N
    /\ best' = [best EXCEPT ![c] = BestSoFar(c)]
    /\ bestRemaining' = [bestRemaining EXCEPT ![c] = IF Better(c) THEN answer[c] ELSE @]
    /\ step' = [step EXCEPT ![c] = @ + 1]
    /\ entry' = [entry EXCEPT ![c] = Candidate(step[c] + 1)]
    /\ pc' = [pc EXCEPT ![c] = "candidate"]
    /\ tried' = [tried EXCEPT ![c] = Tried(c)]
    /\ answered' = [answered EXCEPT ![c] = Answered(c)]
    /\ UNCHANGED <<active, answer, worldVars>>

(* ... or settle for the best one, all being near their limit. *)
JudgeAndSettle(c) ==
    /\ Judge(c) /\ step[c] + 1 >= N
    /\ active' = BestSoFar(c)
    /\ Return(c)

CallerStep(c) ==
    \/ Begin(c) \/ Fetch(c) \/ PingFails(c) \/ NoRotation(c) \/ Low(c)
    \/ AskCandidate(c) \/ Switch(c) \/ JudgeAndGoOn(c) \/ JudgeAndSettle(c)

-----------------------------------------------------------------------------
(* The world: calls through Client() use up the active credential, GitHub  *)
(* restores the limit of one, or stops accepting it.                       *)

Use == /\ Change
       /\ actual[active] > 0
       /\ actual' = [actual EXCEPT ![active] = @ - 1]
       /\ UNCHANGED <<active, remaining, callerVars, broken>>

Restore(e) == /\ Change
              /\ actual' = [actual EXCEPT ![e] = Limit]
              /\ UNCHANGED <<active, remaining, callerVars, broken>>

Revoke(e) == /\ Change
             /\ broken' = broken \cup {e}
             /\ UNCHANGED <<active, remaining, callerVars, actual>>

World == Use \/ \E e \in Entries : Restore(e) \/ Revoke(e)

Next == World \/ \E c \in Callers : CallerStep(c)

Spec == Init /\ [][Next]_vars

(* The health loop pings again and again, and every request returns. *)
FairSpec == Spec /\ \A c \in Callers : WF_vars(CallerStep(c))

-----------------------------------------------------------------------------
(* Properties *)

Usable(e) == e \notin broken /\ actual[e] >= Threshold

(* No credential that last reported enough calls is left aside: only the   *)
(* active one can be known to be above the threshold.                      *)
InactiveAreLow ==
    \A e \in Entries : remaining[e] >= Threshold => e = active

(* rotate gives up looking for a usable credential only when it has asked  *)
(* about every other one.                                                  *)
SettlesAfterAll ==
    \A c \in Callers : JudgeAndSettle(c) => Tried(c) = Entries \ {active}
AsksAllBeforeSettling == [][SettlesAfterAll]_vars

(* "If all are exhausted, stays on the one with the highest remaining      *)
(* count": among those that answered this time and the active one, for a   *)
(* candidate that did not answer keeps a count that may be out of date.    *)
SettlesAtMax ==
    \A c \in Callers : JudgeAndSettle(c) =>
        \A e \in Answered(c) \cup {active} : remaining'[e] <= remaining'[active']
SettlesOnHighest == [][SettlesAtMax]_vars

(* When a credential stays usable, the pool comes to rest on a usable one, *)
(* unless GitHub refuses the active one (see PingFails).                   *)
ComesToRestOnUsable ==
    (\E e \in Entries : <>[]Usable(e)) /\ <>[](active \notin broken)
        => <>[]Usable(active)
=============================================================================
