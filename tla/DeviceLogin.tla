------------------------------ MODULE DeviceLogin ------------------------------
(***************************************************************************)
(* The commands "github auth" and "github logout" on one machine, with the *)
(* device flow of internal/auth/auth.go, the entries they keep in the      *)
(* vault (internal/vault), and Bootstrap, which takes its GitHub token     *)
(* from there. Several commands may run at once and may be killed.         *)
(*                                                                         *)
(* The clock counts units of five seconds, the least time between polls    *)
(* and what a slow_down adds to it. A token is named by its account.       *)
(***************************************************************************)
EXTENDS Naturals, FiniteSets

CONSTANTS
    Procs,         \* terminals in which commands run, one after the other
    Accounts,      \* GitHub accounts that may enter a code
    Backends,      \* platforms: a subset of {"file", "keychain", "windows"}
    Intervals,     \* interval of a device code, 0 when there is none in it
    ExpiresIn,     \* lifetime of a device code
    Horizon,       \* up to where its age is counted
    MaxDelay,      \* how long a request is under way, at most
    MaxSlowDowns,  \* how often GitHub answers slow_down to one flow
    MaxFlows       \* device flows in progress at once, of commands that may
                   \* otherwise overlap as they like

None  == "none"    \* no entry: Get returns ErrNotFound
Empty == ""        \* an entry without content

ASSUME AccountsAssumption ==
    Accounts \cap {None, Empty, "pending", "denied"} = {}
ASSUME ClockAssumption ==
    /\ Intervals \subseteq Nat
    /\ ExpiresIn \in Nat \ {0} /\ MaxDelay \in Nat /\ MaxSlowDowns \in Nat
    /\ Horizon \in Nat /\ Horizon > ExpiresIn /\ MaxFlows \in Nat
    /\ \A i \in Intervals : i + 1 + MaxSlowDowns <= Horizon   \* an age fits, too

VARIABLES
    \* --- each command --------------------------------------------------------
    pc,         \* "idle", "issued", "loop", "sleep", "poll", "verify", "set",
                \* "add", "logout" or "forget"
    key,        \* the entry Set is writing
    left,       \* clock units until deadline
    interval,   \* pollInterval
    nap,        \* what is left of time.Sleep
    delay,      \* how long the request has been under way
    \* --- GitHub, for the device code of the command ---------------------------
    age,        \* of the code, up to Horizon
    decision,   \* "pending", "denied", or the account that entered the code
    required,   \* least time between polls
    slowDowns,  \* how many of MaxSlowDowns it has answered
    sincePoll,  \* time since it issued the code or answered a poll
    \* --- shared ----------------------------------------------------------------
    backend,    \* the platform
    vault,      \* what Get finds under each key
    used,       \* the token Bootstrap took from the vault
    \* --- history -----------------------------------------------------------------
    inTime,     \* the code was entered early enough, see EarlyEnough
    verified,   \* accounts whose token GitHub has accepted
    kept        \* the account SaveToken has stored, until the next change

codeVars  == <<age, decision, required, slowDowns, sincePoll, inTime>>
flowVars  == <<left, interval, nap, delay, codeVars>>
vaultVars == <<vault, kept>>
vars == <<pc, key, flowVars, backend, vaultVars, used, verified>>

Keys == {"token", "user"}
MinInterval == 1

TypeOK ==
    /\ pc \in [Procs -> {"idle", "issued", "loop", "sleep", "poll", "verify",
                         "set", "add", "logout", "forget"}]
    /\ key \in [Procs -> Keys]
    /\ left \in [Procs -> 0..ExpiresIn]
    /\ interval \in [Procs -> Nat \ {0}]
    /\ nap \in [Procs -> Nat]
    /\ delay \in [Procs -> 0..MaxDelay]
    /\ age \in [Procs -> 0..Horizon]
    /\ decision \in [Procs -> {"pending", "denied"} \cup Accounts]
    /\ required \in [Procs -> Nat]
    /\ slowDowns \in [Procs -> 0..MaxSlowDowns]
    /\ sincePoll \in [Procs -> 0..Horizon]
    /\ inTime \in [Procs -> BOOLEAN]
    /\ backend \in Backends
    /\ vault \in [Keys -> Accounts \cup {None, Empty}]
    /\ used \in Accounts \cup {None, Empty}
    /\ verified \subseteq Accounts
    /\ kept \in Accounts \cup {None}

Init ==
    /\ pc = [p \in Procs |-> "idle"] /\ key = [p \in Procs |-> "token"]
    /\ left = [p \in Procs |-> 0] /\ interval = [p \in Procs |-> MinInterval]
    /\ nap = [p \in Procs |-> 0] /\ delay = [p \in Procs |-> 0]
    /\ age = [p \in Procs |-> 0] /\ decision = [p \in Procs |-> "pending"]
    /\ required = [p \in Procs |-> 0] /\ slowDowns = [p \in Procs |-> 0]
    /\ sincePoll = [p \in Procs |-> 0] /\ inTime = [p \in Procs |-> FALSE]
    /\ backend \in Backends
    /\ vault = [k \in Keys |-> None] /\ used = None
    /\ verified = {} /\ kept = None

InFlow(p) == pc[p] \in {"issued", "loop", "sleep", "poll"}

Go(p, here, there) == pc[p] = here /\ pc' = [pc EXCEPT ![p] = there]

(* The device flow is over: its local variables and its code are gone.     *)
FlowOver(p) ==
    /\ left' = [left EXCEPT ![p] = 0]
    /\ interval' = [interval EXCEPT ![p] = MinInterval]
    /\ nap' = [nap EXCEPT ![p] = 0]
    /\ delay' = [delay EXCEPT ![p] = 0]
    /\ age' = [age EXCEPT ![p] = 0]
    /\ required' = [required EXCEPT ![p] = 0]
    /\ slowDowns' = [slowDowns EXCEPT ![p] = 0]
    /\ sincePoll' = [sincePoll EXCEPT ![p] = 0]
    /\ inTime' = [inTime EXCEPT ![p] = FALSE]

(* The command ends, with whatever result. *)
End(p) ==
    /\ pc' = [pc EXCEPT ![p] = "idle"]
    /\ key' = [key EXCEPT ![p] = "token"]
    /\ decision' = [decision EXCEPT ![p] = "pending"]
    /\ FlowOver(p)
    /\ UNCHANGED <<backend, used, verified>>

-----------------------------------------------------------------------------
(* RequestDeviceCode and PollForToken *)

PollIntervalUnfloored(i) == i   \* mutant: an interval below five seconds stays
PollInterval(i) == IF i < MinInterval THEN MinInterval ELSE i

(* The protocol (RFC 8628) requires five seconds when no interval is given. *)
RequiredInterval(i) == IF i = 0 THEN 1 ELSE i

(* GitHub issues a code with an interval, of which PollForToken makes its  *)
(* own. When the request fails the command does nothing.                   *)
RequestCode(p) ==
    /\ Go(p, "idle", "issued")
    /\ Cardinality({q \in Procs : InFlow(q)}) < MaxFlows
    /\ \E i \in Intervals :
          /\ required' = [required EXCEPT ![p] = RequiredInterval(i)]
          /\ interval' = [interval EXCEPT ![p] = PollInterval(i)]
    /\ UNCHANGED <<key, left, nap, delay, age, decision, slowDowns, sincePoll,
                   inTime, backend, vaultVars, used, verified>>

(* The answer arrives: the deadline counts from now on. *)
ReceiveCode(p) ==
    /\ Go(p, "issued", "loop")
    /\ left' = [left EXCEPT ![p] = ExpiresIn]
    /\ delay' = [delay EXCEPT ![p] = 0]
    /\ UNCHANGED <<key, interval, nap, codeVars, backend, vaultVars, used, verified>>

DeadlinePassed(p) ==
    /\ pc[p] = "loop" /\ left[p] = 0
    /\ End(p)
    /\ UNCHANGED vaultVars

SleepRegardless(p) ==    \* mutant: the deadline is not looked at
    /\ Go(p, "loop", "sleep")
    /\ nap' = [nap EXCEPT ![p] = interval[p]]
    /\ UNCHANGED <<key, left, interval, delay, codeVars, backend, vaultVars,
                   used, verified>>
Sleep(p) ==
    /\ Go(p, "loop", "sleep") /\ left[p] > 0
    /\ nap' = [nap EXCEPT ![p] = interval[p]]
    /\ UNCHANGED <<key, left, interval, delay, codeVars, backend, vaultVars,
                   used, verified>>

Wake(p) ==
    /\ Go(p, "sleep", "poll") /\ nap[p] = 0
    /\ UNCHANGED <<key, flowVars, backend, vaultVars, used, verified>>

(* The poll fails, or is answered by expired_token, access_denied or an    *)
(* error that PollForToken does not know.                                  *)
PollFails(p) ==
    /\ pc[p] = "poll"
    /\ End(p)
    /\ UNCHANGED vaultVars

(* From now on GitHub may answer expired_token. How soon it does is left   *)
(* open, so the deadline may be what ends the flow.                        *)
CodeExpired(p) == age[p] >= ExpiresIn

AnswerExpired(p) == PollFails(p) /\ CodeExpired(p)

(* authorization_pending or slow_down: once more through the loop. *)
PollAgain(p) ==
    /\ Go(p, "poll", "loop")
    /\ delay' = [delay EXCEPT ![p] = 0]
    /\ sincePoll' = [sincePoll EXCEPT ![p] = 0]
    /\ UNCHANGED <<key, left, nap, age, decision, backend, vaultVars, used,
                   verified>>

AnswerPending(p) ==
    /\ PollAgain(p) /\ decision[p] = "pending"
    /\ UNCHANGED <<interval, required, slowDowns, inTime>>

SlowerIgnored(i) == i        \* mutant: slow_down is handled like pending
SlowerDoubling(i) == 2 * i   \* mutant: the interval is doubled
Slower(i) == i + 1

(* What is left of the lifetime covers a sleep and a request. *)
EarlyEnough(p, apart) == age[p] + apart + MaxDelay < ExpiresIn

AnswerSlowDown(p) ==
    /\ PollAgain(p) /\ slowDowns[p] < MaxSlowDowns
    /\ slowDowns' = [slowDowns EXCEPT ![p] = @ + 1]
    /\ interval' = [interval EXCEPT ![p] = Slower(@)]
    /\ required' = [required EXCEPT ![p] = @ + 1]
    /\ inTime' = [inTime EXCEPT ![p] = @ /\ EarlyEnough(p, required'[p])]

AnswerToken(p) ==
    /\ Go(p, "poll", "verify") /\ decision[p] \in Accounts
    /\ FlowOver(p)
    /\ UNCHANGED <<key, decision, backend, vaultVars, used, verified>>

(* Somebody decides on the code that is shown. *)
Decide(p) ==
    /\ pc[p] \in {"loop", "sleep", "poll"} /\ decision[p] = "pending"
    /\ \E d \in {"denied"} \cup Accounts :
          /\ decision' = [decision EXCEPT ![p] = d]
          /\ inTime' = [inTime EXCEPT ![p] =
                           d \in Accounts /\ EarlyEnough(p, required[p])]
    /\ UNCHANGED <<pc, key, left, interval, nap, delay, age, required, slowDowns,
                   sincePoll, backend, vaultVars, used, verified>>

-----------------------------------------------------------------------------
(* The rest of "github auth": verify the token, save it and the user *)

Verify(p) ==
    /\ Go(p, "verify", "set")
    /\ verified' = verified \cup {decision[p]}
    /\ UNCHANGED <<key, flowVars, backend, vaultVars, used>>

VerifyFails(p) ==
    /\ pc[p] = "verify"
    /\ End(p)
    /\ UNCHANGED vaultVars

(* SaveToken and SaveUser are Set, which takes two steps on each platform: *)
(* it empties the file or deletes the entry, then it writes the new one.   *)
(* Whether the deletion fails does not matter to it.                       *)
Cleared(k) == IF backend = "file" THEN {Empty} ELSE {None, vault[k]}

BeginSet(p) ==
    /\ Go(p, "set", "add")
    /\ \E v \in Cleared(key[p]) : vault' = [vault EXCEPT ![key[p]] = v]
    /\ kept' = IF key[p] = "token" THEN None ELSE kept
    /\ UNCHANGED <<key, flowVars, backend, used, verified>>

(* On Windows the entry goes to cmdkey or, when that fails, to the         *)
(* PasswordVault, and Get looks into the latter only.                      *)
Written(p) ==
    IF backend = "windows" THEN {decision[p], vault[key[p]]} ELSE {decision[p]}

FinishSet(p) ==
    /\ pc[p] = "add"
    /\ \E v \in Written(p) : vault' = [vault EXCEPT ![key[p]] = v]

TokenSaved(p) ==
    /\ FinishSet(p) /\ key[p] = "token"
    /\ kept' = decision[p]
    /\ \/ /\ pc' = [pc EXCEPT ![p] = "set"]
          /\ key' = [key EXCEPT ![p] = "user"]
          /\ UNCHANGED <<flowVars, backend, used, verified>>
       \/ End(p)      \* the user has no login

UserSaved(p) ==
    /\ FinishSet(p) /\ key[p] = "user"
    /\ End(p)
    /\ UNCHANGED kept

(* An error ends the command for the token and is ignored for the user,    *)
(* which is the last thing to be saved.                                    *)
SetFails(p) ==
    /\ pc[p] = "add" \/ (pc[p] = "set" /\ backend = "file")
    /\ End(p)
    /\ UNCHANGED vaultVars

-----------------------------------------------------------------------------
(* "github logout": ClearCredentials ignores errors *)

Logout(p) ==
    /\ Go(p, "idle", "logout")
    /\ UNCHANGED <<key, flowVars, backend, vaultVars, used, verified>>

Deleted(k) == \E v \in {None, vault[k]} : vault' = [vault EXCEPT ![k] = v]

DeleteToken(p) ==
    /\ Go(p, "logout", "forget")
    /\ Deleted("token")
    /\ kept' = None
    /\ UNCHANGED <<key, flowVars, backend, used, verified>>

DeleteUser(p) ==
    /\ pc[p] = "forget"
    /\ Deleted("user")
    /\ End(p)
    /\ UNCHANGED kept

-----------------------------------------------------------------------------
(* Bootstrap of another process without configured tokens: LoadToken. *)
UsableIfFound(v) == v # None        \* mutant: only the error is looked at
Usable(v) == v # None /\ v # Empty

Load ==
    /\ used' = IF Usable(vault["token"]) THEN vault["token"] ELSE None
    /\ UNCHANGED <<pc, key, flowVars, backend, vaultVars, verified>>

(* The command is interrupted. *)
Kill(p) == pc[p] # "idle" /\ End(p) /\ UNCHANGED vaultVars

(* Requests end in time, and a process that is done sleeping goes on.      *)
UnderWay(p) == pc[p] \in {"issued", "poll"}

Older(n) == IF n < Horizon THEN n + 1 ELSE Horizon
Less(n) == IF n > 0 THEN n - 1 ELSE 0

Tick ==
    /\ \A p \in Procs : /\ UnderWay(p) => delay[p] < MaxDelay
                        /\ pc[p] # "loop"
                        /\ pc[p] = "sleep" => nap[p] > 0
    /\ left' = [p \in Procs |-> Less(left[p])]
    /\ nap' = [p \in Procs |-> Less(nap[p])]
    /\ delay' = [p \in Procs |-> IF UnderWay(p) THEN delay[p] + 1 ELSE delay[p]]
    /\ age' = [p \in Procs |-> IF InFlow(p) THEN Older(age[p]) ELSE age[p]]
    /\ sincePoll' = [p \in Procs |->
                        IF InFlow(p) THEN Older(sincePoll[p]) ELSE sincePoll[p]]
    /\ UNCHANGED <<pc, key, interval, decision, required, slowDowns, inTime,
                   backend, vaultVars, used, verified>>

Flow(p) ==
    \/ RequestCode(p) \/ ReceiveCode(p) \/ DeadlinePassed(p) \/ Sleep(p)
    \/ Wake(p) \/ PollFails(p) \/ AnswerPending(p) \/ AnswerSlowDown(p)
    \/ AnswerToken(p) \/ Decide(p)

Store(p) ==
    \/ Verify(p) \/ VerifyFails(p) \/ BeginSet(p) \/ TokenSaved(p)
    \/ UserSaved(p) \/ SetFails(p)

Next ==
    \/ \E p \in Procs : Flow(p) \/ Store(p) \/ Logout(p) \/ DeleteToken(p)
                        \/ DeleteUser(p) \/ Kill(p)
    \/ Load
    \/ Tick

Spec == Init /\ [][Next]_vars

-----------------------------------------------------------------------------
(* Properties *)

(* A poll is answered no sooner than GitHub requires by then, with all the *)
(* slow_downs it has answered: it never has a reason for another.          *)
PollsFarEnoughApart ==
    \A p \in Procs : pc[p] = "poll" => sincePoll[p] >= required[p]

(* "until the user enters the code or the flow expires": a code entered    *)
(* when a sleep and a request still fit into its lifetime does not expire, *)
(* although the sleep comes before the poll and has grown with slow_downs. *)
EndsExpired(p) == DeadlinePassed(p) \/ AnswerExpired(p)
InTimeIsEnough == [][\A p \in Procs : EndsExpired(p) => ~inTime[p]]_vars

(* "or the flow expires": when GitHub goes on answering, and even slows    *)
(* the flow down, it ends one sleep and one request after its deadline,    *)
(* which is later than the code's by the time its answer took.             *)
FlowIsBounded ==
    \A p \in Procs :
        InFlow(p) => age[p] <= MaxDelay + ExpiresIn + interval[p] + MaxDelay

(* The token that Bootstrap takes from the vault is one that GitHub has    *)
(* accepted, whatever a command that was killed or failed while it saved   *)
(* its token, or that ran at the same time, has left there.                *)
UsesOnlyVerified == used # None => used \in verified

(* CmdGitHubAuthLong: "the token is stored securely in the system vault".  *)
(* So when SaveToken has returned no error Bootstrap finds this token, as  *)
(* long as nobody changes the entry.                                       *)
LoginIsRemembered == kept # None => vault["token"] = kept
=============================================================================
