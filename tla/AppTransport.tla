----------------------------- MODULE AppTransport -----------------------------
(***************************************************************************)
(* The HTTP transport of a GitHub App credential (services/ghauth.go): a   *)
(* token is exchanged for a JWT under a mutex, cached, and used by every   *)
(* caller until a minute before it expires by the clock of the pod.        *)
(*                                                                         *)
(* Lifetimes are kept as what remains of them on GitHub's clock, so that   *)
(* time is not bounded. The clock of the pod is ahead of GitHub's by drift.*)
(***************************************************************************)
EXTENDS Integers

CONSTANTS
    Callers,     \* goroutines that send requests with this credential
    TokenLife,   \* life of an installation token
    Minute,      \* units of time in a minute
    MaxDelay,    \* longest way of a message to or from GitHub
    None,        \* no token cached
    Drifts       \* by how much the clock of the pod may be ahead of GitHub's

(* How long before it expires a token is not used any more; how far before now *)
(* IssuedAt is, and how far behind it ExpiresAt; and how far behind its own now *)
(* GitHub lets a JWT expire. *)
Margin == Minute
JWTBack == Minute
JWTAheadMax == 10 * Minute   \* mutant: ExpiresAt is the latest GitHub allows
JWTAhead == 9 * Minute
JWTMax == 10 * Minute

ASSUME TimesAssumption ==
    /\ TokenLife \in Nat /\ Minute \in Nat \ {0} /\ MaxDelay \in Nat \ {0}
    /\ TokenLife > 2 * MaxDelay
    /\ Drifts \subseteq Int
    /\ \A d \in Drifts : MaxDelay - Margin <= d   \* else the margin is too small
    /\ None \notin Int

VARIABLES
    pc,       \* where each caller is in RoundTrip
    age,      \* how long its message has been on the way
    left,     \* what remains of the token it carries or is sent
    cached,   \* what remains of t.token, counted until it is no longer used
    drift

transportVars == <<pc, age, left, cached, drift>>

-----------------------------------------------------------------------------

(* t.mu is held from the check of the cached token to the end of the exchange. *)
NeverLocked == FALSE   \* mutant: no mutex
Locked == \E c \in Callers : pc[c] \in {"ask", "answer"}

(* time.Now().Add(time.Minute).Before(t.exp), the clock being ahead by drift *)
FreshToTheEnd == cached # None /\ cached > drift   \* mutant: no margin
Fresh == cached # None /\ cached > Margin + drift

(* GitHub checks the times of the JWT when it arrives. *)
ClaimsValid(c) ==
    /\ drift - JWTBack <= age[c]
    /\ age[c] < drift + JWTAhead
    /\ drift + JWTAhead - age[c] <= JWTMax

OnTheWay(c) == pc[c] \in {"ask", "answer", "send"}

TransportInit ==
    /\ pc = [c \in Callers |-> "idle"]
    /\ age = [c \in Callers |-> 0]
    /\ left = [c \in Callers |-> 0]
    /\ cached = None
    /\ drift \in Drifts

-----------------------------------------------------------------------------

(* A message leaves at to, after which n remains of the token it carries. *)
Depart(c, to, n) ==
    /\ pc' = [pc EXCEPT ![c] = to]
    /\ age' = [age EXCEPT ![c] = 0]
    /\ left' = [left EXCEPT ![c] = n]

Return(c, to) == Depart(c, to, 0)

(* RoundTrip is called. Waiting for the mutex does not end with the context. *)
Call(c) ==
    /\ pc[c] = "idle"
    /\ Return(c, "lock")
    /\ UNCHANGED <<cached, drift>>

UseCached(c) ==
    /\ pc[c] = "lock" /\ ~Locked
    /\ Fresh
    /\ Depart(c, "send", cached)
    /\ UNCHANGED <<cached, drift>>

Exchange(c) ==
    /\ pc[c] = "lock" /\ ~Locked
    /\ ~Fresh
    /\ Depart(c, "ask", 0)
    /\ UNCHANGED <<cached, drift>>

(* GitHub issues a token; its life begins. *)
Issue(c) ==
    /\ pc[c] = "ask"
    /\ ClaimsValid(c)
    /\ Depart(c, "answer", TokenLife)
    /\ UNCHANGED <<cached, drift>>

(* GitHub refuses the JWT for its times. *)
Reject(c) ==
    /\ pc[c] = "ask"
    /\ ~ClaimsValid(c)
    /\ Return(c, "idle")
    /\ UNCHANGED <<cached, drift>>

(* No answer, another status, a body that is no JSON, or a cancelled context; *)
(* GitHub may have issued the token all the same. *)
ExchangeFails(c) ==
    /\ pc[c] \in {"ask", "answer"}
    /\ Return(c, "idle")
    /\ UNCHANGED <<cached, drift>>

Store(c) ==
    /\ pc[c] = "answer"
    /\ cached' = left[c]
    /\ Depart(c, "send", left[c])
    /\ UNCHANGED drift

(* The request arrives or fails, and the caller goes on at "then". *)
Arrive(c, then) ==
    /\ pc[c] = "send"
    /\ Return(c, then)
    /\ UNCHANGED <<cached, drift>>

Tick ==
    /\ \A c \in Callers : OnTheWay(c) => age[c] < MaxDelay
    /\ \E c \in Callers : OnTheWay(c) \/ cached # None
    /\ age' = [c \in Callers |-> IF OnTheWay(c) THEN age[c] + 1 ELSE age[c]]
    /\ left' = [c \in Callers |->
                    IF pc[c] \in {"answer", "send"} THEN left[c] - 1 ELSE left[c]]
    /\ cached' = IF ~Fresh THEN cached ELSE cached - 1
    /\ UNCHANGED <<pc, drift>>

Token(c) ==
    \/ UseCached(c) \/ Exchange(c) \/ Issue(c) \/ Store(c)

TransportNext ==
    \/ \E c \in Callers :
          \/ Call(c)
          \/ Token(c)
          \/ Reject(c)
          \/ ExchangeFails(c)
          \/ Arrive(c, "idle")
          \/ Arrive(c, "lock")
    \/ Tick

TransportSpec == TransportInit /\ [][TransportNext]_transportVars

-----------------------------------------------------------------------------

TransportTypeOK ==
    /\ pc \in [Callers -> {"idle", "lock", "ask", "answer", "send"}]
    /\ age \in [Callers -> 0..MaxDelay]
    /\ left \in [Callers -> -MaxDelay..TokenLife]
    /\ cached \in Int \cup {None}
    /\ drift \in Drifts

(* The abstract promise: waiting is from the call to the token, and a token is *)
(* held while the request that carries it is on its way. *)
Tokens == INSTANCE TokenSource WITH
    Callers <- Callers,
    TokenLife <- TokenLife,
    asking <- {c \in Callers : pc[c] \in {"lock", "ask", "answer"}},
    held <- [c \in Callers |-> IF pc[c] = "send" THEN left[c] ELSE 0]

(* ghauth.go:58: as long as the clock of the pod is not behind by more than the *)
(* minute minus the way to GitHub, no request, with a token from the cache or a *)
(* new one, arrives after its token has expired. *)
TokensOutliveRequests == Tokens!Spec

(* ghauth.go:55: whatever happens between the check and the end of an exchange, *)
(* a token that could still be used is not replaced: callers that waited for the *)
(* mutex find the new token instead of exchanging once more. *)
ReplacesOnlyStale == [][cached' # cached /\ Fresh => cached' = cached - 1]_transportVars

(* ghauth.go:82: a JWT whose IssuedAt is a minute back and whose ExpiresAt is nine *)
(* minutes ahead is good for every clock that is ahead of GitHub's by at most a *)
(* minute, or behind by at most the minute minus the way to GitHub: however long *)
(* it is on its way, it is neither issued in GitHub's future, nor expired, nor does *)
(* it expire later than GitHub allows. *)
ClaimsAccepted == \A c \in Callers : pc[c] = "ask" /\ drift <= Minute => ClaimsValid(c)
=============================================================================
