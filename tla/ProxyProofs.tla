----------------------------- MODULE ProxyProofs -----------------------------
(***************************************************************************)
(* Theorems about the transport of an App credential, for any callers,     *)
(* lifetimes and drifts that satisfy TimesAssumption, about the proxy that *)
(* sends its requests through it, and about the lists the proxy collects,  *)
(* for any page size, length of a list and number of changes.              *)
(***************************************************************************)
EXTENDS Proxy, FiniteSetTheorems, SequenceTheorems, TLAPS

(* What a token that is on its way has left, and that one exchange at a time *)
(* is going on, for which the cached token was stale. *)
OnTheWayInv ==
    \A c \in Callers :
        /\ pc[c] \in {"idle", "lock"} => left[c] = 0
        /\ pc[c] = "answer" => left[c] = TokenLife - age[c]
        /\ pc[c] = "send" => left[c] + age[c] > MaxDelay

MutexInv ==
    \A c, d \in Callers :
        pc[c] \in {"ask", "answer"} /\ pc[d] \in {"ask", "answer"} => c = d

StaleInv == Locked => ~Fresh

CachedInv == cached # None => cached <= TokenLife

TransportInv == TransportTypeOK /\ OnTheWayInv /\ MutexInv /\ StaleInv /\ CachedInv

-----------------------------------------------------------------------------

(* What the actions of a caller have in common: a departure of its own. *)
LEMMA DepartInv ==
    ASSUME TransportTypeOK, OnTheWayInv, CachedInv,
           NEW c \in Callers, NEW to \in {"idle", "lock", "ask", "answer", "send"},
           NEW n \in 0..TokenLife,
           Depart(c, to, n), drift' = drift,
           cached' \in Int \cup {None}, cached' # None => cached' <= TokenLife,
           to \in {"idle", "lock"} => n = 0,
           to = "answer" => n = TokenLife,
           to = "send" => n > MaxDelay
    PROVE  TransportTypeOK' /\ OnTheWayInv' /\ CachedInv'
<1>1. MaxDelay \in Nat /\ TokenLife \in Nat
  BY TimesAssumption
<1>2. TransportTypeOK'
  BY <1>1 DEF Depart, TransportTypeOK
<1>3. OnTheWayInv'
  <2> SUFFICES ASSUME NEW d \in Callers
               PROVE  /\ pc'[d] \in {"idle", "lock"} => left'[d] = 0
                      /\ pc'[d] = "answer" => left'[d] = TokenLife - age'[d]
                      /\ pc'[d] = "send" => left'[d] + age'[d] > MaxDelay
    BY DEF OnTheWayInv
  <2>1. CASE d = c
    BY <1>1, <2>1 DEF Depart, TransportTypeOK
  <2>2. CASE d # c
    BY <2>2 DEF Depart, TransportTypeOK, OnTheWayInv
  <2> QED BY <2>1, <2>2
<1>4. CachedInv'
  BY DEF CachedInv
<1> QED BY <1>2, <1>3, <1>4

(* A token that is still fresh outlives a message. *)
LEMMA FreshOutlives ==
    ASSUME TransportTypeOK, CachedInv, Fresh
    PROVE  cached \in 0..TokenLife /\ cached > MaxDelay
<1>1. cached \in Int /\ drift \in Int /\ drift \in Drifts
  BY TimesAssumption DEF TransportTypeOK, Fresh
<1>2. MaxDelay - Margin <= drift /\ MaxDelay \in Nat /\ Margin \in Nat /\ TokenLife \in Nat
  BY <1>1, TimesAssumption DEF Margin
<1>3. cached > Margin + drift /\ cached <= TokenLife
  BY DEF Fresh, CachedInv
<1> QED BY <1>1, <1>2, <1>3

(* Time that passes takes as much from a token as it adds to its way. *)
LEMMA TickInv ==
    ASSUME TransportInv, Tick
    PROVE  TransportInv'
<1> USE DEF TransportInv
<1>1. MaxDelay \in Nat /\ TokenLife \in Nat /\ Margin \in Nat /\ drift \in Int /\ None \notin Int
  BY TimesAssumption DEF TransportTypeOK, Margin
<1>2. ASSUME NEW c \in Callers
      PROVE  /\ age'[c] \in 0..MaxDelay
             /\ left'[c] \in -MaxDelay..TokenLife
             /\ pc[c] \in {"idle", "lock"} => left'[c] = 0
             /\ pc[c] = "answer" => left'[c] = TokenLife - age'[c]
             /\ pc[c] = "send" => left'[c] + age'[c] > MaxDelay
  <2>1. age[c] \in 0..MaxDelay /\ left[c] \in -MaxDelay..TokenLife
    BY DEF TransportTypeOK
  <2>2. pc[c] \in {"ask", "answer", "send"} => age[c] < MaxDelay
    BY DEF Tick, OnTheWay
  <2>3. /\ pc[c] \in {"ask", "answer", "send"} => age'[c] = age[c] + 1
        /\ pc[c] \notin {"ask", "answer", "send"} => age'[c] = age[c]
        /\ pc[c] \in {"answer", "send"} => left'[c] = left[c] - 1
        /\ pc[c] \notin {"answer", "send"} => left'[c] = left[c]
    BY DEF Tick, OnTheWay
  <2>4. /\ pc[c] \in {"idle", "lock"} => left[c] = 0
        /\ pc[c] = "answer" => left[c] = TokenLife - age[c]
        /\ pc[c] = "send" => left[c] + age[c] > MaxDelay
    BY DEF OnTheWayInv
  <2>5. TokenLife > 2 * MaxDelay
    BY TimesAssumption
  <2> QED BY <1>1, <2>1, <2>2, <2>3, <2>4, <2>5
<1>3. OnTheWayInv'
  BY <1>2 DEF OnTheWayInv, Tick
<1>4. cached' \in Int \cup {None} /\ (cached' # None => cached' <= TokenLife) /\ (~Fresh => ~Fresh')
  BY <1>1 DEF Tick, Fresh, TransportTypeOK, CachedInv
<1>5. TransportTypeOK' /\ CachedInv'
  BY <1>2, <1>4 DEF TransportTypeOK, Tick, CachedInv
<1>6. MutexInv' /\ StaleInv'
  BY <1>4 DEF MutexInv, StaleInv, Locked, Tick
<1> QED BY <1>3, <1>5, <1>6

(* Every step keeps the mutex, the times of the messages and the types. *)
LEMMA InvStep ==
    ASSUME TransportInv, [TransportNext]_transportVars
    PROVE  TransportInv'
<1> USE DEF TransportInv
<1>0. MaxDelay \in Nat /\ TokenLife \in Nat /\ TokenLife > 2 * MaxDelay
  BY TimesAssumption
<1>1. ASSUME NEW c \in Callers, Call(c)
      PROVE  TransportInv'
  <2>1. TransportTypeOK' /\ OnTheWayInv' /\ CachedInv'
    BY <1>0, <1>1, DepartInv DEF Call, Return, TransportTypeOK, CachedInv
  <2>2. MutexInv' /\ StaleInv'
    BY <1>1 DEF Call, Return, Depart, MutexInv, StaleInv, Locked, Fresh, TransportTypeOK
  <2> QED BY <2>1, <2>2
<1>2. ASSUME NEW c \in Callers, UseCached(c)
      PROVE  TransportInv'
  <2>1. cached \in 0..TokenLife /\ cached > MaxDelay
    BY <1>2, FreshOutlives DEF UseCached
  <2>2. TransportTypeOK' /\ OnTheWayInv' /\ CachedInv'
    BY <1>2, <2>1, DepartInv DEF UseCached, TransportTypeOK, CachedInv
  <2>3. MutexInv' /\ StaleInv'
    BY <1>2 DEF UseCached, Depart, MutexInv, StaleInv, Locked, Fresh, TransportTypeOK
  <2> QED BY <2>2, <2>3
<1>3. ASSUME NEW c \in Callers, Exchange(c)
      PROVE  TransportInv'
  <2>1. TransportTypeOK' /\ OnTheWayInv' /\ CachedInv'
    BY <1>0, <1>3, DepartInv DEF Exchange, TransportTypeOK, CachedInv
  <2>2. MutexInv' /\ StaleInv'
    BY <1>3 DEF Exchange, Depart, MutexInv, StaleInv, Locked, Fresh, TransportTypeOK
  <2> QED BY <2>1, <2>2
<1>4. ASSUME NEW c \in Callers, Issue(c)
      PROVE  TransportInv'
  <2>1. TransportTypeOK' /\ OnTheWayInv' /\ CachedInv'
    BY <1>0, <1>4, DepartInv DEF Issue, TransportTypeOK, CachedInv
  <2>2. MutexInv' /\ StaleInv'
    BY <1>4 DEF Issue, Depart, MutexInv, StaleInv, Locked, Fresh, TransportTypeOK
  <2> QED BY <2>1, <2>2
<1>5. ASSUME NEW c \in Callers, Reject(c) \/ ExchangeFails(c)
      PROVE  TransportInv'
  <2>1. TransportTypeOK' /\ OnTheWayInv' /\ CachedInv'
    BY <1>0, <1>5, DepartInv DEF Reject, ExchangeFails, Return, TransportTypeOK, CachedInv
  <2>2. MutexInv' /\ StaleInv'
    BY <1>5 DEF Reject, ExchangeFails, Return, Depart, MutexInv, StaleInv, Locked, Fresh, TransportTypeOK
  <2> QED BY <2>1, <2>2
<1>6. ASSUME NEW c \in Callers, Store(c)
      PROVE  TransportInv'
  <2>1. left[c] \in 0..TokenLife /\ left[c] > MaxDelay
    BY <1>0, <1>6 DEF Store, OnTheWayInv, TransportTypeOK
  <2>2. TransportTypeOK' /\ OnTheWayInv' /\ CachedInv'
    BY <1>0, <1>6, <2>1, DepartInv DEF Store, TransportTypeOK, CachedInv
  <2>3. MutexInv' /\ ~Locked'
    BY <1>6 DEF Store, Depart, MutexInv, Locked, TransportTypeOK
  <2> QED BY <2>2, <2>3 DEF StaleInv
<1>7. ASSUME NEW c \in Callers, NEW then \in {"idle", "lock"}, Arrive(c, then)
      PROVE  TransportInv'
  <2>1. TransportTypeOK' /\ OnTheWayInv' /\ CachedInv'
    BY <1>0, <1>7, DepartInv DEF Arrive, Return, TransportTypeOK, CachedInv
  <2>2. MutexInv' /\ StaleInv'
    BY <1>7 DEF Arrive, Return, Depart, MutexInv, StaleInv, Locked, Fresh, TransportTypeOK
  <2> QED BY <2>1, <2>2
<1>8. CASE Tick
  BY <1>8, TickInv
<1>9. CASE UNCHANGED transportVars
  BY <1>9 DEF transportVars, TransportTypeOK, OnTheWayInv, MutexInv, StaleInv, CachedInv,
              Locked, Fresh
<1> QED
  BY <1>1, <1>2, <1>3, <1>4, <1>5, <1>6, <1>7, <1>8, <1>9 DEF TransportNext, Token

(* No caller has called yet. *)
LEMMA InvInit == TransportInit => TransportInv
<1> SUFFICES ASSUME TransportInit PROVE TransportInv
  OBVIOUS
<1>1. MaxDelay \in Nat /\ TokenLife \in Nat
  BY TimesAssumption
<1> QED
  BY <1>1 DEF TransportInit, TransportInv, TransportTypeOK, OnTheWayInv, MutexInv, StaleInv,
              CachedInv, Locked, Fresh

(* The transport keeps its mutex, its times and the types of its state. *)
THEOREM InvariantHolds == TransportSpec => []TransportInv
<1>1. TransportInv /\ [TransportNext]_transportVars => TransportInv'
  BY InvStep
<1> QED
  BY InvInit, <1>1, PTL DEF TransportSpec

(* Every variable of the transport has its type, and no message is older than MaxDelay. *)
THEOREM TypeCorrect == TransportSpec => []TransportTypeOK
<1>1. TransportInv => TransportTypeOK
  BY DEF TransportInv
<1> QED
  BY InvariantHolds, <1>1, PTL

(* For every clock that is ahead by a minute or less, the nine minutes of a JWT are *)
(* within the ten that GitHub allows and its IssuedAt is not in GitHub's future; for *)
(* every clock that is behind by no more than the margin allows, it has not expired *)
(* when it arrives. *)
THEOREM JWTsAreAccepted == TransportSpec => []ClaimsAccepted
<1>1. ASSUME TransportTypeOK, NEW c \in Callers, drift <= Minute
      PROVE  ClaimsValid(c)
  <2>1. Minute \in Nat /\ Minute > 0 /\ MaxDelay \in Nat
    BY TimesAssumption
  <2>2. age[c] \in 0..MaxDelay /\ drift \in Int
    BY <1>1, TimesAssumption DEF TransportTypeOK
  <2>3. MaxDelay - Minute <= drift
    BY <1>1, TimesAssumption DEF TransportTypeOK, Margin
  <2>4. drift - Minute <= age[c]
    BY <1>1, <2>1, <2>2
  <2>5. age[c] < drift + 9 * Minute
    BY <2>1, <2>2, <2>3
  <2>6. drift + 9 * Minute - age[c] <= 10 * Minute
    BY <1>1, <2>1, <2>2
  <2> QED BY <2>4, <2>5, <2>6 DEF ClaimsValid, JWTBack, JWTAhead, JWTMax
<1>2. TransportInv => ClaimsAccepted
  BY <1>1 DEF TransportInv, ClaimsAccepted
<1> QED
  BY InvariantHolds, <1>2, PTL

-----------------------------------------------------------------------------

(* A token that can still be used is not replaced: an exchange begins with a stale *)
(* one, and the mutex keeps it stale until the answer is stored. *)
THEOREM OnlyStaleAreReplaced == TransportSpec => ReplacesOnlyStale
<1>1. ASSUME TransportInv, [TransportNext]_transportVars
      PROVE  [cached' # cached /\ Fresh => cached' = cached - 1]_transportVars
  <2>1. ASSUME NEW c \in Callers, Store(c)
        PROVE  ~Fresh
    BY <1>1, <2>1 DEF Store, TransportInv, StaleInv, Locked
  <2>2. CASE Tick
    BY <2>2 DEF Tick
  <2>3. ASSUME NEW c \in Callers, NEW then \in {"idle", "lock"},
               \/ Call(c) \/ UseCached(c) \/ Exchange(c) \/ Issue(c)
               \/ Reject(c) \/ ExchangeFails(c) \/ Arrive(c, then)
        PROVE  cached' = cached
    BY <2>3 DEF Call, UseCached, Exchange, Issue, Reject, ExchangeFails, Arrive
  <2>4. CASE UNCHANGED transportVars
    BY <2>4
  <2> QED
    BY <1>1, <2>1, <2>2, <2>3, <2>4 DEF TransportNext, Token
<1> QED
  BY <1>1, InvariantHolds, PTL DEF TransportSpec, ReplacesOnlyStale

-----------------------------------------------------------------------------
(* The refinement of TokenSource *)

Asking == {c \in Callers : pc[c] \in {"lock", "ask", "answer"}}
Held == [c \in Callers |-> IF pc[c] = "send" THEN left[c] ELSE 0]

(* Nobody waits for a token or holds one in either module. *)
LEMMA InitMaps == TransportInit => Tokens!Init
  BY DEF TransportInit, Tokens!Init

(* Every step of the transport is a step of TokenSource or none. *)
LEMMA StepMaps ==
    ASSUME TransportInv, [TransportNext]_transportVars
    PROVE  [Tokens!Next]_(Tokens!vars)
<1>0. MaxDelay \in Nat /\ TokenLife \in Nat /\ TransportTypeOK /\ TransportTypeOK'
  BY TimesAssumption, InvStep DEF TransportInv
<1>a. /\ MaxDelay \in Nat /\ TokenLife \in Nat
      /\ pc \in [Callers -> {"idle", "lock", "ask", "answer", "send"}]
      /\ left \in [Callers -> -MaxDelay..TokenLife]
      /\ age \in [Callers -> 0..MaxDelay]
  BY <1>0 DEF TransportTypeOK
<1>b. \A c \in Callers : pc[c] = "send" => left[c] + age[c] > MaxDelay /\ left[c] > 0
  BY <1>a DEF TransportInv, OnTheWayInv
<1>1. ASSUME NEW c \in Callers, Call(c)
      PROVE  Tokens!Ask(c)
  <2>1. c \notin Asking /\ Held[c] = 0
    BY <1>1 DEF Call, Asking, Held
  <2>2. Asking' = Asking \cup {c} /\ Held' = Held
    BY <1>1, <1>a DEF Call, Return, Depart, Asking, Held
  <2> QED BY <2>1, <2>2 DEF Tokens!Ask, Asking, Held
<1>2. ASSUME NEW c \in Callers, UseCached(c) \/ Store(c)
      PROVE  Tokens!Give(c)
  <2>1. PICK n \in 1..TokenLife : Depart(c, "send", n)
    <3>1. CASE UseCached(c)
      BY <3>1, <1>a, FreshOutlives DEF UseCached, TransportInv
    <3>2. CASE Store(c)
      BY <3>2, <1>a, TimesAssumption DEF Store, TransportInv, OnTheWayInv
    <3> QED BY <1>2, <3>1, <3>2
  <2>2. c \in Asking
    BY <1>2 DEF UseCached, Store, Asking
  <2>3. Asking' = Asking \ {c} /\ Held' = [Held EXCEPT ![c] = n]
    BY <2>1, <1>a DEF Depart, Asking, Held
  <2> QED BY <2>1, <2>2, <2>3 DEF Tokens!Give, Asking, Held
<1>3. ASSUME NEW c \in Callers, Exchange(c) \/ Issue(c)
      PROVE  UNCHANGED Tokens!vars
  <2>1. Asking' = Asking /\ Held' = Held
    BY <1>3, <1>a DEF Exchange, Issue, Depart, Asking, Held
  <2> QED BY <2>1 DEF Tokens!vars, Asking, Held
<1>4. ASSUME NEW c \in Callers, Reject(c) \/ ExchangeFails(c)
      PROVE  Tokens!Refuse(c)
  <2>1. c \in Asking
    BY <1>4 DEF Reject, ExchangeFails, Asking
  <2>2. Asking' = Asking \ {c} /\ Held' = Held
    BY <1>4, <1>a DEF Reject, ExchangeFails, Return, Depart, Asking, Held
  <2> QED BY <2>1, <2>2 DEF Tokens!Refuse, Asking, Held
<1>5. ASSUME NEW c \in Callers, NEW then \in {"idle", "lock"}, Arrive(c, then)
      PROVE  Tokens!Deliver(c)
  <2>1. Held[c] > 0
    BY <1>5, <1>a, <1>b DEF Arrive, Held
  <2>2. Held' = [Held EXCEPT ![c] = 0]
    BY <1>5, <1>a DEF Arrive, Return, Depart, Held
  <2>3. Asking' \in {Asking, Asking \cup {c}}
    <3>1. CASE then = "idle"
      BY <1>5, <1>a, <3>1 DEF Arrive, Return, Depart, Asking
    <3>2. CASE then = "lock"
      BY <1>5, <1>a, <3>2 DEF Arrive, Return, Depart, Asking
    <3> QED BY <3>1, <3>2
  <2> QED BY <2>1, <2>2, <2>3 DEF Tokens!Deliver, Asking, Held
<1>6. ASSUME Tick
      PROVE  Tokens!Elapse
  <2>1. \A c \in Callers : pc[c] = "send" => left[c] > 1 /\ left'[c] = left[c] - 1
    BY <1>6, <1>a, <1>b DEF Tick, OnTheWay
  <2>2. \A c \in Callers : Held[c] # 1
    BY <2>1 DEF Held
  <2>3. Held' = [c \in Callers |-> IF Held[c] = 0 THEN 0 ELSE Held[c] - 1]
    BY <1>6, <1>a, <2>1 DEF Tick, Held
  <2>4. Asking' = Asking
    BY <1>6 DEF Tick, Asking
  <2> QED BY <2>2, <2>3, <2>4 DEF Tokens!Elapse, Asking, Held
<1>7. ASSUME UNCHANGED transportVars
      PROVE  UNCHANGED Tokens!vars
  BY <1>7 DEF transportVars, Tokens!vars
<1> QED
  BY <1>1, <1>2, <1>3, <1>4, <1>5, <1>6, <1>7 DEF TransportNext, Token, Tokens!Next

(* The transport implements TokenSource: no request carries a token that expires *)
(* before it arrives, whatever the callers, lifetimes and drifts. *)
THEOREM TransportImplementsTokenSource == TransportSpec => TokensOutliveRequests
<1>1. TransportInv /\ [TransportNext]_transportVars => [Tokens!Next]_(Tokens!vars)
  BY StepMaps
<1> QED
  BY <1>1, InitMaps, InvariantHolds, PTL DEF TransportSpec, TokensOutliveRequests, Tokens!Spec

-----------------------------------------------------------------------------
(* The proxy above the transport *)

(* Every step of the proxy is one of the transport, or leaves it alone. *)
LEMMA ProxyStepMaps ==
    ASSUME [ProxyNext]_proxyVars
    PROVE  [TransportNext]_transportVars
<1>1. ASSUME NEW handler, StartList(handler)
      PROVE  TransportNext
  BY <1>1, ListerAssumption DEF StartList, TransportNext
<1>2. CASE PageArrives
  BY <1>2, ListerAssumption DEF PageArrives, TransportNext
<1>3. CASE ListFails
  BY <1>3, ListerAssumption DEF ListFails, TransportNext
<1>4. CASE ItemAppears \/ ItemDisappears
  BY <1>4 DEF ItemAppears, ItemDisappears
<1>5. ASSUME NEW c \in Callers, SingleCall(c) \/ SingleCallEnds(c) \/ Token(c)
      PROVE  TransportNext
  BY <1>5 DEF SingleCall, SingleCallEnds, TransportNext
<1>6. CASE Tick
  BY <1>6 DEF TransportNext
<1>7. CASE UNCHANGED proxyVars
  BY <1>7 DEF proxyVars
<1> QED
  BY <1>1, <1>2, <1>3, <1>4, <1>5, <1>6, <1>7
  DEF ProxyNext, ListBranches, ListWorkflows, ListWorkflowRuns

(* So what is proved of the transport holds of every request of the proxy, of a *)
(* page of a list as of a single call. *)
THEOREM ProxyUsesTransport == ProxySpec => TransportSpec
<1>1. [ProxyNext]_proxyVars => [TransportNext]_transportVars
  BY ProxyStepMaps
<1> QED
  BY <1>1, PTL DEF ProxySpec, ProxyInit, TransportSpec

(* No request of the proxy arrives with a token that has expired. *)
THEOREM TokensOutliveProxyRequests == ProxySpec => TokensOutliveRequests /\ ReplacesOnlyStale
  BY ProxyUsesTransport, TransportImplementsTokenSource, OnlyStaleAreReplaced, PTL

-----------------------------------------------------------------------------
(* Facts about sequences *)

Distinct(s) == \A i, j \in DOMAIN s : s[i] = s[j] => i = j

(* The elements of a sequence are finitely many, as many as it is long if they are distinct. *)
LEMMA ElementsAreFinite ==
    ASSUME NEW s \in Seq(Nat)
    PROVE  /\ IsFiniteSet(ToSet(s))
           /\ Distinct(s) => Cardinality(ToSet(s)) = Len(s)
<1>1. Len(s) \in Nat /\ s \in [1..Len(s) -> Nat] /\ DOMAIN s = 1..Len(s)
  BY LenProperties
<1>2. ToSet(s) = {s[i] : i \in 1..Len(s)}
  BY <1>1 DEF ToSet
<1>3. s \in [1..Len(s) -> ToSet(s)]
  BY <1>1, <1>2
<1>4. s \in Surjection(1..Len(s), ToSet(s))
  BY <1>2, <1>3 DEF Surjection
<1>5. IsFiniteSet(ToSet(s))
  BY <1>1, <1>4, FS_NatSurjection DEF ExistsSurjection
<1>6. ASSUME Distinct(s)
      PROVE  Cardinality(ToSet(s)) = Len(s)
  <2>1. s \in Bijection(1..Len(s), ToSet(s))
    BY <1>1, <1>3, <1>4, <1>6 DEF Distinct, Bijection, Injection, IsInjective
  <2> QED BY <1>1, <2>1, FS_CountingElements DEF ExistsBijection
<1> QED BY <1>5, <1>6

(* What is left when an element is removed. *)
LEMMA RemoveFacts ==
    ASSUME NEW s \in Seq(Nat), NEW at \in DOMAIN s
    PROVE  /\ RemoveAt(s, at) \in Seq(Nat)
           /\ Len(RemoveAt(s, at)) = Len(s) - 1
           /\ \A i \in 1..(Len(s) - 1) :
                 RemoveAt(s, at)[i] = IF i < at THEN s[i] ELSE s[i + 1]
<1> DEFINE u == SubSeq(s, 1, at - 1)
           v == SubSeq(s, at + 1, Len(s))
<1>1. Len(s) \in Nat /\ DOMAIN s = 1..Len(s) /\ at \in 1..Len(s) /\ \A i \in 1..Len(s) : s[i] \in Nat
  BY LenProperties
<1>2. /\ u \in Seq(Nat) /\ Len(u) = at - 1
      /\ \A i \in 1..(at - 1) : u[i] = s[i]
  <2>1. \A i \in 1..(at - 1) : s[i] \in Nat
    BY <1>1
  <2> QED BY <1>1, <2>1, SubSeqProperties
<1>3. /\ v \in Seq(Nat) /\ Len(v) = Len(s) - at
      /\ \A i \in 1..(Len(s) - at) : v[i] = s[at + i]
  <2>0. PICK m \in Nat : m = at + 1
    BY <1>1
  <2>1. \A i \in m..Len(s) : s[i] \in Nat
    BY <1>1, <2>0
  <2>2. /\ SubSeq(s, m, Len(s)) \in Seq(Nat)
        /\ Len(SubSeq(s, m, Len(s))) = IF m <= Len(s) THEN Len(s) - m + 1 ELSE 0
        /\ \A i \in 1..(Len(s) - m + 1) : SubSeq(s, m, Len(s))[i] = s[m + i - 1]
    BY <1>1, <2>1, SubSeqProperties
  <2>3. /\ v \in Seq(Nat)
        /\ Len(v) = IF m <= Len(s) THEN Len(s) - m + 1 ELSE 0
        /\ \A i \in 1..(Len(s) - m + 1) : v[i] = s[m + i - 1]
    BY <2>0, <2>2
  <2> HIDE DEF v
  <2>4. Len(v) = Len(s) - at
    BY <1>1, <2>0, <2>3
  <2>5. ASSUME NEW i \in 1..(Len(s) - at)
        PROVE  v[i] = s[at + i]
    <3>1. PICK n \in Nat : n = Len(s) - m + 1
      BY <1>1, <2>0
    <3>2. i \in 1..n /\ m + i - 1 = at + i
      <4>1. PICK k \in Nat : k = Len(s)
        BY <1>1
      <4>2. at \in Nat /\ i \in 1..(k - at)
        BY <1>1, <4>1
      <4>3. n = k - m + 1
        BY <3>1, <4>1
      <4>4. n = k - at
        BY <2>0, <4>2, <4>3
      <4>5. i \in Nat
        BY <4>2
      <4>6. m + i - 1 = at + i
        BY <2>0, <4>2, <4>5
      <4> QED BY <4>2, <4>4, <4>6
    <3>3. \A j \in 1..n : v[j] = s[m + j - 1]
      BY <2>3, <3>1
    <3>4. v[i] = s[m + i - 1]
      BY <3>2, <3>3
    <3> QED BY <3>2, <3>4
  <2> QED BY <2>3, <2>4, <2>5
<1> HIDE DEF u, v
<1>4. /\ u \o v \in Seq(Nat)
      /\ Len(u \o v) = Len(u) + Len(v)
      /\ \A i \in 1..(Len(u) + Len(v)) :
            (u \o v)[i] = IF i <= Len(u) THEN u[i] ELSE v[i - Len(u)]
  BY <1>2, <1>3, ConcatProperties
<1>5. Len(u) + Len(v) = Len(s) - 1
  BY <1>1, <1>2, <1>3
<1> DEFINE w == u \o v
<1>6. /\ w \in Seq(Nat) /\ Len(w) = Len(s) - 1
      /\ \A i \in 1..(Len(s) - 1) : w[i] = IF i < at THEN s[i] ELSE s[i + 1]
  <2>1. ASSUME NEW i \in 1..(Len(s) - 1)
        PROVE  w[i] = IF i < at THEN s[i] ELSE s[i + 1]
    <3>1. w[i] = IF i <= Len(u) THEN u[i] ELSE v[i - Len(u)]
      BY <1>4, <1>5
    <3>2. CASE i < at
      <4>1. i <= Len(u) /\ i \in 1..(at - 1)
        BY <1>1, <1>2, <3>2
      <4> QED BY <1>2, <3>1, <3>2, <4>1
    <3>3. CASE ~(i < at)
      <4>1. ~(i <= Len(u)) /\ i - Len(u) \in 1..(Len(s) - at) /\ at + (i - Len(u)) = i + 1
        BY <1>1, <1>2, <3>3
      <4> QED BY <1>3, <3>1, <3>3, <4>1
    <3> QED BY <3>2, <3>3
  <2> QED BY <1>4, <1>5, <2>1
<1>7. RemoveAt(s, at) = w
  BY DEF RemoveAt, u, v
<1> QED BY <1>6, <1>7

(* What is there when an element is put in. *)
LEMMA InsertFacts ==
    ASSUME NEW s \in Seq(Nat), NEW at \in 1..(Len(s) + 1), NEW e \in Nat
    PROVE  /\ InsertAt(s, at, e) \in Seq(Nat)
           /\ Len(InsertAt(s, at, e)) = Len(s) + 1
           /\ \A i \in 1..(Len(s) + 1) :
                 InsertAt(s, at, e)[i] = IF i < at THEN s[i] ELSE IF i = at THEN e ELSE s[i - 1]
<1>1. Len(s) \in Nat /\ \A i \in 1..Len(s) : s[i] \in Nat
  BY LenProperties
<1>2. PICK l \in Nat : l = Len(s)
  BY <1>1
<1>3. PICK m \in Nat : m = at - 1 /\ m <= l /\ at = m + 1
  BY <1>2
<1> DEFINE u == SubSeq(s, 1, m)
           v == SubSeq(s, at, l)
<1>4. /\ u \in Seq(Nat) /\ Len(u) = m
      /\ \A i \in 1..m : u[i] = s[i]
  <2>1. \A i \in 1..m : s[i] \in Nat
    BY <1>1, <1>2, <1>3
  <2>2. /\ u \in Seq(Nat)
        /\ Len(u) = IF 1 <= m THEN m - 1 + 1 ELSE 0
        /\ \A i \in 1..(m - 1 + 1) : u[i] = s[1 + i - 1]
    BY <2>1, SubSeqProperties
  <2> HIDE DEF u
  <2> QED BY <2>2
<1>5. /\ v \in Seq(Nat) /\ Len(v) = l - m
      /\ \A i \in 1..(l - m) : v[i] = s[m + i]
  <2>1. \A i \in at..l : s[i] \in Nat
    BY <1>1, <1>2, <1>3
  <2>2. /\ v \in Seq(Nat)
        /\ Len(v) = IF at <= l THEN l - at + 1 ELSE 0
        /\ \A i \in 1..(l - at + 1) : v[i] = s[at + i - 1]
    BY <2>1, SubSeqProperties
  <2> HIDE DEF v
  <2>3. l - at + 1 = l - m
    BY <1>3
  <2>4. Len(v) = l - m
    BY <1>3, <2>2
  <2>5. ASSUME NEW i \in 1..(l - m)
        PROVE  v[i] = s[m + i]
    <3>1. at + i - 1 = m + i
      BY <1>3
    <3> QED BY <2>2, <2>3, <3>1
  <2> QED BY <2>2, <2>4, <2>5
<1> HIDE DEF u, v
<1> DEFINE w == u \o <<e>>
<1>6. /\ w \in Seq(Nat) /\ Len(w) = m + 1
      /\ \A i \in 1..(m + 1) : w[i] = IF i <= m THEN s[i] ELSE e
  <2>1. <<e>> \in Seq(Nat) /\ Len(<<e>>) = 1 /\ <<e>>[1] = e
    OBVIOUS
  <2>2. /\ w \in Seq(Nat) /\ Len(w) = m + 1
        /\ \A i \in 1..(m + 1) : w[i] = IF i <= m THEN u[i] ELSE <<e>>[i - m]
    BY <1>4, <2>1, ConcatProperties
  <2> HIDE DEF w
  <2>3. ASSUME NEW i \in 1..(m + 1)
        PROVE  w[i] = IF i <= m THEN s[i] ELSE e
    <3>1. CASE i <= m
      BY <1>4, <2>2, <3>1
    <3>2. CASE ~(i <= m)
      <4>1. i - m = 1
        BY <3>2
      <4> QED BY <2>1, <2>2, <3>2, <4>1
    <3> QED BY <3>1, <3>2
  <2> QED BY <2>2, <2>3
<1> HIDE DEF w
<1> DEFINE z == w \o v
<1>7. /\ z \in Seq(Nat) /\ Len(z) = l + 1
      /\ \A i \in 1..(l + 1) : z[i] = IF i <= m + 1 THEN w[i] ELSE v[i - (m + 1)]
  <2>1. /\ z \in Seq(Nat) /\ Len(z) = Len(w) + Len(v)
        /\ \A i \in 1..(Len(w) + Len(v)) : z[i] = IF i <= Len(w) THEN w[i] ELSE v[i - Len(w)]
    BY <1>5, <1>6, ConcatProperties
  <2> HIDE DEF z
  <2>2. Len(w) + Len(v) = l + 1
    BY <1>3, <1>5, <1>6
  <2> QED BY <1>6, <2>1, <2>2
<1> HIDE DEF z
<1>8. ASSUME NEW i \in 1..(l + 1)
      PROVE  z[i] = IF i < at THEN s[i] ELSE IF i = at THEN e ELSE s[i - 1]
  <2>1. CASE i <= at
    BY <1>3, <1>6, <1>7, <2>1
  <2>2. CASE ~(i <= at)
    <3>1. i - (m + 1) \in 1..(l - m) /\ m + (i - (m + 1)) = i - 1 /\ ~(i <= m + 1)
      BY <1>3, <2>2
    <3>2. z[i] = v[i - (m + 1)]
      BY <1>7, <3>1
    <3>3. v[i - (m + 1)] = s[i - 1]
      BY <1>5, <3>1
    <3> QED BY <2>2, <3>2, <3>3
  <2> QED BY <2>1, <2>2
<1>9. InsertAt(s, at, e) = z
  BY <1>2, <1>3 DEF InsertAt, u, v, w, z
<1> QED BY <1>2, <1>7, <1>8, <1>9

(* A page holds the elements of its places. *)
LEMMA PageFacts ==
    ASSUME NEW s \in Seq(Nat), NEW f \in Nat, NEW h \in Nat, h <= Len(s)
    PROVE  LET p == SubSeq(s, f + 1, h)
           IN  /\ p \in Seq(Nat)
               /\ \A i \in DOMAIN p : f + i \in DOMAIN s /\ f + i <= h /\ p[i] = s[f + i]
               /\ \A j \in DOMAIN s : f < j /\ j <= h => s[j] \in ToSet(p)
<1> DEFINE p == SubSeq(s, f + 1, h)
<1>1. PICK l \in Nat : l = Len(s) /\ h <= l /\ DOMAIN s = 1..l
  BY LenProperties
<1>2. PICK m \in Nat : m = f + 1
  OBVIOUS
<1>3. \A i \in m..h : s[i] \in Nat
  <2>1. \A i \in 1..l : s[i] \in Nat
    BY <1>1, LenProperties
  <2> QED BY <1>1, <1>2, <2>1
<1>4. /\ p \in Seq(Nat)
      /\ Len(p) = IF m <= h THEN h - m + 1 ELSE 0
      /\ \A i \in 1..(h - m + 1) : p[i] = s[m + i - 1]
  BY <1>2, <1>3, SubSeqProperties
<1> HIDE DEF p
<1>5. DOMAIN p = 1..Len(p)
  BY <1>4, LenProperties
<1>6. ASSUME NEW i \in DOMAIN p
      PROVE  f + i \in DOMAIN s /\ f + i <= h /\ p[i] = s[f + i]
  <2>1. m <= h /\ i \in 1..(h - m + 1)
    BY <1>4, <1>5
  <2>2. m + i - 1 = f + i /\ f + i <= h /\ f + i \in 1..l
    BY <1>1, <1>2, <2>1
  <2>3. p[i] = s[m + i - 1]
    BY <1>4, <2>1
  <2> QED BY <1>1, <2>2, <2>3
<1>7. ASSUME NEW j \in DOMAIN s, f < j, j <= h
      PROVE  s[j] \in ToSet(p)
  <2>1. PICK i \in Nat : i = j - f
    BY <1>1, <1>7
  <2>2. i \in 1..(h - m + 1) /\ m + i - 1 = j /\ m <= h
    BY <1>1, <1>2, <1>7, <2>1
  <2>3. p[i] = s[j] /\ i \in DOMAIN p
    BY <1>4, <1>5, <2>2
  <2> QED BY <2>3 DEF ToSet
<1> QED BY <1>4, <1>6, <1>7 DEF p

(* What two sequences hold one after the other. *)
LEMMA AppendFacts ==
    ASSUME NEW s \in Seq(Nat), NEW t \in Seq(Nat)
    PROVE  /\ s \o t \in Seq(Nat)
           /\ Len(s \o t) = Len(s) + Len(t)
           /\ ToSet(s \o t) = ToSet(s) \cup ToSet(t)
<1> DEFINE w == s \o t
<1>1. PICK k \in Nat : k = Len(s) /\ DOMAIN s = 1..k
  BY LenProperties
<1>2. PICK l \in Nat : l = Len(t) /\ DOMAIN t = 1..l
  BY LenProperties
<1>3. /\ w \in Seq(Nat) /\ Len(w) = k + l
      /\ \A i \in 1..(k + l) : w[i] = IF i <= k THEN s[i] ELSE t[i - k]
  BY <1>1, <1>2, ConcatProperties
<1> HIDE DEF w
<1>4. DOMAIN w = 1..(k + l)
  BY <1>3, LenProperties
<1>5. ASSUME NEW x \in ToSet(w)
      PROVE  x \in ToSet(s) \cup ToSet(t)
  <2>1. PICK i \in 1..(k + l) : w[i] = x
    BY <1>4 DEF ToSet
  <2>2. CASE i <= k
    <3>1. i \in 1..k
      BY <2>2
    <3>2. x = s[i]
      BY <1>3, <2>1, <2>2
    <3> QED BY <1>1, <3>1, <3>2 DEF ToSet
  <2>3. CASE ~(i <= k)
    <3>1. i - k \in 1..l
      BY <2>3
    <3>2. x = t[i - k]
      BY <1>3, <2>1, <2>3
    <3> QED BY <1>2, <3>1, <3>2 DEF ToSet
  <2> QED BY <2>2, <2>3
<1>6. ASSUME NEW x \in ToSet(s)
      PROVE  x \in ToSet(w)
  <2>1. PICK i \in 1..k : s[i] = x
    BY <1>1 DEF ToSet
  <2>2. i \in 1..(k + l) /\ i <= k
    OBVIOUS
  <2>3. w[i] = x
    BY <1>3, <2>1, <2>2
  <2> QED BY <1>4, <2>2, <2>3 DEF ToSet
<1>7. ASSUME NEW x \in ToSet(t)
      PROVE  x \in ToSet(w)
  <2>1. PICK i \in 1..l : t[i] = x
    BY <1>2 DEF ToSet
  <2>2. PICK j \in Nat : j = k + i
    OBVIOUS
  <2>3. j \in 1..(k + l) /\ ~(j <= k) /\ j - k = i
    BY <2>2
  <2>4. w[j] = x
    BY <1>3, <2>1, <2>3
  <2> QED BY <1>4, <2>3, <2>4 DEF ToSet
<1> QED BY <1>1, <1>2, <1>3, <1>5, <1>6, <1>7 DEF w

-----------------------------------------------------------------------------
(* A listing *)

(* The items of k at the first n places of s that a lacks, and those of a at *)
(* the other places of s. *)
MissedOf(k, a, s, n) == {x \in k : x \notin ToSet(a) /\ \E i \in DOMAIN s : i <= n /\ s[i] = x}
AgainOf(a, s, n) == {x \in ToSet(a) : \E i \in DOMAIN s : i > n /\ s[i] = x}

(* They are finitely many. *)
LEMMA PartsAreFinite ==
    ASSUME NEW s \in Seq(Nat), NEW a \in Seq(Nat), NEW k \in SUBSET ToSet(s), NEW n \in Nat
    PROVE  /\ IsFiniteSet(MissedOf(k, a, s, n)) /\ Cardinality(MissedOf(k, a, s, n)) \in Nat
           /\ IsFiniteSet(AgainOf(a, s, n)) /\ Cardinality(AgainOf(a, s, n)) \in Nat
<1>1. IsFiniteSet(ToSet(s)) /\ IsFiniteSet(ToSet(a))
  BY ElementsAreFinite
<1>2. MissedOf(k, a, s, n) \in SUBSET ToSet(s) /\ AgainOf(a, s, n) \in SUBSET ToSet(a)
  BY DEF MissedOf, AgainOf
<1>3. IsFiniteSet(MissedOf(k, a, s, n)) /\ IsFiniteSet(AgainOf(a, s, n))
  BY <1>1, <1>2, FS_Subset
<1> QED BY <1>3, FS_CardinalityType

(* A set within another and one more element has at most one element more. *)
LEMMA OneMore ==
    ASSUME NEW S, NEW T, NEW x, IsFiniteSet(T), S \subseteq T \cup {x}
    PROVE  IsFiniteSet(S) /\ Cardinality(S) \in Nat /\ Cardinality(S) <= Cardinality(T) + 1
<1>1. IsFiniteSet(T \cup {x}) /\ Cardinality(T) \in Nat /\ Cardinality(T \cup {x}) \in Nat
  BY FS_AddElement, FS_CardinalityType
<1>2. Cardinality(T \cup {x}) <= Cardinality(T) + 1
  BY <1>1, FS_AddElement
<1>3. IsFiniteSet(S) /\ Cardinality(S) <= Cardinality(T \cup {x})
  BY <1>1, FS_Subset
<1>4. Cardinality(S) \in Nat
  BY <1>3, FS_CardinalityType
<1> QED BY <1>1, <1>2, <1>3, <1>4

(* A removal moves at most one item that is still missing among the places seen. *)
LEMMA RemoveKeeps ==
    ASSUME NEW s \in Seq(Nat), NEW a \in Seq(Nat), NEW k \in SUBSET ToSet(s), NEW n \in Nat,
           NEW at \in DOMAIN s, Distinct(s)
    PROVE  LET t == RemoveAt(s, at)
               l == k \ {s[at]}
           IN  /\ t \in Seq(Nat) /\ Distinct(t)
               /\ ToSet(t) \subseteq ToSet(s) /\ l \subseteq ToSet(t)
               /\ Cardinality(MissedOf(l, a, t, n)) <= Cardinality(MissedOf(k, a, s, n)) + 1
               /\ Cardinality(AgainOf(a, t, n)) <= Cardinality(AgainOf(a, s, n))
<1> DEFINE t == RemoveAt(s, at)
           l == k \ {s[at]}
<1>1. PICK m \in Nat : m = Len(s) /\ DOMAIN s = 1..m /\ at \in 1..m
  BY LenProperties
<1>2. PICK o \in Nat : o = m - 1
  BY <1>1
<1>3. t \in Seq(Nat) /\ Len(t) = o
      /\ \A i \in 1..o : t[i] = IF i < at THEN s[i] ELSE s[i + 1]
  BY <1>1, <1>2, RemoveFacts
<1> HIDE DEF t
<1>4. DOMAIN t = 1..o
  BY <1>3, LenProperties
<1> DEFINE old(i) == IF i < at THEN i ELSE i + 1
<1>5. \A i \in 1..o : old(i) \in 1..m /\ t[i] = s[old(i)] /\ old(i) >= i /\ old(i) <= i + 1
  <2> SUFFICES ASSUME NEW i \in 1..o
               PROVE  old(i) \in 1..m /\ t[i] = s[old(i)] /\ old(i) >= i /\ old(i) <= i + 1
    OBVIOUS
  <2>1. old(i) \in 1..m /\ old(i) >= i /\ old(i) <= i + 1
    BY <1>1, <1>2
  <2> QED BY <1>3, <2>1
<1>6. \A i, j \in 1..o : old(i) = old(j) => i = j
  BY <1>1, <1>2
<1>7. \A j \in 1..m : j # at => \E i \in 1..o : old(i) = j
  <2> SUFFICES ASSUME NEW j \in 1..m, j # at
               PROVE  \E i \in 1..o : old(i) = j
    OBVIOUS
  <2>1. CASE j < at
    <3>1. j \in 1..o /\ old(j) = j
      BY <1>1, <1>2, <2>1
    <3> QED BY <3>1
  <2>2. CASE ~(j < at)
    <3>1. j - 1 \in 1..o /\ old(j - 1) = j
      BY <1>1, <1>2, <2>2
    <3> QED BY <3>1
  <2> QED BY <2>1, <2>2
<1> HIDE DEF old
<1>8. Distinct(t)
  BY <1>1, <1>4, <1>5, <1>6 DEF Distinct
<1>9. ToSet(t) \subseteq ToSet(s)
  BY <1>1, <1>4, <1>5 DEF ToSet
<1>10. l \subseteq ToSet(t)
  <2> SUFFICES ASSUME NEW x \in k, x # s[at]
               PROVE  x \in ToSet(t)
    OBVIOUS
  <2>1. PICK j \in 1..m : s[j] = x
    BY <1>1 DEF ToSet
  <2>2. PICK i \in 1..o : old(i) = j
    BY <1>7, <2>1
  <2> QED BY <1>4, <1>5, <2>1, <2>2 DEF ToSet
<1>11. Cardinality(MissedOf(l, a, t, n)) <= Cardinality(MissedOf(k, a, s, n)) + 1
  <2>1. ASSUME NEW x \in MissedOf(l, a, t, n)
        PROVE  x \in MissedOf(k, a, s, n) \cup {s[n + 1]}
    <3>1. x \in k /\ x \notin ToSet(a)
      BY DEF MissedOf
    <3>2. PICK i \in 1..o : i <= n /\ t[i] = x
      BY <1>4 DEF MissedOf
    <3>3. old(i) \in 1..m /\ x = s[old(i)] /\ (old(i) <= n \/ old(i) = n + 1)
      BY <1>5, <3>2
    <3>4. CASE old(i) <= n
      BY <1>1, <3>1, <3>3, <3>4 DEF MissedOf
    <3> QED BY <3>3, <3>4
  <2>2. IsFiniteSet(MissedOf(k, a, s, n))
    BY PartsAreFinite
  <2> QED BY <2>1, <2>2, OneMore
<1>12. Cardinality(AgainOf(a, t, n)) <= Cardinality(AgainOf(a, s, n))
  <2>1. ASSUME NEW x \in AgainOf(a, t, n)
        PROVE  x \in AgainOf(a, s, n)
    <3>1. PICK i \in 1..o : i > n /\ t[i] = x
      BY <1>4 DEF AgainOf
    <3>2. old(i) \in 1..m /\ x = s[old(i)] /\ old(i) > n
      BY <1>5, <3>1
    <3> QED BY <1>1, <3>2 DEF AgainOf
  <2>2. IsFiniteSet(AgainOf(a, s, n))
    BY PartsAreFinite
  <2> QED BY <2>1, <2>2, FS_Subset
<1> QED BY <1>3, <1>8, <1>9, <1>10, <1>11, <1>12 DEF t

(* A fresh item moves at most one item behind the places seen. *)
LEMMA InsertKeeps ==
    ASSUME NEW s \in Seq(Nat), NEW a \in Seq(Nat), NEW k \in SUBSET ToSet(s), NEW n \in Nat,
           NEW at \in 1..(Len(s) + 1), Distinct(s),
           NEW e \in Nat, e \notin ToSet(s), e \notin ToSet(a)
    PROVE  LET t == InsertAt(s, at, e)
           IN  /\ t \in Seq(Nat) /\ Distinct(t)
               /\ ToSet(t) \subseteq ToSet(s) \cup {e} /\ k \subseteq ToSet(t)
               /\ Cardinality(MissedOf(k, a, t, n)) <= Cardinality(MissedOf(k, a, s, n))
               /\ Cardinality(AgainOf(a, t, n)) <= Cardinality(AgainOf(a, s, n)) + 1
<1> DEFINE t == InsertAt(s, at, e)
<1>1. PICK m \in Nat : m = Len(s) /\ DOMAIN s = 1..m /\ at \in 1..(m + 1)
  BY LenProperties
<1>2. t \in Seq(Nat) /\ Len(t) = m + 1
      /\ \A i \in 1..(m + 1) : t[i] = IF i < at THEN s[i] ELSE IF i = at THEN e ELSE s[i - 1]
  <2>1. /\ t \in Seq(Nat) /\ Len(t) = Len(s) + 1
        /\ \A i \in 1..(Len(s) + 1) : t[i] = IF i < at THEN s[i] ELSE IF i = at THEN e ELSE s[i - 1]
    BY InsertFacts
  <2> HIDE DEF t
  <2> QED BY <1>1, <2>1
<1> HIDE DEF t
<1>3. DOMAIN t = 1..(m + 1)
  BY <1>2, LenProperties
<1> DEFINE old(i) == IF i < at THEN i ELSE i - 1
<1>4. \A i \in 1..(m + 1) : i # at => /\ old(i) \in 1..m /\ t[i] = s[old(i)]
                                     /\ old(i) <= i /\ old(i) >= i - 1
  BY <1>1, <1>2
<1>5. t[at] = e /\ at \in 1..(m + 1)
  BY <1>1, <1>2
<1>6. \A i, j \in 1..(m + 1) : i # at /\ j # at /\ old(i) = old(j) => i = j
  BY <1>1
<1>7. \A j \in 1..m : \E i \in 1..(m + 1) : i # at /\ old(i) = j
  <2> SUFFICES ASSUME NEW j \in 1..m
               PROVE  \E i \in 1..(m + 1) : i # at /\ old(i) = j
    OBVIOUS
  <2>1. CASE j < at
    <3>1. j \in 1..(m + 1) /\ j # at /\ old(j) = j
      BY <1>1, <2>1
    <3> QED BY <3>1
  <2>2. CASE ~(j < at)
    <3>1. j + 1 \in 1..(m + 1) /\ j + 1 # at /\ old(j + 1) = j
      BY <1>1, <2>2
    <3> QED BY <3>1
  <2> QED BY <2>1, <2>2
<1> HIDE DEF old
<1>8. \A j \in 1..m : s[j] # e /\ s[j] \in ToSet(s)
  BY <1>1 DEF ToSet
<1>9. Distinct(t)
  <2> SUFFICES ASSUME NEW i \in 1..(m + 1), NEW j \in 1..(m + 1), t[i] = t[j]
               PROVE  i = j
    BY <1>3 DEF Distinct
  <2>1. CASE i # at /\ j # at
    BY <1>1, <1>4, <1>6, <2>1 DEF Distinct
  <2>2. CASE i = at
    BY <1>4, <1>5, <1>8, <2>2
  <2>3. CASE j = at
    BY <1>4, <1>5, <1>8, <2>3
  <2> QED BY <2>1, <2>2, <2>3
<1>10. ToSet(t) \subseteq ToSet(s) \cup {e}
  <2> SUFFICES ASSUME NEW i \in 1..(m + 1)
               PROVE  t[i] \in ToSet(s) \cup {e}
    BY <1>3 DEF ToSet
  <2> QED BY <1>4, <1>5, <1>8
<1>11. k \subseteq ToSet(t)
  <2> SUFFICES ASSUME NEW x \in k
               PROVE  x \in ToSet(t)
    OBVIOUS
  <2>1. PICK j \in 1..m : s[j] = x
    BY <1>1 DEF ToSet
  <2>2. PICK i \in 1..(m + 1) : i # at /\ old(i) = j
    BY <1>7
  <2> QED BY <1>3, <1>4, <2>1, <2>2 DEF ToSet
<1>12. Cardinality(MissedOf(k, a, t, n)) <= Cardinality(MissedOf(k, a, s, n))
  <2>1. ASSUME NEW x \in MissedOf(k, a, t, n)
        PROVE  x \in MissedOf(k, a, s, n)
    <3>1. x \in k /\ x \notin ToSet(a) /\ x # e
      BY DEF MissedOf
    <3>2. PICK i \in 1..(m + 1) : i <= n /\ t[i] = x
      BY <1>3 DEF MissedOf
    <3>3. i # at
      BY <1>5, <3>1, <3>2
    <3>4. old(i) \in 1..m /\ x = s[old(i)] /\ old(i) <= n
      BY <1>4, <3>2, <3>3
    <3> QED BY <1>1, <3>1, <3>4 DEF MissedOf
  <2>2. IsFiniteSet(MissedOf(k, a, s, n))
    BY PartsAreFinite
  <2> QED BY <2>1, <2>2, FS_Subset
<1>13. Cardinality(AgainOf(a, t, n)) <= Cardinality(AgainOf(a, s, n)) + 1
  <2>1. ASSUME NEW x \in AgainOf(a, t, n)
        PROVE  x \in AgainOf(a, s, n) \cup {s[n]}
    <3>1. x \in ToSet(a) /\ x # e
      BY DEF AgainOf
    <3>2. PICK i \in 1..(m + 1) : i > n /\ t[i] = x
      BY <1>3 DEF AgainOf
    <3>3. i # at
      BY <1>5, <3>1, <3>2
    <3>4. old(i) \in 1..m /\ x = s[old(i)] /\ (old(i) > n \/ old(i) = n)
      BY <1>4, <3>2, <3>3
    <3>5. CASE old(i) > n
      BY <1>1, <3>1, <3>4, <3>5 DEF AgainOf
    <3> QED BY <3>4, <3>5
  <2>2. IsFiniteSet(AgainOf(a, s, n))
    BY PartsAreFinite
  <2> QED BY <2>1, <2>2, OneMore
<1> QED BY <1>2, <1>9, <1>10, <1>11, <1>12, <1>13 DEF t

(* A page of the places after those seen: what it repeats was to be repeated, *)
(* and what is missing after it was missing before. *)
LEMMA PageKeeps ==
    ASSUME NEW s \in Seq(Nat), NEW a \in Seq(Nat), NEW k \in SUBSET ToSet(s),
           NEW f \in Nat, NEW h \in Nat, h <= Len(s), Distinct(s)
    PROVE  LET b == a \o SubSeq(s, f + 1, h)
           IN  /\ b \in Seq(Nat) /\ ToSet(b) \subseteq ToSet(a) \cup ToSet(s)
               /\ Cardinality(MissedOf(k, b, s, h)) <= Cardinality(MissedOf(k, a, s, f))
               /\ Len(b) - Cardinality(ToSet(b)) + Cardinality(AgainOf(b, s, IF f < h THEN h ELSE f))
                    <= Len(a) - Cardinality(ToSet(a)) + Cardinality(AgainOf(a, s, f))
<1> DEFINE p == SubSeq(s, f + 1, h)
           b == a \o p
           g == IF f < h THEN h ELSE f
<1>1. PICK m \in Nat : m = Len(s) /\ DOMAIN s = 1..m /\ h <= m
  BY LenProperties
<1>2. /\ p \in Seq(Nat)
      /\ \A i \in DOMAIN p : f + i \in DOMAIN s /\ f + i <= h /\ p[i] = s[f + i]
      /\ \A j \in DOMAIN s : f < j /\ j <= h => s[j] \in ToSet(p)
  BY PageFacts
<1> HIDE DEF p
<1>3. b \in Seq(Nat) /\ Len(b) = Len(a) + Len(p) /\ ToSet(b) = ToSet(a) \cup ToSet(p)
  BY <1>2, AppendFacts
<1> HIDE DEF b
<1>4. DOMAIN p \subseteq Nat \ {0}
  BY <1>2, LenProperties
<1>5. \A x \in ToSet(p) : \E j \in DOMAIN s : f < j /\ j <= h /\ s[j] = x
  <2> SUFFICES ASSUME NEW i \in DOMAIN p
               PROVE  \E j \in DOMAIN s : f < j /\ j <= h /\ s[j] = p[i]
    BY DEF ToSet
  <2>1. f + i \in DOMAIN s /\ f + i <= h /\ p[i] = s[f + i]
    BY <1>2
  <2>2. f < f + i
    BY <1>4
  <2> QED BY <2>1, <2>2
<1>6. ToSet(p) \subseteq ToSet(s)
  BY <1>5 DEF ToSet
<1>7. Distinct(p)
  <2> SUFFICES ASSUME NEW i \in DOMAIN p, NEW j \in DOMAIN p, p[i] = p[j]
               PROVE  i = j
    BY DEF Distinct
  <2>1. f + i = f + j
    BY <1>2 DEF Distinct
  <2> QED BY <1>4, <2>1
<1>8. Cardinality(MissedOf(k, b, s, h)) <= Cardinality(MissedOf(k, a, s, f))
  <2>1. ASSUME NEW x \in MissedOf(k, b, s, h)
        PROVE  x \in MissedOf(k, a, s, f)
    <3>1. x \in k /\ x \notin ToSet(a) /\ x \notin ToSet(p)
      BY <1>3 DEF MissedOf
    <3>2. PICK i \in DOMAIN s : i <= h /\ s[i] = x
      BY DEF MissedOf
    <3>3. ~(f < i)
      BY <1>2, <3>1, <3>2
    <3>4. i <= f
      BY <1>1, <3>3
    <3> QED BY <3>1, <3>2, <3>4 DEF MissedOf
  <2>2. IsFiniteSet(MissedOf(k, a, s, f))
    BY PartsAreFinite
  <2> QED BY <2>1, <2>2, FS_Subset
<1> DEFINE B == ToSet(a) \cap ToSet(p)
           A == AgainOf(b, s, g)
           O == AgainOf(a, s, f)
<1>9. B \subseteq O
  BY <1>5 DEF AgainOf
<1>10. A \subseteq O /\ A \cap B = {}
  <2> SUFFICES ASSUME NEW x \in A
               PROVE  x \in O /\ x \notin ToSet(p)
    OBVIOUS
  <2>1. PICK i \in DOMAIN s : i > g /\ s[i] = x
    BY DEF AgainOf
  <2>2. i > f /\ i > h
    BY <1>1, <2>1
  <2>3. x \notin ToSet(p)
    <3>1. SUFFICES ASSUME NEW j \in DOMAIN s, f < j, j <= h, s[j] = x
                   PROVE  FALSE
      BY <1>5
    <3>2. i = j
      BY <2>1, <3>1 DEF Distinct
    <3> QED BY <1>1, <2>2, <3>1, <3>2
  <2>4. x \in ToSet(a)
    BY <1>3, <2>3 DEF AgainOf
  <2> QED BY <2>1, <2>2, <2>3, <2>4 DEF AgainOf
<1>11. /\ IsFiniteSet(ToSet(a)) /\ IsFiniteSet(ToSet(p)) /\ Cardinality(ToSet(p)) = Len(p)
       /\ IsFiniteSet(O)
  BY <1>2, <1>7, ElementsAreFinite, PartsAreFinite
<1>12. IsFiniteSet(A) /\ IsFiniteSet(B)
  BY <1>9, <1>10, <1>11, FS_Subset
<1> HIDE DEF A, O, g
<1>13. Cardinality(ToSet(b)) = Cardinality(ToSet(a)) + Len(p) - Cardinality(B)
  BY <1>3, <1>11, FS_Union
<1>14. Cardinality(A) + Cardinality(B) <= Cardinality(O)
  <2>1. Cardinality(A \cup B) = Cardinality(A) + Cardinality(B) - Cardinality(A \cap B)
    BY <1>12, FS_Union
  <2>2. Cardinality(A \cap B) = 0
    BY <1>10, FS_EmptySet
  <2>3. Cardinality(A \cup B) <= Cardinality(O)
    BY <1>9, <1>10, <1>11, FS_Subset
  <2>4. Cardinality(A) \in Nat /\ Cardinality(B) \in Nat
    BY <1>12, FS_CardinalityType
  <2> QED BY <2>1, <2>2, <2>3, <2>4
<1>15. Len(b) - Cardinality(ToSet(b)) + Cardinality(A) <= Len(a) - Cardinality(ToSet(a)) + Cardinality(O)
  <2>1. /\ Cardinality(A) \in Nat /\ Cardinality(B) \in Nat /\ Cardinality(O) \in Nat
        /\ Cardinality(ToSet(a)) \in Nat
    BY <1>11, <1>12, FS_CardinalityType
  <2>2. Len(a) \in Nat /\ Len(p) \in Nat
    BY <1>2, LenProperties
  <2> HIDE DEF B
  <2> QED BY <1>3, <1>13, <1>14, <2>1, <2>2
<1>16. ToSet(b) \subseteq ToSet(a) \cup ToSet(s)
  BY <1>3, <1>6
<1> QED BY <1>3, <1>8, <1>15, <1>16 DEF A, O, g, b, p

(* The places of the pages that have arrived. *)
Seen == (page - 1) * PerPage

Missed == MissedOf(kept, all, items, Seen)
Again == AgainOf(all, items, Seen)
Repeats == Len(all) - Cardinality(ToSet(all))

ListTypeOK ==
    /\ hpc \in {"none", "paging", "done", "failed"}
    /\ kind \in {"runs", "workflows", "branches"}
    /\ page \in Nat /\ page >= 1
    /\ items \in Seq(Nat) /\ all \in Seq(Nat)
    /\ inserted \in Nat /\ deleted \in Nat

(* Each deletion has moved at most one item before the pages to come, each *)
(* insertion one of those collected behind the pages seen. *)
ListingInv ==
    /\ Distinct(items) /\ kept \subseteq ToSet(items)
    /\ \A x \in ToSet(items) \cup ToSet(all) : x <= StartLength + inserted
    /\ Cardinality(Missed) <= deleted
    /\ Repeats + Cardinality(Again) <= inserted

ListInv == ListTypeOK /\ (hpc = "paging" => ListingInv) /\ ListsWhatStayed

(* A listing starts with distinct items, none of them collected. *)
LEMMA StartKeepsList ==
    ASSUME NEW handler \in {"runs", "workflows", "branches"}, StartList(handler)
    PROVE  ListInv'
<1>1. PICK n \in 0..StartLength : items' = [i \in 1..n |-> i]
  BY DEF StartList
<1>2. n \in Nat /\ n <= StartLength
  BY BoundsAssumption
<1>3. items' \in Seq(Nat) /\ DOMAIN items' = 1..n
  BY <1>1, <1>2
<1>4. hpc' = "paging" /\ kind' = handler /\ kept' = ToSet(items') /\ all' = <<>> /\ page' = 1 /\ inserted' = 0 /\ deleted' = 0
  BY DEF StartList
<1>5. Seen' = 0
  <2>1. (1 - 1) * PerPage = 0
    BY ListerAssumption
  <2> QED BY <1>4, <2>1 DEF Seen
<1>6. <<>> \in Seq(Nat) /\ Len(<<>>) = 0 /\ ToSet(<<>>) = {}
  BY DEF ToSet
<1>7. Distinct(items')
  BY <1>1, <1>3 DEF Distinct
<1>8. \A x \in ToSet(items') : x <= StartLength + 0
  BY <1>1, <1>2, <1>3, BoundsAssumption DEF ToSet
<1>9. MissedOf(kept', all', items', 0) = {}
  BY <1>3 DEF MissedOf
<1>10. AgainOf(all', items', 0) = {}
  BY <1>4, <1>6 DEF AgainOf
<1>11. ListTypeOK'
  BY <1>3, <1>4, <1>6 DEF ListTypeOK
<1>12. Missed' = {} /\ Again' = {}
  BY <1>5, <1>9, <1>10 DEF Missed, Again
<1>13. Repeats' = 0
  BY <1>4, <1>6, FS_EmptySet DEF Repeats
<1>14. ListingInv'
  <2>1. Distinct(items)' /\ (kept \subseteq ToSet(items))'
    BY <1>4, <1>7
  <2>2. \A x \in ToSet(items') \cup ToSet(all') : x <= StartLength + inserted'
    BY <1>4, <1>6, <1>8
  <2>3. Cardinality(Missed') <= deleted' /\ Repeats' + Cardinality(Again') <= inserted'
    BY <1>4, <1>12, <1>13, FS_EmptySet
  <2> QED BY <2>1, <2>2, <2>3 DEF ListingInv
<1> QED BY <1>4, <1>11, <1>14 DEF ListInv, ListsWhatStayed

(* A page arrives. *)
LEMMA PageKeepsList ==
    ASSUME ListInv, PageArrives
    PROVE  ListInv'
<1>1. hpc = "paging" /\ ListTypeOK /\ ListingInv
  BY DEF ListInv, PageArrives
<1>2. PerPage \in Nat /\ page \in Nat /\ page >= 1 /\ PerPage >= 1
  BY <1>1, ListerAssumption DEF ListTypeOK
<1>3. PICK f \in Nat : f = Seen
  BY <1>2 DEF Seen
<1>4. PICK r \in Nat : r = page * PerPage /\ r = f + PerPage
  BY <1>2, <1>3 DEF Seen
<1>5. PICK m \in Nat : m = Len(items)
  BY <1>1, LenProperties DEF ListTypeOK
<1>6. PICK h \in Nat : h = (IF r < m THEN r ELSE m) /\ h <= Len(items)
  BY <1>5
<1> DEFINE b == all \o SubSeq(items, f + 1, h)
<1>7. all' = b
  BY <1>3, <1>4, <1>5, <1>6 DEF PageArrives, Collected, PageOf, Seen
<1>8. items \in Seq(Nat) /\ all \in Seq(Nat) /\ kept \in SUBSET ToSet(items) /\ Distinct(items)
  BY <1>1 DEF ListTypeOK, ListingInv
<1>9. /\ b \in Seq(Nat) /\ ToSet(b) \subseteq ToSet(all) \cup ToSet(items)
      /\ Cardinality(MissedOf(kept, b, items, h)) <= Cardinality(MissedOf(kept, all, items, f))
      /\ Len(b) - Cardinality(ToSet(b)) + Cardinality(AgainOf(b, items, IF f < h THEN h ELSE f))
           <= Len(all) - Cardinality(ToSet(all)) + Cardinality(AgainOf(all, items, f))
  BY <1>6, <1>8, PageKeeps
<1> HIDE DEF b
<1>10. items' = items /\ kind' = kind /\ kept' = kept /\ inserted' = inserted /\ deleted' = deleted
  BY DEF PageArrives
<1>11. Cardinality(MissedOf(kept, all, items, f)) <= deleted
  BY <1>1, <1>3 DEF ListingInv, Missed
<1>12. Len(all) - Cardinality(ToSet(all)) + Cardinality(AgainOf(all, items, f)) <= inserted
  BY <1>1, <1>3 DEF ListingInv, Repeats, Again
<1>13. /\ Cardinality(MissedOf(kept, b, items, h)) \in Nat
       /\ Cardinality(AgainOf(b, items, IF f < h THEN h ELSE f)) \in Nat
       /\ Cardinality(MissedOf(kept, all, items, f)) \in Nat
       /\ Cardinality(AgainOf(all, items, f)) \in Nat
  BY <1>8, <1>9, PartsAreFinite
<1>14. /\ Len(b) \in Nat /\ Cardinality(ToSet(b)) \in Nat
       /\ Len(all) \in Nat /\ Cardinality(ToSet(all)) \in Nat
  BY <1>8, <1>9, LenProperties, ElementsAreFinite, FS_CardinalityType
<1>15. inserted \in Nat /\ deleted \in Nat
  BY <1>1 DEF ListTypeOK
<1>16. Cardinality(MissedOf(kept, b, items, h)) <= deleted
  BY <1>9, <1>11, <1>13, <1>15
<1>17. Len(b) - Cardinality(ToSet(b)) + Cardinality(AgainOf(b, items, IF f < h THEN h ELSE f)) <= inserted
  BY <1>9, <1>12, <1>13, <1>14, <1>15
<1>18. CASE r < m
  <2>1. NextPage(items, page) = page + 1 /\ page + 1 # 0
    BY <1>2, <1>4, <1>5, <1>18 DEF NextPage
  <2>2. page' = page + 1 /\ hpc' = "paging"
    BY <1>1, <2>1 DEF PageArrives
  <2>3. Seen' = h
    <3>1. ((page + 1) - 1) * PerPage = r
      BY <1>2, <1>4
    <3> QED BY <1>6, <1>18, <2>2, <3>1 DEF Seen
  <2>4. h = IF f < h THEN h ELSE f
    BY <1>2, <1>4, <1>6, <1>18
  <2>5. ListTypeOK'
    BY <1>1, <1>2, <1>7, <1>9, <1>10, <2>2 DEF ListTypeOK
  <2>6. Missed' = MissedOf(kept, b, items, h) /\ Again' = AgainOf(b, items, h)
    BY <1>7, <1>10, <2>3 DEF Missed, Again
  <2>7. Repeats' = Len(b) - Cardinality(ToSet(b))
    BY <1>7 DEF Repeats
  <2>8. \A x \in ToSet(items') \cup ToSet(all') : x <= StartLength + inserted'
    BY <1>1, <1>7, <1>9, <1>10 DEF ListingInv
  <2>9. Cardinality(Missed') <= deleted' /\ Repeats' + Cardinality(Again') <= inserted'
    BY <1>10, <1>16, <1>17, <2>4, <2>6, <2>7
  <2>10. ListingInv'
    BY <1>8, <1>10, <2>8, <2>9 DEF ListingInv
  <2> QED BY <2>2, <2>5, <2>10 DEF ListInv, ListsWhatStayed
<1>19. CASE ~(r < m)
  <2>1. NextPage(items, page) = 0
    BY <1>4, <1>5, <1>19 DEF NextPage
  <2>2. page' = page /\ hpc' = "done"
    BY <2>1 DEF PageArrives
  <2>3. kept \ ToSet(b) = MissedOf(kept, b, items, h)
    <3>1. ASSUME NEW x \in kept
          PROVE  \E i \in DOMAIN items : i <= h /\ items[i] = x
      <4>1. PICK i \in DOMAIN items : items[i] = x
        BY <1>8 DEF ToSet
      <4>2. DOMAIN items = 1..m
        BY <1>5, <1>8, LenProperties
      <4> QED BY <1>6, <1>19, <4>1, <4>2
    <3> QED BY <3>1 DEF MissedOf
  <2>4. Cardinality(kept \ ToSet(b)) <= deleted
    BY <1>16, <2>3
  <2>5. Len(b) - Cardinality(ToSet(b)) <= inserted
    BY <1>13, <1>14, <1>15, <1>17
  <2>6. ListsWhatStayed'
    BY <1>7, <1>10, <2>4, <2>5 DEF ListsWhatStayed
  <2>7. ListTypeOK'
    BY <1>1, <1>2, <1>7, <1>9, <1>10, <2>2 DEF ListTypeOK
  <2> QED BY <2>2, <2>6, <2>7 DEF ListInv
<1> QED BY <1>18, <1>19

(* An item appears. *)
LEMMA AppearKeepsList ==
    ASSUME ListInv, ItemAppears
    PROVE  ListInv'
<1>1. hpc = "paging" /\ ListTypeOK /\ ListingInv
  BY DEF ListInv, ItemAppears, Changing
<1>2. items \in Seq(Nat) /\ all \in Seq(Nat) /\ kept \in SUBSET ToSet(items) /\ Distinct(items)
  BY <1>1 DEF ListTypeOK, ListingInv
<1>3. inserted \in Nat /\ deleted \in Nat /\ StartLength \in Nat
  BY <1>1, BoundsAssumption DEF ListTypeOK
<1>4. PICK f \in Nat : f = Seen
  BY <1>1, ListerAssumption DEF ListTypeOK, Seen
<1>5. PICK e \in Nat : e = StartLength + inserted + 1
  BY <1>3
<1>6. \A x \in ToSet(items) \cup ToSet(all) : x \in Nat /\ x <= StartLength + inserted
  <2>1. \A x \in ToSet(items) \cup ToSet(all) : x \in Nat
    BY <1>2, LenProperties DEF ToSet
  <2> QED BY <1>1, <2>1 DEF ListingInv
<1>7. e \notin ToSet(items) /\ e \notin ToSet(all)
  BY <1>3, <1>5, <1>6
<1>8. Places \subseteq 1..(Len(items) + 1)
  <2>1. Len(items) \in Nat
    BY <1>2, LenProperties
  <2>2. CASE kind = "runs"
    BY <2>1, <2>2 DEF Places
  <2>3. CASE kind = "workflows"
    BY <2>1, <2>3 DEF Places
  <2>4. CASE kind = "branches"
    BY <2>1, <2>4 DEF Places
  <2> QED BY <1>1, <2>2, <2>3, <2>4 DEF ListTypeOK
<1>9. PICK at \in 1..(Len(items) + 1) : items' = InsertAt(items, at, e)
  BY <1>5, <1>8 DEF ItemAppears
<1>10. /\ items' \in Seq(Nat) /\ Distinct(items')
       /\ ToSet(items') \subseteq ToSet(items) \cup {e} /\ kept \subseteq ToSet(items')
       /\ Cardinality(MissedOf(kept, all, items', f)) <= Cardinality(MissedOf(kept, all, items, f))
       /\ Cardinality(AgainOf(all, items', f)) <= Cardinality(AgainOf(all, items, f)) + 1
  BY <1>2, <1>7, <1>9, InsertKeeps
<1>11. /\ hpc' = hpc /\ kind' = kind /\ all' = all /\ page' = page /\ kept' = kept
       /\ inserted' = inserted + 1 /\ deleted' = deleted
  BY DEF ItemAppears
<1>12. Seen' = f
  BY <1>4, <1>11 DEF Seen
<1>13. ListTypeOK'
  BY <1>1, <1>10, <1>11 DEF ListTypeOK
<1>14. Cardinality(MissedOf(kept, all, items, f)) <= deleted
       /\ Repeats + Cardinality(AgainOf(all, items, f)) <= inserted
  BY <1>1, <1>4 DEF ListingInv, Missed, Again
<1>15. /\ Cardinality(MissedOf(kept, all, items', f)) \in Nat
       /\ Cardinality(AgainOf(all, items', f)) \in Nat
       /\ Cardinality(MissedOf(kept, all, items, f)) \in Nat
       /\ Cardinality(AgainOf(all, items, f)) \in Nat
  BY <1>2, <1>10, PartsAreFinite
<1>16. Repeats \in Int
  BY <1>2, LenProperties, ElementsAreFinite, FS_CardinalityType DEF Repeats
<1>17. Missed' = MissedOf(kept, all, items', f) /\ Again' = AgainOf(all, items', f) /\ Repeats' = Repeats
  BY <1>11, <1>12 DEF Missed, Again, Repeats
<1>18. Cardinality(Missed') <= deleted'
  BY <1>3, <1>10, <1>11, <1>14, <1>15, <1>17
<1>19. Repeats' + Cardinality(Again') <= inserted'
  BY <1>3, <1>10, <1>11, <1>14, <1>15, <1>16, <1>17
<1>20. \A x \in ToSet(items') \cup ToSet(all') : x <= StartLength + inserted'
  <2>1. StartLength + inserted' = e
    BY <1>3, <1>5, <1>11
  <2>2. \A x \in ToSet(items) \cup ToSet(all) : x <= e
    BY <1>3, <1>5, <1>6
  <2> QED BY <1>10, <1>11, <2>1, <2>2
<1>21. ListingInv'
  BY <1>10, <1>11, <1>18, <1>19, <1>20 DEF ListingInv
<1> QED BY <1>1, <1>11, <1>13, <1>21 DEF ListInv, ListsWhatStayed

(* An item disappears. *)
LEMMA DisappearKeepsList ==
    ASSUME ListInv, ItemDisappears
    PROVE  ListInv'
<1>1. hpc = "paging" /\ ListTypeOK /\ ListingInv
  BY DEF ListInv, ItemDisappears, Changing
<1>2. items \in Seq(Nat) /\ all \in Seq(Nat) /\ kept \in SUBSET ToSet(items) /\ Distinct(items)
  BY <1>1 DEF ListTypeOK, ListingInv
<1>3. inserted \in Nat /\ deleted \in Nat
  BY <1>1 DEF ListTypeOK
<1>4. PICK f \in Nat : f = Seen
  BY <1>1, ListerAssumption DEF ListTypeOK, Seen
<1>5. PICK at \in DOMAIN items : items' = RemoveAt(items, at) /\ kept' = kept \ {items[at]}
  BY DEF ItemDisappears
<1>6. /\ items' \in Seq(Nat) /\ Distinct(items')
      /\ ToSet(items') \subseteq ToSet(items) /\ kept' \subseteq ToSet(items')
      /\ Cardinality(MissedOf(kept', all, items', f)) <= Cardinality(MissedOf(kept, all, items, f)) + 1
      /\ Cardinality(AgainOf(all, items', f)) <= Cardinality(AgainOf(all, items, f))
  BY <1>2, <1>5, RemoveKeeps
<1>7. /\ hpc' = hpc /\ kind' = kind /\ all' = all /\ page' = page
      /\ inserted' = inserted /\ deleted' = deleted + 1
  BY DEF ItemDisappears
<1>8. Seen' = f
  BY <1>4, <1>7 DEF Seen
<1>9. ListTypeOK'
  BY <1>1, <1>6, <1>7 DEF ListTypeOK
<1>10. Cardinality(MissedOf(kept, all, items, f)) <= deleted
       /\ Repeats + Cardinality(AgainOf(all, items, f)) <= inserted
  BY <1>1, <1>4 DEF ListingInv, Missed, Again
<1>11. /\ Cardinality(MissedOf(kept', all, items', f)) \in Nat
       /\ Cardinality(AgainOf(all, items', f)) \in Nat
       /\ Cardinality(MissedOf(kept, all, items, f)) \in Nat
       /\ Cardinality(AgainOf(all, items, f)) \in Nat
  BY <1>2, <1>6, PartsAreFinite
<1>12. Repeats \in Int
  BY <1>2, LenProperties, ElementsAreFinite, FS_CardinalityType DEF Repeats
<1>13. Missed' = MissedOf(kept', all, items', f) /\ Again' = AgainOf(all, items', f) /\ Repeats' = Repeats
  BY <1>7, <1>8 DEF Missed, Again, Repeats
<1>14. Cardinality(Missed') <= deleted'
  BY <1>3, <1>6, <1>7, <1>10, <1>11, <1>13
<1>15. Repeats' + Cardinality(Again') <= inserted'
  BY <1>3, <1>6, <1>7, <1>10, <1>11, <1>12, <1>13
<1>16. \A x \in ToSet(items') \cup ToSet(all') : x <= StartLength + inserted'
  BY <1>1, <1>6, <1>7 DEF ListingInv
<1>17. ListingInv'
  BY <1>6, <1>14, <1>15, <1>16 DEF ListingInv
<1> QED BY <1>1, <1>7, <1>9, <1>17 DEF ListInv, ListsWhatStayed

(* The invariant of a listing is inductive. *)
LEMMA ListStep ==
    ASSUME ListInv, [ProxyNext]_proxyVars
    PROVE  ListInv'
<1>1. CASE ListBranches \/ ListWorkflows \/ ListWorkflowRuns
  BY <1>1, StartKeepsList DEF ListBranches, ListWorkflows, ListWorkflowRuns
<1>2. CASE PageArrives
  BY <1>2, PageKeepsList
<1>3. CASE ListFails
  <2>1. hpc' = "failed" /\ all' = <<>> /\ all' \in Seq(Nat)
    BY <1>3 DEF ListFails
  <2>2. UNCHANGED <<kind, items, page, inserted, deleted>>
    BY <1>3 DEF ListFails
  <2> QED BY <2>1, <2>2 DEF ListInv, ListTypeOK, ListsWhatStayed
<1>4. CASE ItemAppears
  BY <1>4, AppearKeepsList
<1>5. CASE ItemDisappears
  BY <1>5, DisappearKeepsList
<1>6. ASSUME UNCHANGED listVars
      PROVE  ListInv'
  BY <1>6 DEF listVars, ListInv, ListTypeOK, ListingInv, ListsWhatStayed, Missed, Again, Repeats, Seen
<1>7. UNCHANGED proxyVars => UNCHANGED listVars
  BY DEF proxyVars
<1>8. ASSUME NEW c \in Callers, SingleCall(c) \/ SingleCallEnds(c)
      PROVE  UNCHANGED listVars
  BY <1>8 DEF SingleCall, SingleCallEnds
<1> QED BY <1>1, <1>2, <1>3, <1>4, <1>5, <1>6, <1>7, <1>8 DEF ProxyNext

(* A list that was put together from pages of a changing list misses no more of *)
(* what was there all the time than was deleted meanwhile, and repeats no more *)
(* than was inserted, for every page size, length and number of changes. *)
THEOREM ListsShowWhatStayed == ProxySpec => []ListsWhatStayed
<1>1. ProxyInit => ListInv
  <2>1. <<>> \in Seq(Nat)
    OBVIOUS
  <2> QED BY <2>1 DEF ProxyInit, ListInit, ListInv, ListTypeOK, ListsWhatStayed
<1>2. ListInv /\ [ProxyNext]_proxyVars => ListInv'
  BY ListStep
<1>3. ListInv => ListsWhatStayed
  BY DEF ListInv
<1> QED
  BY <1>1, <1>2, <1>3, PTL DEF ProxySpec
=============================================================================
