----------------------------- MODULE TokenSource -----------------------------
(***************************************************************************)
(* What a caller of an authenticated GitHub client may rely on: it asks    *)
(* for a token, is refused or given one, and a token it was given does not *)
(* expire before the request that carries it reaches GitHub. The comment   *)
(* on ghAppTransport ("caches the token until expiry") promises no less.   *)
(***************************************************************************)
EXTENDS Integers

CONSTANTS
    Callers,    \* requests, the collector and the health loop
    TokenLife   \* units of time a token lives

VARIABLES
    asking,     \* callers that wait for a token
    held        \* held[c]: what remains of the life of the token c sends, 0 without one

vars == <<asking, held>>

Init ==
    /\ asking = {}
    /\ held = [c \in Callers |-> 0]

Ask(c) ==
    /\ c \notin asking /\ held[c] = 0
    /\ asking' = asking \cup {c}
    /\ UNCHANGED held

Give(c) ==
    /\ c \in asking
    /\ asking' = asking \ {c}
    /\ \E n \in 1..TokenLife : held' = [held EXCEPT ![c] = n]

Refuse(c) ==
    /\ c \in asking
    /\ asking' = asking \ {c}
    /\ UNCHANGED held

(* The request arrives; the caller may go on with its next one at once. *)
Deliver(c) ==
    /\ held[c] > 0
    /\ held' = [held EXCEPT ![c] = 0]
    /\ asking' \in {asking, asking \cup {c}}

(* Time passes, but not the end of a token that is on its way. *)
Elapse ==
    /\ \A c \in Callers : held[c] # 1
    /\ held' = [c \in Callers |-> IF held[c] = 0 THEN 0 ELSE held[c] - 1]
    /\ UNCHANGED asking

Next ==
    \/ \E c \in Callers : Ask(c) \/ Give(c) \/ Refuse(c) \/ Deliver(c)
    \/ Elapse

Spec == Init /\ [][Next]_vars
=============================================================================
