------------------------------ MODULE RepoLease ------------------------------
(***************************************************************************)
(* What the distributed lock of the collector promises, without saying how *)
(* it is kept: a repository is granted to one pod at a time, and two       *)
(* grants of the same repository are at least Interval apart, unless the   *)
(* store that keeps the leases loses them.                                 *)
(*                                                                         *)
(* The promise is the comment of GitHubCollectorService ("each repository  *)
(* is collected by at most one instance per cycle using a distributed      *)
(* lock"), where one cycle lasts one collector interval.                   *)
(***************************************************************************)
EXTENDS Naturals

CONSTANTS Repos,      \* the repositories that can be granted
          Interval    \* length of a cycle in clock units

VARIABLE sinceGrant   \* clock units since a repository was last granted,
                      \* counted up to Interval

LeaseInit == sinceGrant = [r \in Repos |-> Interval]

(* A repository may be granted only a whole interval after its last grant. *)
Grant(r) == /\ sinceGrant[r] = Interval
            /\ sinceGrant' = [sinceGrant EXCEPT ![r] = 0]

Elapse == sinceGrant' = [r \in Repos |->
             IF sinceGrant[r] < Interval THEN sinceGrant[r] + 1 ELSE Interval]

(* The store forgets every lease: nothing is promised about earlier ones.  *)
Forget == sinceGrant' = [r \in Repos |-> Interval]

LeaseNext == Elapse \/ Forget \/ \E r \in Repos : Grant(r)

LeaseSpec == LeaseInit /\ [][LeaseNext]_sinceGrant
=============================================================================
