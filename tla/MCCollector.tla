----------------------------- MODULE MCCollector -----------------------------
(***************************************************************************)
(* Instances of Collector for TLC. Time is counted in units of which an    *)
(* interval has two or three. A repository may be configured twice: Viper  *)
(* does not remove duplicates.                                             *)
(***************************************************************************)
EXTENDS Collector, TLC

PodSymmetry == Permutations(Pods)

MCTwoRepos == <<"org/a", "org/b">>
MCWithMalformed == <<"org/a", "noslash", "org/a">>
=============================================================================
