----------------------------- MODULE MCReadiness -----------------------------
(* Instances of Readiness for TLC. *)
EXTENDS Readiness

\* A collector is there only with the GitHub service.
MCBase == <<"cache", "database", "github">>
=============================================================================
