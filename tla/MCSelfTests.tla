----------------------------- MODULE MCSelfTests -----------------------------
(* An instance of SelfTests for TLC. *)
EXTENDS SelfTests
=============================================================================
