------------------------------ MODULE KubeTime ------------------------------
(***************************************************************************)
(* Timestamps as the two programs read them back from the API server.      *)
(***************************************************************************)
EXTENDS Integers

NoTime == -1      \* parse_time returned None: absent, null or not RFC 3339

Time == Nat \cup {NoTime}
=============================================================================
