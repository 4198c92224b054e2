----------------------------- MODULE MCAccount -----------------------------
(***************************************************************************)
(* Account for TLC: the client of s1 registers a, the one of s2 b; both    *)
(* log in with either name.                                                *)
(***************************************************************************)
EXTENDS Account

CONSTANTS s1, s2

OwnNames(s) == IF s = s1 THEN {"a"} ELSE {"b"}
=============================================================================
