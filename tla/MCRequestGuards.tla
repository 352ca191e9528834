--------------------------- MODULE MCRequestGuards ----------------------------
(* Three callers and a stranger for two windows, one number in two        *)
(* spellings, and a body without a number; time for a third window of      *)
(* each quota.                                                             *)
EXTENDS RequestGuards, TLC

MCDigits == [p \in {"+7", "7", "?"} |-> IF p = "?" THEN "" ELSE "7"]

Symmetric == Permutations(ApiKeys)
===============================================================================
