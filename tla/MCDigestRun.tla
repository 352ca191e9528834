------------------------------ MODULE MCDigestRun -----------------------------
(* Two runs over two channels; the flood budget takes one wait, and a wait  *)
(* may be longer than allowed or come when the budget is used up.           *)
EXTENDS DigestRun
===============================================================================
