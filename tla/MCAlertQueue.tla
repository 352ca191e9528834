----------------------------- MODULE MCAlertQueue -----------------------------
(* A queue shorter than the burst, two slots, one remembered key of two.    *)
EXTENDS AlertQueue
===============================================================================
