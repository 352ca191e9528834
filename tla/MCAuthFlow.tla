------------------------------ MODULE MCAuthFlow ------------------------------
(* Overlapping authenticate calls for one phone number.                     *)
EXTENDS AuthFlow
===============================================================================
