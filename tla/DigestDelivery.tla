---------------------------- MODULE DigestDelivery ----------------------------
(***************************************************************************)
(* What the service and the bot notifier promise of the messages of one    *)
(* digest (digest.service.ts:116-131): none is sent before all are made,   *)
(* they go out one by one, and only the last of them makes the digest a    *)
(* delivered one.  DigestRun and DigestContent each implement it: one for  *)
(* all that may happen to a run, the other with the messages themselves.   *)
(***************************************************************************)
EXTENDS Naturals

VARIABLES phase, \* "making" the messages, "sending", "delivered" or "stopped" before that
          size,  \* how many there are
          sent   \* those the chat has got

delivery == <<phase, size, sent>>

DeliveryInit == phase = "making" /\ size = 0 /\ sent = 0

\* A digest without posts still has a header.
Make ==
  /\ phase = "making"
  /\ phase' = "sending" /\ size' \in Nat \ {0}
  /\ UNCHANGED sent

Deliver ==
  /\ phase = "sending" /\ sent + 1 < size
  /\ sent' = sent + 1
  /\ UNCHANGED <<phase, size>>

DeliverLast ==
  /\ phase = "sending" /\ sent + 1 = size
  /\ sent' = sent + 1 /\ phase' = "delivered"
  /\ UNCHANGED size

\* A failure, a cancellation, or the end of the process.
Stop ==
  /\ phase \in {"making", "sending"}
  /\ phase' = "stopped"
  /\ UNCHANGED <<size, sent>>

DeliveryNext == Make \/ Deliver \/ DeliverLast \/ Stop

DeliverySpec == DeliveryInit /\ [][DeliveryNext]_delivery
===============================================================================
