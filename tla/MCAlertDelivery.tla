-------------------------- MODULE MCAlertDelivery --------------------------
(***************************************************************************)
(* AlertDelivery on a small instance: one event, an e-mail recipient and a *)
(* webhook recipient; three attempts, one and two ticks apart.             *)
(***************************************************************************)
EXTENDS AlertDelivery

CONSTANTS mail, hook

MCKindOf == [p \in Recipients |-> IF p = mail THEN "email" ELSE "webhook"]
=============================================================================
