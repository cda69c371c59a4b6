---------------------------- MODULE MCStaleDevice ----------------------------
(***************************************************************************)
(* NotificationDelivery alone: a phone, and two accounts that signed up,   *)
(* each with a tenant of its own.                                          *)
(***************************************************************************)
EXTENDS NotificationDelivery

CONSTANTS n1, u1, u2, phone

MCTenantOf == [u \in Users |-> IF u = u1 THEN "one" ELSE "other"]
=============================================================================
