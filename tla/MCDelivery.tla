----------------------------- MODULE MCDelivery -----------------------------
(* Three recipients and up to two alerts.                                   *)
EXTENDS Delivery

ThreeRecipients == <<"me", "partner", "friend">>
Bodies == {"missing", "zero", "one", "other", "no_number"}
=============================================================================
