------------------------ MODULE MCChargeTransaction ------------------------
(***************************************************************************)
(* ChargeTransaction on two units and two values for the owner's limit.    *)
(***************************************************************************)
EXTENDS ChargeTransaction

MCOwnerCaps == {600, 800}
=============================================================================
