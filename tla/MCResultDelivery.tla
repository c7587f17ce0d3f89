-------------------------- MODULE MCResultDelivery --------------------------
(* Instance of ResultDelivery for TLC.                                      *)
EXTENDS ResultDelivery

MCNames == <<"r1", "r2">>
=============================================================================
