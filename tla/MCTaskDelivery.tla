--------------------------- MODULE MCTaskDelivery ---------------------------
(* TaskDelivery with an owner and a contributor who may change places. *)
EXTENDS TaskDelivery
=============================================================================
