-------------------------------- MODULE MCDelivery --------------------------------
(* One connection, followed in full: connections meet only in the owner, so *)
(* Accept stands for what all the others do.  Queues of one or two events   *)
(* and pages of one row, so that a few operations overflow a queue and make *)
(* a replay span pages.                                                     *)
EXTENDS Delivery

CONSTANT p
===================================================================================
