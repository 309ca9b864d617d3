-------------------------------- MODULE MCOutbox --------------------------------
(* Three notifications read two at a time, so that a batch leaves one behind. *)
EXTENDS Outbox

===============================================================================
