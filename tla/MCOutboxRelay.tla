--------------------------- MODULE MCOutboxRelay ---------------------------
(* OutboxRelay on a small instance. *)
EXTENDS OutboxRelay
=============================================================================
