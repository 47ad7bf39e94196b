--------------------------- MODULE MCLoadGenerator ---------------------------
(* One user's cart, one worker and two slots, so that a request the worker   *)
(* has given up on may run beside its next one.  MaxItems is the least the   *)
(* room assumption allows, and one product more than that exists.            *)
EXTENDS LoadGenerator

=============================================================================
