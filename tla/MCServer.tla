------------------------------ MODULE MCServer ------------------------------
(* Two streams for one permit: the second waits for the first to close.  Requests
   of both follow each other; two tasks and the finalize task run beside them. *)
EXTENDS Server

=============================================================================
