------------------------------ MODULE MCServer ------------------------------
(* A small instance of Server: fewer connections than clients and goroutines *)
(* together, and a page whose first attempt may outlast the write timeout,   *)
(* while a retry that finds the match stored may just meet it.               *)
EXTENDS Server
=============================================================================
