----------------------------- MODULE MCRestServer -----------------------------
(* RestServer for TLC: which clients there are is given in the cfg files.   *)
EXTENDS RestServer
=============================================================================
