------------------------------ MODULE MCSession ------------------------------
(***************************************************************************)
(* One session, over the local network or through PSN.                     *)
(***************************************************************************)
EXTENDS Session
=============================================================================
