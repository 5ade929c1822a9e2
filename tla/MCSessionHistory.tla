--------------------------- MODULE MCSessionHistory ---------------------------
(* Small instances of the session list.                                     *)
EXTENDS SessionHistory
===============================================================================
