----------------------------- MODULE MCServletLife -----------------------------
(* A small instance of ServletLife. *)
EXTENDS ServletLife

MCChains == {0, 2}
===============================================================================
