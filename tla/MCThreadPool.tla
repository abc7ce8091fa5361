------------------------------ MODULE MCThreadPool ------------------------------
(* Small instances of ThreadPool. *)
EXTENDS ThreadPool

CONSTANTS p1, p2

MCPushers == {p1, p2}
===============================================================================
