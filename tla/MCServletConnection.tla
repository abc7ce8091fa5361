-------------------------- MODULE MCServletConnection --------------------------
(***************************************************************************)
(* Small instances of ServletConnection. The servlet may write headers of  *)
(* its own (X, Y, Z) and ones that flush_headers also writes. A block      *)
(* with one header of its own fits the memory, one with two does not.      *)
(***************************************************************************)
EXTENDS ServletConnection

MCAppHeaders == {"X", "Y", "Z", "Content-Length", "Server"}
MCStatuses == {0, 200, 404}
MCLengths == -1 .. 2
MCChunks == 1 .. 2
MCRequestLengths == {-1, 0, 2}
===============================================================================
