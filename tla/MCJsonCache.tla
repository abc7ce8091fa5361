------------------------------ MODULE MCJsonCache ------------------------------
(* A small instance of JsonCache. *)
EXTENDS JsonCache

CONSTANTS w1, w2, large, small, huge

MCWorkers == {w1, w2}

\* The first two share the file "/+.json".
MCUris == {<<"/", ".">>, <<"/", "-">>, <<"a">>}
MCDocuments == {large, small, huge}
===============================================================================
