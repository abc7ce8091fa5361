---------------------------- MODULE MCServletServer ----------------------------
(* Small instances of ServletServer. *)
EXTENDS ServletServer, TLC

CONSTANTS w1, c1, c2, c3, s1, s2

MCWorkers == {w1}
MCClients == {c1, c2, c3}
MCSignals == {s1, s2}
MCOneSignal == {s1}

\* Neither clients nor signals are told apart.
MCSymmetry == Permutations(MCClients) \cup Permutations(MCSignals)
===============================================================================
