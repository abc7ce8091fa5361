----------------------------- MODULE MCRequestLines -----------------------------
(***************************************************************************)
(* Small instances of RequestLines: all lines of some length over the      *)
(* characters that the parser tells apart, and an int of 5 bits, whose     *)
(* largest signed and unsigned numbers have two digits each, as those of   *)
(* 32 bits have ten.                                                       *)
(***************************************************************************)
EXTENDS RequestLines, SequencesExt

MCHeaderLines == BoundedSeq({" ", "\r", ":", "L", "-", "1", "6"}, 5)
MCStatusLines == BoundedSeq({" ", "\r", "x", "V"}, 6)
MCLengths == -2 .. 15
===============================================================================
