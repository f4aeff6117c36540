---------------------------- MODULE MCArithmetic ----------------------------
(* Integers truncated to: two signed types, of which the bound below the second *)
(* is no float of the format and that of the first is, and an unsigned one.     *)
EXTENDS Arithmetic

MCRanges == {<<-4, 3>>, <<-8, 7>>, <<0, 7>>}
=============================================================================
