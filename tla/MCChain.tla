------------------------------ MODULE MCChain ------------------------------
(* All chains of up to three headers out of eleven, and longer ones where a  *)
(* header reaches over others.                                               *)
EXTENDS Chain

CONSTANTS Letters, MaxLen

MCChains ==
  UNION {[1 .. n -> Letters] : n \in 0 .. MaxLen} \cup
  {<<"i", "u", "n">>, <<"i", "6", "F", "t">>, <<"i", "e", "i", "u">>, <<"6", "H", "d", "u">>,
   <<"i", "g", "6", "c">>, <<"i", "t", "i", "t">>, <<"i", "w", "e", "i", "u">>,
   <<"6", "o", "a", "e", "t">>, <<"i", "a", "i", "g", "i", "t">>}
=============================================================================
