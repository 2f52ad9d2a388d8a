------------------------------ MODULE MCFargs -------------------------------
\* Arguments from files and what becomes of their text.  Files are plain, refer
\* to each other in a circle, only to themselves, or have no line.
EXTENDS Parseargs

MCPath == {"hosts", "ports", "mixed", "self", "empty"}

text == <<"plain", "text">>
f(p) == <<"file", p>>

MCFiles ==
  [p \in MCPath |->
     CASE p = "hosts" -> <<text, f("mixed"), text>>
       [] p = "ports" -> <<text, f("ports")>>
       [] p = "mixed" -> <<f("hosts"), f("mixed"), f("ports"), text>>
       [] p = "self"  -> <<f("self"), f("self")>>
       [] p = "empty" -> <<>>]
=============================================================================
