------------------------------ MODULE MCGetopt ------------------------------
\* Command lines for the model checker: the words cover every way getopt reads
\* a word, and modules of two letters, one of them also a base flag (dest).
EXTENDS Getopt

MCChar == BaseLetters \union {"-", "=", "i", "s", "o", "n", "x"}

Arg(name) == [name |-> name, has_arg |-> TRUE]
NoArg(name) == [name |-> name, has_arg |-> FALSE]

ipv4 == <<"i">>
dest == <<"d">>

MCOptions ==
  [m \in {ipv4, dest} |->
     IF m = ipv4 THEN {Arg(<<"i", "s">>), NoArg(<<"i", "o", "n">>), NoArg(<<"i", "o", "p">>)}
                 ELSE {Arg(<<"d", "n">>), Arg(<<"d", "s">>)}]

Dashed(w) == <<"-">> \o w

\* Words every command line is made of, and words that come once.
Common ==
  {ipv4, dest, <<"x">>, Dashed(<<"p">>), Dashed(<<"v">>), Dashed(<<"i", "s">>),
   Dashed(<<"i", "o", "p">>), Dashed(<<"d", "n">>)}
Rare ==
  {<<>>, Dashed(<<>>), DoubleDash, Dashed(<<"p", "i">>), Dashed(<<"p", "=", "i">>), Dashed(<<"v", "p">>),
   Dashed(<<"v", "i", "s">>), Dashed(<<"v", "x">>), Dashed(<<"v", "i">>), Dashed(<<"v", "d">>),
   Dashed(<<"i">>), Dashed(<<"i", "o">>), Dashed(<<"i", "o", "n", "=">>), Dashed(<<"i", "s", "=", "x">>),
   Dashed(<<"d">>), Dashed(<<"d", "=", "x">>), Dashed(<<"x">>), Dashed(<<"=", "p">>),
   <<"-", "-", "i", "s">>, <<"-", "-", "p">>, <<"-", "-", "x", "p">>, <<"-", "-", "v", "d">>,
   Dashed(<<"V">>), Dashed(<<"v", "-", "p">>)}

UpTo(n) == UNION {[1..k -> Common] : k \in 0..n}

MCCmdLines ==
  UpTo(4) \union {a \o <<w>> \o b : a \in UpTo(1), w \in Rare, b \in UpTo(2)}
          \union {a \o <<w>> \o b : a \in UpTo(2), w \in Rare, b \in UpTo(1)}
=============================================================================
