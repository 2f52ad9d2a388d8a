------------------------------ MODULE MCSendip ------------------------------
(***************************************************************************)
(* Command lines for the model checker.                                    *)
(***************************************************************************)
EXTENDS Sendip

P(m) == [k |-> "p", mod |-> m]
O(c) == [k |-> "opt", c |-> c, oks |-> {TRUE}]
OFile(c) == [k |-> "opt", c |-> c, oks |-> BOOLEAN]
D(lens) == [k |-> "d", lens |-> lens]
F(res) == [k |-> "f", res |-> res]
L(n) == [k |-> "L", n |-> n]
Flag(k) == [k |-> k]

MCModule == {"ipv4", "ipv6", "tcp", "dest", "bad"}
MCLoadable == {"ipv4", "ipv6", "tcp", "dest"}
MCOptChar == [m \in MCModule |-> CASE m = "ipv4" -> "i" [] m = "ipv6" -> "6"
                                   [] m = "tcp" -> "t" [] m = "dest" -> "d"
                                   [] OTHER -> "u"]
MCHasSetAddr == {"ipv4", "ipv6"}

UpTo(S, n) == UNION {[1 .. i -> S] : i \in 0 .. n}

\* Modules and module options in every order; one or two packets.
DispatchLines ==
  {a \o b \o <<Flag("host")>> :
     a \in UpTo({P("ipv4"), P("tcp"), P("dest"), P("bad"), O("i"), O("t"), OFile("t"),
                 O("d")}, 4),
     b \in {<<>>, <<L(2)>>}}

\* A non-option anywhere between the options.
MidHostLines ==
  {a \o <<Flag("host")>> \o b \o h :
     a \in UpTo({P("ipv4"), P("tcp"), O("i"), O("t"), D({1}), L(2)}, 2),
     b \in UpTo({P("ipv4"), P("tcp"), O("i"), O("t"), D({1}), L(2), Flag("h")}, 2),
     h \in {<<>>, <<Flag("host")>>}}

\* Base options in every order, every outcome of -f, zero to two hostnames.
PayloadLines ==
  {p \o a \o h :
     p \in {<<>>, <<P("ipv4"), O("i")>>, <<P("ipv6")>>},
     a \in UpTo({D({1}), D({1, 2}), F("noopen"), F("noread"), F("map"), L(0), L(2), L(3),
                 L(-1), Flag("h"), Flag("V"), Flag("misc")}, 3),
     h \in {<<>>, <<Flag("host")>>, <<Flag("host"), Flag("host")>>}}

AllLines == DispatchLines \cup PayloadLines \cup MidHostLines

\* Command lines of the violation runs.
FailedLoadLines == {<<P("bad"), P("ipv4"), O("i"), P("ipv4"), Flag("host")>>}
RegenLines == {<<P("ipv4"), D({1, 2}), L(2), Flag("host")>>}
=============================================================================
