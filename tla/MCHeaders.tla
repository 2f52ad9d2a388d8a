------------------------------ MODULE MCHeaders ------------------------------
\* All header modules, one per behaviour: the command line names one.
EXTENDS Hop, Gre, Sctp, Bgp, Ipv4, Tcp, Ipv6, Auth, Rip

Init ==
  \/ HopInit \/ GreInit \/ SctpInit \/ BgpInit
  \/ IpInit \/ TcpInit \/ Ip6Init \/ AuthInit \/ RipInit

Next ==
  \/ HopNext \/ GreNext \/ SctpNext \/ BgpNext
  \/ IpNext \/ TcpNext \/ Ip6Next \/ AuthNext \/ RipNext

Spec == Init /\ [][Next]_vars

\* A pad that ends on a multiple of 8, one that does not, the longest one, and
\* one on each side of the range that is refused.
HopPads == {1, 2, 6, 7, 257, 258}

\* Nothing, odd sizes and one that is a multiple of four with its final 0.
Texts == {0, 1, 3}

\* A list that overflows a length of one byte when it is repeated.
BgpLists == {250}

\* No byte, the bytes of the prefix, and more than these.
BgpRoutes == {<<0, NotGiven>>, <<25, NotGiven>>, <<8, 3>>}

\* Nothing, one byte, a few, and more than a pointer has.
TlvSizes == {0, 1, 3, 9}

\* Room for one or two addresses, and the number at which a byte overflows.
TlvAddrs == {1, 2, 63, 64}

\* Values on both sides of the widths of the fields: 2, 3, 4, 8, 13, 16, 20 bits.
Ip6Numbers == {0, 1, 3, 7, 255, 8191, 65537, 1048575}

\* Nothing, a few, the most and one more than a routing header takes.
RtLists == {0, 2, 127, 128}

\* Fields left out in front, in between and behind, and all of them.
RipLists == {<<>>, <<Empty, 9>>, <<9, Empty, 8, 7>>, <<1, 3, 4, 5, 6, 7>>}

EspKeys == {<<>>, <<1>>, <<1, 0, 0>>}

\* Types and ranges of whatever header is built.
TypeOK ==
  /\ HopTypeOK /\ GreTypeOK /\ SctpTypeOK /\ BgpTypeOK
  /\ TlvTypeOK /\ Ip6TypeOK /\ AuthTypeOK /\ RipTypeOK

\* Options with fields of their own that finalize() or another option completes:
\* what the user gives is what is sent.
FieldsAsGiven == FieldsKept /\ TcpFlagsAsGiven /\ RipKept
=============================================================================
