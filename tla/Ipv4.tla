-------------------------------- MODULE Ipv4 --------------------------------
\* ipv4.c: the options behind the fixed header.  What finalize() does with the
\* fields of a fixed place is in Chain.
EXTENDS Tlv

CONSTANT IpAddrs  \* how many addresses or time stamps an argument names

ASSUME IpAssumption == IpAddrs \subseteq Nat \ {0}

IpInit == module = "ipv4" /\ opts = <<>> /\ pc = "options" /\ pack = TlvPack

IpMore == module = "ipv4" /\ Len(opts) < MaxTlvOpts

IpAdd(opt, kind, size) == IpMore /\ Apply(opt, addoption(pack, kind, size))

\* -ih
IpHeaderLen(n) ==
  IpMore /\ Apply("h", [pack EXCEPT !.nibble = n % 16, !.mod = @ \union {"nibble"}])

\* A field of a fixed place: addresses, version, TOS, length, ID, flags,
\* fragment offset, TTL, protocol and checksum.
IpField == IpMore /\ Apply("field", pack)

\* -ionum: the first byte holds copy flag, class and number.  An argument that
\* is empty or has a character that is no hex digit leaves it unset.
IpNum(kind, n) == IpAdd("num", IF n = 0 THEN Unset ELSE kind, NumBytes(n) + 1)

\* -ioeol, -ionop, -iosid
IpEol == IpAdd("eol", Eol, 1)
IpNop == IpAdd("nop", Nop, 1)
IpSid == IpAdd("sid", Other, 4)

\* -iorr, -iossr, -iolsr: a pointer and n addresses, counted in an u_int8_t.
buildroute(n) == (1 + 4 * n) % BYTE
IpRoute(n) == IpAdd("route", Other, buildroute(n) + 2)

\* -iots: a pointer, overflow and flag, and n time stamps, each behind an
\* address if the flag is set.
IpTimestamp(flag, n) == IpAdd("ts", Other, 4 + (IF flag THEN 8 ELSE 4) * n)

\* buildroute() and -iots put the bytes where they read the text from: after a
\* value shorter than its four bytes they read what they have written.
IpGarbled ==
  /\ IpMore /\ pc \in {"options", "failed"} /\ pc' = "garbled"
  /\ UNCHANGED <<module, pack, opts>>

\* A route or a time stamp without a pointer, colon, flag, or an unknown option.
IpRefused == IpMore /\ Refuse

IpFinalize == module = "ipv4" /\ FinalizeWith(TlvLength(pack))

IpNext ==
  \/ IpField \/ IpEol \/ IpNop \/ IpSid \/ IpGarbled \/ IpRefused \/ IpFinalize
  \/ \E n \in {0, 15, 21} : IpHeaderLen(n)
  \/ \E kind \in {Eol, Nop, Other}, n \in NumSizes : IpNum(kind, n)
  \/ \E n \in IpAddrs : IpRoute(n)
  \/ \E flag \in BOOLEAN, n \in IpAddrs : IpTimestamp(flag, n)

IpSpec == IpInit /\ [][IpNext]_vars

=============================================================================
