--------------------------------- MODULE Tcp ---------------------------------
\* tcp.c: the options behind the fixed header, and the flags an option may set
\* on its own.  Checksum and the protocol of the IP header are in Chain.
EXTENDS Tlv

\* PSH stands for ECN, CWR, RST and FIN as well: only -tf sets these.
TcpFlags == {"ack", "urg", "syn", "psh"}

TcpInit ==
  /\ module = "tcp" /\ opts = <<>> /\ pc = "options"
  /\ pack = [alloc |-> TlvPack.alloc, mod |-> {}, nibble |-> 0, list |-> <<>>,
             flag |-> [f \in TcpFlags |-> 0]]

TcpMore == module = "tcp" /\ Len(opts) < MaxTlvOpts

TcpAdd(opt, kind, size) == TcpMore /\ Apply(<<opt, 0>>, addoption(pack, kind, size))

SetFlag(p, f, v) == [p EXCEPT !.flag[f] = v, !.mod = @ \union {f}]

\* A flag that belongs to a field: set with the field, unless the user gave it.
Unless(p, f) == IF f \in p.mod THEN p ELSE SetFlag(p, f, 1)

\* -tf?: the last bit of the first character, whatever it is.
TcpFlag(f, bit) == TcpMore /\ Apply(<<f, bit>>, SetFlag(pack, f, bit))

\* -ta, -tu
TcpAck    == TcpMore /\ Apply(<<"-ta", 0>>, Unless(pack, "ack"))
TcpUrgent == TcpMore /\ Apply(<<"-tu", 0>>, Unless(pack, "urg"))

\* -ts, -td, -tn, -tr, -tw, -tc: fields of a fixed place
TcpField == TcpMore /\ Apply(<<"field", 0>>, pack)

\* -tt
TcpOffset(n) ==
  TcpMore /\ Apply(<<"off", n>>, [pack EXCEPT !.nibble = n % 16, !.mod = @ \union {"nibble"}])

\* -tonum: a single byte is a kind without a length.  Without a byte, str2val()
\* leaves the kind unset.
TcpNum(kind, n) ==
  TcpAdd("num", IF n = 0 THEN Unset ELSE kind, IF n = 1 THEN 1 ELSE NumBytes(n) + 1)

\* -toeol, -tonop, -tomss, -towscale, -tosackok
TcpEol    == TcpAdd("eol", Eol, 1)
TcpNop    == TcpAdd("nop", Nop, 1)
TcpMss    == TcpAdd("mss", Other, 4)
TcpWscale == TcpAdd("wscale", Other, 3)
TcpSackOk == TcpAdd("sackok", Other, 2)

\* -tosack with a single number or nothing: sizeof(comb), a pointer, and two.
TcpSack == TcpAdd("sack", Other, 8 + 2)

\* -tosack with a colon or a comma: q = '\0' where *q was meant, and the next
\* edge is read from address 1.
TcpSackCrash ==
  /\ TcpMore /\ pc \in {"options", "failed"} /\ pc' = "crash"
  /\ UNCHANGED <<module, pack, opts>>

\* -tots
TcpTimestamp == TcpAdd("ts", Other, 10)

\* -tots without two numbers, or an unknown option or flag.
TcpRefused == TcpMore /\ Refuse

\* finalize(): the data offset, and SYN unless the user gave it.
TcpFinalize == module = "tcp" /\ FinalizeWith(Unless(TlvLength(pack), "syn"))

TcpNext ==
  \/ TcpAck \/ TcpUrgent \/ TcpField \/ TcpEol \/ TcpNop \/ TcpMss \/ TcpWscale \/ TcpSackOk
  \/ TcpSack \/ TcpSackCrash \/ TcpTimestamp \/ TcpRefused \/ TcpFinalize
  \/ \E f \in TcpFlags, bit \in {0, 1} : TcpFlag(f, bit)
  \/ \E n \in {0, 15, 21} : TcpOffset(n)
  \/ \E kind \in {Eol, Nop, Other}, n \in NumSizes : TcpNum(kind, n)

TcpSpec == TcpInit /\ [][TcpNext]_vars

-----------------------------------------------------------------------------
\* Properties.

\* Where an option f is given last; 0: nowhere.
LastOpt(f) == IF \E i \in DOMAIN opts : opts[i][1] = f
              THEN CHOOSE i \in DOMAIN opts :
                     opts[i][1] = f /\ \A j \in (i + 1)..Len(opts) : opts[j][1] # f
              ELSE 0

\* However flags, the fields that set a flag and finalize() follow each other,
\* a flag the user gave has the last value given, also if -ta or -tu follows;
\* the others are what -ta, -tu and the default of SYN make them.
TcpFlagsAsGiven ==
  module = "tcp" /\ pc = "done" =>
    \A f \in TcpFlags :
      pack.flag[f] =
        IF LastOpt(f) > 0 THEN opts[LastOpt(f)][2]
        ELSE IF \/ f = "syn"
                \/ f = "ack" /\ LastOpt("-ta") > 0
                \/ f = "urg" /\ LastOpt("-tu") > 0 THEN 1
        ELSE 0

=============================================================================
