------------------------------ MODULE Parseargs ------------------------------
\* Conversions of parseargs.c as functions of their input, and what the comments
\* in front of them promise.  The text of a plain line, which may be any, is a
\* sequence of characters; a digit is its number, any other character one of those
\* below.
EXTENDS Fargs, FiniteSetsExt

CONSTANTS
  MaxText,  \* bound: characters of a text
  Digits,   \* digits that texts are made of
  Buffers   \* sizes of output buffers, limits of argument lists

ASSUME ParseAssumption == MaxText \in Nat /\ Digits \subseteq 0..15 /\ Buffers \subseteq Nat \ {0}

NoDigit == 16   \* a character that is no digit of the base
Sep     == -1   \* one of the separators
Nul     == -2   \* the end of a string

Texts(chars) == UNION {[1..n -> chars] : n \in 0..MaxText}

-----------------------------------------------------------------------------
\* str2val(): the digits behind 0x.  The loop for the digits behind 0 is left out:
\* it makes a byte of four octal digits of two bits each, which is not their value.

\* One digit d: s is what was appended, c the byte that is being put
\* together and i the number of digits; n digits make a byte, and all but the last
\* one of them shift it by the factor.  The loops end when the output is full.
NextDigit(st, d, outlen, base, n, factor) ==
  IF st.bad \/ Len(st.s) = outlen THEN st
  ELSE IF d >= base THEN [st EXCEPT !.bad = TRUE]
  ELSE IF st.i % n = n - 1
       THEN [st EXCEPT !.s = Append(@, (st.c + d) % 256), !.c = 0, !.i = @ + 1]
       ELSE [st EXCEPT !.c = ((@ + d) * factor) % 256, !.i = @ + 1]

DigitLoop(input, outlen, base, n, factor) ==
  LET st[k \in 0..Len(input)] ==
        IF k = 0 THEN [s |-> <<>>, c |-> 0, i |-> 0, bad |-> FALSE]
        ELSE NextDigit(st[k - 1], input[k], outlen, base, n, factor)
  IN st[Len(input)]

\* Mutant: An unfinished byte is appended in any case.
Converted_unchecked(st, n, outlen) ==
  IF st.bad THEN <<>> ELSE IF st.i % n # 0 \/ Len(st.s) = outlen THEN Append(st.s, st.c) ELSE st.s

\* An unfinished byte is appended if there is room.
Converted(st, n, outlen) ==
  IF st.bad THEN <<>> ELSE IF st.i % n # 0 /\ Len(st.s) < outlen THEN Append(st.s, st.c) ELSE st.s

Hex(input, outlen) == Converted(DigitLoop(input, outlen, 16, 2, 16), 2, outlen)

-----------------------------------------------------------------------------
\* parsenargs(): the buffer with a Nul for every separator that was skipped, and
\* where the arguments begin.

IsSep(s, j) == j <= Len(s) /\ s[j] = Sep

\* The first position from j on that is (not) a separator.
NextArg(s, j) == Min({i \in j..(Len(s) + 1) : ~IsSep(s, i)})
NextSep(s, j) == Min({i \in j..(Len(s) + 1) : i > Len(s) \/ IsSep(s, i)})

\* One argument: the separators in front of it, where it begins and ends.
NextWord(st, s) ==
  IF st.at > Len(s) THEN st
  ELSE LET a == NextArg(s, st.at) IN
       [buf  |-> [j \in DOMAIN s |-> IF j \in st.at..(a - 1) THEN Nul ELSE st.buf[j]],
        args |-> IF a > Len(s) THEN st.args ELSE Append(st.args, a),
        at   |-> IF a > Len(s) THEN a ELSE NextSep(s, a)]

parsenargs(s, limit) ==
  LET st[k \in 0..limit] ==
        IF k = 0 THEN [buf |-> s, args |-> <<>>, at |-> 1] ELSE NextWord(st[k - 1], s)
  IN st[limit]

\* What a caller reads at an argument.
ArgText(r, k) ==
  SubSeq(r.buf, r.args[k],
         Min({j \in r.args[k]..(Len(r.buf) + 1) : j > Len(r.buf) \/ r.buf[j] = Nul}) - 1)

-----------------------------------------------------------------------------
\* cidr2addr(): all it may return for an address of 16 bits behind a fixed upper
\* half; none: it tries forever.

Span == 65536

\* The host parts for which the loop ends.
HostParts(hmask) == (0..hmask) \ {0, hmask}

cidr2addr(addr, bits) ==
  IF bits <= 0 \/ bits >= 32 THEN {addr}
  ELSE LET size == 2^(32 - bits) IN {((addr \div size) * size) + h : h \in HostParts(size - 1)}

-----------------------------------------------------------------------------
\* Properties.

\* str2val(), hexadecimal: as many bytes as the output takes of the digits, with a
\* 0 for a nibble that is missing, also where the output or the digits end inside a
\* byte; nothing if a digit it reads is none.
Padded(input)  == input \o [i \in 1..(Len(input) % 2) |-> 0]
Byte(d, j)     == (16 * d[j + 1]) + d[j + 2]
Promised(input, outlen) ==
  LET all == Padded(input)
      few == Min({Len(all) \div 2, outlen})
  IN IF \E i \in 1..(few * 2) : i <= Len(input) /\ input[i] >= 16 THEN <<>>
     ELSE [b \in 1..few |-> Byte(all, (b - 1) * 2)]

DigitsExact ==
  \A input \in Texts(Digits \union {NoDigit}), outlen \in Buffers :
    Hex(input, outlen) = Promised(input, outlen)

\* The words of a text begin behind its separators; the k-th of them.
Starts(s) == {j \in DOMAIN s : ~IsSep(s, j) /\ (j = 1 \/ IsSep(s, j - 1))}
NthStart(s, k) == CHOOSE j \in Starts(s) : Cardinality({i \in Starts(s) : i <= j}) = k

\* parsenargs(): "If we hit the limit, the rest gets dumped into the final arg":
\* argument k is the k-th word of the text, the last one the limit allows all
\* that is left, separators included.
ArgsComplete ==
  \A s \in Texts({0, Sep}), limit \in Buffers :
    LET r == parsenargs(s, limit)
        At(k) == NthStart(s, k)
    IN /\ Len(r.args) = Min({Cardinality(Starts(s)), limit})
       /\ \A k \in DOMAIN r.args :
            ArgText(r, k) = SubSeq(s, At(k), IF k = limit THEN Len(s) ELSE NextSep(s, At(k)) - 1)

\* cidr2addr(): "CIDR specification won't generate either a 0 or all 1s
\* (broadcast) in the host portion of the address": from /16 to /30 every other
\* address of the subnet can come out and no address of another one; "weird" masks
\* leave the address as it is.
SubnetsExact ==
  \A addr \in {0, 1, 255, 256, Span - 1}, bits \in {0} \union (16..33 \ {31}) :
    LET got == cidr2addr(addr, bits)
        size == 2^(32 - bits)
    IN IF bits = 0 \/ bits >= 32 THEN got = {addr}
       ELSE got = {a \in 0..(Span - 1) : a \div size = addr \div size /\ a % size \notin {0, size - 1}}

\* Whatever hexadecimal text, list or mask a plain line has, and whatever the
\* limits: the conversions yield what the comments in front of them promise.
ParsedExactly == line \in Plain => DigitsExact /\ ArgsComplete /\ SubnetsExact

=============================================================================
