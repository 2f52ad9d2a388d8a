-------------------------------- MODULE Auth --------------------------------
\* esp.c and ah.c with the modules they load, xorauth.c and xorcrypto.c: what
\* is authenticated and encrypted, and whether a receiver with the key can undo
\* it.  One bit stands for each bit of a byte: XOR works on all of them alike.
\* There are two ESP headers, one inside the other, behind an IP header; they
\* share the modules, which are globals.  AH comes alone, behind IPv4 or IPv6.
EXTENDS Header, FiniteSets

CONSTANTS
  MaxAuthOpts,  \* bound: options of both headers
  VarSizes,     \* lengths of IV and ICV
  EspPads,      \* padding the user asks for
  Keys          \* keys, the empty one for none

ASSUME AuthAssumption == /\ MaxAuthOpts \in Nat /\ VarSizes \subseteq Nat \ {0}
                         /\ EspPads \subseteq Nat /\ Keys \subseteq Seq({0, 1})

Payload == <<1, 1, 0>>                 \* the data behind the inner header
EspHdr  == <<1, 0, 1, 1, 0, 0, 0, 1>>  \* struct ip_esp_hdr: SPI and sequence number
Slack   == 4                           \* ESP_MIN_PADDING

Zeros(n) == [i \in 1..n |-> 0]
Ones(n)  == [i \in 1..n |-> 1]

EspBlock == [iv |-> <<>>, icv |-> <<>>, key |-> <<>>, pad |-> 0, alloc |-> Slack, mod |-> {}]

\* The fields of an IP header that ah looks at and that finalize() fills in.
IpFields(v) == IF v = 4 THEN {"version", "header_len", "tot_len", "id", "protocol"}
               ELSE {"version", "plen", "nxt"}

AuthInit ==
  /\ opts = <<>> /\ pc = "options"
  /\ \/ /\ module = "esp"
        /\ pack = [esp |-> <<EspBlock, EspBlock>>, authesp |-> FALSE, cryptoesp |-> FALSE,
                   data |-> Payload, left |-> 2]
     \/ /\ module = "ah"
        /\ \E v \in {4, 6} :
             pack = [icvlen |-> 0, authah |-> FALSE, mod |-> {}, draws |-> 0, v |-> v,
                     ip |-> [f \in IpFields(v) |-> 0], fake |-> <<>>]

\* Options come before the first finalize().
AuthMore(m) ==
  /\ module = m /\ Len(opts) < MaxAuthOpts
  /\ IF m = "esp" THEN pack.left = 2 ELSE pack.fake = <<>>

-----------------------------------------------------------------------------
\* do_opt() of esp.  alloc counts the bytes behind padlen and nexthdr.

EspSet(h, new) == Apply("e", [pack EXCEPT !.esp[h] = new])

\* -ep
EspPad(h, n) ==
  /\ AuthMore("esp")
  /\ EspSet(h, [pack.esp[h] EXCEPT !.pad = n, !.mod = @ \union {"padding"},
                                   !.alloc = IF n > Slack THEN @ + n - Slack ELSE @])

\* ivicv[] is an array of words: the ICV goes to word Len(iv), not to that byte.
\* If that lies behind the block, the program goes on with whatever was there.
EspStore(h, new) ==
  IF new.icv # <<>> /\ (4 * Len(new.iv)) + Len(new.icv) > new.alloc
  THEN /\ pc \in {"options", "failed"} /\ pc' = "garbled" /\ UNCHANGED <<module, pack, opts>>
  ELSE EspSet(h, new)

\* -ei: an ICV given before is moved from word 0, where it is only if there was
\* no IV before; otherwise the old IV and the zeros behind it are taken for it.
EspIv(h, n) ==
  LET b == pack.esp[h] IN
  /\ AuthMore("esp")
  /\ EspStore(h, [b EXCEPT !.iv = Ones(n), !.alloc = @ + n,
                           !.icv = IF b.iv = <<>> THEN @
                                   ELSE [i \in DOMAIN @ |-> IF i <= Len(b.iv) THEN 1 ELSE 0]])

\* -eI
EspIcv(h, n) ==
  /\ AuthMore("esp")
  /\ EspStore(h, [pack.esp[h] EXCEPT !.icv = Ones(n), !.alloc = @ + n])

\* -ek
EspKey(h, key) ==
  AuthMore("esp") /\ EspSet(h, [pack.esp[h] EXCEPT !.key = key])

\* -ea, -ec: the modules of all ESP headers.  A module that cannot be loaded
\* leaves NULL.
EspModule(name, loaded) ==
  /\ AuthMore("esp")
  /\ IF loaded THEN Apply("e", [pack EXCEPT ![name] = TRUE])
     ELSE /\ pc \in {"options", "failed"} /\ pc' = "failed"
          /\ pack' = [pack EXCEPT ![name] = FALSE] /\ UNCHANGED <<module, opts>>

\* -es, -eq, -en: fields of a fixed place.
EspField == AuthMore("esp") /\ Apply("e", pack)

-----------------------------------------------------------------------------
\* The modules.

\* Byte i of the repeated key; without a key, fakekey: a zero byte.
KeyBit(key, i) == IF key = <<>> THEN 0 ELSE key[((i - 1) % Len(key)) + 1]

\* Byte i of the ICV collects every n-th byte of both regions.
xoricv(key, n, data1, data2) ==
  LET Set(d, i) == {j \in DOMAIN d : (j - 1) % n = i - 1 /\ d[j] # KeyBit(key, j)} IN
  [i \in 1..n |-> (Cardinality(Set(data1, i)) + Cardinality(Set(data2, i))) % 2]

xorcrypto(key, data) == [i \in DOMAIN data |-> (data[i] + KeyBit(key, i)) % 2]

-----------------------------------------------------------------------------
\* finalize() of esp, from the inner header to the outer one.

\* esp->tail.padlen, after the alignment
PadOf(b, data) == IF "padding" \in b.mod THEN b.pad ELSE (6 - ((Len(data) + Len(b.iv)) % 4)) % 4

\* What the packet has between the ESP header and the ICV.
EspBody(b, data) == b.iv \o data \o Zeros(PadOf(b, data)) \o <<PadOf(b, data) % 2, 0>>

\* espip(): the header and everything up to the ICV.
Icv(b, body) == IF pack.authesp THEN xoricv(b.key, Len(b.icv), EspHdr, body) ELSE b.icv

\* Mutant: Encryption first, authentication of what it yields.
Sealed_first(b, body) ==
  LET hidden == IF pack.cryptoesp THEN xorcrypto(b.key, body) ELSE body
  IN hidden \o Icv(b, hidden)

\* Authentication, then encryption of all of it.
Sealed(b, body) ==
  LET whole == body \o Icv(b, body)
  IN IF pack.cryptoesp THEN xorcrypto(b.key, whole) ELSE whole

\* With a module for the authentication but no room for an ICV, xoricv()
\* divides by zero.
EspFinalize ==
  /\ module = "esp" /\ pc = "options" /\ pack.left > 0
  /\ LET b == pack.esp[pack.left] IN
     IF pack.authesp /\ b.icv = <<>>
     THEN pc' = "crash" /\ UNCHANGED pack
     ELSE /\ pack' = [pack EXCEPT !.data = EspHdr \o Sealed(b, EspBody(b, pack.data)),
                                  !.esp[pack.left].pad = PadOf(b, pack.data),
                                  !.left = @ - 1]
          /\ pc' = pc
  /\ UNCHANGED <<module, opts>>

EspSent == module = "esp" /\ pack.left = 0 /\ FinalizeWith(pack)

-----------------------------------------------------------------------------
\* ah.  The IP header is not finalized yet, so ahipv4() and ahipv6() of xorauth.c
\* make up the one it will be.

AH == 51        \* header_type() of ah itself
Behind == 17    \* ... and of the header behind it
UserValue == 7

\* -ad, -am; -as, -aq, -ak and -an
AhData(n) == AuthMore("ah") /\ Apply("a", [pack EXCEPT !.icvlen = n])
AhModule  == AuthMore("ah") /\ Apply("a", [pack EXCEPT !.authah = TRUE])
AhField   == AuthMore("ah") /\ Apply("a", pack)

\* An option of the IP header.
AhIpField(f) ==
  AuthMore("ah") /\ f \in IpFields(pack.v) /\ Apply(<<"ip", f>>, [pack EXCEPT !.ip[f] = UserValue, !.mod = @ \union {f}])

AhLen == 12 + pack.icvlen + Len(Payload)  \* ah and what is behind it

\* An IP header with its defaults, where nothing was set: rand() never returns
\* the same ID twice.
IpHeader(proto, plen) ==
  [f \in IpFields(pack.v) |->
     IF f \in pack.mod THEN pack.ip[f]
     ELSE CASE f = "version" -> pack.v
            [] f = "header_len" -> 5
            [] f = "tot_len" -> 20 + AhLen
            [] f = "plen" -> plen
            [] f = "id" -> 100 + pack.draws
            [] f \in {"protocol", "nxt"} -> proto]

\* Mutant: The ID is not marked as set, and finalize() of ipv4 draws another.
WithId_unmarked(fake) == [pack EXCEPT !.fake = fake, !.ip.id = fake.id, !.draws = @ + 1]

\* The ID of the made-up header becomes the one of the header.
WithId(fake) ==
  [pack EXCEPT !.fake = fake, !.ip.id = fake.id, !.mod = @ \union {"id"}, !.draws = @ + 1]

\* The made-up header names what follows ah, and counts an IPv6 header as part of
\* its own payload.  Without -ad, xoricv() divides by zero.
AhFinalize ==
  /\ module = "ah" /\ pc = "options" /\ pack.authah /\ pack.fake = <<>>
  /\ LET fake == IpHeader(Behind, 40 + AhLen)
     IN pack' = IF pack.v = 4 THEN WithId(fake) ELSE [pack EXCEPT !.fake = fake]
  /\ pc' = IF pack.icvlen = 0 THEN "crash" ELSE pc
  /\ UNCHANGED <<module, opts>>

\* finalize() of ipv4 or ipv6, after that.
AhIpFinalize ==
  /\ module = "ah" /\ (pack.authah => pack.fake # <<>>)
  /\ FinalizeWith([pack EXCEPT !.ip = IpHeader(AH, AhLen)])

AuthNext ==
  \/ EspField \/ EspFinalize \/ EspSent \/ AhModule \/ AhField \/ AhFinalize \/ AhIpFinalize
  \/ \E h \in {1, 2} : \/ \E n \in EspPads : EspPad(h, n)
                       \/ \E n \in VarSizes : EspIv(h, n) \/ EspIcv(h, n)
                       \/ \E key \in Keys : EspKey(h, key)
  \/ \E name \in {"authesp", "cryptoesp"}, loaded \in BOOLEAN : EspModule(name, loaded)
  \/ \E n \in VarSizes : AhData(n)
  \/ \E f \in IpFields(4) \union IpFields(6) : AhIpField(f)

AuthSpec == AuthInit /\ [][AuthNext]_vars

-----------------------------------------------------------------------------
\* Properties.

\* Types and ranges.
AuthTypeOK ==
  /\ module = "esp" =>
       /\ pack.esp \in Seq([iv : Seq({0, 1}), icv : Seq({0, 1}), key : Keys \union {<<>>},
                           pad : Nat, alloc : Nat, mod : SUBSET {"padding"}])
       /\ pack.data \in Seq({0, 1}) /\ pack.left \in 0..2
  /\ module = "ah" => pack.mod \subseteq IpFields(pack.v) /\ DOMAIN pack.ip = IpFields(pack.v)

\* What a receiver of header h decrypts, and what it takes for its ICV.
Plain(h, data) ==
  LET behind == SubSeq(data, Len(EspHdr) + 1, Len(data))
  IN IF pack.cryptoesp THEN xorcrypto(pack.esp[h].key, behind) ELSE behind
Cut(h, data)   == Len(data) - Len(pack.esp[h].icv)
Checks(h, data) ==
  pack.authesp =>
    SubSeq(data, Cut(h, data) + 1, Len(data))
      = xoricv(pack.esp[h].key, Len(pack.esp[h].icv), EspHdr, SubSeq(data, 1, Cut(h, data)))
Inner(h, data) == SubSeq(data, Len(pack.esp[h].iv) + 1, Cut(h, data) - 2 - pack.esp[h].pad)

\* A receiver that has the keys undoes both headers, though they share the
\* modules the last -ea and -ec have loaded: each ICV is the one of what it
\* covers, and behind IVs, padding and trailers lies the payload.  That is said of the
\* headers that keep IV, ICV and key in their block (esp.c:104 does not with an IV).
EspUnwraps ==
  module = "esp" /\ pc = "done" =>
    LET outer == Plain(1, pack.data)
        inner == Plain(2, Inner(1, outer))
    IN Checks(1, outer) /\ Checks(2, inner) /\ Inner(2, inner) = Payload

\* The header AH authenticates before it exists is the one that is sent, which
\* of its fields the user has given and the random ID included: but for the
\* number of the next header, where xorauth.c takes the header behind ah, and the
\* payload length of IPv6, unless the user has given them.
AhFakesHeader ==
  module = "ah" /\ pc = "done" /\ pack.authah =>
    \A f \in IpFields(pack.v) :
      pack.fake[f] = pack.ip[f] \/ (f \in {"protocol", "nxt", "plen"} /\ f \notin pack.mod)

=============================================================================
