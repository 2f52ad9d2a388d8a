# A TLA+ model of sendip

sendip sends one arbitrary IP packet, or the same packet several times.  Its
command line names protocol modules (`-p ipv4 -p tcp`) and the options of each;
every module is a shared object that builds one header.  The program is
sequential and keeps nothing on disk.  What makes it hard to test is that its
input is a little language: options of any module in any order, repeated,
nested, and the state they act on lives in static variables, bit fields, one
block per header that is grown byte by byte, and a chain of headers whose
`finalize()` functions read and write each other.

All modules check with TLC; `SendipProofs`, `SendipOrderProofs`, `PacketProofs`,
`ChainProofs`, `HeaderProofs`, `OptionProofs`, `GetoptProofs` and `FargsProofs` check with TLAPS.

    tlc -config Packet.cfg MCPacket.tla
    tlapm PacketProofs.tla

## The system

| part | source | state | operations | interacts with |
|---|---|---|---|---|
| driver | `sendip.c` | list of modules `first..last`, `current_e`, `data`/`datalen`/`datarg`, `datafile`, `loopcount`, `usage` | `main()`: base options, packet loop, module options, assembly, finalization, send, regeneration; `unload_mods()`, `sendpacket()` | calls every other part |
| packet assembly | `sendip.c` 594-661, `esp.c` | one block, `packet.data`, `packet.alloc_len`, every header's `pack->data`, `pack->alloc_len` | sum, copy, `finalize()` from the inside out, trim | `finalize()` of the modules; `esp` moves inner data |
| header finalization | `headers.c`, `csum.c`, all header modules | protocol fields, MOD bits, checksums, `esp`/`ah` private data | `header_type`, `outer_header`, `inner_header`, one `finalize()` per header | tcp/udp/icmp write into ipv4, ah and wesp read their neighbours |
| header options | `hop.c`, `gre.c`, `sctp.c`, `ipv4.c`, `tcp.c`, `ipv6.c`, `frag.c`, `wesp.c`, `route.c`, ... | `sendip_data` (`data`, `alloc_len`, `modified`); sctp's static `currentchunk` | `initialize()`, `do_opt()` | called by pass 2 of `main()` |
| AH/ESP authentication | `xorauth.c`, `xorcrypto.c` | globals `authesp`, `cryptoesp` | `cryptoinit`, `cryptomod` | called from `finalize()` of ah and esp |
| module loader | `modload.c` | list of loaded objects with a reference count | `load_sendip_module`, `load_crypto_module`, `unload_modules` | driver, ah, esp |
| getopt | `gnugetopt.c` | `gnuoptind`, `nextchar`, the ordering | `gnugetopt()`, `_getopt_internal()` | run once by pass 1 and once per packet by pass 2 |
| argument values | `parseargs.c` | none but a random seed | `opt2val`, `opt2intn`, `opt2inth`, `opt2v4`, `str2val`, `parsenargs`, `cidr2addr` | every `do_opt()` |
| file arguments | `fargs.c` | cache of files and their current line | `fileargument`, `fc_create` | parseargs |
| bgp | `bgp.c` | a message in a fixed buffer; statics: the part that came last, where the length fields are | `do_opt()` | driver, parseargs |
| rip, ripng | `rip.c`, `ripng.c` | a header and the entries behind it | `do_opt()` | driver, parseargs |
| ntp | `ntp.c` | fields of a fixed place | `do_opt()` | driver |
| debugging, tables, scripts | `dump.c`, `c_origin.c`, `dummy.c`, `protoname.c`, `crc32.h`, `contrib/` | none | | |

There are no threads, signals or callbacks apart from the modules' functions, no
retries and no persistent state, so no crash recovery.  What is hard, and what
correctness means for each part:

- **driver**: pass 2 repeats the scan of pass 1 and advances a cursor in the
  module list by counting `-p` again; the packet loop frees header blocks while
  packs live on and later point into a freed packet; a payload may come from
  `malloc()` or `mmap()`.  Each option must change the header it is meant for,
  every block must be released exactly once by the right call, all packets must
  be made in the same way, and the program must end.
- **assembly**: the block is sized before `finalize()` runs, and esp appends a
  trailer behind the data with room reserved in a fake header; everything inside
  it moves.  No write may leave the block, and each `finalize()` must see its own
  header and the data right behind it.
- **finalization**: checksums must cover the final bytes although inner headers
  write into outer ones; next-header fields must name the next header; fields
  set by an option must stay.
- **header options**: the length of a header is spread over bit fields, its
  words move with every option, its options are found by one-byte lengths, its
  fields share words and flags.  No copy may leave the block, a receiver must
  find the fields where the protocol says, and what the user gave must win.
- **bgp**: an option adds the length fields missing in front of it and closes the
  part before.  The lengths must add up and the parts come in their order.
- **authentication**: all ESP headers share the modules and each covers what is
  inside it, encrypted or not.  A receiver with the keys must be able to undo it.
- **argument values**: digits and lists end inside a byte, a buffer or a limit.
- **getopt**: pass 1 knows the base options only and must step over those of the
  modules; pass 2 must pair every option with its value, never read behind `argv`
  although its loop has no bound of its own, and find the same `-p`.
- **file arguments**: every file keeps the index of its next line, shared by all
  options and packets; lines may name files again.  Readers must get the lines in
  turn, the index must stay inside the file, and evaluating a value must end.
- **loader**: a module named twice is one object with two headers.

`PROJECT.json` lists the hazards with their lines.

## The modules

### Sendip: `main()` and `unload_mods()`

`argv` is a sequence of arguments already paired with their values (what getopt
returns): a `-p`, a module option with its letter and the results `do_opt()` may
return for it, `-d` with the lengths its text may evaluate to, `-f` with the way
opening and mapping ends, `-L`, `-h`, `-V`, a host name.  `pc` says where `main()`
is; each `case` of the two passes is an action (`Pass1Load`, `Pass1Data`,
`Pass1File`, ..., `Pass2Proto`, `Pass2Opt`, `Pass2Crash`), then `Pass2End`,
`Assemble`, `Send`/`SendRefused`, `Regen`/`NoRegen`, and back to `LoopEnter` or out
with `LoopExit`.  `mods` is the module list; an element knows its `pack` and header
block, and which options (positions of `argv`) changed it, in place of the bytes.
A host name, which may stand anywhere, is stepped over by pass 1 and ends pass 2.
Heap blocks have names that are never used again, so a double free or a use after
free sets `misuse`.

### Packet and Assembly: lengths and places in the packet block

`Packet` starts after `initialize()` of `N` headers, any of which is esp.  Options
grow headers (`EspPadding`, `EspIV`, `EspICV`, `HeaderOption`), the loop of main()
adds the lengths (`Size`), allocates (`Malloc`), copies (`CopyHeader`, `CopyData`) and
finalizes (`EspFinalize`, `HeaderFinalize`), then trims (`Trim`).  `Assembly` is the
contract in the comment of `sendip.c` ("We allow finalize to shrink, but not expand
the packet") and in `dummy.c`; `ImplementsAssembly` is the refinement.

### Chain: what `finalize()` fills in

A chain is the array `hdrs`: a sequence of option letters.  One action per kind of
`finalize()` (`Ipv4Finalize`, `NextHeaderFinalize` for ipv6, hop, dest, route and frag,
`AhFinalize`, `EspFinalize`, `TransportFinalize` for tcp and udp, `IcmpFinalize`, `GreFinalize`,
`SctpFinalize`, `WespFinalize`, `AppFinalize` for rip, ripng, ntp and bgp), from the last
header to the first, then `Send`, which looks at the outermost header only now.  A
checksum is the record of the fields it was computed from; comparing it with the
final fields says whether it is right.  `user` are fields set by options, `fixed`
the MOD bits, which tcp, udp and icmp also set in an IPv4 header further out.
`auth` names the headers of `ah` and `esp` whose module computes an ICV: it covers what
follows, and where the header has no room for it (no `-ad`, no `-eI`) the module divides
by zero.
`tail` is the byte behind the array `hdrs`, which main() does not terminate.
Out-of-bounds and NULL reads lead to `pc = "crash"` or, where the value read only
decides a field, to every value.

### Header, Hop, Gre, Sctp: what `do_opt()` builds

`Header` is the frame: `Apply` (an option that returns TRUE), `Refuse`, `FinalizeWith`,
and the variables every module shares, `pack` and the history `opts`.  `Hop`
(`hop.c`, also built as dest) keeps the split length as the code does, `Used(pack) ==
hdrlen * 8 + part`, and records where each option was put.  `Gre` keeps the words of
the header as pairs of halves named by what was last written, and follows
`gre_where()` and `gre_resize()`, the call for routing that makes room for the
checksum word included.  `Sctp` keeps the chunks, their length fields, the
places data is copied to, and `currentchunk`, which may be a dangling pointer of an
earlier packet when `initialize()` runs; what is written through it ends in `corrupt`.

### Tlv, Ipv4, Tcp, Ipv6, Rip, Bgp: more headers

`Tlv` is what `addoption()` of `ipv4.c` and `tcp.c` have in common: a list of options
with the place, size and length byte of each, the header length in four bits;
`Reads` is the walk of a receiver from one option to the next (`Reach`).  `Ipv4` adds source routes, record route and time
stamps, `Tcp` sacks and the flags with who set them (`mod`), `TcpSackCrash` included.
`Ipv6` has the words that fields of `ipv6.c` and `frag.c` share, as numbers, the
padding of `wesp.c` and the addresses of `route.c`; every option is recorded with its
value.  `Rip` has the entries of `rip.c` and `ripng.c` with the fields and defaults of each;
whether `realloc()` moves the block is a choice.  `Bgp` keeps the message as a list of parts (open, optional parameters,
withdrawn routes and their length, attributes and their length, routes,
notification), and the statics `prev`, `len_ptr`, ... as they are shared by two bgp
headers, with what the shared pointers then do.

### Auth: esp and ah with their modules

Bytes are single bits, for which XOR is addition modulo 2.  Two ESP headers, one in
the other, take options (`EspPad`, `EspIv`, `EspIcv`, `EspKey`, `EspModule`) and share
`authesp` and `cryptoesp`; `EspFinalize` builds IV, data, padding and trailer, lets the
module compute the ICV over it and then encrypts.  A key or IV that the code places
behind its block ends in `garbled`, a division by zero in `crash`.  For ah, `AhFinalize`
makes up the IPv4 or IPv6 header that `AhIpFinalize` will only complete later.

`MCHeaders` composes all header modules: the command line names one of them.

### Getopt: the two scans of the command line

Where `Sendip` starts from paired arguments, `Getopt` does the pairing.  Words are
sequences of characters; one action per path through `_getopt_internal()`: the end
of the words (`AllWords`), `--` (`Dashes`), a word that is no option (`Plain`), a long
name that is found, ambiguous or unknown, a letter that stands alone, takes a value
or is unknown.  `SkipRest` is what pass 1 of `main()` does behind an unknown option,
`longopts` the table built from the modules pass 1 found.  `seen` holds, for each
pass, every option returned with the word it stood in and the word its value was.

### Fargs and LineReader: values read from files

`cache` is the search tree of `fargs.c`, a function from paths to the index of the
next line.  `Evaluate` is an option whose value starts with `f`, for each of the four
functions of `parseargs.c` that read files; `fileargument` returns a line and, if that
names a file again, the caller's next call.  `fc_fails` is a file that cannot be opened or
for whose table there is no room, `fc_dropped` one that is given up while its lines are
read, and `NoLine` one without lines; `crash` and `wild` are the NULL pointer, and the
pointer nobody has set, that is followed then.
`LineReader` is what the comment of `fileargument()` promises, without any index: the
first line due is handed out and put behind the others.

### Parseargs: conversions

`str2val()` for hexadecimal digits, `parsenargs()` and the outcomes of
`cidr2addr()` are operators, recursive functions of the position in their text, next to
definitions of what their comments promise (`Promised`, the words of a text, the subnet).
`MCFargs` checks them along with the file cache.

## The runs

| run | states | what it asks |
|---|---|---|
| `sendip` | 417 000 | Over every order of up to four `-p`/module options (two modules with an address, one without, one that cannot be loaded, one whose letter collides with a base option) and every order of up to three base options, with host names behind and in between: `PacketMatchesCommandLine` (each option changes exactly the right header), `CrashOnlyWithoutModule`, `MemorySafe` (no block freed twice or used late, none lost between two packets or when `main()` returns), `PayloadOwner`, `PacketsBuiltAlike` (the same modules, options and payload length in every packet; not its bytes), `Termination` (but for `-L 0`). |
| `packet` | 199 000 | Three headers, esp at any subset of positions, two growing options: `CopiesFit`, `DataAbutsHeader`, `TrailerFits`, `EspAligned`, and the refinement `ImplementsAssembly`. |
| `chain` | 278 000 | All chains of up to three headers out of eleven and nine longer ones, one field set by an option: `ChecksumsCurrent`, `NextHeadersName` (a receiver meets the headers in their order, behind ipv4 only if no other transport header claims it), `TransportChecksumValid`, `NoCrashInsideIP` (with room for every ICV), `FixedFieldsStay`. |
| `headers` | 1 700 000 | All sequences of options of one header module. hop, gre, sctp: `HopWritesFit`, `HopReadable`, `GreInPlace`, `SctpChunksTile`, `SctpOwnChunk`. bgp: `BgpWellFormed` (places, order and counts as the code computes them, but for the fields listed below). ipv4 and tcp options: `OptionsReadable`. Fields and flags of tcp, ipv6, frag (numbers of 16 bits), route, rip (but tag and metric), ripng: `FieldsAsGiven`. esp inside esp: `EspUnwraps`. ah: `AhFakesHeader`. |
| `getopt` | 274 000 | Every command line of up to four common words and of up to three around a rare one: `InBounds`, `EachWordOnce`, `PassesAgree`, `PassesEnd`. |
| `fargs` | 5 700 | Five files, one plain, two that name each other, one that only names itself, one without lines, read by four functions in any mixture, each of which may fail to load: the refinement `LinesInTurn`, `EvaluationEnds`, and `FollowsLines` (a bad pointer is followed only for a file without lines or one that is not in the cache). All hexadecimal texts of up to five characters, all buffers and limits of up to three, all masks of a 16-bit host part: `ParsedExactly`. |

A property of a passing run says in its comment which cases it leaves out because the
code is known to be wrong there, with the line; they are in the list of disagreements
below.  Runs that show where the code does not do what it says:

| run | property | the disagreement |
|---|---|---|
| `sendip_failed_load` | `MostRecentFirst` | after a `-p` that could not be loaded, options go one header too far (`sendip.c:502`) |
| `sendip_regen` | `RegeneratedDataFits` | a longer regenerated payload is copied into a block of the old length (`sendip.c:700`) |
| `chain_ipv4_proto` | `Ipv4ProtocolCorrect` | the protocol of ipv4 names a transport header behind esp, ah or frag, not the header that follows (`tcp.c:352`, `ipv4.h:81`) |
| `headers_hop_len` | `HopHeaderLen` | options that fill the block exactly leave hdrlen one unit too big (`hop.c:243`) |
| `headers_gre_order` | `GreAnyOrder` | a key after the routing word is put in front of the checksum word (`gre.c:71`) |
| `headers_sctp_writes` | `SctpWritesInside` | `chunk + offset` counts chunk headers, so data is copied behind the block (`sctp.c:76`) |

`SctpWritesInside` also says that nothing is written through a pointer into an earlier
packet, which a first `-sF` of the second packet does (`sctp.c:135`); the shortest trace is
the one above.

Bounds, and why they suffice.  `sendip`: an option is dispatched by comparing its
letter with the cursor's element and then with the list, so three modules, one of
them twice, and two options show every outcome; two packets show what the first
leaves to the second, three show that nothing accumulates (`MaxLoop`).  Payload
lengths only matter as longer or shorter than the last one (`MaxData = 2`).
`packet`: residues of the data length modulo 4, pads on both sides of the four
preallocated bytes, esp inside esp.  `chain`: a header reads its neighbours and the
nearest IP header; three headers give every pair with one in between, and the
longer chains hold tunnels and transport headers inside transport headers.
`headers`: every flag of gre in every order with one repeated (`MaxOpts = 5`); a chunk
of sctp with its type, length and a parameter (`MaxSctpOpts`); pads
that end on a boundary, beside it, and at 257 bytes; nine pads of 257 bytes
(`MaxPads`) bring the hop header over the 2048 bytes its length byte can hold.
Five bgp options (`MaxBgpOpts`) are one of each part of an UPDATE, or the same part
repeated around another; lists of 250 numbers overflow a one-byte length.  Three
options of the others (`MaxTlvOpts`, `MaxIp6Opts`, `MaxRipOpts`): two that disturb each other and one
in between; `TlvSizes` and `TlvAddrs` lie on both sides of one byte, of the eight bytes
of a pointer and of the sixty a header can announce, `Ip6Numbers` and `RtLists` on both
sides of every width and of the longest list.  Five options of esp (`MaxAuthOpts`):
both modules, an IV, an ICV and a key, on either header; keys shorter and longer than
an ICV; payloads of odd length.
`getopt`: an option, its value, the next option and the host name are four words;
the words hold every kind of word the code tells apart.  `Parseargs`: two digits
make a byte, so five end inside the third; the upper half of an
address never changes.  `fargs`: files of up to four
lines show the first, an inner and the last one; the state is finite, so the run is
not bounded otherwise.

Deadlock is checked in `sendip`, `packet`, `chain`, `getopt` and `fargs`, where the end of
the program is a step that stutters.  A header of `headers` ends when it is finalized,
refused, garbled or crashed, so that run does not check it.

Fairness.  `FairSpec` of `Sendip` adds `WF_vars(Next)`: one sequential process that is
never blocked by another takes its next step; `do_opt()` and `send` return.  `Getopt`
assumes the same of its two scans.  `Fargs` only assumes that a call that has begun
goes on (`WF_vars` of the steps of a reader); that another option is read, or that the
program unloads, is not assumed.  No other liveness is claimed.

## The proofs

For every value of the constants, under the assumptions named in the modules, which
say no more than what the arguments are: sizes are naturals, pads of esp fit a byte,
chains are sequences of known letters, command lines sequences of arguments, `Null` is
no block (`NAssumption`, `LenAssumption`, `ChainsAssumption`, `ModuleAssumption`,
`BoundAssumption`, `CmdLinesAssumption`, `HopAssumption`, `SctpAssumption`, `AuthAssumption`,
`BgpAssumption`, ...).  Hardly any of the properties is inductive as it stands, so each
needs an invariant that says why it holds; these invariants hold on the runs of
their components, too.

- `SendipProofs`: `Bounds` adds to `TypeOK` that an element of the list stands for an
  argument that was read, and that the packets built and the packets left do not
  exceed the loop count.  `Ownership` says for each place of `main()` which blocks are
  live: an element owns its pack from the first packet on, its header only until the
  headers are copied into the packet.  `MemorySafe` rests on it: between two packets
  the header pointers lead into a packet that was freed, and only the packs are left
  to `unload_mods()` or the next `initialize()`, and none of them once it has run.  From it: `TypeOK`, `MemorySafe` and
  `PayloadOwner`, for any modules, command line and loop count.
- `SendipOrderProofs`: pass 2 is stated as a function of the command line.  The cursor
  stands at `Where`, the number of `-p` read, modulo the length of the list plus one; an
  option changes the header `Goes` names; `ListInv`, `Pass2Inv` and `SentInv` say that the
  list is in the order of the `-p`, that the headers have the options `Given` to them
  so far, and that each packet sent is what this makes of the whole command line.  From
  it: `PacketMatchesCommandLine`, `CrashOnlyWithoutModule` and `PacketsBuiltAlike`.
- `PacketProofs`: `Inv` adds to the properties what they rest on: `cum`, the sums of
  the lengths up to each header (`Sums`), the offsets equal to these sums while
  copying and finalizing, and `Reserve`, that every esp header is long enough for the
  header, padding, IV and ICV it will write.  `TrailerFits` is not inductive without
  `Reserve`: that `EspFinalize` stays inside follows from what `EspPadding`, `EspIV` and
  `EspICV` added long before.  From it: `TypeOK`, `CopiesFit`, `DataAbutsHeader`,
  `TrailerFits`, `SendsWholePacket`, `EspAligned` and the refinement of `Assembly`, for
  any number of headers.
- `ChainProofs`, for chains of any length and any fields set by options.  `IInv` is
  `TypeOK` and `Covered`, that a sum only covers headers that are finalized already.
  Every action is first shown to be a `Call`: it writes fields of its own header and of
  IPv4 headers further out that are not fixed.  From it: `TypeOK`, `ChecksumsCurrent` and
  the action property `FixedFieldsStay`.  `FInv` is about what the fields say: an IPv4
  protocol is fixed by an option or by the first of the transport headers that take
  that header for theirs, which is the innermost one (`MarkInv`, `FieldInv`), so the
  number its pseudo header was summed with is the one sent (`SumInv`).  From it:
  `NextHeadersName` and `TransportChecksumValid`.  `NoCrashInsideIP` follows from
  `OuterExists`: behind an IP header every header has an enclosing one; what is left is a
  wesp without esp, and an ICV without room.
- `HeaderProofs`, for any options, in any order and number, and any sizes:
  - sctp: only the last chunk grows, because `currentchunk` is the last one as soon as
    there is any (`SctpGood`); the pointer an earlier packet left is used before that only.  From it: `SctpChunksTile` and `SctpOwnChunk`.
  - gre: `Wide`, the block holds every word its flags ask for, which alone says that no
    option writes behind it, repeated options and words taken without their flag
    included; and `Layout`, that it holds exactly these words, each at the place
    `PlaceIn` names, as long as the options come in an orderly sequence.  From it:
    `GreInPlace`.
  - ah: the made-up header is at every moment the one `finalize()` of the IP header would
    build now (`AhInv`), up to the fields ah cannot know.  From it: `AhFakesHeader`.
  - esp: `EspInv` says that the packet opens at every stage, from the inside out: what is
    in the block now is what one header makes of something the headers inside open.
    It rests on XOR undoing itself over any key and any length.  From it: `EspUnwraps`.
  - bgp: the statics point to the last part and to the last length field of each kind,
    the parts lie back to back, and each length field leads, from its own end, over
    all the parts it counts, but for the one of attributes behind `-bua` (`BgpGood`); this holds as long as one header has all the
    options (`OneBgp`).  From it: `BgpWellFormed`.
- `OptionProofs`, for options in a row, fields that share a word, and all headers
  together:
  - hop: `HopInv` adds `Tracked` to the properties: as long as the length byte can
    hold the length, the split length is the end of the last option and the block
    ends at most eight bytes behind it.  From it: `HopWritesFit`, for any options,
    also after the length byte has wrapped around (`Growth` does not need `Tracked`),
    and `HopReadable`.
  - ipv4 and tcp: each option lies where the one before it ends (`Packed`), and a
    finished header announces its length (`Announced`).  That a receiver then reads what
    was given is `ReadsUpTo`: every option it reaches is one of the list, by induction
    on the place it stands at.  From it: `OptionsReadable`.
  - tcp flags: `TcpInv` says of each flag which option set it last and whether `mod`
    knows; ipv6, frag, wesp, route: `Ip6Inv` says that a word is, at every moment, the
    sum of its fields, each of them the value of the last option for it, cut to its
    width (`HalfFields`, `SetVersion`, ..., `FragFields` for the byte order of frag); rip
    and ripng: `RipInv` numbers the entries by the options that make one.  From them:
    `FieldsAsGiven`.
  - bgp, esp and ah: their types, which do not need the options to be of one header
    (`BgpTyped`, `AuthTyped`).
  - `HeadersInv` says that the invariant of the header being built holds, whichever it
    is.  It is inductive because no action of another module is enabled (`HopFrame`,
    `GreFrame`, ...).  From it: `TypeOK` of all of them, `OptionsReadable` and
    `FieldsAsGiven` for the composition `MCHeaders` that the run checks.
- `GetoptProofs`: `GetoptInv` adds to `TypeOK` that what is left of a word is the end of
  that word, that pass 2 is never more than one behind the last word, and `Consumed`:
  each word in front of `gnuoptind`, and the one being decoded, was used exactly once,
  a value by the option right before it.  Every path is first shown to be one of
  three `Moves`: behind the word, into it, or behind its value.  `InBounds` rests on
  that: pass 2 does not compare the index with `argc`, but no move goes further than
  the word it has looked at.  From it: `TypeOK`, `InBounds`, `EachWordOnce`, for any
  words, options and command lines.  `AgreeInv` relates two scans that stop at different
  words: the words pass 1 came to are linked by what it knows of their letters, to the
  next one or the one behind it, and its names stand where they say (`Scanning`,
  `Leaves`); it went on to the end or to a `--` (`Scanned`); and pass 2 only comes to words
  pass 1 came to, in a word only behind letters that have no value, and finds the same
  names there (`Meeting`).  From it: `PassesAgree`.  It needs `OptionNames`, what the
  option tables of the modules have in common: a table with a single flag, `io`, makes
  `-p i -i -p i x` differ, because pass 2 takes `-i` for its abbreviation while pass 1
  steps over one word more.
- `FargsProofs`: `TypeOK` is inductive and bounds the index; `Refinement` proves
  `LinesInTurn` with the mapping that rotates the lines of a file by its index.  The
  step is `RotatedStep`: taking the first line of a rotated sequence and putting it
  behind the others is advancing the index, also where it starts over.
  `FollowsOnlyLines` proves `FollowsLines`, which is inductive by itself.  For any files.
  The second half is about `Parseargs`, for texts of any length.  What a recursive
  function computes is proved from the least number for which it would not hold
  (`Induct`, `Recursion`), as the library's induction theorems take an operator.  `HasRead`
  says that the whole bytes read so far are those promised, and what the digits of an
  unfinished byte add up to before it is shifted on (`Partial`); `AtWord` that the
  separators in front of the place reached are cut off and the words that begin there are
  the arguments, in order, and that the last one the limit allows was left whole.
  `Conversions` proves `ParsedExactly` from them: hexadecimal digits, lists, and masks but
  /31.

`MCHeaders` puts the header modules side by side: its behaviours that begin with one
module are those of that module's specification (`SctpSpec`, `GreSpec`, ...), about which
the theorems of `HeaderProofs` are; `HeadersInv` carries their invariants over.

Writing the proofs changed the models where they were not what the code is: `-sL` cuts
its argument to the 16 bits of the field (`SctpLength`), the end of an sctp header that
wrote through an old pointer is a step of `SctpNext`, the fields of an IP header and the
size of an NLRI no longer rest on the order of overlapping cases (`Auth`, `Bgp`), the length
of a bgp message is compared in 16 bits, and `BgpWellFormed` says where a length field
leads instead of adding up the sizes behind it.  A length given to bgp is cut to its
16 bits (`PUTSHORT`), a key of esp may be missing whatever keys the user has
(both were holes in the types), what a receiver of ipv4 and tcp reads is a set of places
instead of a recursive walk (`Reach`), and the entries of rip are counted by a set.

Only model-checked: liveness (`Termination`, `PassesEnd`, `EvaluationEnds`): fairness and ENABLED are beyond
  the prover.

Every invariant and every other action property of the passing runs is proved.

## Known disagreements without a run

Met while reading; each was or can be seen in the models, but has no run here.

- `sendip.c:530-540` falls back to the first module with the letter, `sendip.1:42-43`
  says the closest one; `-L 0` sends nothing (`sendip.c:448`), `sendip.1:68` says
  indefinitely (left out of `Termination`); `-d` options of dest are taken for the base option (`sendip.c:506`);
  a second `-d` is accepted although `sendip.c:401` forbids it.
- `sendip.1:69-71` promises identical packets: `ipv4.c:434`, `tcp.c:336` and `xorauth.c:156`
  draw numbers with `rand()` for each, and the `currentchunk` of sctp (`sctp.c:135`) leads a
  first `-sF`, `-sL` or `-sd` of the next packet into the one before.  `PacketsBuiltAlike` is
  what main() contributes.
- `finalize()` results and those of `set_addr()` are ignored; the outermost header is
  checked only after all `finalize()` calls.
- `ipv4.c:440` sums the header before 442-445 fill in the protocol, so the checksum of an inner
  ipv4 header without a transport header ("Correct", `ipv4.h:82`) is wrong.
- `tcp.c:65-68`: the IPv6 pseudo header has no next header.  `sctp.c:398`: the CRC leaves
  out the payload.  `wesp.c:154`: NULL private data behind ah.  `sendip.c:628`: `hdrs` is
  not terminated, the last header names what lies behind it.  `headers.c:13`: `c` is
  ICMPv6 inside IPv4, too, for ah and esp.  `xorauth.c:162`: the ICV of ah covers the
  number of the wrong header.
- `gre.c:29`: the header is four bytes longer than its fields, and the last word is
  uninitialized once it has grown; `gre.c:206` shifts the recursion limit out of its
  mask; `gre.c:210` compares a number in network order; `gre.c:235` stores 0.
- `hop.c:206`: the length of `-Ha` is parsed at the dot and always 0.
- `sendip.1:113`: a file that does not exist is taken literally; `opt2intn()` makes it 0
  (`parseargs.c:248`) and `opt2v4()` follows a NULL pointer (`parseargs.c:427`; `crash` in
  `Fargs`).  A file without lines: `fargs.c:183` reads an element never set (`wild`).
  A file that is given up while it is read, for want of room, is released by `f->len`, which
  is set behind the loop only (`fargs.c:105`, `117`, `130`), so pointers nobody has set are
  released (`wild` again).  A line that cannot be copied (`fargs.c:127`) is not modelled.
- `parseargs.c:285` promises host byte order, `opt2inth()` returns a line of a file in
  network order (`parseargs.c:302`).
- A value that starts with `-` is an option for pass 1 and a value for pass 2, so the
  two may find different `-p`; `PassesAgree` leaves such values out.  For an unknown
  single letter pass 1 steps over one word more (`sendip.c:442`), and from the second
  call on it takes `-` for a letter (`gnugetopt.c:159`).
- `tcp.c:271`, `tcp.c:282`: `q = '\0'` sets the pointer to NULL (`TcpSackCrash`);
  `sizeof(comb)` at 296 is the size of a pointer.  `sctp.c:161`: `-sc` sets the
  destination port.
- `bgp.c`: the statics belong to the header initialized last, so options of the first
  of two bgp headers move the pointers of the second (`sendip.c:476-488`); `PUTSHORT`
  (`bgp.h:25`) stores the low byte first on a little-endian host, so every length a peer reads
  is another one; the length of `-boo` counts its own two bytes (`bgp.c:226`, `bgp.1:59`);
  `-bua` adds `pe - pd` to the total length of the attributes and nothing sets `pd` there
  (`bgp.c:359`, "Correct" in `bgp.h:72`), and may convert a NULL `pd`.
- ipv4 and tcp: the header length is rounded up without padding the header, which then
  swallows payload ("Correct", `ipv4.h`); `-ionum` and `-tonum` cut an argument to eight
  bytes although "length is always correct" (`ipv4.1:51`); `-ts` with 63 or more stamps
  overflows the length byte.
- `esp.c:89`, `104`, `203`: the ICV is stored at word, not byte, `ivlen`, behind the block
  (the layout in 176-184 says otherwise), and a second `-ei` takes bytes of the old IV
  for it (`garbled` in `Auth`).  `-ea` without `-eI`, and an ah module without `-ad`, divide
  by zero (`xorauth.c`).  The modules are global (`esp.c:23`) although each header has
  "Default: none" (`esp.1`).
- `wesp.c:35-37`, `83`: `-wp 0` and then `-wp 1` sets the flag without any padding.
- `frag.1:10` allows offsets up to 0x1ffff, `frag.h` 0x1fff, and `frag.c:107` cuts an offset to
  16 bits before it is compared: 65537 becomes 1.
  `route.c`: the header length is four per address.  `opt2inth()` of one byte makes range
  tests of route and `-os` never true.
- `rip.c:107` sets the command of `-rd` through a pointer that `RIP_ADD_ENTRY` has made
  stale if the block moved (`RipRequest(TRUE)`).  `rip.c:98` tests the metric the wrong
  way round: one that is given becomes 16; the tag defaults to 2 (`rip.c:90`), not to 0 (`rip.1`); `-rd` has the
  metric `htons(16)` in four bytes, `-Rd` in one byte, which makes it 0 (`rip.1` and
  `ripng.1` equate them with an entry of metric 16).  The default metric of
  ripng is 16 in `ripng.1:25` and the code, 1 in `ripng.h:29`.  The defaults of version and command
  in `rip.1` and `ripng.1` are not set by anything.  A bar in a password ends it
  (`rip.c:66`), although `rip.1` allows one behind a type.
- `xorauth.c:218`: the IPv6 header ah makes up counts itself in its payload length,
  `ipv6.c:124` does not; with `-6v` it has the first bits of the class, without it none.
- `parseargs.c`: the test of `gettimeofday()` is inverted, so `tN` never works; octal
  digits shift by two bits (99), so `0377` is not 255 as `sendip.1:142` has it, and are padded for
  one missing digit only (23-27); `cidr2addr()` never returns for
  /31 (387).  A bad `-6s` or `-6d` marks the address as set nevertheless.

## Not modelled

Payloads and addresses beyond their lengths (`Auth` apart, where a bit stands for each
byte); sockets of `sendpacket()` (one outcome: refused or sent); random values, time
stamps and octal digits of `parseargs.c`; a line that cannot be copied (`fargs.c:127`); the four paths `dlopen_module()` tries (one outcome per name);
help texts and debug output; `protoname.c` and `crc32.h` (tables).  Fields a `do_opt()`
merely stores are left out unless a later step depends on them: so are those of udp,
icmp and ntp.

## Plan

1. Done: `Sendip`, `Packet`/`Assembly`, `Chain`, `Header` with `Hop`, `Gre`, `Sctp`, `Bgp`, `Tlv`
   with `Ipv4` and `Tcp`, `Ipv6`, `Rip`, `Auth`, `Getopt`, `Fargs`/`LineReader`, `Parseargs`; proofs
   about all of them.
2. Models: messages that fill the buffer of bgp; the paths `dlopen_module()` tries; octal digits
   and lines that cannot be copied, with properties that say what they do.
