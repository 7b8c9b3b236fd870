# A TLA+ model of xtce-rs

xtce-rs loads an XTCE definition (the XML description of spacecraft packets of
CCSDS 660) and decodes telemetry packets with it.  This directory holds TLA+
modules of its core, the TLC runs that check them on small instances, and
theorems, proved with TLAPS, that hold for every instance.

It covers the interpreted decoder and its packet buffer; the bit cursor, the
conversions of numbers, splines and character sets it reads with; the code
generator, as the layout it plans and the decoder it emits, beside the
interpreter; the CCSDS packet iterator and the loop of the `decode` command; the
XML reader's element tree; the name interner; and the loader: registration and
name resolution, its passes over commands, types, parameters and containers, the
expansion of arrays and aggregates, and the inheritance check.

## The system

| Component | State it keeps | Operations | Talks to |
|---|---|---|---|
| XML reader (`xtce-model/xml.rs`) | vectors of nodes and attributes linked by index, one text arena; while it parses, a stack of open elements and the depth below a skipped section | parse, navigate | loader |
| Loader (`lower.rs`, `db.rs`) | name tables, types, parameters, containers, commands; then an immutable database | register, resolve, lower, expand composites, link inheritors, check for cycles | interner |
| Interner (`intern.rs`) | one text buffer, spans, open-addressed buckets | intern, get, resolve, grow | loader, everything that prints |
| Bit cursor (`xtce-decode/bits.rs`) | a position | seek, skip, read | decoder |
| Packet buffer (`value.rs`) | values in decode order, slot table, container, bits consumed | reset, insert, set, get | decoder, callers |
| Decoder (`decoder.rs`) | immutable; a call keeps a cursor, the container reached and its recursion | decode, decode_into | all of the above |
| Calibration (`calibrate.rs`), character sets (`charset.rs`) | none | apply, decode | decoder |
| Packet iterator (`ccsds.rs`) | offset, finished | next | decode command |
| `decode` command (`xtce-cli/decode.rs`) | five counts, one packet buffer | run | iterator, decoder |
| Code generator (`xtce-codegen`) | a plan of containers, fields and guards; the emitted decoder keeps an array, a cursor and its fields | build, emit; then the emitted `decode` | database; its result stands in for the decoder |
| Python bindings, `xtask`, other commands | – | conversion, differential tests, reports | decoder |

There are no threads: the database and the decoder are immutable, and a packet
buffer belongs to one caller.  What is hard here is not interleaving but long
sequences of legal calls over data that decides the control flow.  One buffer
serves every packet of a stream, so whatever one packet leaves behind is there
when the next one is decoded.  Which container a packet is, how long a field
is, and which calibrator applies are all decided by values decoded a moment
before, in a container tree and a reference graph that come from a file.
Errors leave in the middle of the walk.  Entries may move the cursor anywhere.

What makes each component correct:

* *packet buffer*: the slot table and the vector are one map; a call begins
  with neither the values nor the success marks of the call before;
* *decoder*: the answer is a function of the database and the packet; every
  value lies inside the packet; every inheritor is tested; a truncated packet is
  reported; recursion is bounded and every call returns;
* *iterator*: packets tile the stream, a truncated tail is an error, it ends;
* *command*: the figures account for every item, and success means success;
* *inheritance check*: it refuses exactly the databases in which a container
  extends itself, and the error shows the cycle;
* *interner*: equal names and only equal names share a number, which growth does
  not change, and no probe circles a full table;
* *name resolution*: no two definitions have one qualified name, each is found by
  it from everywhere, and what a plain name means is decided by where systems
  and definitions are, also on the way taken in a document of one system;
* *composite expansion*: the fields come out complete and in bit order, whatever
  is nested in what, and a type inside itself or too large is refused;
* *loader*: what is loaded is closed (every identifier exists, every entry is one
  field), commands have their own and inherited arguments and no others, what is
  circular is refused, and every load ends;
* *XML reader*: the tree is the document without its skipped sections, whatever
  is nested in what, and links only lead forward, so that navigation ends;
* *bit cursor, calibration, character sets*: a read answers the bits behind the
  cursor, a number is what its coding says, a spline passes through its points,
  a text stands for the bytes that were delimited;
* *code generator*: the emitted decoder answers what the interpreter answers, and
  every name it introduces is its own.

## Modules

| Module | Models | Correspondence |
|---|---|---|
| `PacketBuffer` | `DecodedPacket` | a record `data, values, slots, container, bitsConsumed`; `Reset`, `Insert`, `Finish` are the functions that write it.  Indices start at 1. |
| `Criteria` | `evaluate` and below | a verdict is Yes, No or the name of the error.  Texts are numbered in byte order; the pre-coerced readings of a literal are sets of at most one number. |
| `FieldDecoding` | `decode_value`, `read_raw`, `resolve_size`, `calibrate`, `label_for` | pure operators from a type, a buffer and a position to a value or an error |
| `Decoder` | `decode_into`, `decode_container`, `decode_parameter` | the recursion is the variable `stack`; one step is one repetition of one entry, one return, or one decision among the inheritors |
| `DecodeContract` | what `decode_into` promises | a call, then one answer that is a function of database and packet |
| `DecoderReference` | `decode` as a function | the entries of a container, with the containers they refer to expanded, are a list of instructions; `Run` executes the list, `Descent` goes from container to inheritor; `Decoder` implements the contract with it |
| `DecoderTwins` | `decode_into` on a reused buffer beside `decode` | a second copy of the decoder's variables (`Other`); both are called together and step together until they have answered |
| `CodegenPlan` | `build` of `plan.rs` | pure: from a database to a tree of plans; an Option is a set of at most one element, a refusal a flag |
| `GeneratedCode` | what the text emitted by `emit.rs` does | pure: from a plan and a packet to an answer; the body of a container is a fold over its fields, with the two slices in scope and the cursor |
| `GeneratedAgreement` | the two decoders side by side | the properties that compare `Decoder` with `GeneratedCode` |
| `SampleDatabases`, `MCDecoder` | fourteen databases and 81 packets | |
| `MCDecoderTwins` | the databases, and each with its inheritors in the opposite order | |
| `BitWords` | `bits.rs`, and the reads `emit.rs` emits | machine words as numbers below their limit; a byte has `ByteBits` bits and a word `WordBytes` bytes |
| `Splines` | `interpolate`, `spline_value` | exact fractions |
| `Texts` | `decode_string`, `charset.rs`, the emitted text helpers | bytes below 256, characters as code points; the standard library's decoders are external |
| `Ordering` | the numbers of a set in their order | what starts a character (`Texts`), which elements are kept (`XmlTree`) |
| `Reads` | a cursor and the calls on it | one action per operation; `call` shows the last one until its caller takes it |
| `MCReads`, `MCReadClaims` | buffers, widths, splines, texts; a claim of a comment | |
| `Framing` | `PacketIter` | one action per way `next` can return; `items` is a history variable of what it returned |
| `DecodeCommand` | `run` of the `decode` command | EXTENDS `Framing`: each action takes one item of the iterator; the decoder's answer is left open |
| `Interner` | `Interner` of `intern.rs` | a call that grows the table takes one step for each name put back; a bucket's `id + 1` is the place in `spans`, which counts from 1 |
| `NameTable` | what the interner promises | a list of distinct names that grows at its end; no buckets |
| `MCInterner` | five names with colliding hashes | |
| `Inheritance` | `check_acyclic`, `link_inheritors` | one action per branch of the walk: skip, begin, visit, reject, close |
| `Namespaces` | `register_space_system` to `register_meta_command`, `resolve`, `normalize_into` | one step per element read; a table of the code is a function from paths or names to places in `definitions`, which numbers all kinds together |
| `MCNamespaces` | documents of up to five elements | |
| `Composites` | `collect_leaves` | the recursion is a stack of frames, each with the counter of its axes; a step enters a field or a composite, or returns |
| `MCComposites` | two composite types over a field | |
| `Loader` | `Lowering::run` after registration | EXTENDS `Namespaces`; one action per definition lowered, one to go on to the next pass; `pass` is the place in `run` |
| `MCLoader`, `MCLoaderClaims` | documents as sequences of the steps that register them; a claim of the documentation | |
| `XmlTree` | `Dom::run` and the navigation on its result | one action per kind of event and branch; nodes are numbered from 1; `document` and `inside` are what the reader underneath has seen |
| `MCXmlTree` | documents of four elements | |
| `DecoderProofs`, `PacketProofs` (iterator, command, reads), `InternerProofs`, `InheritanceProofs`, `CompositesProofs`, `LoaderProofs` (with those of the names), `XmlTreeProofs` | the theorems | |
| `Lists` | lemmas the proofs share | least elements, induction, recursive functions, sequences |

The composition follows the code.  `PacketBuffer`, `Criteria`, `FieldDecoding`
and `Decoder` extend one another as the functions call one another.
`DecodeCommand` calls `next` by conjoining the iterator's own actions, and
abstracts `decode_into` to the four kinds of answer its `match` tells apart;
that every call gives exactly one answer is what `DecodeContract` says and
`Decoder` is checked to implement.

The refinement is `Contract == INSTANCE DecodeContract` in `DecoderReference`:
`pending` is the packet of the running call, `answer` the result and the buffer
once it has returned.  All steps of the walk are stutters of the contract, and
the step that returns must show exactly `Outcome(db, d)`, computed from a fresh
buffer.  So the run shows both that the stack machine computes the function
and that the reuse of the buffer is invisible; `DecoderImplementsContract` shows
it for every database.  The other refinement
is `Table == INSTANCE NameTable` in `Interner`: the list is `spans` itself, and
growing the table is a stutter.

Three things that must not show in an answer cannot be said of one decode: what
the buffer held before, the order of the inheritors, and what follows the bits an
entry needs.  `DecoderTwins` puts two decoders side by side, of databases equal up
to that order; the one reuses its buffer, the other takes a new one for the same
packet or its beginning.  They share no state, so letting them step together
leaves out no answer of either.

`Loader` extends `Namespaces` and looks every reference up in the tables that
registration has filled.  What its passes need of the expansion and of the
inheritance check is stated by their results, `Leaves` and `Unfounded`; the
walks that compute them are `Composites` and `Inheritance`.  `LoadedIsClosed` is
the part of the decoder's assumption on databases that is about identifiers.

The code generator meets the interpreter in `GeneratedAgreement`: for the same
database, `Build` gives the plan once and `GeneratedDecode` the answer for a
packet, which is compared with the state `Decoder` has reached when a call
returns.  The plan is a function of the database alone, so the comparison is
between values computed long before the packet and values looked up in it.
`GeneratedAgrees` has the premise `Ordinary`, a conjunction of the differences
listed under *What the runs found*; a database outside it is still decoded by
both.  Strings and byte swaps are outside both sides of that comparison and are
compared one read at a time in `Reads`.

The inheritors of a container are a set in `Inheritance`,
where `link_inheritors` makes a list in the order of the document: that the order
does not change an answer is `InheritorOrderIrrelevant` of the two decoders.

`Inheritance` and `Decoder` meet in an assumption: the decoder's descent from
container to inheritor ends on every accepted database, which is `DescentEnds`,
while containers included by reference are bounded by the depth alone.

Abstractions.  A packet is a sequence of bits.  The bytes of a binary value are
their number.  Floats are the integers they happen to be; NaN and rounding are
outside the model.  Booleans group conditions two levels deep.  Integers are
unbounded in the decoder; in `Framing` the machine word is `MAX_USIZE`, and in
`BitWords` it has `WordBytes` bytes of `ByteBits` bits and wraps.  A text of the
XML tree is a sequence of pieces named for where they were written, so a piece
that ends up elsewhere is recognised.

## Runs

| Run | Checks | Bounds |
|---|---|---|
| `decoder` | `ReadsAsMap`, `ValuesOfThisPacket`, `PathStillSelected`, `GeneratedAgrees`, `FieldNamesAreUnique`, `EveryCallReturns`, `AnswersContract` | 5 parameters, 4 containers, 14 databases, 81 packets of 0 to 2 bytes, `MAX_CONTAINER_DEPTH` and `MAX_DEPTH` 2 (64 in the code) |
| `decoder_twins` | `ReuseIsInvisible`, `InheritorOrderIrrelevant`, `TruncationIsReported` | every two of the databases that differ at most in the order of the inheritors, and their reverses; any packet, then any packet beside every beginning of it |
| `decode_command` | `ItemsTileStream`, `NoSilentTail`, `OffsetsDoNotOverflow`, `OkMeansAllSeen`, `RunEnds` | every stream of up to 7 bytes over 0, 1, 2 and zeros of up to 11; wrappers of 0, 1, 2 and 20; a two-byte header; no limit or 0, 1, 2; `MAX_USIZE` 22 |
| `interner` | `NamesAreReachable`, `LoopsEnd`, `AnswersAsTable` | 5 names, hashes that collide in every table; 4, 8 or 16 buckets (from 16 in the code) |
| `inheritance` | `VerdictIsRight`, `ReportIsCycle`, `DescentEnds`, `CheckReturns` | every assignment of bases to 5 containers |
| `namespaces` | `DefinitionsAreFound`, `PlainNamesAreScoped`, `DetoursDoNotMatter` | every document of up to 5 systems and definitions over 2 names |
| `composites` | `FieldsAreInPlace`, `RefusalIsJustified`, `ExpansionIsBounded` | every nesting of 2 composite types over a field, with and without a subset; 10 fields at most (4096 in the code), `MaxUsize` 8 |
| `loader` | `LoadedIsClosed`, `ArgumentsAreInherited`, `CircularDefinitionsAreRefused`, `LoadingEnds` | 5,500 documents in four families; `MaxExpandedFields` 5 |
| `document` | `ArenaIsDocument`, `LinksGoForward`, `TextIsOwn`, `NavigationReadsBack` | documents of up to 4 elements of 4 kinds and 2 pieces of text, cut off anywhere |
| `reads` | `ReadsAreNaive`, `ValuesAreExact`, `SplineInterpolates`, `TextsAreFaithful` | 2-bit bytes and words of 4 of them; every buffer of up to 3 bytes and some of 6 and 9; widths 0 to 10 at positions 0 to 9; splines of up to 3 points; texts of up to 4 bytes, 6 delimiters, 6 character sets, lengths in a word of 1 byte |
| `split_terminator` | a claim of a comment, which the code does not keep | buffers of 2 or 4 bytes |
| `dropped_condition` | a claim of the documentation, which the code does not keep | 21 documents of 6 elements |

An invariant that is proved (see *Proofs*) and that another run's property
would already fail with is not checked again: the type invariants of the
iterator, the command, the interner and the inheritance check, `NestingBounded`,
`OrderIsStable`, `UnfinishedIsUnmarked`, `CountsAddUp`, `ItemsAreCounted`, `NamesAreDistinct` and
`BucketsAreDistinct`.

Why the bounds are enough.  The decoder's state between two calls is its
database and its buffer, so calls in sequence are explored completely: every
packet is decoded after every other, whatever that one left behind.  `decoder_twins`
needs no more: from every state the reused buffer can be in, each packet is decoded
beside each of its beginnings.  Each
database makes one family of hazards happen: selection of one, two or no
inheritor and of an abstract one (`Selection`), labels, floats and boolean
trees (`Expressions`), comparisons that fail (`BadCriteria`), repetitions and
shared containers (`Repeats`), a reference cycle that only some packets enter
(`Cyclic`), locations before, behind and past the packet (`Locations`), sizes
computed from values (`Sizes`, `BadSizes`), calibrators in context
(`Calibration`), what is out of scope (`OutOfScope`).  Four more are made to
compile and carry the comparison with the generated code, with those of the
others that compile: discriminators of every kind with contexts
(`Discriminators`), a slice whose length the packet gives (`DynamicSlices`), a
container used twice (`UsedTwice`), a discriminator far behind the end of short
packets (`FarDiscriminator`).  Field names are chosen to clash with each other
and with the names derived from them.  The packets give every
field every value.  A depth bound of 2 is passed by the cycle exactly as 64
is.  In `decode_command` the header is shortened to the length field, whose first byte
makes any packet too long and whose second gives three lengths, so the streams
contain up to two packets, every cut of the last one and every wrapper before,
behind and beyond the end.

In `interner` a table of 4 is due to grow at three names and one of 8 at five, so
each table is filled to its limit, probes run over its end, and growth happens
with an old and with a new name in hand; starting sizes include none, as after
`Interner::default`.  In `inheritance` five containers hold every shape that
matters: two cycles, a tail into a cycle, a walk that meets an earlier one, in
every numbering.

In `namespaces` the states are the prefixes of all documents, so every order of
systems, sections and clashing names occurs, with a system inside a system
beside another one.  In `composites` each type is an array of one or two axes or
an aggregate of members over both types and the field, so all nestings of
depth two, all circles, and subsets inside, at and beyond the bounds occur; the
limit is passed by products and by sums.  The loader's steps are determined by
the document, so `loader` varies documents: three commands over each other with
arguments of one name, two types over each other, three containers (of the
telemetry, shared, private) over each other in one or two systems, and the
references that lead nowhere.  Each kind of failure and each kind of entry
occurs, and so do documents of every family that load.

In `document` four elements are two below a section, beside one another or in
each other, so links, skipping and text meet in every order; an element has
attributes with and without a symbol of its own, a namespace declaration, or
one that is refused; input may break off after any event.  In `reads` a byte of
2 bits and a word of 4 bytes have every relation of 8 and 64: widths of a whole
word that spans one byte more, widths just below it, widths too wide, and loads
that reach beyond the end; every bit of the long buffers is told from all
others.  The arithmetic depends on bytes and words only through their sizes.
Splines have equal raw values, queries at, between and beyond the points, and no
points at all; the bytes of texts are halves of surrogates, starts and ends of
two-byte characters, a byte Windows-1252 leaves undefined, NUL and small lengths.

`decode_command`, `inheritance`, `namespaces`, `composites`, `loader` and
`document` do not check for deadlock: the iterator, the command, the check, the
document, the expansion, the load and the parse stop when they have finished, and
`RunEnds`, `CheckReturns` and `LoadingEnds` say that they do.  The decoder never
deadlocks: it is idle between calls.

Fairness.  `Spec` is weakly fair to `Step`, the steps of a call in progress:
the code is sequential and a call, once made, runs.  It is not fair to
`DecodeInto`, since nobody has to make another call.  `CommandSpec`
is weakly fair to its next-state relation because the command's loop calls
`next` until it returns `None` or the loop is left.  The interner is
weakly fair to `Rebuild` and `FinishIntern`, the steps of a call that holds the
table exclusively, and to nothing a caller may choose.  `check_acyclic` is one
loop and runs on: weak fairness of `Next`.  So are an expansion and a load one
call each that runs until it returns: `CompositeSpec` and `LoaderSpec` (and
`MCSpec` of `MCLoader`, where registration reads the given document) are weakly
fair to their next-state relation.  Registration alone is checked for safety
only.

### What the runs found

* `split_terminator`: a comment of `decode_string` says that a terminator of a whole
  code unit cannot split one.  The search is by bytes: "A" and a NUL in UTF-16LE
  are 41 00 00 00, where it is found at the second byte.
* `dropped_condition`: what is out of scope "can never quietly select the wrong
  container".  A condition of a list with an unknown parameter is left out.

`GeneratedAgrees` leaves out, by its premise `Ordinary`, what else was found to
differ between the two decoders although `emit.rs` says "The walk mirrors the
interpreted decoder exactly" (1368):

* a size taken from a calibrated parameter: the comment of `size_width`
  (`plan.rs:1210`) says that no calibrator is compiled, so that the raw value will
  do.  Calibrators are compiled, and both decoders then accept the packet with
  different lengths (`SizesAreOfRawValues`);
* a slice named `DATA` or `PACKET` in a container of dynamic length hides the
  variable of that name in the emitted code (`NothingIsHidden`);
* the cursor starts behind the last literal *field*, so `FixedValueEntry` bits
  between it and the first dynamic field are not stepped over, although
  `FixedBits` says that their effect "is already baked into the fields"
  (`CursorStartsInPlace`);
* a guard or a size on a parameter that is decoded twice means its first field
  in the one and its latest value in the other (`NamedOnce`);
* a boolean or an enumeration over a signed encoding is compiled unsigned;
  overlapping or negative label ranges are searched differently
  (`LabelsAreUnsigned`); a value with no label has the empty one.

It also allows the generated code to refuse where the interpreter answers: a
slice of dynamic length off a byte boundary, and a packet shorter than the
farthest discriminator of the whole tree.  Outside the model, some names do not
pass the compiler or clash: a container named `Packet` or `Value`, two containers
whose names differ only by what sanitising removes, a field named `at` beside a
cursor.

Other places where the code that is modelled and its documentation part, which
have no run:

* `trailing_bits` (`value.rs:249`, "Bits in the packet that no entry claimed") is
  computed from the last cursor position.  After an entry placed at
  `containerStart` the number includes bits that were claimed.
* `label_for` tests one candidate.  A value inside an earlier range has no label
  if a later range starts and ends before it; `types.rs:195` says that "a value
  inside `value..=max_value` matches."
* `tests/commands.rs:137` says that an argument "does not shadow a telemetry
  parameter, and cannot be reached from telemetry".  In a space system that has
  the name of a command beside it, a plain name reaches that command's argument.
  `PlainNamesAreScoped` says nothing of such names, and otherwise that no plain
  name means an argument.
* `SUPPORTED.md:43` lists array and aggregate argument types as "the same types
  under a different name".  Their members are looked for among the parameter
  types, so one made of argument types is unsupported.
* `TextLeading` starts the text on a byte where the length prefix is not whole
  bytes, "matching how the interpreter reads it" (`emit.rs:2076`); the interpreter
  reads directly behind the bits of the prefix.  `TextsAreFaithful` compares the
  two for prefixes of whole bytes.
* A length prefix wider than 64 bits loads without error: the interpreter refuses
  it as `TooWide` (`peek_uint`), while `text_leading` (`emit.rs:2068`) shifts its
  upper bytes out of the word and goes on.  `TextsAssumption` leaves such prefixes
  out.
* The last two points of a spline may share a raw value; a query there gives the
  first of them, where `calibrate.rs` says that the final segment "evaluates to
  exactly that point's calibrated value".
* `EndElement` keeps the text of `<a>x<b/></a>`, where `xml.rs:705` says "if this
  element has any and no element children"; a start tag of a skipped section
  drops the text before it, an empty one does not.
* `DescendantAny` prefers a deep match in an earlier child to a shallower one in
  a later child; `xml.rs:654` says "preferring the shallowest match".
* `Eof` does not look at the open elements: whether a document that breaks off is
  refused is left to the reader underneath.

* `Criteria` has `evaluate_comparison` look in the packet before it falls back to
  the value being decoded.  The comment on `evaluate` (`decoder.rs:742`) says that
  a context calibrator which names its own parameter reaches its own
  uncalibrated value, "which is not yet in the packet"; when the parameter was
  decoded before in this packet, the earlier value is compared.
* `Resolve` of `Interner` tests only that a handle is in range, while `intern.rs:145`
  documents "" for a handle of a different interner.
* `DefaultRoot` looks for the conventional names among all containers before it
  counts the telemetry roots, so a command container of such a name is the
  default root of a telemetry with one; `PROGRESS.md:405` says "Adding a command
  half must not take anything away from the telemetry half".
* `InheritArguments` reports the whole walk that met a cycle among commands;
  `error.rs:76` says "names along the cycle, in order", which `check_acyclic` keeps.
* `Assigned` looks a name up in the command's own scope, where a declaration of
  its own hides the base's; `lower.rs:1714` says that an assignment "pins an
  argument of the *base* command".
* `Meant` finds the container of a command by its plain name; `tests/commands.rs:17`
  quotes that such containers "cannot be used in an entry list".  For the same
  reason a plain name can find the private container of a command in another
  system, when it is the first of the document with that name; that, too,
  `PlainNamesAreScoped` leaves open.

## Proofs

The theorems hold for every database, packet, stream, document and bound that
satisfies the named assumptions: what the loader guarantees of a database
(`DatabaseAssumption`: containers and parameters that exist, types with a width
or a size, entries of known kinds, criteria and dynamic sizes made of lists), that a
container is an inheritor of one base at most and that the way down ends
(`TreeAssumption`: what `link_inheritors` and `check_acyclic` guarantee, see
`DescentIsFounded`), that a database has finitely many containers
(`ContainersAssumption`), packets of whole bytes, a Rust slice of at
most half the address space (`StreamAssumption`), byte values (`ByteAssumption`),
definitions that hold what their syntax lets them hold (`BodyShapes`), a limit on
fields that is not zero (`ExpansionAssumption`), finitely many types
(`TypeIdsAssumption`), subsets within the model's bounds (`SubsetsAssumption`), bytes
and words that are not empty (`WordAssumption`), start tags whose attributes are a
list of keys (`ElementsAssumption`), buffers of bytes that are read in one of the
four codings (`ReadsAssumption`), splines whose points are whole numbers in the
order of their raw values, as the loader sorts them (`SplinesAssumption`), and texts
made of bytes, with length prefixes no wider than the word a length is read into
(`TextsAssumption`).
Every run whose module extends the one that states an assumption evaluates it.

*Induction.*  The library's induction theorems take a predicate as a parameter,
which the provers here cannot fill in.  `Lists` states them about sets instead:
a set of numbers has a least one (`Least`, from the well-foundedness of `<`), so a
set that holds 0 and the successor of each member holds all (`Induction`,
`InductionTo`, `CourseOfValues`).  A recursive function of the models is `CHOOSE` of
one that satisfies its equation; the equation itself has to be proved by showing
that there is one.  `ChainRecursion` (each value from the one before),
`FiniteRecursion` (the same, up to a number), `TreeRecursion` (from the parent, an
earlier number) and `LevelRecursion` (from values one level down) do that once; the
walks over systems, paths, types and entries use them.

*Decoder.*  `Typing` is inductive as it stands: the cursor's offset is never
negative because `Located` clamps it, and `phase = "entries"` exactly while the
stack is not empty, without which `Top` would have no meaning.  The other
invariants do not follow from `Next` alone.  `PacketSteps` reduces a step to
what it does to the buffer: nothing, a reset, an insertion of a value that was
just read from the packet at hand, or the marks of success.  `BufferReadsAsMap`
needs that an insertion either overwrites the element its slot points to or
appends and points to the new end.  `ValuesComeFromThisPacket` needs, besides
typing, `DecodeValueSound`: a field that decodes has its bits inside the packet
and its raw value from them, whatever computed its size.
`FailureLeavesNoMark` needs the strengthening that while a call runs there is
no result yet, because `Fail` keeps the buffer and only the reset at the start
of the call has cleared it.  `NestingIsBounded` is inductive with typing.

*Two decodes.*  For every two databases equal but for the order of the inheritors.
`Together` says that the two calls are at the same place with the same values
(`InStep`), or that the second ended early because its packet did (`CutShort`),
or that both have answered and agree (`Agreed`).  It is inductive for four
reasons, a lemma each: `Reset` leaves a reused buffer like a new one
(`CallTogether`); criteria, sizes and calibrators depend on the decoded values
alone (`VerdictsAgree`, `SizesAgree`, `CalibrationsAgree`); a field that lies in
the beginning of a packet is the packet's, and one that does not is out of bounds
whatever the packet holds (`ReadsAgree`, `DecodesAgree`); and whether an inheritor
fails, and which match, are the same for any order (`SameChoice`), where the error
of one that fails is never taken for success (`VerdictKinds`).  With one order
even the error is the same, since the first that fails is the same one
(`SelectTogether`).  The definitions of the second decoder are another instance of
the same modules; that they compute the same is proved layer by layer
(`OtherTests` to `OtherBuffers`).  `ReuseNeverShows`, `OrderNeverDecides` and
`TruncationNeverHides` follow.

*What a finished packet still selects.*  The decoder tests the criteria of an
inheritor with what has been decoded so far, so a value decoded later could turn a
test that has been made.  It does not where no parameter is decoded twice.  A
verdict that is no error stands when the buffer only gains values
(`VerdictsStand`).  That it only gains is `Entered`: the containers entered so far,
each by one entry or one inheritor, hold all the parameters that have a value, and
what the active calls still have in front of them is not among these; it is kept by
a call (`EnteredCalls`), a return and a descent (`EnteredDescends`).  `PathTo` grows by
the inheritor descended to (`PathGrows`), which is never one already on it
(`NoWayBack`, from `TreeAssumption`).  `OnTheWay`, which puts the two together, is
inductive, and at the end of a call it is `PathStillSelected`
(`SelectionIsFinal`).

*The contract of `decode_into`.*  The function and the stack machine are related by
what is left to do.  `Doing` is the list of instructions left in one active call:
the rest of the entry at hand, from the repetition it has come to, and the entries
behind it.  `Behind` gives for each active call what is to do when it has returned:
what is left in its caller, and then what is behind that.  `WalkLeft` runs
both from the buffer, the cursor and the starts the decoder has.  `Answering` says
that this comes to the round of `Descent` at the depth of the container reached; it
is inductive, with one lemma for each action.  A repetition takes one instruction
off the list (`DoingOnce`), the last one the entry (`DoingNext`); a call replaces
`enter` by the list of the container it enters and puts the rest behind it
(`WalkEnters`); where the depth is exceeded the list is `give up`, as in the code; a
return goes on with what was behind (`WalkLeaves`).  After an error nothing more is
executed (`RunIsStopped`), so the walk that is left is the error (`WalkEnds`).  With
nothing left, `Choose` decides as the decoder does (`ChoiceHere`): an answer is the
outcome, and an inheritor begins the next round (`WalkDescends`), of which there are
at most as many as containers (`DepthIs`, `DepthGrows`).  So every step is a call of
the contract, its answer, or not seen: `DecoderImplementsContract`.

*Iterator.*  `ItemsTileStream` speaks of what was returned, so it has to be
strengthened by where the iterator is: while it is not finished, `offset` is
where the last packet ended and only packets were returned (`OffsetIsEnd`).
That gives the next item its start, and at the end gives `NoSilentTail`.
`OffsetsFit` uses that a wrapper longer than the stream ends the iteration
before an offset has been added to it: its invariant is that once the offset is
not zero, the wrapper is no longer than the stream.

*Command.*  Every step of the command is a step of the iterator or leaves it
alone, so the iterator's invariants carry over (`CommandFrames`).  `Tallied`
adds that while the command runs the iterator is not finished and all items
have been counted; from it `CountsAlwaysAddUp`, `EveryItemCounted` and
`OkIsEarned` follow.

*Reads.*  For every size of a byte and of a word.  A packet is a stream of binary
digits with zeros behind it (`Bits`), and `NumberAt(f, a, n)` the number of `n` of
them: a digit more doubles it and adds the digit, so it is its upper digits,
shifted, and its lower ones (`NumberSplits`), a shift to the right leaves the upper
ones and a mask the lower (`NumberParts`).  A list of bytes, loaded, is the number
of its digits (`BytesAsNumber`), also where the load reaches beyond the packet
(`WideLoadIs`), so the load, shifted and masked, is the field (`PeekIs`), byte by
byte with the slack on either side (`ReadBytesIs`, `ReadBytesLeftAlignedIs`).  That
the wide word is twice a word is used where a field and the bits before it in its
byte are together longer than a word.  `ReadsAreRight` needs only that the packet is
bytes and the position a number.

`ValuesAreRight` adds the arithmetic of a word: shifting up to its top and back
spreads the sign (`ShiftedBack`), and below two to the width every conversion is what
the coding means (`CodedIs`).  Swapped, the number is that of its bytes from the
lowest up (`SwapIs`), whether the generated code reverses the loaded bytes or the
number (`EmittedSwapIs`).  A field that is not whole bytes becomes wider when it is
swapped; `RoomForSign` shows that what the plan compiles then leaves the top bit of
the word free, which is what `SwapRefused` is for.
`SplinesAreRight` needs no strengthening, since an answer depends on its own call
alone: the place the query is put at is that of the last point not above it (`HiIs`);
squared distances grow away from the query (`Nearer`, `Farther`), so that the two points
of the segment are the nearest on their sides (`WithinIs`) and an end and its neighbour
the two nearest beyond it (`BeyondIs`); and a line goes through its points (`LineIs`).

`TextsAreRight` says for each character set that decoding loses nothing.  A text
has one character for each place that starts one, so these places cut the bytes
into pieces (`StartsCut`); each piece is what its character encodes to
(`Utf8Piece`, `Utf16Piece`, `WindowsBack`, `WordBack`); and pieces put together
are the list that was cut (`FlattenIs`), hence `DecodedTextStands`.  The first terminator
is the least place where it occurs (`FirstPlaceEnds`).  A length prefix is the number of
the bytes it lies in, for the cursor's read and for the helper's loop alike
(`PrefixIs`), and both take the same bytes behind it (`LeadingIs`,
`TextLeadingIs`); the interpreter's US-ASCII and the helper's check of UTF-8 agree
because such bytes are UTF-8 that decodes to itself (`AsciiIsUtf8`).

*Interner.*  The theorems hold for any names, hashes and bucket counts that are
powers of two from four up.  `Indexed` is inductive: the names are distinct,
every name that is placed is in exactly one bucket and is met by its probe
before an empty one, and at most five eighths of the buckets, and one, are
taken.  The last part gives a bucket that is empty, by counting
(`SomeBucketIsEmpty`), hence probes that end (`ProbingTerminates`); a probe
that ends tells whether the name is known (`ProbeIsRight`), which is what keeps
the names distinct and maps each step to one of `NameTable`
(`InternerImplementsTable`).

*Inheritance check.*  For every number of containers.  `Marked` says that the
containers in progress are exactly those of the chain, that the chain follows
the bases up to the cursor, that everything before `start` is done, and that a
done container is in no set of containers that all extend one of the set.  Once
all are done there is no such set, so no cycle; and a container in progress is
on the chain, which from there on is a cycle (`CheckIsExact`,
`ReportedChainIsCycle`).  `DescentIsFounded` turns this round, as the decoder goes
from base to inheritor: containers of which each has an inheritor among them
would, choosing one for each, map one to one to themselves, hence onto, and so
each would have its base among them.

*Composite expansion.*  For every declaration of finitely many types.
`ExpansionInv` says that the calls in progress are on composites, no two on the
same one (`Nested`), and that the fields are within the limit; it needs that what
a type holds is a type again.  That the depth is bounded follows by counting: the
calls map one to one to types (`NestedIsShort`).  Together they are
`ExpansionBounded`.

What the fields are (`FieldsComeInPlace`) and why an expansion is refused
(`RefusalsAreJustified`) speak of its end, and need `WalkInv` about the calls in
progress: each call is on the part of the one below it that is next there, the
parts a call has gone through are sane, and the fields there were when a call
began are those of all parts before it (`Starts`), so that a field's place is the
sum of the sizes before it and its name leads to it.  `FieldCounts` is a function
by levels, which settles below the types that are not within themselves; that a
type within itself is one the walk can come back to is counted as above.  Names
need one condition that `FieldsAreInPlace` states as a premise,
`MembersDiffer`: `lower_aggregate_type` does not look for two members of one name,
and with two a field's name leads to the first of them (`FirstMembers`).

*Names.*  For every document.  `NamespaceInv` says that a system is inside an
earlier one with a path one shorter, that a definition's path is that of its
system or command and its name, that nothing follows a system's commands but
commands and what is in them, and that each table holds what was registered, no
more and no less, with the first definition of each unqualified name
(`NamesAreKept`).  The order of the sections is what keeps a definition of a
command from taking the place of one that is registered later.
`NamesAreFound` follows from the paths being distinct, `ScopesHold` by induction
along the systems around a reference (and, where none has the name, from what is
inside a command being an argument or a container, `FirstIsOutside`), and `DetoursHold` by computing the walk over
each way of writing a path.

*Loader.*  For every document that `Namespaces` can have read.  `LoaderInv` adds to
`NamespaceInv` how far each pass has come, and for everything it has lowered that
it is what the document says and leads to definitions of the right kind:
`LoadsAreSound`.  The parameters that the passes make are numbered behind the
document's; `TargetsDiffer` says that no two entries share one, and
`EntriesAreLowered` counts them by the leaves of each type, which is where
`Leaves` and `FieldsIn` are shown to be functions at all.  `ArgumentsHold` needs
that a command is lowered only when the walk up from it meets no command twice
(`Meets(c) = 0`), hence after its base.  `RefusalsHold` needs `FailuresAreJustified`
while the load still runs, and that the passes end with every definition lowered.
`LoadedDatabasesAreClosed` adds that from each container the walk up comes to a
root: the containers from which none does would be the refused set
(`RootsAreReached`).

*XML tree.*  For every vocabulary and document.  `TreeInv` adds to
`LinksGoForward` that the last child of a node, which `Linked` follows without
looking, is a later node too: without it, linking a new node could point a
sibling anywhere.  Whatever else a node holds does not matter to its links, so
nodes are typed by their shape alone and each kind of update is a lemma of its
own (`PushNodeSound`, `PushAttributesSound`, `TextSound`).

`ArenaIsDocument` needs two more things.  One is what `push_node` maintains
(`Chained`): the first child of a node is the least node with that parent, the last
child the greatest, and the next sibling the least later one; from that the
iterator, a recursion along links that go forward, yields the nodes with a parent in
their order (`ChildrenAre`, by course of values from the last node back).  The other
is `DocumentInv`, which ties the tree to what the reader has met: the nodes stand
for the elements to keep in order (`Represents`), and the elements the reader is in
are kept exactly as far as the stack of open nodes goes, which stand for them
(`Stacks`).  Whether a new element is kept, skipped as a section or passed over
below one then follows from the depth of skipping and its tag (`NewcomerIs`).  Lists
that go up are equal when they have the same members (`AscendingIsOne`), which
replaces reasoning about how they are filtered.

What a node holds is `ContentInv`.  A name, a value or a text is a span of the arena,
and the arena only grows (`Extends`), so a span that read back what was written
always does; each kind of update is shown to leave what the nodes hold, but for the
one it is about (`OpenElementHeld`, `EndHolds`).  For texts that is not enough, for
they are written when an element ends: the character data at hand is a tail of what
the innermost open element has, and all of it while it has no child (`Pending`), and
there is none where a skipped section is read.  This needs the order of the document:
while an element is open, everything that is met is below it (`Nested`).  Together
they give `TextIsOwn`.

The same order makes a search right.  Carried over to the nodes (`NodesBelow`), it
says that all that is below a child comes before the next child (`BelowIsBefore`), so
that the first hit of a walk through the children is the least node there is
(`SearchStep`); the recursions of `Descendant` and `DescendantAny` go to later nodes
only, hence are functions (`DownwardRecursion`).  With the names and attributes of
`ContentInv` that is `NavigationReadsBack`.

Only model-checked: the liveness properties (`EveryCallReturns`, `RunEnds`,
`CheckReturns`, `LoadingEnds`), which the prover does not reach; and what is
stated with `RECURSIVE` operators, with which it has no arithmetic
(`GeneratedAgrees`, `FieldNamesAreUnique`).

## Plan

Written, in this order: the decoder, the iterator and the command, the interner,
the inheritance check, names, composites, the loader's passes, the code
generator, the element tree, the reads.  What would come next:

1. Proofs: that a success is concrete; `FieldNamesAreUnique` and
   `GeneratedAgrees`, with the plan written without `RECURSIVE`.
2. What `Loader` leaves out: encodings and their sizes, calibrators, and the
   criteria inside types.
3. `CapacityHint`: the memoised walk of `longest_path_entries` against the number
   of values a decode produces.
4. `Patterns`: glob matching and edit distance of the `decode` command.

## Not modelled

The reader of XML events (third-party, pure text), the Python bindings and the
other commands (conversion and output), the generated text itself and the names
of its types, SHA-256 and the recorded digests of `xtask` (development tooling),
floats, their rounding and NaN, and the capacity hint, which only reserves
storage.

Abstracted inside what is modelled: positions in `Decoder` and the indices of array
elements in `Composites` are numbers without a width, so that an overflow of `i64`
is not seen there; `XmlTree` reads one document element, which the reader
underneath does not enforce; and in `Namespaces` a name holds no dot, while
`needs_normalising` (`lower.rs:2167`) also normalises a reference that ends in
"/" when one of its names has one.
