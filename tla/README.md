# A TLA+ model of PARENA

PARENA is a Lisp-syntax language whose values carry *regions* (lifetimes), a
compiler written in C (`src/`) with back ends for C, LLVM IR, TypeScript, Java and
Lua, a port of that compiler to the language itself (`selfhost/`), a C runtime
(`runtime/`), a standard library written in PARENA (`stdlib/`) and an editor
(`examples/editor_main.c`). This directory models the parts whose correctness is
a matter of order, of two pieces of state that must agree, or of two programs that
must mean the same:

- the QUIC / HTTP/3 client, a reactive protocol engine over a lossy network;
- the region analyzer, the pass the language's memory safety rests on, which exists
  twice and must agree with a third program, the emitter;
- the front end: lexer, reader and formatter, which must agree on what a text is;
- the three back ends that lower statements, held to one meaning of a function;
- the editor's documents: which file is open, what undo returns to, what a save writes;
- the descriptors of a generated program: buffered files, sockets and a TLS session
  that share one table of reused numbers.

Paths below are relative to the root of the repository; `quic_client.prn` is
`stdlib/net/quic_client.prn`, `region.prn` is `selfhost/region.prn`,
`parena_runtime.h` is in `runtime/`, `editor_main.c` in `examples/`, and a bare C
file is in `src/`.

## 1. Inventory

| Component | State it keeps | Operations | What is hard about it |
|---|---|---|---|
| QUIC stream reassembly (`quic_client.prn` 278-356) | per stream a contiguous prefix and 32 pending intervals; slot 480 | `qcn-seg-add!` and the functions under it, called per frame | any order, overlap and repetition of frames; a full table; what may be acknowledged |
| QUIC received ranges, ACK frames (183-276) | per space up to 24 ranges, largest number, pending flag | `qcn-note-rx!`, `qcn-flush-one` | ordering, a full table, off-by-one in gaps |
| QUIC connection engine (335-852) | slots 0-44, retransmit buffers, response buffers, the socket | `quic-connect`, `quic-pump`, `quic-close` | loss, reordering, duplication, timeouts, failure in mid-pump, odd servers |
| QUIC timers and clock (90-101, 786-805; `parena_runtime.h` 4286, 4456) | last send, probe timeout, retries, deadline, modulo 2^30 | `qcn-timers!`, `qcn-retransmit!` | wrap-around, backoff, late pumps |
| QUIC / HTTP/3 codecs (`net/quic_wire`, `net/quic_tls`, `net/h3_wire`, `crypto/quic_crypto`) | none | parse, build, protect | byte-level; published vectors as tests |
| Region analyzer (`region.c`) | a stack of scopes of 64 bindings during one walk | `region_analyze` | must agree with what the emitter makes names denote |
| Region analyzer port (`region.prn`) | copied vectors of bindings | `region-analyze` | must agree with `region.c` |
| Lexer, parser, formatter (`lexer.c`, `parser.c`, `fmt.c`) | position and line; the call stack of open forms; depth per line | `lexer_next`, `parse_program`, `fmt_source` | the formatter never calls the lexer, and its output is lexed again |
| Sugar (`ast_sugar.h`) | a counter for made-up names | `ast_sugar` | names must be new, operands evaluated once |
| LLVM back end (`emit_llvm.c`) | locals, labels, slots, the loops around | one emitter per form | hoisting, reordering, blocks closed exactly once |
| C emitter (`emit.c`) | scopes, static counters, four statement composers | one emitter per form and place | statements where the language has expressions |
| TypeScript back end (`emit_ts.c`) | names, a destination per statement | `ts_stmt`, `emit_ts_expr` | the same, with a different scheme |
| Java and Lua back ends (`emit_java.c`, `emit_lua.c`) | output buffer | code generation | the same, smaller subsets |
| Driver, compiler arena | block list | build, fmt | sequential |
| Self-hosted lexer, parser, emitter, driver | as their originals | as their originals | equality with the originals |
| Runtime descriptors (`parena_runtime.h` 1280-1560, 4298-5058) | 32 line buffers keyed by descriptor; one TLS session; handles with generations | `raw_open`, `raw_read_line`, `stream_connect`, `stream_connect_tls`, `stream_close`, ... | numbers are reused; handles outlive sessions; connecting fails half-way |
| Rest of the runtime; vendored AEAD, ML-DSA, ML-KEM | arenas, SDL, serial, process glue, static buffers | `#target` bodies | device and library glue |
| Editor (`editor_main.c`, `stdlib/editor/buffer.prn`) | path, buffer, hex flag, undo and redo, overlay, drag | about thirty events | many handlers, each replacing part of the state |
| Editor panels | lists, layout | per call | presentation |
| SIP call state machine (`stdlib/sip/transaction.prn`) | one call | on-request, on-response | repeated and late responses |
| Secure channel (`stdlib/net/secure_channel.prn`) | derived keys; the host keeps two counters | seal, open, handshake | loss, replay, counter reuse |
| Match session (`stdlib/shankpit460/sp_net.prn`, `stdlib/redgarden/net_rules.prn`) | queue, phases, snapshots | on-frame, tick, decisions | drop grace, ticket window, late frames |
| Event store lock (`stdlib/eventstore/seqlock.prn`) | a file lock and a counter file | acquire, release | its critical section is a Go program elsewhere |
| Threads and channels (`stdlib/thread.prn`) | - | spawn, join, send, recv, lock | calls runtime functions that do not exist |
| Event log and projectors (`stdlib/log/`) | JSONL file, SQL table | append, replay | interrupted replay |
| Kubernetes decisions, Helm; cache keys, collections, strings, sorting | none, or the data structure | pure or sequential | arithmetic |
| Other networking, HTTP routing, SIP codecs, Asterisk configuration | sockets in C | one blocking call each | pure I/O or text |
| Regex, grep, sed, awk, JSON, YAML, CSV, coreutils, shells | none between calls | text algorithms | sequential |
| V16 JavaScript engine; numerics, media, hardware, USB, packet tools | VM heap; buffers and devices | per call | large data, no protocol |
| Games | world state per frame | tick, pure rules | balance and parity |
| Tools, scripts, build glue, tests, docs, assets | - | - | - |

Interactions. The compiler runs lexer, reader, region analyzer, sugar and a back end,
each over the whole output of the one before. The formatter rewrites the file that the
reader reads later, and the editor runs the formatter when it saves. The QUIC client is
called by a host's frame loop (`quic-pump` never blocks), calls the codecs as pure
functions and the runtime for the socket and the clock; everything it knows is in one
block of 32-bit slots. Inside a pump the order is fixed: drain the socket (frames go to
reassembly and to the range table), TLS step, request, HTTP/3 parse, completion test,
acknowledgements, timers. Reassembly tells the range table, through slot 480, whether
the packet may be acknowledged. In a generated program, files, plain sockets and the
TLS session know nothing of each other but share the kernel's descriptor numbers.

What makes each modelled component correct:

- reassembly: the reader sees the longest prefix of what arrived, nothing recorded is
  lost or invented, and nothing is acknowledged that is not recorded;
- ranges: no packet is acknowledged that did not arrive, none is forgotten while the
  table has room, the frame decodes to the table;
- engine: one final outcome; the request only goes to an authenticated server; success
  means the whole response; every transfer ends; one whose losses are within the retry
  budget succeeds;
- timers: the deadline is neither early nor missed; probes are neither withheld nor
  bunched;
- region analysis: an accepted program stores no shorter-lived value in a longer-lived
  place; a rejected one really does; both analyzers agree;
- front end: exactly the balanced texts are accepted; formatting is idempotent, shows
  the nesting and changes no token;
- back ends: what is emitted is legal in its language, has the source's value, effects
  and their order, and ends when the source does;
- editor: undo and redo walk one timeline of one document; a file only receives the
  document loaded from it, never a dump;
- descriptors: lines come in order from the right file; a stale handle reaches nothing;
  no descriptor is lost.

`PROJECT.json` lists the hazards at their lines with the properties that watch them; for
a component that is a whole directory it names the first six source files of it.

## 2. Modules

| Module | Models | Used by |
|---|---|---|
| `ByteStream` | what a reassembled stream promises (abstract) | `QuicReassembly` implements it |
| `QuicReassembly` | `qcn-seg-add!`, the two functions that feed it frames, the decision in `qcn-packet!` | `QuicAbsorb` |
| `QuicAbsorb` | the loop of `qcn-seg-absorb!` as written | `MCQuicReassembly`, `QuicPartsProofs` |
| `QuicAckRanges` | `qcn-rg-*`, `qcn-note-rx!`, `qcn-ack-frame`, `qcn-flush-one` | `MCQuicAckRanges`, `QuicAckRangesProofs` |
| `HttpGet` | what the client promises its host (abstract) | `QuicClient` implements it |
| `QuicClient` | `quic-pump` and all it calls, `quic-close`, a server and a network | `MCQuicClient`, `QuicClientProofs` |
| `QuicTimers` | the clock, slot storage and `qcn-timers!` | `MCQuicTimers`, `QuicPartsProofs` |
| `RegionCheck` | `region.c`, `region.prn` and the scoping of `emit.c`, side by side | `MCRegionCheck`, `RegionCheckProofs` |
| `PrnLexer` | `lexer.c` as operators on a text | `PrnFmt`, `EditorBuffer` |
| `PrnFmt` | `fmt.c` | `PrnReader` |
| `PrnReader` | `parser.c`, and `parena fmt -w` before it | `MCPrnReader`, `PrnReaderProofs` |
| `EditorBuffer` | `buffer.prn` and the editor's own indentation | `Editor` |
| `Editor` | the event loop's documents | `MCEditor`, `EditorProofs` |
| `Descriptors` | files by lines, sockets, the TLS session | `MCDescriptors`, `DescriptorsProofs` |
| `PrnSugar` | forms and `ast_sugar.h` | `PrnMeaning` |
| `PrnMeaning` | what a function body means (the reference) | `LlvmLower`, `HostLang` |
| `LlvmLower`, `LlvmRun` | `emit_llvm.c`; the emitted instructions executing | `Backends` |
| `HostLang` | block-structured programs: which are legal, and what they do | `CLower`, `TsLower` |
| `CLower`, `TsLower` | `emit.c` and `emit_ts.c` on function bodies | `Backends` |
| `Backends` | the three back ends held to `PrnMeaning` | `MCBackends` |
| `DataLemmas` | no code: lemmas on numbers, recursion and sequences | all modules of proofs |

**QuicReassembly.** `have` is slot 18, 19 or 27, `seg` the 32 pairs of slots from
64 on (a slot is free when its end is 0), `overflow` slot 480. `Extend`,
`Merge`, `Stash` and `Refuse` are the four branches of `qcn-seg-add!`; `Frame` is a
CRYPTO or STREAM frame, `PacketDone` the test of slot 480 and the noting of the packet.
`pkt`, `received` and `acked` are history. Frames end within the buffer: frames that do
not are `QuicClient`'s subject.

**QuicAckRanges.** One action per packet, noted (`NoteRx`) or refused (`RefuseRx`), and
`FlushAck`. Shifting and removal are kept entry by entry, stale entries included.
`Decode` is the peer's reading of the frame.

**QuicClient.** `pc` walks the body of `quic-pump`: `PumpBegin`, `RecvDatagram` and
`RecvPacket` (drain), `DrainEnd`, `TlsStep`, `SendApp`, `H3Parse`, `Complete`,
`FlushAcks`, and one of `TimersDeadline`, `TimersProgress`, `TimersWait`, `Probe`.
Each variable names its slot. The world (`ServerSend`, `ServerRecv`, `Lose`,
`Unreachable`) moves only between pumps, since a pump meets it only at the socket, and a
datagram may stay in flight as long as it likes; the deadline may pass inside a
pump. Abstractions: stream contents are numbered units; the Handshake flight is four
messages; a packet carries one frame and is identified by its data, so the
acknowledged packets of a space are a set; cryptography succeeds or fails by the server's
kind (`peer`); the table of pending intervals refuses a frame only where
`QuicReassembly` allows it to (`MayNotFit`); the probe timer may fire at any pump.
A server is one of: good; closing after the request; giving a bad status; truncating
its last HTTP/3 frame; failing verification at each of five messages (`badHello`,
`badAlpn`, `badCert`, `badVerify`, `badFinished`), sending 1-RTT data regardless;
answering with more than the buffer holds; or insisting on a Retry. STREAM frames are
assumed to come in 1-RTT packets only.

**QuicTimers.** `t` is true time; `lastSend` and `deadline` are slots as stored
(`Store`, cset!) and compared as read (`Load`, cget: the top `Band` values
read as negative). `Tick` may run any number of times between two pumps.

**RegionCheck.** A behaviour is the walk of one program: every step is the next form
(`Param`, `Let`, `BindAlloc`, `BindCall`, `WithArena`, `Call`, `NoCall`, `Clause`, `Loop`,
`Body`, `Leave`, `NextDefn`), chosen among all forms, so the behaviours are all programs up
to the bounds. The stack has an entry for every form with names of its own, and of each name
it holds three things apart: what the C analyzer bound (`bound`, with its table limit and
silent drop), the port's copied vector (`flat`, no limit), and what the C text declares
(`local`, no limit). Every call is judged three times (`verdict`, `portVerdict`, `truth`) by
one rule (`Escape`) under three readings of the names (`Lookup`, `PortLookup`, `Denotes`).
The C side follows `emit.c`: only a with-arena, a clause, a branch and the body of a `while`
are C blocks; a let and the variables of a loop are declared in the block around them, so
`Leave` moves their names out to it (`Ended`), and no name is declared twice in a block
(`Fresh`). Clauses and loops bind names in C only. `truth` takes from the analyzer what a
call does with its arguments (the first is the destination) and what has a region
(`region.c` 94-105, 173-179), so the question asked is whether the analyzer follows the
*names* as the program does.

Code and analyzer part company in six ways, and `Liberties` says which of them a program may
take: *early* (a let's expression uses a name of that let), *ended* (a name is used after
its let or loop), *hidden* (a clause or loop reuses a name the analyzer knows), *carried* (a
loop starts from an alloc), *uncalled* (a form that is no call would be an escape if it were
one), *overflow* (more bindings than the table holds). `Spellings` is a seventh. The run
`region` takes none, the theorems say which liberties each property survives, and section 5
what each of the others breaks.

**PrnLexer, PrnFmt, PrnReader.** A source is a sequence of characters. `TokenAt` is one
call of `lexer_next`, with every kind of token, escapes, comments, and the cut of long
string literals; `Format` is `fmt_source` line by line, with its output buffer. In
`PrnReader` the parser's recursion is a stack of frames and each step reads one token
(`OpenForm`, `CloseForm`, `WrongCloser`, `Atom`, `LexError`, `Finish`); `Reformat` may
rewrite the file before the reading starts, once or more. Literal values (numbers,
Unicode escapes) are kept as their text.

**EditorBuffer, Editor.** Texts are sequences of bytes, with two that stand for the
lead and the continuation of a two-byte character. `Chars` are the bytes of documents;
the mark a hex dump is made of (`Dump`) is none of them, so that a dump can be told from
a text. One event is one step: it does all its
handler does, trailing calls included. `disk` is the files, `path` and `buf` what the
window shows and saves to, `hex` the flag that makes a save do nothing. `buf.of` is
history: the file the buffer was loaded from. Any of the four calls a handler makes on a
file (`Faults`) may fail. Left out: drawing, scrolling, the terminal panel, compiling and
running, uploads, the search behind the overlay's rows (Return may act on any row).

**Descriptors.** `fds` is the kernel's table, `bufs` the line buffers, `files`, `plain`
and `handles` what the program holds, `tls` the one session. `Connect` and `ConnectTls`
tear down, allocate and install in the code's order; `ConnectTlsFails` is any of the five
later failures. A TLS handle carries the generation it was issued in and may be used
whenever the program likes; a file handle is linear and closed once. `touched` is history.

**PrnSugar, PrnMeaning.** A form is a tuple, a name a sequence of characters.
`Desugar` is `ast_sugar` with the names it makes up; `Meaning` evaluates the
*unsugared* body: operands left to right, a dotimes limit and a case subject once, recur
all at once. Integers wrap at `Width`. The reference is not code of the
repository but what `ast_sugar.h`, `emit_llvm.h` and the tests say the forms mean.
The made-up names deserve a word: `ast_sugar` writes them into a buffer on its stack and
the tree keeps a pointer to it, so what they spell when the back end reads them is
undefined. The runs take both outcomes a build can produce that matter, all
alike (`NamesAlike`) and all apart (`NamesApart`).

**LlvmLower, LlvmRun.** The emitters as functions from a form to instructions: type,
reference, slots, labels, the loop around. `LlvmRun` then executes: registers, slots,
memory, calls, traps, one action per kind of instruction.

**HostLang, CLower, TsLower.** A C or TypeScript program is a tree of statements.
`Valid` says what the target's compiler accepts of it, `Execute` runs it, for C with
operands from left to right and from right to left, with overflow undefined, for
TypeScript with doubles. `CLower` has the four places in which `emit.c` composes
statements, the temporaries by which values travel between them, their counters, and the
int-or-double type of a loop variable; `TsLower` has destinations. The C model was
compared with the compiler: for each C program of the run and each input, the program the
compiler emits (with made-up names kept alive) and gcc compiles, and the program of the
model, gave the same value, globals and calls, up to quotients of doubles, which the model
does not follow.

**Backends** chooses a program, an input, a back end and a treatment of made-up names,
compiles, and states what all back ends owe the source. An LLVM program is stepped; a C or
TypeScript program is run from start to end inside the invariant, since it is one
sequential thread. `Claimed` says of which programs the C and TypeScript
properties speak: names bound once (the emitters do not support shadowing), at most one
operand with an effect (C leaves the order open), a cond that ends in else, no division of
a loop variable widened to double; and not the three `Defects` of section 5.

## 3. Runs

| Run | Asks | Bounds |
|---|---|---|
| `reassembly` | the prefix is never stuck, a packet that could not be recorded is not acknowledged, the written absorb loop reaches the closed form, refinement of `ByteStream`, resending completes the stream (liveness) | 6-byte buffer, 2 intervals, all frames of 0-2 bytes, 2 rounds |
| `ack` | no false acknowledgement, nothing forgotten below capacity, the frame decodes to the table, only the lowest range is dropped | 3 ranges, frames of 2, numbers 0-6 |
| `peers` | refinement of `HttpGet`, port-unreachable, oversized responses | all eleven kinds of server; Handshake flight in one packet, response in two, 2 datagrams in flight; deadline, close, ICMP |
| `live` | the response arrives (liveness); what is acknowledged is held | flight and response in two packets each, 2 losses, 1 duplicate, coalescing, full table; 4 retries |
| `timers` | deadline and probes; every transfer ends (liveness) | clock of 64, starts away from the wrap, horizon 20, timeout 12, base 1, 2 retries |
| `region` | the C analyzer is sound and exact; the port agrees with it | no liberties; 3 names, 5 forms, depth 4, tables of 3 |
| `reader` | exactly the balanced texts are accepted, an error at the end names the unclosed form's line; formatting is idempotent, shows nesting, keeps tokens | texts of up to 4 of ten characters, atoms of up to 3 of eight and a newline, nesting of up to 6 of `( )`, newline and `a`; strings on one line |
| `editor` | undo and redo stay in one document and one timeline, no dump is saved, whole characters, indentation | 2 files (one Markdown), 4 pairs of contents, 5 events, undo of 2, texts of 4, four kinds of fault |
| `descriptors` | lines in order, stale handles reach nothing, no descriptor lost | 3 descriptors, the third beyond FD_SETSIZE; one line buffer of 2 bytes, 2 files, 3 sessions |
| `backends` | legal code, same value, effects and order, termination (liveness) for LLVM; legal code, same value, globals, calls, termination for C and TypeScript | 3-bit integers, 12 iterations, 6 locals; 1800 bodies for LLVM, 1302 for C (either order of operands) and TypeScript, inputs -1 to 1 |

and two runs whose violation is a finding (section 5): `region_siblings`,
`editor_foreign_save`.

Further configurations beside them, each run as `tlc -config X.cfg M`; every one ends in
the violation that section 5 describes: `QuicEarlyData`, `QuicAmpLimit` and `QuicBigFlight`
(module `MCQuicClient`), `QuicClockWrap` (`MCQuicTimers`), `PrnFmtStrings` and
`PrnFmtCapacity` (`MCPrnReader`), `BackendDefects` (`MCBackends`).

`Liberties` of `RegionCheck.cfg` and `RegionSiblings.cfg` is meant to be varied. With the
constants of `RegionCheck.cfg` and `Liberties = {"hidden", "uncalled"}`, `AcceptedIsSafe`
holds; with all liberties, `Names = {buf, scratch}`, `Spellings = {"plain", "bang"}`,
`MaxDepth = 3` and `MaxForms = 4`, `PortAgrees` holds. With the constants of
`RegionSiblings.cfg` and one other liberty, the property named in section 5 is violated
(`MaxForms = 6` for *ended*; `MaxBindings = 2` and `MaxForms = 6` for *overflow*).

Why the bounds are enough. *Reassembly*: with two slots the table fills, a frame can
touch both intervals, join them through the prefix, and be refused after another frame
of the same packet was kept. *Ranges*: three ranges over seven numbers allow insertion
at each end and between, both kinds of join, and overflow; frames of two leave a range
out. *Engine*: two packets per flight are the least that can be reordered, lost
separately, and leave a gap (`live` splits both flights, `peers` the response); a loss is
also a datagram that stays in flight. A liveness run needs `MaxRetries >= MaxLosses + 2`:
each loss costs a probe, and so does the probe that finds the server still silent.
*Timers*: two retries with base 1 give timeouts 1, 2, 4 inside a deadline of 12.
*Regions*: a violation needs a destination, a source and the scope or spelling that
confuses them; three names and five forms leave one of each to spare, a table of three can
be filled, and names are interchangeable (symmetry over the three).
*Reader*: the formatter's state is a depth, in a string, in a comment, after a backslash;
four characters reach each pair of these followed by one that tells them apart, six over a
smaller alphabet add three levels on three lines. *Editor*: the shortest way to a wrong
save or a mixed history is load, edit, load, undo, save; two undo entries are the least
that overflow with one kept. *Descriptors*: two files and one buffer slot make one reader
unbuffered, three descriptors let every kind of owner take the number of every
other, three sessions let a handle be stale twice. *Back ends*: the programs combine every
form with every form that is lowered by another function (in operand, condition, binding,
branch, tail, clause and loop position), with effects before, in and after it; two
iterations separate the first from the last; three bits let sums and the one quotient
overflow; the loop bound only marks endless programs.

Deadlock is checked in `reassembly`, `ack` and `descriptors`. The other systems stop by
themselves: a transfer has its status, the clock reached the horizon, the analyzer or the
reader gave its verdict, the editor its bounded number of events, the function returned.

Fairness. `live` assumes that the host keeps pumping and a pump runs to its end (one
thread, no blocking call), that the clock advances, that the server answers and reads
(weak fairness on `Pump`, `DeadlinePasses`, `ServerSend`, `ServerRecv`), that losses are
bounded, and that the probe timer fires (strong fairness on `Probe`: a pump that was
idle long enough comes again and again). It also sets `Calm`: the network settles between
pumps, which excludes runs where the probe timer fires faster than a round trip each
time and the retry budget is spent on a healthy path; the code's first timeout of 300 ms,
doubled each time, is what justifies it. `Ends` in `timers` assumes only the clock
(`Tick`) and pumping (`Timers`). `Completes` in `reassembly` assumes that the packet
under way ends and that a byte not yet acknowledged is sent again: strong fairness per
byte, since another packet may be under way; nothing is assumed of the other frames.
`Terminates` in `backends` assumes that a processor keeps executing (weak fairness of
the only enabled step).

Every property of a passing run has a mutated form of a modelled definition, in the
module beside it, under which that run fails; `PROJECT.json` pairs them.

## 4. Proofs

For every value of the constants, by TLAPS. Each module proves an inductive invariant
first; the theorems named after it follow from it, or from it and one step.

**`QuicPartsProofs`**, reassembly and timers. `TypeCorrect`, `NoHole` (acknowledged bytes are recorded),
`OverflowIsNoticed`, `NoInvention`, `PrefixNeverStuck`, `Monotone` and `Implements` (the
refinement of `ByteStream`). The invariant joins types, `PendingBeyondPrefix` (without it
an absorbed interval could be left behind), `PacketIsRecorded` (without it `PacketDone`
could acknowledge too much), `AckedIsRecorded` and `RecordedIsReceived`.
`AbsorbedIsLeast` shows, by the least-element principle, that the closed form exists.
`PassesSuffice`: the loop of `qcn-seg-absorb!` as it is written, pass by pass and slot by
slot, ends at that closed form for any table, given at least one pass per slot
(`RoundsAssumption`; the code allows 40 over 32 slots). A pass over a table on which it
changes something takes an interval away, and no interval ever comes back, so after as many
passes as slots one has changed nothing, and a pass that changes nothing stands at the
fixpoint.

Timers: `TimesOutInTime`, `DeadlineSeen`, `ProbeSeen`, `TimersTyped` (the
timeout is the base doubled once per retry) and `ProbesSpaced`, under `AwayFromWrap` (no
reading up to the horizon and no deadline enters the top of the clock). The invariant says
slots hold true times. Without the assumption the statements are false: `QuicClockWrap`.

**`QuicAckRangesProofs`**: `TypeCorrect`, `AlwaysSorted`, `NoFalseAck`,
`TopIsAlwaysLargest`, `ForgetsNothingBelowCap`, `OnlyLowestDropped`, `FramesRoundTrip`. The
invariant needs the table sorted with gaps, the covered set within the received set,
`NothingAtFirst`, and that a number is given up only where the table is full and the number
touches none of its ranges: then what was received has more runs than the table holds
(`OverfullRuns`, a counting argument). One lemma per table operation says what it covers
and that it keeps the order; the frame is followed range by range by induction.

**`QuicClientProofs`**: `ConnectionIsSound` (the invariant), `ConnectionTyped`,
`RefusalMeansSilence`, `StatusStays`, `TooBigNeverCompletes`, `KeepsItsPromise` (the refinement
of `HttpGet`: every step of pump, server and network is a step of the abstract client or
none) and `AcknowledgedIsHeld`. The invariant says that keys follow the stage (`Keyed`),
that packets are noted only in spaces whose keys exist and that a refused port has heard
nothing (`Heard`), that the parser stands at the end of a frame inside the prefix of a
response that was asked for (`Parsing`), that a server insisting on a Retry is never heard,
and that a transfer in progress has probes left. Without `Parsing` a response could be
complete with a hole in it; without `Heard` the host could be told of a silent port after
talking to it. `AcknowledgedIsHeld` rests on a second invariant, `KInv`: whatever the server
has been told, or will be told by a datagram still in flight or by the stored Finished, is
held. It assumes `HsCap >= HsLen`, a Handshake flight that fits its buffer; for any other
flight it is false, which configuration `QuicBigFlight` shows.

**`RegionCheckProofs`**: `TypeCorrect` for all programs; `Soundness` for programs that write
names as they were bound and take no liberty but *hidden* and *uncalled* (`Straight`);
`NoFalseAlarm` for those that take none (`Exact`). Names, depth, forms and table size are
arbitrary. The invariant, `AgreeInv`, says that in each scope the analyzer knows what the C
text declares, but for the names of clauses and loops, whose values have no region, and of
lets that are over (`LevelAgrees`); that no C block declares a name twice, so that a name
moved out of a let hides nothing (`Apart`); and that under `Exact` no clause or loop hides a
name the analyzer knows (`Unhidden`). The two readings of a usable name then agree, or the
program's has no region and the analyzer is at worst too strict. Without these conditions
the theorems are false, liberty by liberty: section 5. `PortFollows`, for all programs in all
spellings: the
vector that the port copies into a scope is what the C analyzer reads along its chain of
scopes (`Copied`), as long as no table on the way is full.

**`PrnReaderProofs`**: `ReaderTyped`, `AcceptsOnlyWellFormed`, `EofErrorsNameOpenings`,
`FormattingConverges`, `FormattingKeepsTokens` and `FormattingShowsNesting`, for any alphabet
with the blank and the newline and any set of sources over it. The first three rest on the invariant `ReaderInv`: reading stands where a
token list begins, and for the program and for every open form, cancelling pairs in what
follows its opening token gives the same as cancelling them in the forms opened inside it
and still open, followed by the brackets not yet read. A matching closer is then the
leftmost pair, a wrong one never cancels whatever follows, and at the end of the text the
forms on the stack are what is left. `Cancelled` and `Tokens` are
recursive functions: the proofs rest on their unfolding, which `DataLemmas` provides, and on
inductions over sets of lengths and positions.
`FormattingConverges` follows the formatter along its own output. A row keeps its text, the
closers it begins with and the change of depth (`RowAgain`; the scan of a row for strings,
comments and brackets does not see where the row stands), the lines of what was written are
the rows (`LinesOfRows`), so the second pass writes each row as it stands (`FormatAgain`). It
assumes `Uncut` of each source: no line was cut at the end of the output buffer. That is the
code's own limit (`fmt.c` 115, section 5); without it the statement is false: with a slack
of 4, TLC finds a text whose second formatting differs.
`FormattingKeepsTokens` is about the lexer on the source and on what the formatter made of
it. A token is read the same wherever the line it stands on lies in a text (`Lies`,
`TokenShift`: what stops a name, a number or a literal moves along with it), so a line leads
to the same tokens in two texts that agree behind it (`LineTells`); two texts whose lines are
trimmed alike then have the same tokens with the same line numbers (`LinesTell`, by
induction from the last line), and the rows of a formatted text are such lines. It assumes
`Uncut`; `StringsClose`, that every string of a source closes on its line, without which it
is false (`PrnFmtStrings`, section 5); and `EndsPlain`, that the source does not end in a
colon: as the very last character a colon is read as a keyword, and as punctuation once
the formatter has put a newline after it.
`FormattingShowsNesting`, under the same conditions, relates two counts of the brackets above
a line: the formatter's, which scans each line for strings, comments and brackets on its own
(`DepthAfter`), and the one over the tokens of the whole prefix (`DepthAt`). Both move by the
same amount over each token (`TokenScan`) and hence over each line (`LineWalks`, `RowsWalk`,
which reads a text and a prefix of it side by side). The formatter never counts below zero,
which agrees with the tokens only because the text is well formed: brackets that cancel never
close more than was opened (`WellFormedRises`).

**`DescriptorsProofs`**: `Agreement` (the invariant), `DescriptorsTyped`, `FilesReadInOrder`,
`HandlesReachTheirOwn`, `DescriptorsOwned`. The invariant: a descriptor has one line buffer
at most and only while the program has it open as a file (without this a reused number
would find the old owner's bytes); what was read, buffered and not yet delivered
concatenate to the file; every open number has one owner; and handles are numbered apart
while the generations last. Numbers of descriptors, buffers, files and sessions, buffer
sizes and contents are arbitrary; the sequence lemmas are about taking a line out of a
buffer and a file without losing its place.

**`EditorProofs`**: `OneDocument` (the invariant), `EditorTyped`, `HistoryIsBounded`,
`HistoryStaysInDocument`, `DumpIsNeverSaved`, `NothingIsLost`, `StepsAreOverCharacters`,
`IndentingAgrees`. The invariant (`Fits`): buffer and both stacks hold versions of one
document, cursors and anchors within their texts, the stacks together within `UNDO_MAX`, and
a piece of a dump only where the flag of the hex view is set (`Ink`). Without the joint bound a redo could
overflow the other stack and drop the oldest text; without `Ink` an undo could bring a
dump back after the flag was cleared. `NothingIsLost` views past, screen and future as one
reel that undo and redo turn. What a save writes is what the formatter makes of the text,
so the formatter's functions are proved to return texts over the same characters.
`IndentingAgrees` holds the two scans for brackets against each other, for every text that
events lead to and every place in it: `paren_depth_before` runs over the whole text before
the cursor, `fmt_source` over each line on its own. Over a token that is whole and on one
line both move alike (`TokenFollowed`, `TokenInLine`), so both are at the same depth where a
line ends (`LineRead`), and line by line at the cursor (`LinesRead`). The conditions are
those of the property. That no literal reaches the lexer's limit is one of them because a
literal that is cut may hide a newline; that semicolons come in pairs, because a
lone one begins a comment for the compiler and the formatter, but not for the editor.

**`DataLemmas`** has what these share: least elements and induction over a *set* of numbers
(an induction theorem with a predicate as parameter cannot be applied by the provers, one
with a set can), the existence, type and unfolding of functions defined by recursion on a
rank, and facts about minima, subsequences and concatenation.

Assumptions. Besides those named above (`AwayFromWrap`, `Straight`, `Exact`, `HsCap >= HsLen`, `Uncut`,
`StringsClose`, `EndsPlain`) the proofs
use only the named ASSUMEs of the modules, which TLC evaluates in the runs; they say what
kind of thing a constant is. One says more: `EditorAssumption`, that no document and no key
brings the mark of a dump (a file whose text merely looks like a dump is a text), and that
what the editor itself inserts is among the characters.

What these theorems prove outright is no longer run where it would only repeat them: the
type invariants of those modules, `HistoryFits`, `StatusIsFinal`, `AckedIsRecorded`,
`RecordedIsReceived`, `NeverForgets`, `Sorted`, `TopIsLargest`. The inductive invariants were
checked by TLC before they were proved.

Only model-checked, and why:

- liveness (`Ends`, both `Completes`, `Terminates`) and whatever speaks of fairness or
  ENABLED: out of the prover's reach;
- the properties of `LlvmRun` and `Backends`: the modules from `PrnSugar` to `Backends` are
  recursive operators over forms, which the prover does not handle;
- `SavesItsOwnDocument` and the other statements of section 5, which are false.

## 5. What the runs found

1. `region_siblings` (`region.c` 194): a let's expression that uses an earlier binding
   of the same let is looked up outside it, so its escape is accepted. The compiler
   accepts such a program.
2. `editor_foreign_save` (`editor_main.c` 1411): opening a file from the search overlay
   replaces the buffer but not the path; Save writes the new file's text over the old file.

By further configurations:

- `RegionSiblings` with another liberty; the compiler treats each program as said.
  - *ended* breaks `AcceptedIsSafe` (`emit.c` 3443, 4954): a let opens no block in C, so its
    names denote its variables until the block around it ends, while the analyzer is back
    outside. With scratch parameters `x` and `s` and a buffer `buf`, it accepts
    `(with-arena [a :region/scratch 64] (let [x (alloc buf String "a")] (tick x)) (set-data x s))`,
    which stores `s` in `buf`.
  - *carried* breaks `AcceptedIsSafe` (`region.c` 180): a loop variable that starts from an
    alloc has no region there: `(loop [i (alloc buf String "a")] (set-data i s) ...)` is accepted.
  - *overflow* breaks `AcceptedIsSafe` (`region.c` 25, `emit.c` 3443-3451): both tables drop
    the 65th binding of a let, but its C declaration has been written: an escape through it
    is accepted.
  - *hidden* breaks `ReportsRealEscapes` (`emit.c` 4702, 3979): the analyzer does not know the
    names of clauses and loops; under an outer scratch `s` it rejects
    `((Some s) (set-data buf s))`.
  - *uncalled* breaks `ReportsRealEscapes` (`region.c` 215): any list headed by a symbol is
    judged as a call, so `(if buf s 0)`, `(do buf s)` and the clause `((Pair buf s) 1)` are
    rejected.
- `QuicBigFlight` (`quic_client.prn` 338): Handshake CRYPTO data beyond 32 KiB is ignored
  but its packet is acknowledged, the permanent hole that 282-283 says slot 480 prevents.
- `QuicEarlyData` (789): one 1-RTT packet stops the retransmission of the client's
  Finished, though the server may send it before it has the Finished.
- `QuicAmpLimit` (787): between the first Handshake packet and the Finished the client's
  probes are empty, so a server under the anti-amplification limit is never released.
- `QuicClockWrap` (698): a deadline that crosses the wrap of the 30-bit clock is in the
  past: the transfer times out at once.
- `PrnFmtStrings` (`fmt.c` 133): a line that begins inside a string is trimmed and indented
  like any other, so formatting changes the string.
- `PrnFmtCapacity` (`fmt.c` 115): the output buffer is sized before the indentation is
  known; deep nesting over many short lines outgrows it and the text is cut. The
  configuration makes the slack of 4096 small.
- `BackendDefects`, all in code that the C emitter lowers to (`-continue` shows each):
  - *let value* (`emit.c` 3404, 3704, 4290): three functions number their `__let_val_`
    temporaries separately; a match or loop bound by a let inside a match or loop bound by
    a let can make the same name, and the inner declaration hides the outer one.
  - *clause loop* (`emit.c` 4371): a loop that is a clause of a match in a loop's tail breaks
    itself only; the loop around it goes on for ever.
  - *made-up names* (`ast_sugar.h` 124, 168): the name of a case's or dotimes' temporary
    lives in a local buffer and the tree keeps a pointer to it (`node_new_atom` does not
    copy). Two such forms in a row then declare one name twice in one block of C, or
    spell garbage in TypeScript. LLVM code is unaffected: its locals are only looked up
    by spelling, innermost first (checked: `NamesAlike` is among the run's choices).

Kept out of the runs, but met while modelling:

- QUIC: Retry and Version Negotiation packets are dropped in silence (571, 576), while
  line 14 says they fail with -5; the server of kind `retry` shows the transfer then ends
  by its probes or its deadline, with -1. A CONNECTION_CLOSE in the same drain as the last
  packet of a complete response makes it fail (376), by design.
- Regions: `!buf` and `buf`, `&bad` and `bad` are different names for the analyzer
  (`region.c` 36) and the same binding for the emitter (`emit.c` 161-175). With
  `Spellings = {"plain", "bang", "ref"}` TLC finds `AcceptedIsSafe` violated. Past 64
  bindings in a scope `region.c` (25) forgets and `region.prn` does not; without its
  condition on full tables `PortAgrees` is violated. Where a block has an undeclared name
  the emitter may refuse the program; the model takes every name to be a top-level def too,
  as it may be. The header of `region.c` states other
  limits (what calls return, nested forms): they are taken over and not reported.
- Front end: `lex_string` cuts literals of more than 4095 characters; `parena fmt -w`
  truncates the file before writing it and looks at no result (`main.c` 188).
- Editor: a file that cannot be read loads as an empty buffer that Save then writes.
  Compile does not relaunch a program because SIGCHLD is ignored.
- Runtime: the comment of `tcp_read_impl` (2117-2119) and its loop's exit at 2164 differ
  on when a body of unknown length ends.
- Sugar: a dotimes limit that is a name is not copied, so a body that assigns it
  changes how often it runs; a counter of the same name captures it.
- LLVM: names that mangle alike (`a-b` and `a_b`, `a?` and `a-p`) shadow each other, and a
  parameter may be spelt like a generated slot or label; `and` and `or` evaluate both
  sides (`emit_llvm.h` says so; `PrnMeaning` has the switch).
- C: a let that is a statement opens no block of its own (*ended* above), so the last `x` of
  `(do (let [x 100] (tick x)) x)` is the inner one; C's own initialiser scope makes
  `(let [x x] ...)` read itself; a let inside a loop that rebinds the loop variable makes
  recur assign the inner one; a non-exhaustive match in a loop's tail goes round for ever.
  The last test of a cond is never evaluated and a when that ends a loop leaves its result
  unset; both are documented in the code.
- TypeScript: `(- -5)` becomes `(--5)`; I32 arithmetic does not wrap; a loop variable
  initialised by an outer variable of its own name reads itself.
- Lua: `cond`, `when` and `inc!` fall through to ordinary calls, and `/` on F64 floors.

## 6. Plan

Written: reassembly, ranges, timers, engine, region analysis, front end, editor and
descriptors (with proofs), back ends. Next:

1. **Back ends**: Result and user enums in match, F64 in the LLVM emitter, calls among
   several functions, the Lua and Java emitters over the same programs.
2. **`SipCall`** against an abstract call; **`SecureChannel`** with frames lost and
   replayed; **`MatchSession`**; **`Projector`** interrupted and run again.
3. Pure modules: the QUIC varint codec, `ArenaAlloc`, the regex NFA against a reference.

## 7. Not modelled

- Code that is a pure function of its input with golden tests (codecs, game rules,
  numerics, most of the standard library), thin wrappers of one blocking call, vendored
  cryptography (a quarter of the C lines), generated code (`selfhost_cli_gen.c`), device
  and library glue, build glue. Of the emitters, the larger part of the text resolves
  declared types and fills templates for structs, vectors, strings, closures and inline C;
  it carries no control that a bounded program would exercise. These are why the share of
  C lines the map names stays small.
- `stdlib/thread.prn` calls runtime functions (`spawn_pthread`, `init_pthread_mutex`,
  `lock_pthread_mutex`) that are nowhere in the repository; the lock of
  `stdlib/eventstore/seqlock.prn` is used by a Go program outside it. Neither has a
  behaviour here to model.
- Within the QUIC client: byte layouts and cryptography, the bounds of 32 datagrams and 65
  HTTP/3 frames per pump (they only delay), the transcript's capacity, the descriptor kept
  open when randomness fails (683), and the conversion of the header block to HTTP/1 text.
- The Return and Move invariants of `NORTHSTAR.md` are not implemented by the region pass
  (`region.h` says so) and have no model.
