# TLA+ models of root2avro and ScaROOT-Reader

`root2avro` converts the entries of ROOT trees to Avro, JSON or a raw dump;
`scaroot-reader` gives the same entries to Scala programs, in the JVM's own process
(over JNA) or from a `root2avro` child process. Both share the C++ class `TreeWalker`.
What both promise is simple: *the entries of a list of files are one sequence, and the
caller gets the part it asked for, each record once, in order, under its own number;
and the values in a record are those ROOT has, in the schema that was announced.*
The modules here say where that is kept in the code, where it is not, and why.

Paths below are relative to the repository, with these short names:
`datawalker.cpp` = `root2avro/src/datawalker.cpp`, `root2avro.cpp` = `root2avro/src/root2avro.cpp`,
`streamerToCode.cpp` beside it,
`reader.scala` = `scaroot-reader/src/main/scala/org/dianahep/scaroot/reader.scala`, and
`external.scala` etc. in the directory `reader/` beside it.

## Inventory

| Component | State it keeps | Operations | Talks to | What makes it correct |
|---|---|---|---|---|
| `TreeWalker` (`datawalker.cpp` 2500-2874) | open file, reader position, `rawBuffer`, Avro writer | constructor, `reset`, `next`, `setEntryInCurrentTree`, `resolve`, `copyToBuffer`, `dumpRaw`, `printJSON`, `printAvro`, `closeAvro` | ROOT, Avro-C, shared memory | writes only inside the buffer; reports what does not fit; reads the entry it is asked for |
| `root2avro` main loop (`root2avro.cpp` 208-363) | `fileIndex`, `currentEntry`, exit code | one pass over files and entries, per mode | `TreeWalker`, stdout | converts `[start, end)` once and in order; exit code 0 means all of it is written |
| `RootTreeIterator` (`reader.scala` 149-331) | `done`, `entryIndex`, `fileIndex`, `entryInFileIndex`, `microBatchIndex`, lazy counts, byte buffer | constructor, `setIndex`, `reset`, `incrementIndex`, `hasNext`, `next` | `TreeWalker` through `staticlib.c` and a shared buffer | `next()` returns the record of `index`; `hasNext` is exact; errors are the declared ones |
| `external.RootTreeIterator` (`external.scala`) | `entryIndex`, `state` (process and stream), `theNext` | constructor, `restartProcess`, `getNext`, `hasNext`, `next` | a `root2avro --mode=dump` process over pipes | the same sequence, whatever happens to the process; an end is never faked by a death |
| `XRootD` (`reader.scala` 345-497) | file list, partitions | `apply`, `matches`, `balance`, `globToRegex` | XRootD server through `staticlib.c` | every file in one partition, balanced by size |
| Walkers (`datawalker.cpp` 30-2560) | tree of walkers, `defs`, the classes of dynamic arrays | construction, `resolved`, `resolve`, `repr`, `avroSchema`, `buildSchema`, `printJSON`, `printAvro`, `copyToBuffer` | ROOT dictionaries | each encoding is what its decoder expects |
| Schema traversal (`buildSchema`, `schema.scala`) | memo, stack, map of classes | callbacks `SchemaInstruction` | C++ calls Scala | the automaton rebuilds the traversed schema, recursion included |
| Factory (`factory.scala`) | tree of factories | decode | byte buffer or stream | inverse of `copyToBuffer` |
| `streamerToCode.cpp` | recursion over branches, classes finished, includes | collect, generate, declare | ROOT interpreter | declares each class after the ones it needs |
| JSON parser, class generator | none | text in, text out | | |

What is hard here is not parallelism (the JVM and C++ share one thread; the only
concurrent actor is the child process) but *sequences*: positions kept in several places
that must move together, a buffer filled ahead of its reader, a retry in the middle of a
micro-batch, boundaries of files, micro-batches and ranges that coincide, a process
that dies between any two bytes, types that are known only after data has been read, and
recursions over graphs of classes that have to end and to agree with each other. `PROJECT.json` lists these hazards with their lines.

## Modules

| Module | Models |
|---|---|
| `TreeWalker` | the reader's position, the handshake on the status byte, the loop of `copyToBuffer` |
| `RootTreeIterator` | the in-process iterator, extends `TreeWalker` |
| `EntryCursor` | abstract: a seekable cursor over a sequence of records |
| `RootTreeIterator_proofs`, `TreeWalker_proofs` | its theorems, and the lemmas about `TreeWalker` |
| `Root2Avro` | the main loop of the converter in every mode, extends `TreeWalker` |
| `Root2Avro_proofs` | its theorems |
| `DumpStream` | abstract: what a process in dump mode sends to its reader |
| `ExternalIterator` | the iterator over a process; the process is `DumpStream`, its promise `EntryCursor` |
| `ExternalIterator_proofs` | its theorems |
| `XRootD`, `XRootD_proofs` | the file sets of a Spark job, and their theorems |
| `Sums_proofs` | lemmas about sums over finite sets |
| `Primitives` | the walkers of numbers and the factories that read them back |
| `Factory` | the factories that decode a record, and the format of a record |
| `Factory_proofs` | theorems of both: a record in its format is read back as its value |
| `Walkers` | all walkers: construction, `resolve`, `copyToBuffer`, `printJSON`, `printAvro`, the three descriptions |
| `Fields` | the fields of a `TreeWalker`: leaves and their dimensions, raw branches, objects |
| `Schemas` | the Scala side: the automaton behind `buildSchema`, and `reprToSchema`; extends `Factory` |
| `Transfer` | one tree on each of its four ways out, from `TreeWalker`'s constructor to the last entry |
| `TreeData` | reference: dictionaries, trees and values, and what an entry means, without any code |
| `StreamerToCode`, `StreamerToCode_proofs` | the collection of classes for `--inferTypes`, and its theorems |
| `Folding` | two folds, one of them with a state |
| `Layouts`, `MC*` | the small data sets of the runs |

The refinements fit together: `Root2Avro` (dump mode) implements `DumpStream`;
`ExternalIterator` runs on `DumpStream` and implements `EntryCursor`;
`RootTreeIterator` runs on `TreeWalker` and implements `EntryCursor`.

**Records and bytes.** A record is the number of its entry in all the data, so that "the
right record" is an equality. `job.base` and `job.off` are prefix sums of the entries per
file and of the bytes per record. Decoding bytes that are no record gives `Garbage`; reading
an entry a tree does not have gives `Garbage` too, as ROOT leaves the branches as they were.

**`TreeWalker`.** `Poll` is the wait for `StatusWriting`. One step of the loop is `CopyFits`
(the record is written and its status byte says `StatusReading`), `CopyTooSmall` (the status
byte says so and the call returns) or `CopyPastLimit`: if the earlier records end exactly at
the limit, `limit - ptr` wraps around, no test for space fails, and the bytes go behind the
buffer.

**`RootTreeIterator`.** `pc` is the place of the one thread: `idle` (the client's turn),
`seek` (in the loop of `setIndex`, which the constructor calls too), `copy` (in C++), `decode`
(in `next`, behind `copyToBuffer`). The variables have the code's names. `counted` is the set
of files whose entries have been counted; counting opens the file, and the model keeps that.
`out` and `raised` are histories of what the last call returned or threw. `Client` says which
methods the client calls besides `hasNext` and `next`.

**`Root2Avro`.** The loops of the modes differ only in how they write, so there is one loop
with `Write` (JSON and Avro streams go out at once, an Avro file by blocks) and the steps of
`dumpRaw`. `job` also says which files are broken, how many entries it takes to know the types
of `TClonesArray` and `TObjArray`, whether Avro refuses the codec, which records it refuses, and which records make
their walker throw `std::invalid_argument` (a `TObjArray` of several classes, or one whose type is still not known:
`datawalker.cpp` 1886-1943). Nothing catches that exception, so `RecordThrows` ends the process with the exit code 134 of
`abort`, without `closeAvro`: the Avro block is lost, and `lost` says how much of what was written the C library still
had in its buffer (nothing in mode `json`, where every document ends with `std::endl`). `avroSchema` throws in the same
way (`noSchema`). In the JVM's process such an exception crosses JNA and ends the JVM; `RootTreeIterator` takes
its records to be readable.

**`ExternalIterator`.** `pipe` is what the process has written and nobody has read. `Die` may
come at any time, loses what is not flushed and may cut the last item; `Noise` is output of a
ROOT library between two records; `Warn` is output on standard error. The steps of the caller
are the cases of `getNext`.

**`Primitives`, `Walkers`, `Fields`.** A walker is a record of its class (`kind`), of what it calls
itself in each description, and of the walkers it contains. `ClassWalker`s and the walkers of
`TObjArray` and `TClonesArray` change after their construction and are shared, so these are
indices into the state `s`: `s.cls` has the members of a class, which are filled in after the
class has been entered in `defs`, and `s.arr` what a dynamic array has been resolved to. Each
method of `FieldWalker` is one operator with a case for each kind of walker. Numbers have the
widths of their C++ types, with `Half[b]` for half of the values of `b` bytes, so a width can be
small in a run and is arbitrary in a proof. A piece of the buffer is one number or one text with
its length in bytes. Floating-point numbers are named by their bits. An exception, a
crash or a loop without end is a value of `s.error`.

**`Schemas`.** `Instructed` is a call of the automaton: it pushes the instruction and collapses
the stack as long as a case of the loop matches (`Collapse`). `ReprToSchema` starts from the
structure that the JSON parser makes of the repr. A class that
contains itself never gets here: `resolved()` has run out of stack before the description begins.

**`Factory`.** A factory is a function from a place of the stream to what it makes there and where it
leaves the stream; a piece that is read with another width than it was written with is
`Garbled`. Strings are decoded as US-ASCII (`AsciiDecoded`), which makes one and the same `Replacement` of every byte
of 128 or more: what a program can see of a value is therefore not the value but `Seen`, in which all strings are
decoded. An unsigned long is rounded twice, half of it first. In the code factories contain factories, as deep as the schema; here those of the schemas of `n` levels
(`Factories(bytes)[n]`) are made from those of `n - 1` levels, so that recursion is a function of the number of
levels and can be proved about. `Received` is what a program gets from a buffer that should hold one record. Below it is the
*format*, which is nowhere written down in the code: `ValuesOf` says which values a schema has, `PiecesOf` (and
`Laid`, for all levels) which pieces of bytes stand for one of them, without walkers and factories. Walkers and
factories are compared with it from their two sides. `Depth` and `Data` bound the schemas and values it is stated for.

**`Transfer`.** One behaviour is one tree on one way out: `Construct` (one branch a step),
`ResolveEntry` until everything is resolved or the entries are at their end, one of the four
descriptions (for `scala` one step for each callback, `Tell`), then the entries, field by field,
with the doubling of the buffer (`TooSmall`). It composes `Fields` and `Schemas`; the position of
the reader is not repeated from `RootTreeIterator` and `Root2Avro`.

**`TreeData`.** What the code is compared with: `Meaning` gives the datum that stands for a value of
a type, without walkers, buffers or schemas. References are left out of it, as the program promises.

**`StreamerToCode`.** The recursion of `classesFromBranch` as a stack of frames, one step for an
element of a streamer. A class is appended to `classes` when its frame returns with a member. `leftOut` is a
history of the frames that returned with none, each with the class of its caller. It is what the properties need to say
exactly which class may be late or missing: one that was left out *in the class whose member asks for it*. The code
does get this order wrong. Behind the first dot it skips one part of a branch's name only, so of an event
that is split the class two levels down (`hdr.in.z`) is left out; a later branch of that class has it after all,
and with the branches `event`, `inner`, the class `Header` with its member of class `Inner` is defined before `Inner`.

**`XRootD`.** `Apply` makes the set of files, `Deal` is one turn of the loop in `balance`. The
sum of a partition, which the code adds up every time, is kept in `bytes`.

## Runs

| Run | Question | Bounds |
|---|---|---|
| `MCForward` | `hasNext` is exact, only declared exceptions, no overrun, the buffer grows only as needed, calls return, the end is reached | 1-2 files of 1-3 records, micro-batches of 1-3, records of 3 and 6 bytes in a buffer of 4, client rewinds |
| `MCSeek` | `next()` returns the record of `index`; the buffer is in step; the cursor is implemented; each step of a call brings its return nearer | 1-3 files of equal size 1-2, records of 2 and 5 bytes, seeks to 0-4 |
| `MCSkip` | the numbers stay in step and C++ reads the right entries if the client calls `incrementIndex` | 1-2 files of equal or different size 1-3, records of 2 and 3 bytes in a buffer of 4, which they may fill exactly |
| `MCConvert` | the range is converted, success is complete, nothing converted is lost but by a broken file or an exception, a dump is a `DumpStream`, each step brings the end nearer, the program ends | 1-3 files of 1-3 records, every mode, one broken file, one refused record, one that throws, blocks of 3, a dump of one file with a raw buffer of 1 |
| `MCExternal` | the client sees the cursor whatever the process does, an end is complete, calls return | 1-3 records, 1-2 trials, pipes of 2, deaths at any time, foreign output twice |
| `MCBalance` | every file once, no move helps, near the optimum | 1-5 files of different sizes 0-8, 1-3 partitions |
| `MCTransfer` | what arrives is what ROOT has; the buffer holds it in the format the schema says; a refusal has a reason; callbacks and repr give one schema; Avro's header defines each class once, before it refers to it, and describes its records; conversions end | 30 kinds of trees of 1-3 branches, 1-3 entries of up to 4 contents each, on all four ways out, a first buffer of 8 bytes |
| `MCStreamers` | no class declared twice; the class of a member is defined, and before that of the member, unless it was left out there; the recursion ends | 1-4 branches of overlapping classes in every order; an event with every subset of its 5 members' branches; classes three deep |

The sizes are the smallest at which the interesting cases meet: a file that ends inside,
at and behind the end of a micro-batch; a buffer that has to be doubled once and twice and is
doubled in the middle of a micro-batch; a range that begins in a second file after a skipped
one; two restarts in one call and a process that is not restarted because the entry is the
end. In `MCForward` no sum of record sizes is a capacity of the buffer (multiples of 3 against
4, 8, 16), which leaves out the exact fill of the run `MCExactFill`. `MaxPastEnd`, `MaxCap`,
`MaxNoise`, `SeekTargets`, `Depth` (6 levels of a schema, more than any tree of the run has) and the bounds in the MC modules
are the only bounds.

In `MCTransfer` every kind of walker occurs alone, inside a class, a vector, a pointer or a dynamic
array, with empty and non-empty values in every order over three entries: that is what it takes for
an array that is resolved by the second entry, two arrays that are resolved by different entries, an
array in an array whose first object has none, a null pointer before one that is not, and a
record that needs the buffer doubled twice. Numbers of 1, 2, 4 and 8 bytes have 8, 16, 32 and 64
values there, among them ones in the upper half of each unsigned type, whose sign Java gets wrong. Characters are 0 to 7, of
which 4 to 7 are no ASCII. The graph of classes in `MCStreamers` has a
class that is met as a member, as a base, in a `TClonesArray`, in a collection and as a branch of the
tree.

**Regular data.** `RegularSpec` states under which assumptions a program keeps its promise,
and each of them is there because the code needs it: no file is empty; `start` is inside
the data; seeks other than to 0 only over files of equal size; a dump has one file; the external
iterator has one file and a process that says less than the unread pipes hold; no two files
of an `XRootD` set have the same size. For the contents (`RegularTree`, and `Regular` of `Transfer` for
each way out): no pointer to a pointer, no array of references, no matrix as a member, no two classes
of one short name, one class of objects at each place of a dynamic array, no null pointer in front of
what may contain a dynamic array, no NUL in a string; into a buffer no `unsigned int` from an
address, and an array in a leaf only if the build returns the pointer that the code forgets to return
(`kept`); through a repr no array in a leaf and no `string` or `TString`; to JSON only null pointers;
printed or widened numbers are small enough for their digits. That strings arrive decoded as US-ASCII is no
assumption: `ValuesArrive` compares with `AsRead`, which is the identity for JSON and Avro. Classes that contain themselves are
*not* excluded from `MCTransfer`: they are refused. `MCStreamers` excludes them (`Acyclic`), as such a
class is declared twice. The run for `MCExactFill` and the ones below show what
happens otherwise.

**Runs that find a violation** (each stands for an entry under "findings"):

| Run | What the code does |
|---|---|
| `MCSeekUnequal` | `setIndex` adds the size of the file it enters, not of the one it passes (`reader.scala` 215-216) |
| `MCExactFill` | a record that begins at the buffer's limit is written behind it (`datawalker.cpp` 2834-2848 with the unsigned differences at 118 ff.) |
| `MCDumpFiles` | `dumpRaw` is given the entry's number in all the data and reads that entry of the current file (`root2avro.cpp` 336) |
| `MCEqualSizes` | of two files of one size, one is dropped (`reader.scala` 396) |

Seen while modelling, without a run of their own:

*Iterators and main loop.* `reset()` is `setIndex(0)` and therefore
refused if `start` is greater than 0 (`reader.scala` 203, 227). The message for a seek beyond
the last entry (212) is unreachable, as line 216 has thrown before. `incrementIndex` called by
the client in the middle of a micro-batch does not move the byte buffer, so `next()` returns
the skipped record (230). With an empty file `hasNext` is true where no entry is (223), and
`root2avro` converts an entry that does not exist (`root2avro.cpp` 253: do ... while).
A process that dies is not restarted by the external iterator, although the comment at `external.scala` 139 says
"process died on its own; restart it": its death is an `EOFException` (125), `state` stays `Some`, and every
later call reads the same dead stream. Only the first of its files is passed to the process (83): with
more, the iteration ends normally behind the first. If
foreign output follows the last record and `--end` is given, it starts no
process for an index at the end and fails although all is read (100, 138-140).
Its constructor waits for the child before it reads the output, and nobody reads the child's
standard error: each blocks both sides once a pipe is full (67, 105). `--libs` lacks
its `=` (85), so `root2avro` refuses its arguments and the constructor throws (`ReprFails`).

*Values.* `UIntWalker::copyToBuffer` stores nothing (`datawalker.cpp` 511). `LeafWalker::copyToBuffer` has no
`return` for an array (2377-2382). `PointerWalker::printJSON` closes with a quotation mark it did not
open (1441). `ArrayWalker::sizeOf` is 0 (1757), so all rows of a matrix are the first one. A
`vector<TRef>` never fits into a buffer, which is doubled for ever. `PointerWalker::resolve` follows null (1412).
Strings are cut at the first NUL, and bytes of 128 or more become U+FFFD in Scala (`factory.scala` 180, 396). JSON has six digits of a float; unsigned longs become doubles.

*Types.* The loop for pointers to pointers does not advance (1422, 1428), although
`scaroot-reader/README.md` 74 speaks of "any depth of pointer". `resolved()` recurses for ever in a class that contains itself, and the lookup
in `schema.scala` 137, meant for such a class, would throw. Which members of such a class are culled as empty
depends on the order of declaration (1204-1206). A `TObjArray` inside an array's first object
that is empty there stays without a type, though later objects have one. Members of base classes are not
listed, as ROOT's list of members has only a class's own.

*Descriptions.* `LeafWalker::repr` and `reprToSchema` do not agree about dimensions: an array in a leaf is read
as one value from a dump. `reprToSchema` knows no `string` and no `TString`; the repr of a raw branch is not
JSON (2480). Two classes of one short name in namespaces that end up the same are one class to the memo of
`repr` and two to that of `buildSchema`. The Scala iterator never asks whether everything has been
resolved: with an array that is empty in every entry the description itself crashes.

*streamerToCode.* Only finished classes count as seen (181), so a class below itself is declared twice. The
first branch of a class decides which members it has. The prefix is not accumulated (398-410):
members of members of members are not found where names have all parts in front, so that their class is left out or defined too late. A branch of the tree whose name
ends with a dot loses all members. Base classes other than `TObject` are dropped (213). A vector of
numbers gets no `#include`, and an object that is not split is a member of a class nobody declares.

*Reader library.* `inferTypes` returns `c_str()` of a local string (`staticlib.c` 164-172).

## Fairness

`RootTreeIterator`: weak fairness of `Work`, the steps inside a call. They run on the thread
that called, which waits for nothing but the status byte it has set itself. The client has no
fairness: it may stop. `ReachesEnd` assumes in its premise a client that calls `next()` as long as `hasNext` holds.
`Root2Avro`: weak fairness of `Next`; it is one thread that takes no input. `ExternalIterator`:
weak fairness of the caller's steps and of the process's writing while it is not blocked by a
full pipe; no fairness for deaths and foreign output. `Transfer` and `StreamerToCode`: weak fairness of
`Next`, as each is one thread without input. `Transfer` states it by `turn`, which every step flips,
because that is cheaper to check than `ENABLED Next`; that a step is possible until `Ended` is what the search for
deadlocks shows.

## Proofs

All theorems hold for every value of the constants. "Regular" below is what `RegularSpec` of the
module assumes, and the assumptions on the constants (`JobsAssumption`, `GarbageAssumption`,
`ParametersAssumption`, ...) say that the layouts are prefix sums and the parameters what the constructors
accept. None of the invariants is inductive alone; what each needs is described here.

`TreeWalker_proofs` has the lemmas that both users of a `TreeWalker` cite: types of the numbers of a layout, and
what a step of `copyToBuffer` keeps.

`RootTreeIterator_proofs`, for all files, record sizes, micro-batch sizes, buffers, ranges and seek targets:

| Theorem | For | Says |
|---|---|---|
| `TypeCorrect` | all data, any client | `TypeOK` |
| `NumbersCorrect`, `CopiesCorrect` | regular data, any client | the numbers of the position name one existing record, and `copyToBuffer` reads exactly the records the index counts |
| `HasNextCorrect` | the same, `SeeksInside` | `HasNextExact` |
| `OverrunCorrect` | the same, `NeverFills` | `NoOverrun` |
| `DeliversCorrect`, `BufferCorrect` | regular data, no `incrementIndex` | `next()` returns the record of `index`; the rest of the micro-batch is what will be asked for |
| `BufferSizeCorrect` | the same | `BufferNoLargerThanNeeded` |
| `ErrorsCorrect` | the same, `SeeksInside`, `NeverFills` | `OnlyDeclaredErrors` |
| `CursorCorrect` | the same as `DeliversCorrect` | every step is a step of `EntryCursor` or stutters |
| `NeverHangs` | all data, any client | when `copyToBuffer` polls the status byte, it has the value it waits for |
| `ReturnComesNearer` | the same as `DeliversCorrect` | `NearerTheReturn`: each step of a call leaves fewer of them |

`IInv == TypeInv /\ Core` adds what relates the places of the position: in `seek`, the sum so far is the base of
the file reached; in `copy`, the arguments of the call are the position, the open file is `fileIndex` and the slots
written so far are the records from `entryIndex` on; in `decode`, the same for the filled buffer; in
`idle`, the slot at `rd` is the record of `entryIndex`. Each action has a lemma that it keeps
`Core`; `NextCore` and `Invariance` combine them. Seeks need `EqualSizes`: that is the place in the
proof where the sum in `setIndex` is wrong in general. On top of `IInv` there is one small invariant for each further
theorem: `DoneInv` (what `done` means in the middle of a seek), `BytesInv` and `CapInv` (how much the slots take and which
capacities the buffer has had), `ShortInv` (a buffer that has been refused a record was too short for it).
The three hypotheses mark what the code does not handle, and each has a run or a note below that shows what happens
without it: `SeeksInside`, that nobody seeks an entry that is in no file, after which the position is lost;
`NeverFills(Caps)`, for any set `Caps` that has the first capacity and with each its double, that the
records before the last of a micro-batch never add up to one of these capacities (`MCExactFill`); and no
`incrementIndex`, which moves the position and not the buffer.

`ReturnComesNearer` and `NeverHangs` are the argument behind `CallReturns`, a part of `Progress`. The retries of
`next()` end because `StepsLeft` counts four steps for each byte that the buffer is too short for the record at the
position alone: a buffer that refuses a later record of the micro-batch is doubled once and filled from that record,
and if it refuses that one too it was too short for it (`RefusedFirst`, from `ShortInv`). `FirstFits` says that a copy
that has got beyond its first record is not short of anything, also one that goes on behind the end of the buffer, so
`NeverFills` is not needed here.

`Root2Avro_proofs`, for all files, command lines, buffers and blocks: `TypeCorrect` and `LossCorrect`
(`LossNeedsCause`: what was converted is lost by a broken file or an exception only) for all data, and for regular data `ReaderCorrect` (`ReaderAtCurrentEntry`), `RangeCorrect`
(`ConvertsTheRange`), `SuccessCorrect` (`SuccessIsComplete`) and `StreamCorrect`, that the dump implements
`DumpStream`. `Place` says where the reader stands: between two files `currentEntry` is the base of the next one, in
the loops it counts the entries before the reader. `OutputInv` says that standard output and the block hold the
records from `start` up to `currentEntry`, `BlockInv` when there may be a block, and `DumpInv` that the entry of a
dump is unread, read or did not fit. `EndComesNearer` (`NearerTheEnd`) and `DumpNeverStands` (`DumpGoesOn`), for
regular data, are the argument behind `Exits`: the number of steps that are left falls with each one, and is three for
each byte of the records, and two for each entry and each file, that are still to come. The bytes pay for the retries
of `dumpRaw`: a record is retried at most once for each byte that its buffer is too short. `RoomInv` says that a
buffer that refused a record really is too small for it, so that doubling it gains a byte. `DumpGoesOn` also says that
the actions of a dump lose nothing by leaving `CopyPastLimit` out.

`ExternalIterator_proofs`, for all numbers of entries, pipes, deaths and foreign output: `TypeCorrect` and
`AheadCorrect` (`OneAhead`) for all data, and for regular data `EndCorrect` (`EndIsComplete`) and `CursorCorrect`, that the
iterator implements `EntryCursor`. `PipeInv` says what can be in the pipe at all, and that an item is cut short only by a
death. `AheadInv` is `OneAhead` also inside a call that is being retried. `OrderInv` says that up to the first foreign output
the pipe holds what follows the records that have been read, in order, the end marker only behind the last, and that
nothing is missing as long as the process has not died.
`RetriesRunOut` (for all data) and `NeverWaitsInVain` (for a `Quiet` process) are the argument behind `CallReturns`: each step of
`getNext` ends the call or costs a trial, and while a read waits for bytes the process can write them.

`XRootD_proofs`, for all files and numbers of partitions: `BalancedBySize` (no move helps, for all data) rests on
`Ordered`, that nothing in the list is bigger than anything dealt out; `EveryFileDealtOnce` rests on `Conserved` and on
different sizes. `NearOptimalCorrect` is the bound known for this rule from Graham (1969): the heaviest partition is at
most 4/3 - 1/(3m) times as heavy as that of any other distribution. It is proved at every moment, not only at the end (`Near`). A file of
at most a third of the best result goes to a partition that has at most an m-th of the bytes dealt out
(`Averages`; `Dealt` says that the bytes in the partitions and in the list are no more than all there are). For a bigger one
the result is the best there is (`BigFileFits`): otherwise every partition has a file, and the files of `out`, all as big as
this one, cannot be seated in the best distribution, which has at most two of them in a partition and no other next to one
that is alone in `out`: a function from one more seekers than places would have to be injective (pigeonhole).

`Sums_proofs` has what that takes to know of `MapThenSumSet` of the community modules, for any finite set:
that the fold behind it exists and does not depend on the order of the elements, what one more element or a subset
changes, and that the sum of the shares of a partition is the sum of the whole. The induction theorems of the library
take a predicate, an operator, which the provers cannot instantiate; `StrongInduction` and `SubsetInduction` are stated with a set of
good subsets in its place and follow from the well-foundedness of the strict subset relation.

`Factory_proofs`, for all widths and precisions, and all schemas and values of any number of levels (`Depth`):

- `NumbersArrive`: what the factory of a number makes of the bytes its walker has stored is the number, also for the
  unsigned ones that Java reads with the wrong sign; of an unsigned long this is said of those that a double can hold.
- `WidthsAgree`: the factory takes as many bytes as the walker has put, so an error in one number cannot shift the next.
- `RecordsReadBack`: wherever in a stream a value lies in the format of its schema, the factory of the schema makes
  of it what is to be seen of the value (`Seen`: its strings decoded as US-ASCII) and leaves the stream right behind it, whatever follows. It is proved by induction over the levels of the schema
  (`LevelBack`), with a lemma for each factory (`NumberBack`, `StringBack`, `OptionBack`, `ArrayBack`, `ClassBack`); those with
  several values inside rest on `AllBack`, an induction over the values already read.
- `RecordArrives`: so a buffer with one record gives what is to be seen of the value, and by `AsciiRecordArrives`, if no string
  has a byte of 128 or more, the value itself. With the invariant `RecordIsLaid`, which says that
  the walkers leave the record in the buffer in this format, this is what `ValuesArrive` says of the binary ways out; the
  half of it that is the reader's is proved, the half that is the walkers' is model-checked.
- `RecordsAreApart`: no record is the beginning of another one of the same schema, and of two values with the same
  bytes a program sees the same; so a stream of records can be cut in one way only, although nothing in it says where a record ends.

The provers cannot instantiate an operator in a theorem's hypothesis, so `Factory_proofs` does its inductions with the *set* of the
numbers for which a claim holds (`Induction`). That a recursive function by level has the value its definition says
follows from `NatInductiveDef` and `FiniteNatInductiveDef` of the library, which they can.

`StreamerToCode_proofs`: `TypeCorrect` for all files, and for those in which no class contains itself:

- `DeclaredOnceCorrect`. `DeclaredOnce` alone is not inductive: a class is appended when its frame returns, long
  after it was asked whether it had been seen. `OnceInv` adds `OnTheWay`: the classes of the frames have falling ranks
  from the outermost to the innermost, so they are different, and none of them is among the finished ones. A frame is
  entered only for a class that the one below leads to (its rank is less) and that is not finished; while it is on the
  stack only classes of frames above it return, and these are of lower rank.
- `DefinedBeforeUseCorrect` and `NothingMissingCorrect`, both with the exception of a class that was left out in the very
  class of the member. `OrderInv` adds to `OnceInv` that the class of each member is `Settled`: it is
  finished, or included, or has come back to the class of the member with nothing. `MembersSettled` says so of the members that
  a frame has collected, but for the one that the frame above it is about; `ClassInv` of those of a finished class,
  which are finished before it (`SettledBelow`).

Only model-checked:

- Liveness (`Progress`, which is `CallReturns` and `ReachesEnd` together; `CallReturns` of `ExternalIterator`; `Exits` and `Finishes`): the provers have no fairness and no `ENABLED`. For the two
  iterators and `Root2Avro` what it follows from is proved: no loop goes on for ever (`ReturnComesNearer`, `RetriesRunOut`,
  `EndComesNearer`) and nothing waits for ever (`NeverHangs`, `NeverWaitsInVain`, `DumpNeverStands`).
- Everything about `Transfer` as a whole (`TypeOK`, `ValuesArrive`, `RecordIsLaid`, `RefusedForAReason`, `BothSchemasAgree`,
  `HeaderDescribes`). Walkers contain walkers and classes contain each other, so the operators of `Walkers` and `Schemas` are
  `RECURSIVE`, which the provers do not take, and some of them, like those of the code, end only for some trees. The
  decoding of records, where the recursion follows the levels of the schema, is in `Factory` and is proved.

## Not modelled

The matching of a schema with the user's own classes (`My`, `applyField` in `factory.scala`), which happens in types
of the Scala compiler (`FactoryBytes` is made only there); generated classes and the text of any code. `readerValue`, `readerArray`, `typeId` and the true
sizes in memory of the walkers, which only ROOT sees. `getDataSize` and `getData`, which nobody in the repository
calls. Parsing of command lines, JSON and globs. A record that is larger than an Avro block (dropped without an error, as `root2avro/README.md` warns). Opening a file that
does not exist in the JVM's process, which is undefined behaviour of ROOT. Foreign output that happens
to look like the expected entry number. How Avro itself looks up a name without a dot inside a record of some namespace. Files whose size the XRootD server does not tell (-1).

## Plan

1. Done: `TreeWalker`, `RootTreeIterator`, `EntryCursor`; `Root2Avro`, `DumpStream`; `ExternalIterator`; `XRootD`;
   `Primitives`, `Walkers`, `Fields`, `Schemas`, `Factory` and `Transfer`; `StreamerToCode`.
2. Done: proofs of every safety property and refinement the runs check, but those of `Transfer`; of the decoding of its records; and
   of the measures by which the calls of the iterators and the converter come to an end.
3. Left: `XRootD`'s `matches` over a tree of directories, which is mostly calls of the server's client; the walkers' half of
   `RecordIsLaid`, which needs walkers by level as `Factory` has schemas.
