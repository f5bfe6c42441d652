# BARF in TLA+

Specifications of BARF, the Binary Artifact loader and combiner: the parts of it that can be
model-checked, TLC configurations that check them on small instances, and TLAPS proofs for every
instance. Every definition is translated from the C source; the table `map` in `PROJECT.json` gives
the lines of each one.

## 1. The system

`barf` is one single-threaded process. It loads an artifact (`.ba`) and runs it, or combines
artifacts and object files (COFF, ELF) into one artifact. A program inside an artifact is called
through `ba_entry` on the same thread and calls back into the platform layer through a jump table.

| component | source | state | operations | module |
|---|---|---|---|---|
| Command line | `main.c` | options | `ba_main` | `Cli`, `Command` |
| Combiner, conversion | `format.c:906-935` | paths of the converted files, in one block | choice of converter | `Convert`, `Converters` |
| COFF converter | `format.c:210-521`, `coff.h` | object, two index maps | `barf_convert_from_coff` | `Coff`, `ObjectFile` |
| ELF converter | `format.c:522-875`, `elf.h` | object, two index maps | `barf_convert_from_elf` | `Elf`, `ObjectFile` |
| Artifact format | `ba_format.h`, `barf.h:34-44` | header, section, symbol and relocation tables | none | `Artifact`, `ObjectFile` |
| Artifact parser | `format.c:20-128` | one object on the heap | `barf_parse_header_from_file`, `barf_free_object` | `Parse` |
| Combiner, tables | `format.c:937-1172, 1244-1264` | merged object, two mappings | `barf_combine_to_artifact` | `Combine` |
| Combiner, file | `format.c:877-888, 1173-1241` | output file, next free offset | `transfer_bytes` and the writing | `Output` |
| Dump | `format.c:131-208` | none | `barf_dump` | `Dump`, `DumpFile` |
| Loader | `barf.c:12-188, 211-331` | segments, jump table, relocated words | `barf_load_file` | `Loader`, `LinkAndLoad` |
| Argument passing | `barf.c:296-310`, `parse_args.h`, `wa.c:28-58` | one block of text | join, split | `Arguments` |
| File handles | `platform.c:48-131` | `handles[100]`, `handles_len` | `fs__open`, `fs__close`, `fs__read`, `fs__write`, `fs__info` | `HandleTable`, `Session` |
| Memory mapping | `platform.c:145-201` | pages and what they allow | `mem__map`, `mem__mapflag`, `mem__unmap` | `Pages` |
| Program library | `libc.c` | none | `string.h`, `strtoul`, `vsnprintf` | `Strings`, `Strtoul`, `Printf`, `Library` |
| Heap | `platform.c:133-144` | none of its own | `mem__alloc` | in `Parse` |
| Log, execution domain, build | | none | | not modelled |

They interact by calls and by files. The parser, the converters, the combiner and loaded programs
share the table of file handles; the converters hand their result to the combiner as a file, and so
does the combiner to the loader; the loader and the program share the process's memory.

What is hard in it, and what correct means, by component:

* **File handles.** Handles are opened and closed in any order by callers that know nothing of each
  other, and are numbers that are used again. Free slots are found only at the top of the table, and
  several callers return without closing. Correct: a handle reaches the file its own `fs__open`
  opened until its own `fs__close`, no two holders have the same handle, only a full table refuses
  or loses a file, and what calls leave open is known.
* **Converters.** Index maps from one format to the other with entries left out, and lists stored by
  the index of one and read by the index of the other. Correct: a symbol or relocation of the result
  names what it named in the object file, and the files compilers write are converted.
* **Conversion of inputs.** The converted file's path is made from the input's and all paths share a
  block. Correct: each input is combined from its own artifact and no input is overwritten.
* **Parser.** Nothing looks at how much was read or allocated, nor at the header's offsets. Correct:
  the tables are what the file has one behind the other, zero behind its end and never memory nobody
  wrote; what the writers write is read back; and a refusal leaves no memory behind.
* **Combiner, tables.** Locals, globals and externals of one name arrive over many inputs in any
  order, an external is turned into a global in place, and relocations are rewritten long after
  through indices handed out before. Correct: every relocation ends at the place its own artifact
  meant, or at the one definition of its name; locals stay private; a name is visible once; nothing
  is written past a table.
* **Combiner, file.** Offsets accumulate over paddings and sizes taken from the inputs, data is
  copied in chunks, and the tables with those offsets are written last at the front. Correct: no two
  things share a byte, and at every offset noted there is what the table says. Also reached: reads
  that come up short, writes that the C library loses at the flush, an output that is an input.
* **Loader.** Segments lie anywhere, or nowhere if the system has no room; words are relocated and
  pointers initialized while pages are writable; then pages are protected, unless the system refuses
  that, and the program is called. Correct: what runs has its jumps and pointers where they belong,
  its pages as the flags say or untouched, and nothing executable that is not code; what cannot run
  is refused; nothing hangs.
* **Memory mapping.** Sizes are rounded to pages by arithmetic that wraps, and not in all calls; a
  change of protection may be refused and the caller is not told. Correct: segments are mapped to
  their last byte, never share a page, are protected as a whole or not at all, and give back what
  they took.
* **Arguments and command line.** One block has a fixed size for each argument, another for all of
  them, and nothing compares these with what is written. Correct: words that fit arrive as they were
  given; every file that is read was named.
* **Program library.** Correct at the edges: strings that do not end in the buffer, the largest
  number, buffers of no byte. The C standard is the measure, but for three places where the code
  departs from it (section 4).

There are no threads, and nothing is recovered after a crash, so the hard part is in orders of
calls and data, partial failures, numeric edges and indices used after they were computed. They are
listed at their lines under `hazards` in `PROJECT.json`.

## 2. The plan

Done: the file handles and the functions that hold them; parser, converters, combiner and loader;
the compositions of combining and loading, of parsing and dumping, and of the command line with
the conversion of inputs and the passing of arguments; the memory calls; the library's strings,
numbers and printing. Proofs about the table of handles and the calls over it, the parser and the
dump, the converters, the merging of tables and its promise, the output file, the loader, combining
and loading put together, the command line with what follows from it, the memory calls and the
library. Every safety property that a run checks is stated by a theorem; what is left to TLC is
liveness.

## 3. Modules

Tables are sequences, so an index of the source plus one; 0 is the `(u32)-1` of "no section". Names,
contents and targets are members of small sets. Each loop body of the C functions is an action, `pc`
names the loop, and the loop's counters are variables under their C names. A process that dies (an
`ASSERT`, which writes to address 0; a division by zero; an access far outside an object) goes to
`pc = "crashed"`. Operators commented as slips are plausible bugs: no specification uses them, they
show what a property would catch.

**HandleTable** has the array, the mark, the streams of the C library, and for each client (a
variable that holds a handle) the handle and, as history, the stream it was opened with. `Open` and
`Refuse` are the two ways `fs__open` ends after a successful `fopen`; a failed one changes nothing.
`fs__close` includes the trimming loop. Clients close only handles they were given. **FilePool**
promises each client a stream of its own, with no table.

**Session** runs the functions of the library over `HandleTable`: combining any inputs and loading
any file, call after call in one process. Its actions are the places where these functions open,
close or forget a handle, with their early returns; two variables, `file` and `in_file`, are enough,
since only the copying of data holds two handles. A cleanup that is given `FS_INVALID_HANDLE` indexes
the table far outside and ends the process; one that is given the handle 0 forgets it. The program in
an artifact opens and closes a file as `examples/wa.c` does.

**Artifact** has the records and the references (input, section), (input, symbol), (section,
relocation) that other modules speak of; **ObjectFile** the part of the converters that is the same
in both, from the sections they build to where the last loop writes.

**Coff** and **Elf** take an object file as records and convert it loop by loop. An auxiliary record
of COFF is what its bytes say when they are read as a symbol. The symbols of a COFF
file are the least set (`IsSymbol`) that has the first record and, with a symbol, the record behind
its auxiliary ones; the loop may see fewer, since an auxiliary record that it takes for a symbol
makes it skip as many records as that one's last byte says. A record that the loop skips keeps the 0
it was cleared to, which is the number of the first symbol (`Skipped`, `SymbolIndex`). The numbers
of sections and symbols in a file exist (`NumbersExist`, and `ELF_File` alike): the source uses them
as they are, and what it would read behind a table is no state of the model. In `Elf` the search for
the section of a relocation table is as the source has it, with the offset that is passed as a
pointer. **Converters** gives an input to the first, and to the second what the first refuses. What
is written of the relocations is a variable of its own in `Coff` (`written`), because the lists are
stored under one index and written under another.

**Convert** is the loop that chooses and names: a path is a sequence of names, dots and slashes, and
a file is what it was made from, so that an overwritten file shows. What a printed path does when it
does not fit is modelled: the next path goes behind the length it would have had. An input that is
not there ends the process (`DieOfMissing`): the first converter closes the handle it has not got.

**Parse** has a file as a set of tables at offsets, which may be cut anywhere. A block is cleared when
it is allocated (`Cleared`) and `fs__read` leaves in it what the file does not reach, so an entry is
the file's, zero, torn or misread; in a block that was not cleared it would be memory nobody wrote.
Blocks of the heap are a set, every allocation may fail.

**Combine** is `barf_combine_to_artifact` from the parsed inputs on. One pass of each loop over the
inputs is a step, one symbol is a step in the symbol loop, with a disjunct for each branch of
`format.c:1037-1145` (`MergeLocal`, `ShareExternal`, `AddExternal`, `RejectDuplicate`,
`PromoteExternal`, `AddGlobal`, `FaultUnplaced`, `SkipUnknown`). A global's search through the
merged symbols is one condition: it ends at the first visible symbol of the name, because names are
unique. An input is an object or cannot be read. `Cleanup` may die where the source frees
uninitialized pointers. **Link** is the promise: in one step, without tables, indices or order, all
artifacts are linked or refused for a reason found in the inputs. `LinkResult` reads the merged
tables back into that language.

**Output** is the writing. The state is the file, a function from offsets to where a byte came from
(an input's byte, a relocation's, a table's), `next_offset` and the two offsets of each section.
`Write` may put its bytes in the file or lose them, since stdio buffers and nothing looks at the
flush. `own` is the input that is the output file too, if one is: its reads find what was written.
Sections without relocations keep the old offset, as in the source.

**Loader** is `barf_load_file` with what it calls in `barf.c` and the Linux branches of the memory
functions. Addresses are numbers, a segment may be mapped at any free base or, as `mmap` does for
size 0 and without memory, not at all; a word holds numbers modulo `2 * Half` and a relocation adds
to what is there. `mprotect` may refuse any segment and the jump table, and the loader goes on
(`unprotected`). `Return` is the return of `ba_entry`. If the segment of `ba_entry` is not executable
the process dies there; later jumps into other segments or a table that were refused are the
program's, which changes nothing the properties speak of. What the loader takes for external is what
it finds in no section, whatever type the symbol has. Only one artifact is loaded, as in the source.

**LinkAndLoad** composes the two: it extends `Combine`, has an instance of `Loader` over variables
of its own, and `LoadFile` gives the loader the merged tables. The file between them is taken to
hold what was merged, which is what `Output` and `Parse` are about; sections above 4096 bytes do not
(see `output_copies`).

**Pages** is the memory calls on both systems over numbered pages. The calls of the systems (where
there is room, which pages a range has) are external definitions; the size each is asked for is the
code's, in words that wrap at `WordLimit`. A change of protection may be refused, of mapped pages too;
`granted` says that it was not. On Windows `VirtualFree` is given a size with
`MEM_RELEASE` and refuses, so pages are never given back there; `NoPageIsLost`, a
part of `PagesAreAccountedFor`, is about Linux.

**Arguments** joins and splits texts character by character and knows which of the two copies of
`parse_input` the artifact has. What would go behind a block ends the model: `overrun` says in which
loop, and nothing is said of what such a write does. **Cli** is the pass over `argv` and the call it
ends in. **Command** goes on from there: the files of a combining call are the inputs of `Convert`,
the words of a loading call the `argv` of `Arguments`; a word is spelled as the sequence of
characters that these two take apart.

**Dump** prints lines as records of what they say; what belongs where is counted (`LinesUpto`), since
a global and a local may share a name. **DumpFile** is `barf -d`: `Dump` reads the object
that `Parse` built, and what the entries say that `Parse` has only moved is chosen at that point, so
that every kind of symbol and every index, in range or not, occurs in files that are whole or cut.

**Strings**, **Strtoul** and **Printf** run one call each over a small memory, text or format, and
**Library** is one call of any of them, the three as instances. A case of `Printf` says what should
be printed, and where in the format, the arguments and that text each piece of the format begins
(`PlacesInOrder`); `CasesAssumption` is that the text is what the pieces ask for one by one, so the
property says that reading the format once, with a buffer of any size, comes to the same.

A composition extends one component and has the others as instances over variables of its own, with
a prefix; what the one hands to the other is a substitution of those instances. The properties of the
instances are put together there under the names its configuration checks.

The properties of a module are small, and a run checks few of them: what belongs together is one
named conjunction (`ReferencesResolve`, `WhatIsWrittenFits`, `PagesAreAccountedFor`, ...), with the
type invariant of the module among its parts (that of `Output` is proved, see section 5). The
comment at the conjunction says what it promises, those at its parts why each is needed.

## 4. What is checked

All passing runs are exhaustive, and each finishes within five minutes with two workers.

| run | instance | states | shows |
|---|---|---|---|
| `handle_table` | 3 slots, 4 clients, 5 streams | 12 491 | handles never alias, a full table has its last slot held, only refusals lose streams, `FilePool` is implemented |
| `combine` | every pair of artifacts of up to 2 symbols, 2 names, 2 sections each; every list of up to 3 of up to 1 symbol, unreadable, of another target, or with a dangling relocation | 621 274 | merged names are unique, mappings sound, locals private, tables within their blocks, symbols stable; `Link` is implemented; what can be linked is |
| `output_layout` | files of 1 to 3 sections: alignments 0, 1, 4, 16; sizes around a buffer of 3; 0 to 2 relocations; short files; an output that is an input | 287 815 | layout disjoint and aligned, small sections and relocations stored, size bounds, ending |
| `output_copies` | the same | | the violation quoted below |
| `loader` | 6469 artifacts of 2 sections and 3 symbols, 3 bases, any change of protection refused | 1 213 258 | `ReferencesResolve`, `SegmentsAreInOrder`, nothing written once protected, `LoadsSucceed` |
| `link_and_load` | every pair of inputs of 2 symbols of which one has `ba_entry`, 5 names, 5 bases | 1 386 532 | the jumps and pointers of the running program against what the inputs say; a complete program runs |
| `converters` | COFF files of 3 sections and 6 records, then ELF files of sections and symbols of every kind | 77 973 | `ReferencesSurvive`, `SectionsSurvive`, `WhatIsWrittenFits`, `ConvertibleFilesConvert` |
| `session` | 3 calls of 1 or 2 inputs of every kind, 6 slots | 11 345 | what calls leave open, that copying reaches both its files and the first call has room, that every call ends |
| `dump` | artifacts whole, cut at every boundary and inside entries, empty, elsewhere, without memory; symbols and indices of every kind | 200 029 | `ParsedIsTheFile`, `DumpShowsTheFile` |
| `command` | command lines of up to 4 words; combining up to 3 of 8 paths, one of no file; up to 3 arguments with blanks, inside their blocks and beyond | 66 362 | `CallsWhatIsMeant`, `EachInputItsArtifact`, `ArgumentsArrive` |
| `pages` | 4 pages of 2 bytes, 2 segments of every size, 2 systems, every call refused or not | 1 348 103 | `PagesAreAccountedFor` |
| `library` | memories of 4 bytes, texts of up to 4 characters, formats of up to 2 pieces | 159 141 | `CallsAnswer`, `EveryCallReturns` |

The instances are small on purpose, and each is large enough for what its properties tell apart.
Aliasing needs two handles and a third whose close trims the table; the fourth client finds it full.
`Session` has six slots, the number `FirstCallHasRoom` (in `CallsGetTheirHandles`) counts for two
inputs, and three calls, of which the third meets a full table. (With the real numbers the bound is
met exactly: 50 inputs that are too short leave two handles each, which is every slot of the 100.) A
symbol's history involves at most a local, an external and a global of one name, and a second name
to be confused with: two artifacts of two symbols have all of those in every order, three artifacts
let an external come before, between and after. In an object file a section left out shifts those
behind it, so three sections of which any may be left out, and six records with auxiliary records
between them, have every case of a shift in front, between and behind. In the output file a section
can only disturb its neighbours, so two sections of every shape and a following file with its own
paddings suffice; the buffer of 3 bytes stands for 4096 and the sizes are 0, below, at and above it.
In the loader the bases are such that the largest distance is one below the bound of the check, and
`Half` is 64 for 2^31; all kinds of sections, and symbols defined, undefined and misplaced, are
combined. `LinkAndLoad` has names that both inputs use, as locals, externals and globals, one of
them also a function of the loader, and as many bases as segments. Pages have two bytes and numbers
three bits, so that every size, its rounding and the overflow of the rounding occur. Files for
`Parse` are cut at every boundary of a table and within an entry. Numbers of five bits let `strtoul`
meet its limit in each base; buffers of `vsnprintf` go from none to one that holds everything.

Deadlock checking is off where the function has returned at the end; `HandleTable` and `Pages`
never stop.

**Liveness and fairness.** `Combine` and `Output` assume `WF_vars(Next)`, and `Library` the same: they
are functions on one thread that the system keeps running, and nothing in them waits. `Loader`
assumes `WF_vars(Step)`, without `Return`: the program that was entered may run for ever, so the
properties stop at `pc = "run"`. `Session` assumes it of the functions' steps and not of calling
them. `LinkAndLoad` assumes it of both functions and that what was combined is loaded, not that the
program returns. `LinkableIsLinked`, `Ends`, `EveryCallReturns`, `CallsEnd`, `LoadsSucceed`
and `CompleteProgramRuns` use it. The other modules have no fairness.

**Where the code does something else.** The run `output_copies` finds the sentence of the docs on
section data (`docs/ba_format.md:52`) violated: `transfer_bytes` advances no offset, so a section
above 4096 bytes is not copied (`format.c:882`); the quotation is under `findings`. More such claims
are stated in the modules, each with the line it is taken from, and are part of no run: put one into
the `INVARIANTS` of the configuration named here and TLC prints the violation.

| claim | in | what the code does |
|---|---|---|
| `AssertionHolds` | `MCCombine` | the ASSERT compares a section index with the number of symbols (`format.c:1137`) |
| `RefusalReturns` | `MCCombine` | an unreadable input leads to frees of uninitialized pointers (`format.c:947`, `1249`) |
| `TotalSizeIsFileSize` | `MCOutput` | `total_size` is larger than the file when the last section is empty and padded (`format.c:1225`) |
| `ProtectionTakesEffect` | `MCLoader` | a refused change of protection is logged, and the program runs (`platform.c:188`, `barf.c:283`) |
| `UnknownExternalsAreRefused` | `MCLoader` | an external symbol with a section index in range is bound to that section, whatever its name (`barf.c:59`) |
| `CheckedJumpsReach` | `MCLoader` | the distance that is checked is not the displacement that is stored (`barf.c:74`, `78`) |
| `WritableIsWritable` | `MCLoader` | writable and executable sections are not writable on Linux (`platform.c:183`) |
| `IgnoredIsIgnored` | `MCLoader` | an ignored section with another flag is relocated though not mapped (`barf.c:48`) |
| `ReturnsFalseIfNotCoff` | `MCConverters` | a file that cannot be opened ends the process, not with "false" (`format.c:514`, also 868 and 113) |
| `AuxiliariesNotCarriedOver` | `MCConverters` | auxiliary records of symbols left out are carried over as symbols (`format.c:397`) |
| `EverySectionItsRelocations` | `MCConverters` | behind a section left out, sections get each other's relocations (`format.c:435`, `492`) |
| `CompiledFilesConvert` | `MCConverters` | files with relocations or a source file symbol, which compilers write, end the process (`format.c:644`, `743`) |
| `UndefinedIsExternal` | `MCConverters` | undefined symbols become globals of no section instead of externals (`format.c:741`) |
| `TablesAreWhereTheHeaderSays` | `MCDumpFile` | the offsets of the header are never used (`format.c:74`) |
| `BadIndexIsReported` | `MCDumpFile` | a symbol of no section is reported once and then indexed with (`format.c:203`) |
| `ConvertedBesideInput` | `MCCommand` | a path without an extension is cut at a dot of its directory (`format.c:918`) |
| `ReadFilesAreNamed` | `MCCommand` | with `-o` and no input an unwritten pointer is read (`main.c:82`) |
| `CombineNamesItsOutput` | `MCCommand` | the documented way to combine names no output (`main.c:93`) |
| `MissingInputIsRefused` | `MCCommand` | an input that is not there ends the process, where "false" was to be returned (`format.c:514`) |
| `AnyArgumentsFit` | `MCCommand` | arguments of 50 bytes, or 50 of them, go past their blocks (`barf.c:299`, `parse_args.h:8`) |
| `FlagsAreApplied` | `MCPages` | what the system refuses stays writable, and the caller is not told (`platform.c:173`, `188`) |
| `SegmentsAreReadable` | `MCPages` | on Windows executable pages cannot be read (`platform.c:165`) |
| `StrcpyEndsItsCopy` | `MCLibrary` | `strcpy` does not write the zero of its source (`libc.c:36`) |
| `ZeroIsANumber` | `MCLibrary` | in base 0, "0" is taken for a prefix, and the end is set back to the start as if nothing were read (`libc.c:135`, `181`) |
| `TooLargeIsTheLargest` | `MCLibrary` | behind a minus, a number that is too large comes out as 1 (`libc.c:184`) |

The properties that the runs check are written next to these facts, not around them:
`ImplementsLink` lets a process die and never lets it answer wrongly, `LinkableIsLinked` says which
deaths sound inputs can meet and that there is an answer at all, `ReferencesSurvive` how far the
wrong lists reach, and `ConvertibleFilesConvert` which files are converted.

## 5. What is proved

TLAPS checks, for every value of the constants under the modules' assumptions:

* `SessionProofs`, first part: `HandlesNeverAlias`, `FullTableHasLastSlotHeld`, `LossOnlyWhenFull`, and
  `TableImplementsPool`, the refinement to `FilePool`. Assumed: the table has a slot, `NULL` is no
  stream. The inductive invariant `IInv` adds to the properties that every slot above the mark is
  empty, that the slot below it is not, that held handles are below it, and that slots and holders
  correspond. The slots below the mark need the trimming loop's result, which `TrimmedProperties`
  derives from the least length with nothing above it.
* `CombineProofs`, first part: `Typed`, `NamesAreUnique`, `MappingSound`, `LocalsPrivate`,
  `SymbolsStable`, `CapacitiesSuffice`. Assumed: the inputs are lists of artifacts, damaged ones
  included, and strings have at least one byte. `IInv` is the type invariant, empty tables before
  the loops that fill them, and the three properties together: a promotion keeps `MappingIsSound`
  only because names are unique and the symbols mapped to a promoted external are externals.
  `CapacitiesSuffice` is about inputs whose symbols have a string each (`StringsOfTheirOwn`), as all
  have that the converters or the combiner wrote; nothing in the format asks for it, and symbols
  that share a string would take it twice. Its invariant `FitInv` has the sums as running totals
  over the inputs (`IsTotal`), which need no recursion: the loops have used no more than the total
  up to the input they are at (`Room`), and every total is at most the last.
* `OutputProofs`: `LayoutIsDisjoint`, `LayoutIsAligned`, `SmallSectionsCopied`, `RelocationsStored`,
  `TotalSizeBounds`. Assumed: sizes and offsets are naturals and the buffer is not empty; nothing is
  assumed of the sections. `IInv` adds `Layout` (everything placed lies behind the tables and below
  the next free offset, relocations behind their data), `OutputEnds` (nothing has been written past
  it) and `Transferring` (what a chunk leaves to do). That later writes spoil nothing follows from
  `Layout`: they start at or behind the next free offset, or end in front of the first section.

* `CombineProofs`, second part: `ImplementsLink`, that `Combine` implements `Link`. The invariant `LInv`
  adds to `IInv` what the state is in the language of the inputs: which sections have been copied and
  that they are distinct (`CopiedHaveData`, `CopiedAreDistinct`, `MergedAreMapped`), that definitions
  are placed, where each visible symbol comes from (`DefinedArePlaced`, `GlobalsHaveOrigin`,
  `GlobalsAreOwn`), which relocations have been rewritten (`RelocatedAreRenumbered`), and that what was
  refused was refused for a reason in the inputs (`RefusedAreNotLinkable`). At the end `LinkResult`,
  which reads the tables back, is then the one result that `Link` allows.
* `LoaderProofs`: `SegmentsAreInOrder`, `ReferencesResolve`, `WrittenWhileWritable`. Assumed:
  artifacts are those of `LoadableArtifact`, no base is `NULL`, offsets are naturals, and the
  loader's functions are a sequence of names. `IInv` says of every loop what it has done up to its
  counter (`UnmappedSoFar`, `BoundAreResolved`, `BoundHoldDistance`, `PointersHoldAddress`,
  `ProtectionFollows`) and what it must not have touched (`UnmappedIsEmpty`, `IgnoredIsUnmapped`,
  `WaitingHoldContent`). Nothing is assumed of what the system refuses: a segment then keeps the
  protection of its mapping (`Final`), only segments that the third loop has passed can be refused
  (`UnprotectedSoFar`), and the program is in one that can be executed (`RunsExecutable`). That a
  word stays as it was relocated is stated, as in `ReferencesResolve`, for a relocation or a pointer
  that shares its place with no other (`OwnsSite`, `OwnsPointer`).
* `CombineProofs`, about `LinkAndLoad`: `JumpsGoWhereInputsMeant` and `PointersGoWhereInputsMeant`,
  for any inputs and wherever the segments are mapped: the theorem that crosses from the inputs of
  the combiner to the words of the program that runs. Assumed: what the first part and
  `LoaderProofs` do, of the constants they share. Nothing is proved twice: the loader of the
  composition is an instance of the one of `LoaderProofs` (`LoadersAgree`), and the invariant of
  that one starts to hold when `LoadFile` hands over tables that are an artifact
  (`WrittenIsLoadable`). New are the facts about the tables that `ImplementsLink` does not need and
  a loader does: sections are merged in the order of the inputs, nothing is in the tables that no
  input has, and a merged relocation has its input's offset (`FileInv`, and `AllMerged` for what all
  of it comes to at the end).
* `ConvertersProofs`: `ReferencesSurvive`, `SectionsSurvive`, `ConvertibleFilesConvert`,
  `WhatIsWrittenFits`, and the types of both converters. Assumed: files are of `COFF_File` and
  `ELF_File`, so their numbers exist, and a name has a byte. `CoffInv` says what each loop has done:
  section numbers keep their order and are the old ones in front of all that is left out
  (`SectionsMapped`), a record carried over is the symbol of its index (`SymbolsMapped`), and a list
  is what was counted (`RelocationsStored`). `NoneSkipped` is the reason why a file whose auxiliary
  records ask for none has all its symbols carried over or left out on purpose: the loop then is
  always at a symbol, or at an auxiliary record of one that was left out. It needs that two symbols
  never lie in each other's auxiliary records, which follows from `IsSymbol` being the least such
  set (`SymbolsApart`: those that lie apart are such a set too). `ElfInv` is the same for ELF, where
  nothing is skipped. What is written is compared with sums over the file (`SizeOfNames`, `SizeOf`)
  and with places that follow from each other (`Places`), both defined by recursion. The module
  proves what these are by induction in the form "a set that has 0 and with each number the next has
  all of them" (`Induction`, from the least number that is not in it): a sum exists and can be taken
  in any order (`SumWithout`, `SumMonotone`), and each place comes after the one before
  (`PlacesFollow`). The invariants are then about the loops again: `StringsCounted` for COFF, where
  the loop may skip records but never counts one twice, and `NamesCopied` for ELF, where the strings
  copied are as many bytes as the names cover in the string table.
* `ParseProofs`: `ParsedIsTheFile`, `DumpShowsTheFile`, and that `DumpFile` implements `Parse`
  (`DumpFileParses`), which is why a theorem about the parser alone holds of `barf -d`. Assumed of
  files only what a file is (`FilesAssumption`): numbers that exist, entries that have been written.
  `ParserInvariant` says for each `pc` what would have to be given back (`HeldSoFar`; a refusal
  comes only while that is the object, which is why `Cleanup` need not free the tables) and that
  each table is absent or what the file has in its place, with the offset of the next one
  (`ReadSoFar`). At the end these are the tables one behind the other, of any file (`TablesInARow`):
  a block was zero when it was read into, so what is in it stands in the file or is zero behind its
  end (`ReadIsStanding`). For a file of the writers what stands there is what was written:
  `EntryIsThere` and `TableIsRead` say that it is the table the writers wrote if that is whole and
  no other of its kind shares an entry, and of relocations this follows from their tables' being
  apart (`TablesDoNotOverlap`). Nothing is assumed of what entries say. For the dump, `LinesAddUp`
  is the place of each section's line, and `DumpSoFar` says for each loop how many lines there are
  and that everything the loops have passed stands at its place; lines are only appended, so it
  stays there (`PrintedStays`). That the dump got past a symbol's own line means its section exists,
  which is why the two lines about a global agree at the end, and not before.
* `RuntimeProofs`, first part: `PagesAreAccountedFor`. Assumed: there are finitely many pages, a
  page has a byte, the limit of a word is a multiple of it, and the sizes are below that limit. The
  invariant is the property with its parts, `SegmentsAreLocated`, `SegmentsAreProtected`,
  `SegmentsAreApart` and `NoPageIsLost`, and that only a segment with flags can have had them
  granted (`SegmentsAreAsked`); which changes the system grants is left open; the work is in the
  rounding (`SizeAskedMeans`): a size that was rounded up to a whole page and did not wrap covers
  the segment and less than a page more.
* `RuntimeProofs`, second part: `CallsAnswer`, that is what the functions do, without the three
  claims of section 4 that they do not keep. Assumed: the memory has a byte and 0 is one, no base is
  1 and the zero is no digit, the unsigned numbers go beyond 1, the buffer lies in a memory larger
  than it, and each format comes with arguments it asks for and the text its pieces ask for. There
  is an invariant for each function: what a comparison or a search has passed (`Compared`,
  `Searched`), what a copy has written so far (`Copying`: a `strcpy` to a place inside its own
  source fills it with bytes that are not zero and never gets to an end), what the digits behind the
  prefix are worth (`Counted`, with `Worths` and `WorthRecurs` for the recursive function `Worth`;
  that `cutoff` and `cutlim` notice the first digit too many, and that what follows stays too large,
  is `Cutoff`), and that the reader of a format is at one of the places with the buffer filled up to
  it (`PrintInv`, `Filled`). How `Text` spells a number is not part of the theorem: the pieces ask
  for what `Text` says, and that this is the text one expects is checked by TLC, which compares it
  with texts written out. The proof found one thing: that an "x" is never passed over where the base
  is not 0 or 16 does not hold as such, since from base 34 on it is a digit;
  `PrefixOnlyWhereAllowed` says so now.
* `SessionProofs`, second part: `LeftOpenAreShortOrFirst` and `CallsGetTheirHandles`. Assumed: the
  two clients, a combination has room for an input, streams are numbers. The invariant `SInv` is the
  discipline of a stack, which no function states: the slots in use are those below the mark
  (`SlotsFilled`), what is held lies on top of them (`HeldOnTop`), what lies below (`Below`) has
  been left by a conversion of a file that was too short or by a cleanup that was given the handle 0
  (`LeftAreCounted`, `ShortsAreCounted`), and as long as the first call goes on there are as many as
  its inputs passed (`FirstLeavesFew`).
* `CommandProofs`: `CallsWhatIsMeant`, `EachInputItsArtifact` and `ArgumentsArrive`. Assumed: words
  are strings and are spelled in some way, and each file there is, is an object file or an artifact
  made of itself. Which arguments follow a "-o" depends on every argument before them
  (`IsOutputFile` is defined by recursion; that it exists is `RecursionExists`). `CommandLineInv`
  relates the loop's position to what the words mean as a whole: it is never at an output file
  (`AtArgument`), and what has been taken is what is named in front of it, each in the place of its
  rank (`FilesSoFar`). `ConvertInv` is the loop over the inputs: the block holds the sum of the
  marked paths so far, which is at most that of all, so no path is cut if all fit; if the process
  has ended, the input the loop is at was not there from the start; and if the inputs stay apart,
  what was made for an earlier one is written over by no later one (`ArtifactsSoFar`), since marked
  paths are as different as what is in front of their last dots (`MarkedDiffer`). `JoinInv` is the
  two loops over the arguments: every word stands at its place in the joined text with a blank
  behind it (`WordsJoined`, `Start`), no blank lies between where an argument may start and where
  the second loop is (`AtWord`), so the loop cuts where a word ends and has found the first so many
  words (`WordsSplit`). Both loops are inside their blocks until they leave them (`InBlocks`), and
  then the arguments were too long or too many (`OverrunIsTooMuch`). Of other arguments the
  characters that are no blanks are the same in what has been found and in the text up to where it
  is cut (`InkSoFar`); sums and inks along a list are recursive functions of which the lemmas
  `BytesAdd`, `InkIs` and `InksAre` say each next value.

Only model-checked: all liveness, which the prover does not do.

## 6. What is not modelled

* Of `elf.h`, a copy of the C library's header, only the constants and records the ELF converter
  reads: it has most of the lines of the source that the map does not cover.
* The header of an artifact other than by what is read from it; the byte order and packing of
  records. Layouts are in bytes where offsets matter (`Output`, `Parse`, `ObjectFile`).
* `main.c:71` offers a conversion from BARF to ELF; there is no such code.
* Failing allocations outside the parser: the source tests none of them, and the access through
  `NULL` ends the process.
* Counts and offsets are naturals, except the words of `Loader`, `Pages`, `Strtoul` and `Printf`. The
  overflow of the `int` estimates at `format.c:939-941` needs gigabytes of strings, and so does that
  of the length that `vsnprintf` returns.
* An artifact of `barf` itself, which `build.py` has commented out. It would have the `vsnprintf` of
  `libc.c`, which prints the `%.*s` of `format.c:922` as it is (a piece of `MCLibrary`): every input
  would be converted to a file of the same name.
* The floating point functions of `libm.c`; the declarations of `stdlib.h`.
* Execution domains (`ed__*`) are stubs in the source. The log, the build and test scripts and the
  examples, but for what `Session` and `Arguments` take from `wa.c`, keep no state.
