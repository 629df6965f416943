# Verification of FnFinder

FnFinder (`src/`) is given an AArch64 ELF file and recovers the functions in it:
where each starts, where it ends, its last instruction, its name. It is one
sequential program. What makes it hard to get right is not concurrency but
loops over code nobody controls: traversals that must find all that is
reachable and still end, intervals that must not overlap, sources that
contradict each other, and limits that cut a walk short.

This directory holds TLA+ models of those parts, model-checked with TLC on
small images, and proofs of their main properties for every image with TLAPS.
A second group of models covers what the images are made from: the ELF tables,
the unwind table, what Capstone says of an instruction, and mangled names.

## The system

The paths below are under `src/src/`; nothing there runs concurrently and
nothing is persisted. `main.cc` parses the file, runs the pipeline once and
prints the report.

| Component | State it keeps | Operations | Used by |
| --- | --- | --- | --- |
| `elf/elf_parser` | the bytes of the file and the image it fills | `parseFile`, `parseBytes` | `main` |
| `elf/elf_image` | bytes, sections, segments, symbols | `dataAt`, `findSection`, `symbols` | everything |
| `analysis/code_map` | the sorted executable regions | `regionContaining`, `contains`, `at` | all analyses |
| `disasm/` Capstone wrapper | a Capstone handle | `decode`, with `classify` and `branchTarget` | cache, traversal |
| `control_flow/code_patterns`, `instruction.h`, `decoded_instruction.h` | none | is a word padding, a hard stop; does an instruction fall through, end a block | builder, extents |
| `control_flow/instruction_cache` | address -> decoded instruction or failure | `at` | builder, extents |
| `control_flow/cfg_builder` | worklist, visited set, extent of one walk | `build` | extents |
| `control_flow/function_extent_analyzer` | candidates, emitted bounds, gap cursor | `analyze` | pipeline |
| `analysis/recursive_disassembler` | worklist, scheduled set, instructions, starts | `discover` | pipeline |
| `analysis/eh_frame_parser` | cursor in the unwind table | `parse` | pipeline |
| `symbol/name_resolver` | best name and rank per address | constructor, `nameFor`, `hasSymbol` | pipeline |
| `symbol/itanium_demangler` | cursor and substitutions in one name | `demangle` | names |
| `analysis/function_analyzer` | starts, strong starts, sizes, the report | `analyze` | `main` |
| `app/`, `main.cc`, `common/` | options, log level, readers | printing, logging, byte reads | |

How they interact: `FunctionAnalyzer::analyze` builds the code map, resolves
names, gathers *strong* entries (symbols, entry point, unwind table) and sizes,
runs the recursive traversal from them to get *soft* entries, and gives both to
the extent analyser. That one walks the entries in address order, asks the
graph builder for the extent of those without a size, then searches the gaps
between the functions with the same builder and the same instruction cache, and
filters the result. The pipeline then names each function and looks up its last
instruction in what the traversal decoded.

What is hard, and which property of the models is about it:

- *A walk that ends and misses nothing.* Cycles, several edges into one address,
  targets that are outside, unaligned, undecodable or someone else's entry, a
  cap that stops the walk anywhere: `CoversReachableCode`, `FindsReachableCode`,
  `WorklistIsFresh`, `AnalyzeReturns`, `DiscoverReturns`.
- *A memo table shared by hundreds of walks*, which also remembers failures:
  `CacheIsCoherent`.
- *Intervals.* Entries that nest, meet or jump over each other, sizes that
  overrun a neighbour or a region, extents of empty graphs, words that stick
  out of a region: `ExtentIsTight`, `FunctionsAreDisjoint`, `NothingIsDropped`,
  `EntriesAreCovered`, `StrongEntriesAreKept`.
- *Entries that stop a walk and are judged later*: `FunctionsEndForAReason`.
- *The search of gaps*, four loops deep, whose cursor moves by different
  amounts and wraps at the top of the address space: `GapFunctionsAreNew`,
  `GapsAreExhausted`, `AnalyzeReturns`.
- *Sources that disagree*, and options that switch them off: `FirstSizeIsKept`,
  `NamesAreBest`, `EntriesAreReported`.
- *Headers and tables of any value*: ranges that wrap, nest, hide each other or
  reach past the file (`RegionsAreBacked`, `RegionsAreTheCode`,
  `RegionsAreInOrder`); unwind tables that are cut short, damaged, or encoded
  differently entry by entry (`FindsEveryRange`, `ParseReturns`); symbols that a
  stripped file has to count along its hash chains (`FindsEverySymbol`,
  `CutFilesLoseOnlyTheEnd`), in tables read at places worked out from their own
  numbers, where a read too far would lose the whole file (`ReadsStayInBounds`).
- *Agreement with what is outside*: flows read off the decoder's groups and
  mnemonics must be those of the processor (`GraphsFollowTheProcessor`); names
  abbreviate themselves with numbered substitutions, and one number missed
  shifts all that follow (`NamesAreReadable`).
- *Derived data*: the last instruction (`LastEndsTheFunction`), and basic blocks
  cut from a set of addresses after the walk (`BlocksPartitionTheCode`,
  `BlocksAreBasic`, `EveryBlockIsReached`). The blocks are part of what `build`
  offers; the program itself never asks for them (`buildBasicBlocks` is off in
  every request it makes), so these three say what a user of the builder may
  rely on and nothing of the report.

`PROJECT.json` lists these hazards at their lines, with those no property
covers yet.

## The modules

| Module | Models | Correspondence |
| --- | --- | --- |
| `CodeMap` | code map, code patterns, instruction predicates | `regions` is `regions_`; `words` gives each aligned address its pattern (zero, nop, other), whether it decodes, and its flow and target |
| `InstructionCache` | `InstructionCache::at` | `cache` is `cache_`, `decoded` is `decoded_`; `CacheAt` is the effect of `at`, `Lookup` its answer |
| `Reachability` | abstract | a question (graph, roots, limit) and its answer |
| `CfgBuilder` | `CfgBuilder::build`, `buildBlocks` | the local variables of `build`; one action per path through a turn of the loop (`SkipHardStop`, `SkipUndecodable`, `Cover`), `Build` for the call, `Return` for the end |
| `FunctionExtentAnalyzer` | `FunctionExtentAnalyzer::analyze` | `pc` says which loop runs; one action per path through a turn; while a graph is being built the steps are those of `CfgBuilder` |
| `RecursiveDisassembler` | `RecursiveDisassembler::discover` | one action per seed and per turn |
| `NameResolver` | the constructor and queries of `NameResolver`, the predicates of `ElfSymbol` | `ReadName` is one turn of the constructor's loop |
| `FunctionAnalyzer` | `FunctionAnalyzer::analyze` | `stage` is the place in the pipeline; it EXTENDS the extent analyser and INSTANCEs the traversal and the resolver, and takes their steps |
| `ByteReader` | the moving reads of `ByteReader` | `FieldEnd` is the position after a read, past the buffer if it throws; `Value` is what it reads |
| `ElfImage` | `dataAt`, `findSection` | `DataAt` is the offset in the file and the bytes available, `NoData` a null pointer |
| `CodeMapBuilder` | the constructor of `CodeMap` | one action per turn of its two loops, then `Sort`; a region's `data` is the offset `from` |
| `EhFrameParser` | `EhFrameParser` | one action per field of a CIE and letter of its augmentation, one per FDE; each read that throws is a `Damaged...` action |
| `ElfParser` | `ElfParser` | `pc` is the place in `parseBytes`; one action per header, per entry of a table, per bucket and per step along a hash chain; a read that fails is a `Damaged` or `...Cut` action |
| `InstructionClassifier` | `classify`, `branchTarget`, the mnemonic predicates | operators over Capstone's record of an instruction |
| `AArch64Code` | external: the processor's control transfers, and what Capstone reports of each | a table; `FlowOf` is where control goes |
| `ItaniumDemangler` | `ItaniumDemangler` | recursive operators, one per production; each takes the cursor and the substitutions and gives them back with the text, or fails |
| `ItaniumAbi` | external: how a compiler mangles a declaration, and how the declaration is written | recursive operators over declarations |
| `SymbolNames` | `NameResolver` with the demangler behind it | INSTANCEs the resolver |
| `CfgBuilderProofs`, `CodeMapBuilderProofs`, `ElfParserProofs`, `EhFrameParserProofs`, `FunctionExtentAnalyzerProofs`, `RecursiveDisassemblerProofs`, `NameResolverProofs`, `FunctionAnalyzerProofs` | | theorems |
| `SampleCode`, `MC*` | | images and bounds for TLC |

`CfgBuilder` EXTENDS `InstructionCache`, which EXTENDS `CodeMap`;
`FunctionExtentAnalyzer` EXTENDS `CfgBuilder`. The composition is therefore the
code's: the gap search asks the very cache the builder fills. `CodeMapBuilder`
and `EhFrameParser` EXTEND `ElfImage`, which EXTENDS `ByteReader`: both look
their bytes up with the same `DataAt`, and `ElfParser` with an instance of it
over the segments it has read. What a section can be called (`Names`) is a
constant there: two names at most in the runs, any sequence of bytes to `ElfParser`. `AArch64Code` puts `InstructionClassifier` before
`CfgBuilder`, and `SymbolNames` puts `ItaniumDemangler` behind `NameResolver`:
each composes two ends that the code keeps far apart.

### What is abstracted, and from what

- An *image* is an input: any sorted list of disjoint, non-empty regions and any
  word at every aligned address. Regions may start unaligned, end inside a word
  and touch. The assumptions on it are named in `CodeMap`: `SortedRegions` is
  what the constructor leaves behind and `DisjointRegions` what it leaves behind
  of a linked file, one whose loaded ranges do not overlap (`RegionsAreInOrder`
  in the run `regions`).
- The top of the address space is *not* assumed away. Sums of the extent analyser
  wrap in the model as they do in 64 bits (`WordAfter`, `AlignUp`), and `addRegion`
  accepts a region anywhere. `BelowTop` (no region reaches the last two words) is
  therefore a condition of results, not of images: the images of the passing runs
  `extents` and `pipeline` meet it, each theorem that needs it has it as its
  hypothesis, and the run `readme_top` shows that without it the analysis need not
  return.
- An *instruction* is any flow with or without any target, 4 bytes long. That
  is more than the AArch64 decoder yields: the proofs need no less. What it does
  yield is `AArch64Code`: for each control transfer its mnemonic, operands and the
  groups Capstone puts it into, read off by `Classify`. The groups are those of the
  tables of the vendored Capstone, its lookup of them is `Groups`; where control
  goes is external. A mnemonic stands for its variants (one condition, one key).
- Vectors that the code sorts before it reads them are sets read in order, so a
  model leaves open what `std::sort` leaves open.
- `AddressLimit` is 2^64 in the code and any multiple of 4 in the proofs.
- Names are model values, a reported one saying whether it is synthetic, raw or
  demangled and from what, but in `SymbolNames`: there a mangled name is a
  sequence of tokens (a source name with its length, or an operator's code, is
  one) and what is shown is a sequence of words. Where the demangler puts blanks
  is not kept, and only some of the builtin types and operators are there. A
  production the demangler does not know (local names, expressions, vtables)
  fails in the model as it does in the code. The ABI is written from its own
  rules, not from the demangler's.
- In `FunctionAnalyzer` the result of `EhFrameParser::parse` is an input: any
  sequence of ranges of positive size, which is all that `TypeOK` of
  `EhFrameParser` says of it (`TypeCorrect`, for any bytes).
- To `CodeMapBuilder` and `EhFrameParser` a file is its bytes, sections and
  segments; `ElfParser` refuses no address, offset or size, so these are any words.
  To `ElfParser` a file is its bytes; its structures are those of the ELF
  headers, field for field, with the widths below. The
  width of a word is the constant `Widths`: 2, 4 and 8 bytes in the code, 1, 1 and
  2 (or 1) in the runs, so that sums wrap within reach. The lookup of bytes and
  the pointer encodings are byte for byte. The position of a reader does not wrap:
  it never passes the table, which is part of `TypeOK`.
- Logging is left out, except the counts `NothingIsDropped` and
  `EntriesAreCovered` are about.

## The runs

Every image of the runs from `graphs` to `pipeline` is all code of that many
words over a small alphabet of instructions; each alphabet has what the run is
about (branches forward and back, calls, returns, indirect branches, data, zero
words, nops, unaligned targets). The address space ends at 28 or 32, so there is
room for the code, for a region next to it, for a target outside and for the top
of the address space. Four or five words are enough for every pair of control
transfers to nest, cross or chase each other around a third instruction.

| Run | Checks | Bounds |
| --- | --- | --- |
| `graphs` | A graph covers exactly what its request can reach, in a tight extent, in basic blocks that partition it, and that is what the processor can run; the cache stays coherent; `CoversReachableCode` is the refinement of `Reachability` | 4 words in 2 region layouts, 3 words with loops, in an unaligned region or two that meet; 4 requests in any order, as often as wanted: uncapped, with boundaries (the entry among them) and an upper bound inside a word, capped at 2, unaligned |
| `extents` | Disjoint functions, none dropped by the last filter, no entry lost, strong entries kept; gap functions take new code only and leave none to speak of; the analysis returns, and with it every graph it asks for | 4 words in one region, aligned at the start of memory or behind it, 5 words in two regions that touch inside a word, the second as high as `BelowTop` allows; entries that meet, nest, are both strong and soft, are unusable; sizes that end inside a word, overrun an entry, overrun the region; gap search on and off, cap 2; 236,619 states |
| `traversal` | The traversal refines `Reachability`; starts are exactly seeds and callees; it returns (its `TypeOK` is left to the proof) | 4 words, 4 seed sets, caps 2 and 9 |
| `pipeline` | No entry lost, first size kept, no function that stops in the middle of code, a possible last instruction, the report is made | 3 or 4 words, with calls into code that others run into; 4 sets of symbols, entry point and unwind entries, 3 option sets; an image without code; 245,892 states |
| `names` | The best bound name, the first of equals; shown as it was declared | all tables of up to 3 of 28 symbols: with 3 a better one can come before, between or after two equals; several thousand declarations of functions, members, constructors, operators and member templates with up to 3 parameters, whose types nest two deep and share parts with the name and with one another; pointers 14 deep where the parser gives up at 12; 102,739 states |
| `symbols` | All symbols of a whole file, with and without section headers; of a cut file those the cut left, in order, and no other; of a damaged one no number is read that is not there; the parser returns | files of two symbol tables in four orders of their parts, with either, both or no hash table, chains in one bucket, two, none, or without an end, padded entries, an escaped number of sections; each cut at every byte; two of them with every byte set to 3 values; `kMaxSymbols` 5, 43152 states |
| `regions` | Regions stay in the file whatever the headers say; of a linked file they are its code, each address with its own byte, sorted and disjoint | a file of 8 bytes in an address space of 256; up to 2 sections and 2 segments out of 27 and 12, which nest, meet, overlap, are empty, have no bytes, reach past the file or wrap; 1983 files |
| `unwind` | The parser finds just the ranges that were written, in order, or those before the damage; it returns | tables of two CIEs with two FDEs each, interleaved, in all pairs of 7 encodings and augmentations and both forms of length; two of them cut at every byte and with every byte set to 3 values, one also cut inside each entry with a length that agrees; one whose augmentation length wraps; found by section, header section or header segment; 583 files |
| `readme_last` | `src/README.md` on LAST, which the code does not keep | one function of 12 bytes |
| `readme_no_symbols` | `src/README.md` on `--no-symbols`, which the code does not keep | the same |
| `readme_names` | `src/README.md` on C++ names, which the code does not keep | declarations with class templates and function templates outside any namespace, functions directly in `std`, template parameters, constructors and destructors of abbreviated classes, constructor templates |
| `readme_top` | `src/README.md` on recovering the functions of any target, which the code does not do | a region of 3 words, padding and data, that ends at the top of the address space; 107 states |

A finished program stops, so deadlock is checked only in the runs of
`CfgBuilder`, whose callers may always call again.

Each property of a passing run has a mutant in `PROJECT.json`: a definition of
the model replaced by one with a plausible bug (operators commented "Mutant
of"), with which TLC finds the property violated.

**Fairness.** Each component is one sequential call. The fair specifications
assume weak fairness of the steps *inside* a call only: a program that is
running keeps running. Nothing makes a caller call. `EhFrameParser` and
`ElfParser` each model one call, so all their steps are fair.

### Four disagreements with the documentation

- `LastIsAnInstruction`: `src/README.md:50` says LAST is the address of the last
  instruction. When the traversal met no instruction ending where the function
  ends, `lastInstructionOf` (`function_analyzer.cc:114`) answers `end - 4`
  whatever is there: a literal pool or padding counted in a symbol's size. What
  the code does keep is `LastEndsTheFunction`.
- `NoSymbolsIgnoresSymbols`: `src/README.md:31` says that `--no-symbols` ignores
  function symbols. They are no longer entries, but the resolver is built from
  all of them (`function_analyzer.cc:34`) and functions found otherwise still
  get their names and `has_symbol`.
- `AnalyzeReturns`: `src/README.md:5-6` says of a target that its functions are
  recovered. Of one with a region in the last two words of the address space they
  are not: `cursor + 4` (`function_extent_analyzer.cc:163`) comes round to 0, the
  search of that gap starts again at address 0 and walks up to the region through
  unmapped words, for ever. `addRegion` (`code_map.cc:49-58`) keeps no region out.
- `NamesAreTrue`: `src/README.md` says that C++ names are demangled. The demangler
  numbers substitutions its own way in three places. It does not record the name
  of a class template outside any namespace, so `_Z1f4PairI3FooES0_S0_`, which is
  `f(Pair<Foo>, Foo, Foo)`, is shown as `f(Pair<Foo>, Pair<Foo>, Pair<Foo>)`. It
  records a function that is directly in `std`, so `_ZSt1f3FooS_` is shown as
  `std::f(Foo, std::f)` where the second parameter is `Foo`. It
  does not number a template parameter when what it stands for has a number
  already, and after a class template it takes that one's arguments for the
  function's, so `_ZN1N1fI3FooEEvSt6vectorIiET_` is shown as
  `N::f<Foo>(std::vector<int>, int)` where the last parameter is `Foo`.
  Two kinds of constructor go wrong as well. One of an abbreviated class takes
  its name from the whole text of the abbreviation (`itanium_demangler.cc:292-293`):
  `_ZNSaIcEC1Ev` is shown as `std::allocator<char>::std::allocator()`. And after a
  constructor template the first parameter is read for a result, which constructors
  have none of (line 172), and dropped: `_ZN1N1AC1IiEET_`, which is
  `N::A::A<int>(int)`, is shown as `N::A::A<int>()`.
  `NamesAreReadable` says of which declarations the names are right: `IsFollowed`
  leaves out just these.

`src/README.md:49` also calls END "the start of the next function"; with padding
between functions it is not, as the example above that line shows.

## The proofs

All theorems hold for every value of the constants: any address space, image,
request, seed set, cap or symbol table, under the named assumptions of the
modules (`AddressLimitAssumption`, `ImagesAssumption`, `RequestsAssumption`,
`SeedsAssumption`, `SymbolsAssumption`, `FilesAssumption`, `WidthsAssumption`,
`WordLimitAssumption`, `InputsAssumption`, `PipelineAssumption`), which TLC evaluates in the runs.
The last one includes that no name a symbol can have is the value that stands for
"no name". Theorems about where the functions of the extent analyser lie are of
the form `Spec /\ BelowTop(regions) => []Inv`: they are about behaviours whose
image, which never changes, has no region at the top of the address space. What
does not depend on the sums (types, graphs, the traversal, names) is stated and
proved without that hypothesis.

**`CfgBuilderProofs`.** The inductive invariant `IInv` adds to `TypeOK`:

- `WalkInv`: what is enqueued is visited, on the worklist, or was found not
  coverable; the worklist has no duplicates and nothing visited; all that a
  visited instruction leads to is enqueued; the entry is enqueued if it can be;
  and nothing is visited that a closed set containing the entry can do without.
- `SizeInv`: the visited set is finite and within the cap.
- `EndInv`: the extent is the greatest end of a visited instruction.
- `CacheInv`: the cache agrees with the disassembler.

None of the stated properties is inductive alone: that a graph which is not
truncated is complete needs to know, when the worklist runs empty, that every
enqueued address was dealt with. From `IInv` follow `TypeOK`, `WorklistIsFresh`,
`ExtentIsTight`, `CacheIsCoherent`, `RegionLookupIsExact`, and step by step the
refinement: `BuilderImplementsReachability`, i.e. the answer is a closed set
that every closed set contains, or as many elements of it as the cap allows.
"Reachable" is stated as membership of every closed set, so the proof needs no
induction over paths. `StepAnswers` is the step of that refinement on its own: the
analyser and the pipeline, which take the builder's steps, cite it. `OutcomeInv` adds
what the callers conclude from the other results of `build`: a walk that covered a
return says so, and one that is over has run out of work or reached its cap.

The rest of the module is about what a finished graph says. First its blocks: a block
runs from a start to the first covered address that the next does not continue,
so its facts are facts about a set of aligned addresses cut at some of them:
each address lies in just one run (`RunHolds`, `RunIsWhole`). Where one would
walk along a run by induction, the proof takes the least address that breaks the
claim (`HasLeast`). To the invariant it adds `BlocksInv`, the blocks stated in
terms of the words of the image and not of the cache, and `OriginInv`: what was
scheduled, but for the entry, is what a covered instruction leads to. Without
that one nothing says why a block that no edge enters should not exist. From it
follow `BlocksPartitionTheCode`, `BlocksAreBasic` and `EveryBlockIsReached`.

Then its instructions: `GraphsStayTrue` joins the walk to the table of
`AArch64Code`. For each row of the table the lemmas say which operand `classify`
takes for the target (`OperandFacts`) and which flow it answers (`TargetlessFacts`,
`TargetedFacts`); `DecodingFacts` carries that over to any word that such an
instruction explains. `ProcessorIsFollowed` is then a fact about one instruction
(where the processor goes, the builder goes), `OnlyProcessorIsFollowed` its
converse, and `IInv` and `OriginInv` make them facts about the graph. That a graph
which is not truncated is complete needs `EmptiedInv`.

**`FunctionExtentAnalyzerProofs`** proves every invariant of the analyser. Its first
part holds of every image: `TypeInv` (the types of the variables, the cursor
aligned while a gap is carved, the region being searched one of the image's) is
inductive whatever the sums come round to, and with it `IInv` of the graph builder
that runs inside: each graph is asked for as the builder requires. From these
follow `AnalyzerTypeCorrect` and `GraphsOfTheAnalysisAnswer`, which is the
refinement of `CfgBuilder` once more, with the analyser as caller: every graph of
the analysis answers the question of its request, one request after the other.

The other invariants need `BelowTop(regions)`, and are false without it: a cursor
that has come round to 0 finds functions of other gaps a second time. None is
inductive; they share one invariant, `AInv`, on top of `IInv` and `TypeInv`:

- `EmittedInv`: the functions found lie behind the entries that are left, do not
  overlap, and `coverEnd` is the end of one of them (otherwise a demoted entry
  might lie in none). `SizesInv`: a function has the size it was given, or no
  strong entry inside. `CoveredInv`: a usable entry is left or in a function.
- `CountInv`: the counters are the cardinalities of those sets, in every phase.
- `RegionInv`, `FrontierInv` and `CarveInv`: the functions of the region are
  split by `pos`; the gap being carved is a hole between functions and lies
  before `pos`; what was found in gaps lies before the cursor, or before `pos`
  between two gaps. This makes a gap function disjoint from all others without
  the filter, which therefore drops nothing.
- `FilterInv`: what is left to filter lies behind what the result holds, and
  together they are all that was found.

That a graph inside a gap does not leave the gap is a fact about the builder
(`ExtentIsTight` with the request's upper bound), so the two invariants are
proved together.

`AInv` says where functions are; `GapsAreExhausted` is about where none is, and
needs a second invariant on top, `SettlingInv`. Its heart is `PassedInv`: every
word the loops have gone past lies in a function or is dull (padding, data, or one
instruction that neither returns nor leads on), but for the rest of the gap being
carved. The step that carries it is the rejection of a graph as too small to be a
function. With fewer than two instructions and no return, the walk has covered at
most its entry; as it was not cut short by its cap (`OutcomeInv`) and what it
leads on to would have been covered within the bounds it was given (`RequestInv`,
`GapInv`), the entry is dull. `StartsInv` (functions of the first pass start at
entries) makes the bounds of a gap boundaries of the walk.

**`RecursiveDisassemblerProofs`** follows the same argument for the traversal,
with the seeds as roots, and adds that the starts are exactly the seeds and
callees (`StartsAreExact`), which must be tracked seed by seed and turn by turn.

**`FunctionAnalyzerProofs`** proves the invariants of the pipeline. The
invariants of the extent analyser and of the traversal, whose steps the pipeline
takes, are cited as they stand: `Traversal` INSTANCEs
`RecursiveDisassemblerProofs`, and `SameSteps` and `TraversalAssumptions` show
that its steps are those the pipeline takes, on the same image. What
the pipeline adds (`PInv`) says at each stage how far it has come with its tables:

- `EntriesInv`: the starts are what the symbols and unwind entries *seen so far*
  and the entry point say, as far as it is in code; the strong ones are those
  known when the traversal begins; the others are what the traversal found.
- `GivenInv`: an address has a size exactly if one seen so far gives it one, and
  then it is the first symbol's, or else the first unwind entry's.
- `TraversalInv`, `AnalysisInv`: either part is idle until its stage comes, and is
  given what the pipeline then knows, which does not change afterwards.
- `ReportInv`: the report describes the functions found, each of them.

`PInv` asks of the analyser no more than `TypeInv`, and so holds of every image
(`PipelineInvariance`). `ExtentsInv` is the rest of what the analyser keeps, `AInv`
and `SettlingInv`; inside the pipeline, which does not touch the analyser's
variables once it runs, it holds below the top (`ExtentsInvariance`). Each theorem
about the functions of the report combines the two. A size is kept because the
start it was given for is a strong entry, which a function of the first pass
holds, so a gap function cannot start there.

`CodeIsReported`: what is in no function is dull. It is `GapsAreExhausted` with
the options the pipeline passes on (`OptionsInv`), so it depends, but for
`BelowTop`, on nothing but the cap being at least two instructions.

`NamesAreReported`, for every image: a function is named by the first of the best
bound symbols at its start, wherever in the tables that is, and gets an invented
name only if there is none. `Naming` INSTANCEs `NameResolverProofs`; `NamingInv`
adds that all symbols are read before the first name is asked for. `WholeInv` is
`PInv` with `OptionsInv` and `NamingInv`.

These two are defined with their proofs. `TheTraversalRuns` shows that the steps
taken of the traversal are a behaviour of `RecursiveDisassembler`, so its
theorems, the refinement of `Reachability` included, hold inside the pipeline
(`TheTraversalAnswers`); `GraphsOfThePipelineAnswer` says the same of every graph.

**`NameResolverProofs`** proves `NamesStayBest`; its invariant also says that the
kept rank is that of the symbol the kept name is from, without which the
comparison of a turn would say nothing.

**`CodeMapBuilderProofs`** proves for every file that no region is empty, wraps
around or reaches past the file (`RegionsStayBacked`), with `TypeOK` its own
inductive invariant. What carries it is a fact about `dataAt`: a range that
holds an address has an end that does not wrap, so what is left of it, cut at
the end of the file, stays below the top (`DataAtIsBacked`); `addRegion` then
adds without a carry.

For a linked file, one whose loaded ranges do not overlap, `CInv` adds what the two
loops have collected: the regions are those of the ranges seen so far that have
bytes in the file, each once (`SectionsAreHeld`, `SegmentsAreHeld`), and the second
loop only runs when the first found none (`PhasesFollow`). Disjointness is
what makes the lookup inside `addRegion` find the section asked for and not one that
hides it, and it passes from the ranges to the regions, which are never longer.
From it follow `RegionsStayInOrder`, which is what `SortedRegions` and
`DisjointRegions` ask of an image, and `RegionsStayTheCode`.

**`EhFrameParserProofs`** proves for any bytes at all that the parser stays in its
table and finds only ranges that are good for something (`TypeCorrect`): a size
that is not 0 and two words, which `FunctionAnalyzer` takes for functions' sizes
without a look.

- That a value read is a word (`ValueIsAWord`) is an induction over its bytes.
  `Assembled` is a recursive function, so the proof shows first that there is a
  function that satisfies its equation, place by place from the end, and then
  that its values are words. `Inductive` is what both use: induction stated of a
  set of numbers and not of a predicate, which follows from `HasLeast`.
- A field ends behind its start or past the buffer (`FieldEndFacts`), a string in
  the buffer, terminated or not (`StringFacts`).
- `BlobsInv` says that what was located is bytes of the file, from the lemma on
  `dataAt` that the code map rests on (`Map` INSTANCEs `CodeMapBuilderProofs`).
- `PlaceInv` says where the reader stands: at the end of the last entry between
  two entries, and within the table otherwise. `CieInv` says of what a CIE leaves
  behind that it is bytes, and of what is left of one that it is known fields:
  the end of its augmentation data may be any word, even before its start.
- `EntriesAlwaysGoForwards` is the safety half of `ParseReturns`: a header is read
  where the entry before it ended, and its entry ends behind it.

**`ElfParserProofs`** proves for a file of any bytes that the parser never
overruns it. Headers are tested before they are read, but the tags, the hash tables
and the symbols are not, or only in part: they are read at offset plus index times
stride, all of them numbers of the file, in sums that wrap. The invariant is a
conjunction of what each part leaves to the next:

- `HeaderInv`, `TablesInv`: every field read is a word, every name is bytes. A
  structure is where its fields put it: `Struct` is a recursive function over them, and
  `StructFacts` an induction, once more stated of a set of numbers. The numbers
  themselves are words by the lemmas of the unwind table (`Reader` INSTANCEs
  `EhFrameParserProofs`).
- `TagsInv`: while tags are read, PT_DYNAMIC lies in the file, so that an entry of
  it does too (`TagFits`). The parser tests the segment once, not each entry.
- `TableInv`: the symbol table and its strings are bytes of the file, by the lemma on
  `dataAt` (`Map` INSTANCEs `CodeMapBuilderProofs`); its stride is at least the size of
  an entry, and count times stride stays below the top. The last is what neither
  the test of each entry nor the type says: without it two entries could wrap onto
  the same bytes.
- `DataInv`: a hash table has the numbers at its start, and its buckets once the
  chain is walked; `BucketFacts` goes from there to each bucket.

Each part makes its place from what the one before it left, so no conjunct is
inductive alone. `InitIInv` and `NextIInv`, one step per action, give:

- `ReadsAlwaysStayInBounds`: no read makes `parseBytes` throw. After a header is
  accepted only an implausible number of sections still does. That the file is
  also *read right* is checked by the run only.
- `ParsedImagesAreFiles`: what the parser leaves, at any time, is a file as
  `FilesAssumption` of `ElfImage` has it, so what is proved of the code map and of
  the unwind table for any such file holds of any bytes that were parsed.
- `SymbolsStayApart`: no byte is part of two symbols of a table.
- `ParserGoesForwards`: a step goes to a later symbol section, to a later part, or
  to the next entry of a table whose end it does not move. It is the safety half of
  `ParseReturns`: a walk along a hash chain ends with the data if no entry ends it.
- `ImagesStayBounded`: `kMaxSections` bounds the sections, and `kMaxSymbols` the symbols
  that come from PT_DYNAMIC. It needs to know how far each part has come
  (`BoundsInv`). Of symbol sections nothing of the kind is true: each adds
  as many as the file has room for, and several may share that room.

`CfgBuilderProofs` starts with the lemmas on regions, stacks and least elements that
the others share.

Only model-checked:

- Liveness (`AnalyzeReturns`, `DiscoverReturns`, `ParseReturns`, `ReportIsMade`):
  fairness and `ENABLED` are out of the prover's reach.
- `FindsEveryRange`, `FindsEverySymbol` and `CutFilesLoseOnlyTheEnd`: they compare
  what is read with what was written. The writers build their files entry by entry
  and are part of the runs; a proof would go by induction over what they write.
- `FunctionsEndForAReason`: it relates the end of a walk, of which no variable
  remembers why it ended, to what the later passes make of the entry there.
- `NamesAreReadable`: the demangler and the ABI are recursive operators, which
  modules with proofs cannot use.

## Not modelled

Reading the file from disk, printing, logging, the command line and exit codes
are input and output only. Capstone is a vendored library: what it says of an
instruction is in `AArch64Code`, how it comes to say so is not.
`sectionContaining` and the `containsAddress` members of `ElfImage` are called by
no analysis.

## Plan

Done, in this order: `CodeMap`, `InstructionCache`, `CfgBuilder` with
`Reachability`, `FunctionExtentAnalyzer`, `RecursiveDisassembler`,
`NameResolver`, `FunctionAnalyzer`; proofs of the builder, the traversal and the
resolver; `ByteReader`, `ElfImage`, `CodeMapBuilder` with its proofs,
`EhFrameParser`; `ElfParser`, `ItaniumDemangler` with `SymbolNames`,
`InstructionClassifier` with `AArch64Code`; proofs of the analyser, of the basic
blocks and of the pipeline; proofs of the code map's contents, of what the search
of the gaps leaves, of the graphs against the processor, of the report as a whole
with the refinements inside it, of the unwind table's parser and of the file's.

What is left would need other means than these. The prover has no induction over
data, which `FindsEverySymbol` and `FindsEveryRange` need on the side of the writer,
and no fairness, which stands between `ParserGoesForwards` and `ParseReturns`. The
demangler could be proved to stay in its input and within its depth if it were
written with recursive functions over its tables of productions; what it prints
would still be checked against the ABI by TLC only.
