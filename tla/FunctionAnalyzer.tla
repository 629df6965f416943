--------------------------- MODULE FunctionAnalyzer ---------------------------
(***************************************************************************)
(* FunctionAnalyzer::analyze: the pipeline.  The names of the image are    *)
(* resolved; symbols, the entry point and the unwind table give the strong *)
(* entries and some sizes; the recursive traversal adds the soft ones; the *)
(* extent analyser turns them into bounds; the report gives each a name    *)
(* and a last instruction.                                                 *)
(*                                                                         *)
(* The parts are the modules of those classes: the pipeline takes their    *)
(* steps while it is at their stage, and passes its results along.         *)
(***************************************************************************)
EXTENDS FunctionExtentAnalyzer, Functions

CONSTANTS
  ElfImages,          \* what else the images to analyse hold: records
                      \* [symbols, entryPoint, unwind]
  AnalysisOptionSets, \* the options the user may choose
  Name, NoName

VARIABLES
  symbols, entryPoint,
  unwind,             \* EhFrameParser::parse(): a sequence of [start, size]
  stage,              \* how far the pipeline is
  analysisOptions,
  taken,              \* how many symbols or unwind entries the loop has seen
  starts, strongStarts, authoritativeSizes,
  functions,          \* AnalysisResult::functions
  named, nameByAddress, rankByAddress,             \* the NameResolver
  phase, seeds, unseeded, maxInstructions, scheduled, recursiveWorklist,
  disassembled, functionStarts                     \* the RecursiveDisassembler

Resolver == INSTANCE NameResolver WITH
  Value <- Address, SymbolTables <- {im.symbols : im \in ElfImages}

Recursive == INSTANCE RecursiveDisassembler WITH
  worklist <- recursiveWorklist,
  SeedSets <- SUBSET Address, Caps <- {o.maxInstructions : o \in AnalysisOptionSets}

elfVars == <<symbols, entryPoint, unwind>>
entryVars == <<starts, strongStarts, authoritativeSizes>>
recursiveVars == <<phase, seeds, unseeded, maxInstructions, scheduled,
                   recursiveWorklist, disassembled, functionStarts>>
resolverVars == <<named, nameByAddress, rankByAddress>>
extentVars == <<cacheVars, builderVars, analyzerVars>>
pipelineVars == <<image, elfVars, stage, analysisOptions, taken, entryVars, functions,
                  resolverVars, recursiveVars, extentVars>>

AnalysisOptions ==
  [useSymbols : BOOLEAN, useEhFrame : BOOLEAN, useEntryPoint : BOOLEAN,
   useRecursive : BOOLEAN, demangle : BOOLEAN, maxInstructions : Nat]

AllSources ==
  [useSymbols |-> TRUE, useEhFrame |-> TRUE, useEntryPoint |-> TRUE,
   useRecursive |-> TRUE, demangle |-> TRUE, maxInstructions |-> 0]

ASSUME PipelineAssumption ==
  /\ NoName \notin Name
  /\ AnalysisOptionSets \subseteq AnalysisOptions
  /\ \A im \in ElfImages :
       /\ im.symbols \in Seq(Resolver!ElfSymbol)
       /\ im.entryPoint \in Address
       /\ im.unwind \in Seq([start : Address, size : Nat \ {0}])
-----------------------------------------------------------------------------
PipelineInit ==
  /\ AnalyzeInit
  /\ \E im \in ElfImages :
       symbols = im.symbols /\ entryPoint = im.entryPoint /\ unwind = im.unwind
  /\ stage = "idle" /\ analysisOptions = AllSources
  /\ taken = 0
  /\ starts = {} /\ strongStarts = {} /\ authoritativeSizes = Resolver!Empty
  /\ functions = <<>>
  /\ Resolver!ResolverInit
  /\ Recursive!DiscoverInit

\* An image without code has no functions: nothing else is looked at.
AnalyzeImage(opts) ==
  /\ stage = "idle"
  /\ analysisOptions' = opts
  /\ stage' = IF regions = <<>> THEN "done" ELSE "names"
  /\ UNCHANGED <<image, elfVars, taken, entryVars, functions, resolverVars,
                 recursiveVars, extentVars>>

ResolveName ==
  /\ stage = "names"
  /\ Resolver!ReadName
  /\ UNCHANGED <<image, entryPoint, unwind, stage, analysisOptions, taken, entryVars,
                 functions, recursiveVars, extentVars>>

NamesResolved ==
  /\ stage = "names" /\ named = Len(symbols)
  /\ stage' = "symbols"
  /\ UNCHANGED <<image, elfVars, analysisOptions, taken, entryVars, functions,
                 resolverVars, recursiveVars, extentVars>>
-----------------------------------------------------------------------------
\* addStart, and setAuthoritativeSize: emplace keeps the size that came first.
WithStart(addr) == starts \cup {a \in {addr} : Contains(a)}

\* Mutant of WithSize: the last size wins.
WithLastSize(addr, size) ==
  IF size = 0 THEN authoritativeSizes ELSE Resolver!Put(authoritativeSizes, addr, size)

WithSize(addr, size) ==
  IF size = 0 \/ addr \in DOMAIN authoritativeSizes THEN authoritativeSizes
  ELSE Resolver!Put(authoritativeSizes, addr, size)

IsEntry(sym) == Resolver!IsFunction(sym) /\ Resolver!IsDefined(sym)

TakeSymbol ==
  /\ stage = "symbols" /\ analysisOptions.useSymbols
  /\ taken < Len(symbols)
  /\ taken' = taken + 1
  /\ LET sym == symbols[taken + 1] IN
       IF IsEntry(sym)
       THEN /\ starts' = WithStart(sym.value)
            /\ authoritativeSizes' = WithSize(sym.value, sym.size)
       ELSE UNCHANGED <<starts, authoritativeSizes>>
  /\ UNCHANGED <<image, elfVars, stage, analysisOptions, strongStarts, functions,
                 resolverVars, recursiveVars, extentVars>>

\* Mutant of TakeEntryPoint: the loop must have run.
TakeEntryPointAfterLoop ==
  /\ stage = "symbols"
  /\ taken = Len(symbols)
  /\ starts' = IF analysisOptions.useEntryPoint /\ entryPoint # 0
               THEN WithStart(entryPoint) ELSE starts
  /\ stage' = "unwind" /\ taken' = 0
  /\ UNCHANGED <<image, elfVars, analysisOptions, strongStarts, authoritativeSizes,
                 functions, resolverVars, recursiveVars, extentVars>>

\* The loop over the symbols is over, or was not wanted; the entry point is next.
TakeEntryPoint ==
  /\ stage = "symbols"
  /\ analysisOptions.useSymbols => taken = Len(symbols)
  /\ starts' = IF analysisOptions.useEntryPoint /\ entryPoint # 0
               THEN WithStart(entryPoint) ELSE starts
  /\ stage' = "unwind" /\ taken' = 0
  /\ UNCHANGED <<image, elfVars, analysisOptions, strongStarts, authoritativeSizes,
                 functions, resolverVars, recursiveVars, extentVars>>

TakeUnwindEntry ==
  /\ stage = "unwind" /\ analysisOptions.useEhFrame
  /\ taken < Len(unwind)
  /\ taken' = taken + 1
  /\ LET fn == unwind[taken + 1] IN
       /\ starts' = WithStart(fn.start)
       /\ authoritativeSizes' = WithSize(fn.start, fn.size)
  /\ UNCHANGED <<image, elfVars, stage, analysisOptions, strongStarts, functions,
                 resolverVars, recursiveVars, extentVars>>

\* What is known so far is strong.  Without any of it the traversal starts from
\* the regions.
FallbackSeeds == {regions[i].start : i \in DOMAIN regions}

StrongStartsKnown ==
  /\ stage = "unwind"
  /\ analysisOptions.useEhFrame => taken = Len(unwind)
  /\ strongStarts' = starts
  /\ IF analysisOptions.useRecursive
     THEN /\ Recursive!Discover(IF starts = {} THEN FallbackSeeds ELSE starts,
                                analysisOptions.maxInstructions)
          /\ stage' = "traversal"
     ELSE stage' = "extents" /\ UNCHANGED <<image, recursiveVars>>
  /\ UNCHANGED <<elfVars, analysisOptions, taken, starts, authoritativeSizes,
                 functions, resolverVars, extentVars>>

Traverse ==
  /\ stage = "traversal"
  /\ Recursive!DiscoverStep
  /\ UNCHANGED <<elfVars, stage, analysisOptions, taken, entryVars, functions,
                 resolverVars, extentVars>>

\* Mutant of Traversed: the functions the traversal found are forgotten.
TraversedInVain ==
  /\ stage = "traversal" /\ phase = "discovered"
  /\ stage' = "extents"
  /\ UNCHANGED <<image, elfVars, analysisOptions, taken, entryVars, functions,
                 resolverVars, recursiveVars, extentVars>>

Traversed ==
  /\ stage = "traversal" /\ phase = "discovered"
  /\ starts' = starts \cup {a \in functionStarts : Contains(a)}
  /\ stage' = "extents"
  /\ UNCHANGED <<image, elfVars, analysisOptions, taken, strongStarts,
                 authoritativeSizes, functions, resolverVars, recursiveVars, extentVars>>
-----------------------------------------------------------------------------
pipelineFrame == <<elfVars, analysisOptions, taken, entryVars, resolverVars,
                   recursiveVars>>

FindExtents ==
  /\ stage = "extents"
  /\ Analyze([strongEntries |-> strongStarts, softEntries |-> starts \ strongStarts,
              authoritativeSizes |-> authoritativeSizes],
             [DefaultOptions EXCEPT !.maxInstructions = analysisOptions.maxInstructions])
  /\ UNCHANGED <<pipelineFrame, stage, functions>>

FindExtent == AnalyzeStep /\ UNCHANGED <<pipelineFrame, stage, functions>>

\* Mutant of LastInstructionOf: the instruction need not end the function.
LastTraversed(start, end) ==
  LET before == {a \in disassembled :
                   /\ a >= start /\ a < end
                   /\ \A b \in disassembled : b < end => b <= a}
  IN IF before # {} THEN CHOOSE a \in before : TRUE
     ELSE IF end - start >= kAArch64InstructionSize THEN end - kAArch64InstructionSize
     ELSE start

\* lastInstructionOf: the last instruction the traversal met before end, if the
\* function ends with it.
LastInstructionOf(start, end) ==
  LET ending == {a \in disassembled :
                   /\ a >= start /\ EndAddress(a) = end
                   /\ \A b \in disassembled : b < end => b <= a}
  IN IF ending # {} THEN CHOOSE a \in ending : TRUE
     ELSE IF end - start >= kAArch64InstructionSize THEN end - kAArch64InstructionSize
     ELSE start

FunctionOf(b) ==
  [start |-> b.start, end |-> b.end,
   lastInstruction |-> LastInstructionOf(b.start, b.end),
   size |-> b.end - b.start,
   name |-> Resolver!NameFor(b.start, analysisOptions.demangle),
   hasSymbol |-> Resolver!HasSymbol(b.start)]

\* A function for each of the bounds found, sorted by their starts.
Report ==
  /\ stage = "extents" /\ pc = "done"
  /\ \E order \in Bijection(DOMAIN result, DOMAIN result) :
       /\ \A i, j \in DOMAIN result : i < j => result[order[i]].start <= result[order[j]].start
       /\ functions' = [i \in DOMAIN result |-> FunctionOf(result[order[i]])]
  /\ stage' = "done"
  /\ UNCHANGED <<image, pipelineFrame, extentVars>>
-----------------------------------------------------------------------------
PipelineStep ==
  \/ ResolveName \/ NamesResolved
  \/ TakeSymbol \/ TakeEntryPoint \/ TakeUnwindEntry \/ StrongStartsKnown
  \/ Traverse \/ Traversed
  \/ FindExtents \/ FindExtent \/ Report

PipelineNext == (\E opts \in AnalysisOptionSets : AnalyzeImage(opts)) \/ PipelineStep

PipelineSpec == PipelineInit /\ [][PipelineNext]_pipelineVars

\* analyze is one sequential call: once it is made, it runs.
FairPipelineSpec == PipelineSpec /\ WF_pipelineVars(PipelineStep)
-----------------------------------------------------------------------------
Reported == {functions[i] : i \in DOMAIN functions}

Sources ==
  (IF analysisOptions.useSymbols
   THEN {symbols[i].value : i \in {j \in DOMAIN symbols : IsEntry(symbols[j])}} ELSE {})
  \cup (IF analysisOptions.useEntryPoint THEN {entryPoint} \ {0} ELSE {})
  \cup (IF analysisOptions.useEhFrame THEN {unwind[i].start : i \in DOMAIN unwind} ELSE {})

\* Nothing a wanted source or a traversed call points at is lost on the way to
\* the report: if an instruction can be there, some function holds it.  An
\* image about which nothing is known is still searched from its regions.
EntriesAreReported ==
  stage = "done" =>
    \A a \in AlignedAddress :
      /\ Contains(a)
      /\ \/ a \in Sources
         \/ \E c \in disassembled : a \in Recursive!CalledFrom(c)
         \/ Sources = {} /\ analysisOptions.useRecursive /\ a \in FallbackSeeds
      => \E fn \in Reported : Holds(fn, a)

\* The symbols and the unwind entries that give a size for addr, of the wanted ones.
SizingSymbols(addr) ==
  {i \in DOMAIN symbols :
     /\ analysisOptions.useSymbols /\ IsEntry(symbols[i])
     /\ symbols[i].value = addr /\ symbols[i].size > 0}

SizingEntries(addr) ==
  {i \in DOMAIN unwind :
     analysisOptions.useEhFrame /\ unwind[i].start = addr /\ unwind[i].size > 0}

IsFirstOf(i, S) == i \in S /\ \A j \in S : i <= j

\* The size a function has when it was given size.
IsCutTo(fn, size) == fn.size = Lesser(size, RegionEndFor(fn.start) - fn.start)

\* A function has the first size that was given for its start, symbols before
\* the unwind table, cut where its region ends: no later source, no call found
\* by the traversal and no search of a gap changes it.
FirstSizeIsKept ==
  \A fn \in Reported :
    /\ \A i \in DOMAIN symbols :
         IsFirstOf(i, SizingSymbols(fn.start)) => IsCutTo(fn, symbols[i].size)
    /\ \A i \in DOMAIN unwind :
         SizingSymbols(fn.start) = {} /\ IsFirstOf(i, SizingEntries(fn.start)) =>
           IsCutTo(fn, unwind[i].size)

\* Control can run on from one address to the next.
RunsOn(a) ==
  /\ Decodes(a) /\ ~IsHardStopWord(a)
  /\ HasFallThrough(words[a].insn) \/ words[a].insn.flow = "indirectBranch"

\* No function stops in the middle of code.  Where control runs on past the end
\* of a function whose size nobody gave, another function of the report starts,
\* unless the region ends there or the function has as many instructions as the
\* walk may take.  A call target the traversal found in the middle of other code
\* stops the walk as much as an entry of the tables does, so it must not be
\* demoted afterwards.
FunctionsEndForAReason ==
  \A fn \in Reported : \A a \in AlignedAddress :
    /\ EndAddress(a) = fn.end /\ Holds(fn, a)
    /\ SizingSymbols(fn.start) = {} /\ SizingEntries(fn.start) = {}
    /\ fn.end < RegionEndFor(fn.start)
    /\ RunsOn(a) /\ Decodes(fn.end) /\ ~IsHardStopWord(fn.end)
    => \/ \E other \in Reported : other.start = fn.end
       \/ fn.size >= kAArch64InstructionSize * analysisOptions.maxInstructions

\* The last instruction lies in its function, ends where the function ends if
\* an instruction can end there, and no whole instruction that the traversal
\* met in the function comes after it.
LastEndsTheFunction ==
  \A fn \in Reported :
    /\ fn.start <= fn.lastInstruction /\ fn.lastInstruction < fn.end
    /\ fn.end % kAArch64InstructionSize = 0 => EndAddress(fn.lastInstruction) = fn.end
    /\ \A a \in disassembled :
         Holds(fn, a) /\ EndAddress(a) <= fn.end => a <= fn.lastInstruction

\* analyze returns a report, whatever the image.
ReportIsMade == stage = "names" ~> stage = "done"
-----------------------------------------------------------------------------
\* README.md:50 says that LAST is the address of the last instruction, the ret
\* or final instruction: there is an instruction at that address.
LastIsAnInstruction ==
  \A fn \in Reported : Decodes(fn.lastInstruction)

\* README.md:31 says that --no-symbols ignores function symbols: no function of
\* the report is named by one.
NoSymbolsIgnoresSymbols ==
  ~analysisOptions.useSymbols => \A fn \in Reported : ~fn.hasSymbol
==============================================================================
