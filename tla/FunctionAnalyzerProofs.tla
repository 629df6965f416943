------------------------ MODULE FunctionAnalyzerProofs ------------------------
(***************************************************************************)
(* What the pipeline guarantees for every image and whatever options,      *)
(* proved with TLAPS from the invariants of the traversal and of the       *)
(* extent analyser, whose steps it takes.  What depends on the functions   *)
(* the analyser finds has its condition: no region at the top of the       *)
(* address space.                                                          *)
(***************************************************************************)
EXTENDS FunctionAnalyzer, FunctionExtentAnalyzerProofs

Traversal == INSTANCE RecursiveDisassemblerProofs WITH
  worklist <- recursiveWorklist,
  SeedSets <- SUBSET Address, Caps <- {o.maxInstructions : o \in AnalysisOptionSets}

Naming == INSTANCE NameResolverProofs WITH
  Value <- Address, SymbolTables <- {im.symbols : im \in ElfImages}

-----------------------------------------------------------------------------
(***************************************************************************)
(* The traversal of the pipeline is the one whose invariant is proved.     *)
(***************************************************************************)

\* Both look at the same image.
LEMMA SameImage ==
  /\ Traversal!kAArch64InstructionSize = 4 /\ kAArch64InstructionSize = 4
  /\ Traversal!Address = Address /\ Traversal!AlignedAddress = AlignedAddress
  /\ Traversal!image = image
  /\ \A rs, ws : Traversal!IsImage(rs, ws) <=> IsImage(rs, ws)
  /\ \A a : Traversal!Contains(a) <=> Contains(a)
<1>1. Traversal!kAArch64InstructionSize = 4 /\ kAArch64InstructionSize = 4
  BY DEF Traversal!kAArch64InstructionSize, kAArch64InstructionSize
<1>2. Traversal!Address = Address /\ Traversal!AlignedAddress = AlignedAddress
  BY <1>1 DEF Traversal!Address, Address, Traversal!AlignedAddress, AlignedAddress
<1>3. Traversal!Region = Region
  BY <1>2 DEF Traversal!Region, Region
<1>4. Traversal!Instruction = Instruction
  BY <1>2 DEF Traversal!Instruction, Instruction, Traversal!FlowType, FlowType
<1>5. Traversal!Word = Word
  BY <1>4 DEF Traversal!Word, Word
<1>6. ASSUME NEW rs PROVE Traversal!SortedRegions(rs) <=> SortedRegions(rs)
  BY DEF Traversal!SortedRegions, SortedRegions
<1>7. ASSUME NEW rs PROVE Traversal!DisjointRegions(rs) <=> DisjointRegions(rs)
  BY DEF Traversal!DisjointRegions, DisjointRegions
<1>8. \A rs, ws : Traversal!IsImage(rs, ws) <=> IsImage(rs, ws)
  BY <1>2, <1>3, <1>5, <1>6, <1>7 DEF Traversal!IsImage, IsImage
<1>9. Traversal!image = image
  BY DEF Traversal!image, image
<1>10. \A a : Traversal!Contains(a) <=> Contains(a)
  BY DEF Traversal!Contains, Contains, Traversal!RegionsAt, RegionsAt
<1> QED
  BY <1>1, <1>2, <1>8, <1>9, <1>10

\* What it assumes of its constants holds of those the pipeline gives it.
LEMMA TraversalAssumptions ==
  /\ AddressLimit \in Nat
  /\ AddressLimit > 2 * Traversal!kAArch64InstructionSize
  /\ AddressLimit % Traversal!kAArch64InstructionSize = 0
  /\ \A im \in Images : Traversal!IsImage(im.regions, im.words)
  /\ SUBSET Address \subseteq SUBSET Traversal!Address
  /\ {o.maxInstructions : o \in AnalysisOptionSets} \subseteq Nat
<1>1. {o.maxInstructions : o \in AnalysisOptionSets} \subseteq Nat
  BY PipelineAssumption DEF AnalysisOptions
<1> QED
  BY <1>1, SameImage, AddressLimitAssumption, ImagesAssumption

\* So are its steps.
LEMMA SameSteps ==
  /\ ImageInit /\ Recursive!DiscoverInit => Traversal!Init
  /\ \A from, cap : Recursive!Discover(from, cap) => Traversal!Discover(from, cap)
  /\ Recursive!DiscoverStep => Traversal!DiscoverStep
<1>1. ImageInit /\ Recursive!DiscoverInit => Traversal!Init
  BY DEF Recursive!DiscoverInit, Traversal!Init, Traversal!DiscoverInit, ImageInit,
         Traversal!ImageInit
<1>2. \A from, cap : Recursive!Discover(from, cap) => Traversal!Discover(from, cap)
  BY DEF Recursive!Discover, Traversal!Discover, Recursive!image, Traversal!image
<1>3. /\ \A t : Recursive!Contains(t) <=> Traversal!Contains(t)
      /\ \A t : Recursive!IsUsable(t) <=> Traversal!IsUsable(t)
      /\ \A t : Recursive!Decodes(t) <=> Traversal!Decodes(t)
      /\ \A t : Recursive!EndAddress(t) = Traversal!EndAddress(t)
  <2>1. \A t : Recursive!Contains(t) <=> Traversal!Contains(t)
    BY DEF Recursive!Contains, Traversal!Contains, Recursive!RegionsAt, Traversal!RegionsAt
  <2>2. \A t : Recursive!RegionContaining(t) = Traversal!RegionContaining(t)
    BY DEF Recursive!RegionContaining, Traversal!RegionContaining, Recursive!RegionsAt,
           Traversal!RegionsAt
  <2>3. Recursive!kAArch64InstructionSize = Traversal!kAArch64InstructionSize
    BY DEF Recursive!kAArch64InstructionSize, Traversal!kAArch64InstructionSize
  <2>4. \A t : Recursive!ReadsWord(t) <=> Traversal!ReadsWord(t)
    BY <2>1, <2>2, <2>3 DEF Recursive!ReadsWord, Traversal!ReadsWord,
       Recursive!Available, Traversal!Available
  <2> QED
    BY <2>1, <2>3, <2>4
       DEF Recursive!IsUsable, Traversal!IsUsable, Recursive!Decodes, Traversal!Decodes,
           Recursive!EndAddress, Traversal!EndAddress
<1>4. /\ \A q, t : Recursive!Schedule(q, t) = Traversal!Schedule(q, t)
      /\ \A w, t : Recursive!StartAt(w, t) = Traversal!StartAt(w, t)
      /\ Recursive!Top = Traversal!Top /\ Recursive!Popped = Traversal!Popped
      /\ Recursive!Turning <=> Traversal!Turning
      /\ Recursive!AtInstructionCap <=> Traversal!AtInstructionCap
  BY <1>3 DEF Recursive!Schedule, Traversal!Schedule, Recursive!StartAt, Traversal!StartAt,
     Recursive!Top, Traversal!Top, Recursive!Popped, Traversal!Popped, Recursive!Turning,
     Traversal!Turning, Recursive!AtInstructionCap, Traversal!AtInstructionCap,
     Recursive!Cardinality, Traversal!Cardinality
<1>5. \A insn : Recursive!AfterDecoding(insn) = Traversal!AfterDecoding(insn)
  BY <1>3, <1>4 DEF Recursive!AfterDecoding, Traversal!AfterDecoding,
     Recursive!FollowsTarget, Traversal!FollowsTarget, Recursive!IsBranch,
     Traversal!IsBranch, Recursive!HasFallThrough, Traversal!HasFallThrough
<1>6. \A seed : Recursive!TakeSeed(seed) => Traversal!TakeSeed(seed)
  BY <1>3, <1>4 DEF Recursive!TakeSeed, Traversal!TakeSeed, Recursive!image,
     Traversal!image
<1>7. Recursive!SkipData => Traversal!SkipData
  BY <1>3, <1>4 DEF Recursive!SkipData, Traversal!SkipData, Recursive!image,
     Traversal!image
<1>8. Recursive!Disassemble => Traversal!Disassemble
  BY <1>3, <1>4, <1>5 DEF Recursive!Disassemble, Traversal!Disassemble, Recursive!image,
     Traversal!image
<1>9. Recursive!SeedsTaken => Traversal!SeedsTaken
  BY <1>3 DEF Recursive!SeedsTaken, Traversal!SeedsTaken, Recursive!image,
     Traversal!image
<1>10. Recursive!Finish => Traversal!Finish
  BY <1>3, <1>4 DEF Recursive!Finish, Traversal!Finish, Recursive!image,
     Traversal!image
<1>11. Recursive!DiscoverStep => Traversal!DiscoverStep
  BY <1>6, <1>7, <1>8, <1>9, <1>10 DEF Recursive!DiscoverStep, Traversal!DiscoverStep
<1> QED
  BY <1>1, <1>2, <1>11

\* A step of the traversal keeps its invariant.
LEMMA TraversalStep ==
  ASSUME Traversal!IInv, Recursive!DiscoverStep
  PROVE  Traversal!IInv'
BY SameSteps, TraversalAssumptions, Traversal!NextIInv DEF Traversal!Next

\* A step of the traversal leaves the image and the seeds alone.
LEMMA TraversalFrame ==
  ASSUME Recursive!DiscoverStep
  PROVE  /\ UNCHANGED <<image, seeds, maxInstructions>>
         /\ phase \in {"seeding", "traversing"}
         /\ phase' \in {"seeding", "traversing", "discovered"}
BY DEF Recursive!DiscoverStep, Recursive!TakeSeed, Recursive!SeedsTaken, Recursive!SkipData,
       Recursive!Disassemble, Recursive!Finish, Recursive!Turning, Recursive!image, image

\* A step of the analyser leaves the image and its arguments alone; it does
\* nothing of its own before it is called and after it has returned.
LEMMA AnalyzeStepFrame ==
  ASSUME AnalyzeStep
  PROVE  /\ UNCHANGED <<image, input, options>>
         /\ pc \in {"idle", "done"} => UNCHANGED analyzerVars
         /\ pc # "idle" => pc' # "idle"
<1>1. CASE GraphStep
  BY <1>1 DEF GraphStep, BuilderStep, SkipHardStop, SkipUndecodable, Cover, Return, Drop,
              analyzerVars, constVars
<1>2. CASE CandidateStep
  BY <1>2 DEF CandidateStep, DemoteInterior, EmitAuthoritative, StartExtent, EmitExtent,
     CandidatesDone, IsNextCandidate, constVars, Build, BeginBuild
<1>3. CASE GapStep
  BY <1>3 DEF GapStep, PassFunction, LeaveRegion, GapsDone, CarveDone, SkipPadding,
     SkipData, StartGapCfg, AcceptGapFunction, RejectGapFunction, Carving, carveFrame,
     constVars, BeginBuild
<1>4. CASE FilterStep
  BY <1>4 DEF FilterStep, Filter, FilterDone, constVars
<1> QED
  BY <1>1, <1>2, <1>3, <1>4 DEF AnalyzeStep
-----------------------------------------------------------------------------
(***************************************************************************)
(* The inductive invariant: what the entries and the sizes are depends on  *)
(* how many symbols and unwind entries have been looked at.                *)
(***************************************************************************)
Stages == {"idle", "names", "symbols", "unwind", "traversal", "extents", "done"}
BeforeSymbols == stage \in {"idle", "names"}
BeforeUnwind == stage \in {"idle", "names", "symbols"}

SymbolsSeen ==
  IF BeforeSymbols \/ ~analysisOptions.useSymbols THEN 0
  ELSE IF stage = "symbols" THEN taken ELSE Len(symbols)

UnwindSeen ==
  IF BeforeUnwind \/ ~analysisOptions.useEhFrame THEN 0
  ELSE IF stage = "unwind" THEN taken ELSE Len(unwind)

EntryPointSeen ==
  IF ~BeforeUnwind /\ analysisOptions.useEntryPoint THEN {entryPoint} \ {0} ELSE {}

\* The addresses the sources have given so far.
Known ==
  {symbols[i].value : i \in {j \in 1 .. SymbolsSeen : IsEntry(symbols[j])}}
    \cup EntryPointSeen
    \cup {unwind[i].start : i \in 1 .. UnwindSeen}

InCode(S) == {a \in S : Contains(a)}

\* The symbols and the unwind entries seen so far that give a size for addr.
SeenSymbols(addr) == SizingSymbols(addr) \cap (1 .. SymbolsSeen)
SeenEntries(addr) == SizingEntries(addr) \cap (1 .. UnwindSeen)

StageInv ==
  /\ symbols \in Seq(Resolver!ElfSymbol) /\ entryPoint \in Address
  /\ unwind \in Seq([start : Address, size : Nat \ {0}])
  /\ analysisOptions \in AnalysisOptions
  /\ stage \in Stages /\ taken \in Nat
  /\ BeforeSymbols => taken = 0
  /\ stage = "symbols" =>
       taken <= Len(symbols) /\ (~analysisOptions.useSymbols => taken = 0)
  /\ stage = "unwind" =>
       taken <= Len(unwind) /\ (~analysisOptions.useEhFrame => taken = 0)
  /\ regions = <<>> => stage \in {"idle", "done"}

EntriesInv ==
  /\ stage \notin {"extents", "done"} => starts = InCode(Known)
  /\ strongStarts = IF stage \in {"traversal", "extents", "done"} THEN InCode(Known) ELSE {}
  /\ stage \in {"extents", "done"} => starts = strongStarts \cup InCode(functionStarts)

GivenInv ==
  /\ DOMAIN authoritativeSizes \subseteq Address
  /\ \A a \in DOMAIN authoritativeSizes : authoritativeSizes[a] \in Nat
  /\ regions # <<>> =>
       \A a \in Address :
         /\ a \in DOMAIN authoritativeSizes <=> SeenSymbols(a) # {} \/ SeenEntries(a) # {}
         /\ \A i \in SeenSymbols(a) :
              IsFirstOf(i, SeenSymbols(a)) => authoritativeSizes[a] = symbols[i].size
         /\ \A i \in SeenEntries(a) :
              SeenSymbols(a) = {} /\ IsFirstOf(i, SeenEntries(a)) =>
                authoritativeSizes[a] = unwind[i].size

TraversalInv ==
  /\ Traversal!IInv
  /\ stage \notin {"traversal", "extents", "done"} => phase = "idle"
  /\ stage = "traversal" => phase # "idle"
  /\ stage \in {"extents", "done"} => phase \in {"idle", "discovered"}
  /\ stage \in {"extents", "done"} /\ regions # <<>> /\ analysisOptions.useRecursive =>
       phase = "discovered"
  /\ phase # "idle" => seeds = IF strongStarts = {} THEN FallbackSeeds ELSE strongStarts

PipelineInput ==
  [strongEntries |-> strongStarts, softEntries |-> starts \ strongStarts,
   authoritativeSizes |-> authoritativeSizes]

AnalysisInv ==
  /\ TypeInv
  /\ pc # "idle" => stage \in {"extents", "done"} /\ input = PipelineInput

\* What the report says of the bounds b.
Describes(fn, b) ==
  /\ fn.start = b.start /\ fn.end = b.end /\ fn.size = b.end - b.start
  /\ fn.lastInstruction = LastInstructionOf(b.start, b.end)

ReportInv ==
  /\ stage # "done" \/ regions = <<>> => functions = <<>>
  /\ stage = "done" /\ regions # <<>> =>
       /\ pc = "done"
       /\ \A fn \in Reported : \E b \in Functions : Describes(fn, b)
       /\ \A b \in Functions : \E fn \in Reported : Describes(fn, b)

PInv == StageInv /\ EntriesInv /\ GivenInv /\ TraversalInv /\ AnalysisInv /\ ReportInv

\* What holds besides where no region reaches the top of the address space:
\* all that is proved of the analyser, and that functions start at whole words.
ExtentsInv ==
  /\ AInv /\ SettlingInv
  /\ \A fn \in emitted \cup gapFunctions : fn.start \in AlignedAddress
-----------------------------------------------------------------------------
(***************************************************************************)
(* The stages.                                                             *)
(***************************************************************************)

\* The stages follow one another, and no loop runs past its end.
LEMMA StageKept ==
  ASSUME StageInv, [PipelineNext]_pipelineVars
  PROVE  StageInv'
<1> USE DEF StageInv, BeforeSymbols, Stages
<1>1. CASE \E opts \in AnalysisOptionSets : AnalyzeImage(opts)
  BY <1>1, PipelineAssumption DEF AnalyzeImage, elfVars, image
<1>2. CASE ResolveName
  BY <1>2 DEF ResolveName, Resolver!ReadName, image
<1>3. CASE NamesResolved
  BY <1>3 DEF NamesResolved, elfVars, image
<1>4. CASE TakeSymbol
  BY <1>4 DEF TakeSymbol, elfVars, image
<1>5. CASE TakeEntryPoint
  BY <1>5 DEF TakeEntryPoint, elfVars, image
<1>6. CASE TakeUnwindEntry
  BY <1>6 DEF TakeUnwindEntry, elfVars, image
<1>7. CASE StrongStartsKnown
  <2>1. UNCHANGED <<image, elfVars, analysisOptions, taken>>
        /\ stage = "unwind" /\ stage' \in {"traversal", "extents"}
    BY <1>7 DEF StrongStartsKnown, Recursive!Discover, Recursive!image, image
  <2> QED
    BY <2>1 DEF elfVars, image
<1>8. CASE Traverse
  BY <1>8, TraversalFrame DEF Traverse, elfVars, image
<1>9. CASE Traversed
  BY <1>9 DEF Traversed, elfVars, image
<1>10. CASE FindExtents
  BY <1>10 DEF FindExtents, Analyze, pipelineFrame, elfVars, image
<1>11. CASE FindExtent
  BY <1>11, AnalyzeStepFrame DEF FindExtent, pipelineFrame, elfVars, image
<1>12. CASE Report
  BY <1>12 DEF Report, pipelineFrame, elfVars, image
<1>13. CASE UNCHANGED pipelineVars
  BY <1>13 DEF pipelineVars, elfVars, image
<1> QED
  BY <1>1, <1>2, <1>3, <1>4, <1>5, <1>6, <1>7, <1>8, <1>9, <1>10, <1>11, <1>12, <1>13
     DEF PipelineNext, PipelineStep

\* What the steps that look at no source leave as it is.
LEMMA SeenKept ==
  ASSUME StageInv, regions # <<>>, UNCHANGED <<image, symbols, entryPoint, unwind>>,
         \/ stage = "idle" /\ stage' = "names" /\ UNCHANGED taken
         \/ UNCHANGED <<stage, analysisOptions, taken>>
         \/ stage = "names" /\ stage' = "symbols" /\ UNCHANGED <<analysisOptions, taken>>
         \/ /\ stage = "unwind" /\ stage' \in {"traversal", "extents"}
            /\ analysisOptions.useEhFrame => taken = Len(unwind)
            /\ UNCHANGED <<analysisOptions, taken>>
         \/ stage = "traversal" /\ stage' = "extents" /\ UNCHANGED <<analysisOptions, taken>>
         \/ stage = "extents" /\ stage' = "done" /\ UNCHANGED <<analysisOptions, taken>>
  PROVE  /\ SymbolsSeen' = SymbolsSeen /\ UnwindSeen' = UnwindSeen
         /\ EntryPointSeen' = EntryPointSeen
         /\ Known' = Known /\ \A S : InCode(S)' = InCode(S)
         /\ \A a : SeenSymbols(a)' = SeenSymbols(a) /\ SeenEntries(a)' = SeenEntries(a)
<1>1. SymbolsSeen' = SymbolsSeen /\ UnwindSeen' = UnwindSeen
  BY DEF SymbolsSeen, UnwindSeen, BeforeSymbols, BeforeUnwind, StageInv
<1>2. EntryPointSeen' = EntryPointSeen
  BY DEF EntryPointSeen, BeforeUnwind
<1>3. Known' = Known
  BY <1>1, <1>2 DEF Known
<1>4. \A S : InCode(S)' = InCode(S)
  BY ImageFrame DEF InCode
<1>5. ASSUME NEW a PROVE SeenSymbols(a)' = SeenSymbols(a) /\ SeenEntries(a)' = SeenEntries(a)
  <2>1. CASE UNCHANGED analysisOptions
    BY <1>1, <2>1 DEF SeenSymbols, SeenEntries, SizingSymbols, SizingEntries
  <2>2. CASE stage = "idle" /\ stage' = "names"
    BY <1>1, <2>2 DEF SeenSymbols, SeenEntries, SymbolsSeen, UnwindSeen, BeforeSymbols,
                      BeforeUnwind
  <2> QED
    BY <2>1, <2>2
<1> QED
  BY <1>1, <1>2, <1>3, <1>4, <1>5
-----------------------------------------------------------------------------
(***************************************************************************)
(* The entries.                                                            *)
(***************************************************************************)

\* Without a region nothing is in code.
LEMMA NoCode == regions = <<>> => \A S : InCode(S) = {}
BY DEF InCode, Contains, RegionsAt

\* A symbol adds its address, if it is one of a function.
LEMMA TakeSymbolEntries ==
  ASSUME StageInv, EntriesInv, TakeSymbol
  PROVE  EntriesInv'
<1> DEFINE n == taken + 1
           new == IF IsEntry(symbols[n]) THEN {symbols[n].value} ELSE {}
<1>1. /\ stage = "symbols" /\ stage' = "symbols" /\ analysisOptions.useSymbols
      /\ taken \in Nat /\ taken' = n /\ n \in DOMAIN symbols
      /\ UNCHANGED <<image, symbols, entryPoint, unwind, analysisOptions, strongStarts>>
  BY DEF TakeSymbol, StageInv, elfVars
<1>2. SymbolsSeen = taken /\ SymbolsSeen' = n /\ UnwindSeen' = UnwindSeen
      /\ EntryPointSeen' = EntryPointSeen
  BY <1>1 DEF SymbolsSeen, UnwindSeen, EntryPointSeen, BeforeSymbols, BeforeUnwind
<1>3. 1 .. n = (1 .. taken) \cup {n}
  BY <1>1
<1>4. Known' = Known \cup new
  <2>1. Known' = {symbols[i].value : i \in {j \in 1 .. n : IsEntry(symbols[j])}}
                   \cup EntryPointSeen \cup {unwind[i].start : i \in 1 .. UnwindSeen}
    BY <1>1, <1>2 DEF Known
  <2>2. Known = {symbols[i].value : i \in {j \in 1 .. taken : IsEntry(symbols[j])}}
                   \cup EntryPointSeen \cup {unwind[i].start : i \in 1 .. UnwindSeen}
    BY <1>2 DEF Known
  <2>3. {symbols[i].value : i \in {j \in 1 .. n : IsEntry(symbols[j])}}
          = {symbols[i].value : i \in {j \in 1 .. taken : IsEntry(symbols[j])}} \cup new
    BY <1>3
  <2> QED
    BY <2>1, <2>2, <2>3
<1>5. starts = InCode(Known)
  BY <1>1 DEF EntriesInv
<1>6. starts' = starts \cup InCode(new)
  BY <1>1 DEF TakeSymbol, WithStart, InCode
<1>7. \A S : InCode(S)' = InCode(S)
  BY <1>1, ImageFrame DEF InCode
<1>8. starts' = InCode(Known')
  BY <1>4, <1>5, <1>6 DEF InCode
<1>9. regions # <<>> /\ regions' # <<>>
  BY <1>1 DEF StageInv, image
<1> QED
  BY <1>1, <1>7, <1>8, <1>9 DEF EntriesInv

\* The entry point adds itself, unless it is 0.
LEMMA TakeEntryPointEntries ==
  ASSUME StageInv, EntriesInv, TakeEntryPoint
  PROVE  EntriesInv'
<1>1. /\ stage = "symbols" /\ stage' = "unwind"
      /\ analysisOptions.useSymbols => taken = Len(symbols)
      /\ taken' = 0
      /\ UNCHANGED <<image, symbols, entryPoint, unwind, analysisOptions, strongStarts>>
  BY DEF TakeEntryPoint, elfVars
<1>2. SymbolsSeen' = SymbolsSeen /\ UnwindSeen = 0 /\ UnwindSeen' = 0
      /\ EntryPointSeen = {}
  BY <1>1 DEF SymbolsSeen, UnwindSeen, EntryPointSeen, BeforeSymbols, BeforeUnwind
<1>3. Known' = Known \cup EntryPointSeen'
  BY <1>1, <1>2 DEF Known
<1>4. starts = InCode(Known)
  BY <1>1 DEF EntriesInv
<1>5. starts' = starts \cup InCode(EntryPointSeen')
  BY <1>1 DEF TakeEntryPoint, WithStart, InCode, EntryPointSeen, BeforeUnwind
<1>6. \A S : InCode(S)' = InCode(S)
  BY <1>1, ImageFrame DEF InCode
<1>7. starts' = InCode(Known')
  BY <1>3, <1>4, <1>5 DEF InCode
<1>8. regions # <<>> /\ regions' # <<>>
  BY <1>1 DEF StageInv, image
<1> QED
  BY <1>1, <1>6, <1>7, <1>8 DEF EntriesInv

\* An unwind entry adds its start.
LEMMA TakeUnwindEntries ==
  ASSUME StageInv, EntriesInv, TakeUnwindEntry
  PROVE  EntriesInv'
<1> DEFINE n == taken + 1
<1>1. /\ stage = "unwind" /\ stage' = "unwind" /\ analysisOptions.useEhFrame
      /\ taken \in Nat /\ taken' = n /\ n \in DOMAIN unwind
      /\ UNCHANGED <<image, symbols, entryPoint, unwind, analysisOptions, strongStarts>>
  BY DEF TakeUnwindEntry, StageInv, elfVars
<1>2. UnwindSeen = taken /\ UnwindSeen' = n /\ SymbolsSeen' = SymbolsSeen
      /\ EntryPointSeen' = EntryPointSeen
  BY <1>1 DEF SymbolsSeen, UnwindSeen, EntryPointSeen, BeforeSymbols, BeforeUnwind
<1>3. 1 .. n = (1 .. taken) \cup {n}
  BY <1>1
<1>4. Known' = Known \cup {unwind[n].start}
  BY <1>1, <1>2, <1>3 DEF Known
<1>5. starts = InCode(Known)
  BY <1>1 DEF EntriesInv
<1>6. starts' = starts \cup InCode({unwind[n].start})
  BY <1>1 DEF TakeUnwindEntry, WithStart, InCode
<1>7. \A S : InCode(S)' = InCode(S)
  BY <1>1, ImageFrame DEF InCode
<1>8. starts' = InCode(Known')
  BY <1>4, <1>5, <1>6 DEF InCode
<1>9. regions # <<>> /\ regions' # <<>>
  BY <1>1 DEF StageInv, image
<1> QED
  BY <1>1, <1>7, <1>8, <1>9 DEF EntriesInv

\* The other steps move what is known along.
LEMMA EntriesKept ==
  ASSUME StageInv, EntriesInv, TraversalInv, [PipelineNext]_pipelineVars
  PROVE  EntriesInv'
<1>1. CASE TakeSymbol \/ TakeEntryPoint \/ TakeUnwindEntry
  BY <1>1, TakeSymbolEntries, TakeEntryPointEntries, TakeUnwindEntries
<1>2. CASE \E opts \in AnalysisOptionSets : AnalyzeImage(opts)
  <2>1. /\ stage = "idle" /\ stage' = IF regions = <<>> THEN "done" ELSE "names"
        /\ UNCHANGED <<image, symbols, entryPoint, unwind, taken, starts, strongStarts>>
    BY <1>2 DEF AnalyzeImage, elfVars, entryVars
  <2>2. CASE regions = <<>>
    <3>1. InCode(Known) = {} /\ InCode(Known)' = {} /\ InCode(functionStarts)' = {}
      BY <2>1, <2>2, ImageFrame, NoCode DEF InCode
    <3> QED
      BY <2>1, <2>2, <3>1 DEF EntriesInv
  <2>3. CASE regions # <<>>
    BY <2>1, <2>3, SeenKept DEF EntriesInv, image
  <2> QED
    BY <2>2, <2>3
<1>3. CASE ResolveName \/ NamesResolved
  <2>1. /\ UNCHANGED <<image, symbols, entryPoint, unwind, analysisOptions, taken, starts,
                       strongStarts>>
        /\ stage = "names" /\ stage' \in {"names", "symbols"}
    BY <1>3 DEF ResolveName, NamesResolved, Resolver!ReadName, elfVars, entryVars
  <2>2. regions # <<>>
    BY <2>1 DEF StageInv
  <2> QED
    BY <2>1, <2>2, SeenKept DEF EntriesInv, image
<1>4. CASE StrongStartsKnown
  <2>1. /\ UNCHANGED <<image, symbols, entryPoint, unwind, analysisOptions, taken, starts,
                       functionStarts>>
        /\ stage = "unwind"
        /\ stage' = IF analysisOptions.useRecursive THEN "traversal" ELSE "extents"
        /\ analysisOptions.useEhFrame => taken = Len(unwind)
        /\ strongStarts' = starts
    BY <1>4 DEF StrongStartsKnown, elfVars, Recursive!Discover, recursiveVars, image,
                Recursive!image
  <2>2. regions # <<>>
    BY <2>1 DEF StageInv
  <2>3. InCode(Known)' = InCode(Known)
    BY <2>1, <2>2, SeenKept
  <2>4. functionStarts = {}
    BY <2>1 DEF TraversalInv, Traversal!IInv, Traversal!PhaseInv
  <2>5. InCode(functionStarts)' = {}
    BY <2>1, <2>4 DEF InCode
  <2> QED
    BY <2>1, <2>2, <2>3, <2>5 DEF EntriesInv, image
<1>5. CASE Traverse
  <2>1. /\ UNCHANGED <<image, symbols, entryPoint, unwind, analysisOptions, taken, starts,
                       strongStarts, stage>>
        /\ stage = "traversal"
    BY <1>5, TraversalFrame DEF Traverse, elfVars, entryVars
  <2>2. regions # <<>>
    BY <2>1 DEF StageInv
  <2> QED
    BY <2>1, <2>2, SeenKept DEF EntriesInv, image
<1>6. CASE Traversed
  <2>1. /\ UNCHANGED <<image, symbols, entryPoint, unwind, analysisOptions, taken,
                       strongStarts, functionStarts>>
        /\ stage = "traversal" /\ stage' = "extents"
        /\ starts' = starts \cup InCode(functionStarts)
    BY <1>6 DEF Traversed, elfVars, recursiveVars, InCode
  <2>2. regions # <<>>
    BY <2>1 DEF StageInv
  <2>3. InCode(Known)' = InCode(Known)
    BY <2>1, <2>2, SeenKept
  <2>4. InCode(functionStarts)' = InCode(functionStarts)
    BY <2>1, ImageFrame DEF InCode
  <2> QED
    BY <2>1, <2>2, <2>3, <2>4 DEF EntriesInv, image
<1>7. CASE FindExtents \/ FindExtent \/ UNCHANGED pipelineVars
  <2>1. UNCHANGED <<image, symbols, entryPoint, unwind, analysisOptions, taken, starts,
                    strongStarts, stage, functionStarts>>
    BY <1>7, AnalyzeStepFrame
       DEF FindExtents, FindExtent, Analyze, pipelineFrame, pipelineVars, elfVars, entryVars,
           recursiveVars
  <2>2. InCode(Known)' = InCode(Known) /\ InCode(functionStarts)' = InCode(functionStarts)
    <3>1. Known' = Known
      BY <2>1 DEF Known, SymbolsSeen, UnwindSeen, EntryPointSeen, BeforeSymbols, BeforeUnwind
    <3> QED
      BY <2>1, <3>1, ImageFrame DEF InCode
  <2> QED
    BY <2>1, <2>2 DEF EntriesInv, image
<1>8. CASE Report
  <2>1. /\ UNCHANGED <<image, symbols, entryPoint, unwind, analysisOptions, taken, starts,
                       strongStarts, functionStarts>>
        /\ stage = "extents" /\ stage' = "done"
    BY <1>8 DEF Report, pipelineFrame, elfVars, entryVars, recursiveVars
  <2>2. regions # <<>>
    BY <2>1 DEF StageInv
  <2>3. InCode(Known)' = InCode(Known) /\ InCode(functionStarts)' = InCode(functionStarts)
    <3>1. Known' = Known
      BY <2>1, <2>2, SeenKept
    <3> QED
      BY <2>1, <3>1, ImageFrame DEF InCode
  <2> QED
    BY <2>1, <2>2, <2>3 DEF EntriesInv, image
<1> QED
  BY <1>1, <1>2, <1>3, <1>4, <1>5, <1>6, <1>7, <1>8 DEF PipelineNext, PipelineStep
-----------------------------------------------------------------------------
(***************************************************************************)
(* The sizes.                                                              *)
(***************************************************************************)

\* An index past all others is the first only when it is alone.
LEMMA FirstOfMore ==
  ASSUME NEW S \in SUBSET Nat, NEW n \in Nat, \A j \in S : j < n,
         NEW i, IsFirstOf(i, S \cup {n})
  PROVE  IF S = {} THEN i = n ELSE IsFirstOf(i, S)
<1>1. CASE S = {}
  BY <1>1 DEF IsFirstOf
<1>2. CASE S # {}
  <2>1. PICK j \in S : TRUE
    BY <1>2
  <2>2. i <= j /\ i # n
    BY <2>1 DEF IsFirstOf
  <2> QED
    BY <1>2, <2>2 DEF IsFirstOf
<1> QED
  BY <1>1, <1>2

\* What emplacing a size does.
LEMMA WithSizeIs ==
  ASSUME GivenInv, NEW addr \in Address, NEW size \in Nat
  PROVE  /\ DOMAIN WithSize(addr, size)
              = DOMAIN authoritativeSizes \cup (IF size = 0 THEN {} ELSE {addr})
         /\ \A a \in DOMAIN authoritativeSizes :
              WithSize(addr, size)[a] = authoritativeSizes[a]
         /\ size # 0 /\ addr \notin DOMAIN authoritativeSizes =>
              WithSize(addr, size)[addr] = size
         /\ DOMAIN WithSize(addr, size) \subseteq Address
         /\ \A a \in DOMAIN WithSize(addr, size) : WithSize(addr, size)[a] \in Nat
<1>1. CASE size = 0 \/ addr \in DOMAIN authoritativeSizes
  BY <1>1 DEF WithSize, GivenInv
<1>2. CASE ~(size = 0 \/ addr \in DOMAIN authoritativeSizes)
  <2>1. WithSize(addr, size)
          = [k \in DOMAIN authoritativeSizes \cup {addr} |->
               IF k = addr THEN size ELSE authoritativeSizes[k]]
    BY <1>2 DEF WithSize, Resolver!Put
  <2> QED
    BY <1>2, <2>1 DEF GivenInv
<1> QED
  BY <1>1, <1>2

\* A symbol gives its size to its address if no earlier one did.
LEMMA TakeSymbolGiven ==
  ASSUME StageInv, GivenInv, TakeSymbol
  PROVE  GivenInv'
<1> DEFINE n == taken + 1
           sym == symbols[n]
           sizes == authoritativeSizes
<1>1. /\ stage = "symbols" /\ stage' = "symbols" /\ analysisOptions.useSymbols
      /\ taken \in Nat /\ taken' = n /\ n \in DOMAIN symbols /\ n \in Nat
      /\ UNCHANGED <<image, symbols, entryPoint, unwind, analysisOptions>>
      /\ sym \in Resolver!ElfSymbol
  BY DEF TakeSymbol, StageInv, elfVars
<1>2. SymbolsSeen = taken /\ SymbolsSeen' = n /\ UnwindSeen = 0 /\ UnwindSeen' = 0
  BY <1>1 DEF SymbolsSeen, UnwindSeen, BeforeSymbols, BeforeUnwind
<1>3. 1 .. n = (1 .. taken) \cup {n}
  BY <1>1
<1>4. \A a : SeenEntries(a) = {} /\ SeenEntries(a)' = {}
  BY <1>2 DEF SeenEntries
<1>5. \A a : /\ SizingSymbols(a)' = SizingSymbols(a)
             /\ n \in SizingSymbols(a) <=> IsEntry(sym) /\ sym.value = a /\ sym.size > 0
  BY <1>1 DEF SizingSymbols
<1>6. \A a : /\ SeenSymbols(a)' = SeenSymbols(a) \cup ({n} \cap SizingSymbols(a))
             /\ SeenSymbols(a) \in SUBSET Nat /\ \A j \in SeenSymbols(a) : j < n
  BY <1>1, <1>2, <1>3, <1>5 DEF SeenSymbols
<1>7. sym.value \in Address /\ sym.size \in Nat
  BY <1>1 DEF Resolver!ElfSymbol
<1>8. regions # <<>>
  BY <1>1 DEF StageInv
<1>9. sizes' = IF IsEntry(sym) THEN WithSize(sym.value, sym.size) ELSE sizes
  BY DEF TakeSymbol
<1> HIDE DEF n, sym
<1>10. /\ DOMAIN sizes' \subseteq Address /\ \A a \in DOMAIN sizes' : sizes'[a] \in Nat
       /\ DOMAIN sizes' = DOMAIN sizes
                            \cup (IF IsEntry(sym) /\ sym.size > 0 THEN {sym.value} ELSE {})
       /\ \A a \in DOMAIN sizes : sizes'[a] = sizes[a]
       /\ IsEntry(sym) /\ sym.size > 0 /\ sym.value \notin DOMAIN sizes =>
            sizes'[sym.value] = sym.size
  <2>1. CASE IsEntry(sym)
    <3>1. sym.size > 0 <=> sym.size # 0
      BY <1>7
    <3>2. sizes' = WithSize(sym.value, sym.size)
      BY <1>9, <2>1
    <3> QED
      BY <1>7, <2>1, <3>1, <3>2, WithSizeIs
  <2>2. CASE ~IsEntry(sym)
    BY <1>9, <2>2 DEF GivenInv
  <2> QED
    BY <2>1, <2>2
<1>11. ASSUME NEW a \in Address
       PROVE  /\ a \in DOMAIN sizes' <=> SeenSymbols(a)' # {}
              /\ \A i : IsFirstOf(i, SeenSymbols(a)') => sizes'[a] = symbols[i].size
  <2>1. /\ a \in DOMAIN sizes <=> SeenSymbols(a) # {}
        /\ \A i : IsFirstOf(i, SeenSymbols(a)) => sizes[a] = symbols[i].size
    BY <1>4, <1>8, <1>11 DEF GivenInv, IsFirstOf
  <2>2. CASE n \notin SizingSymbols(a)
    <3>1. SeenSymbols(a)' = SeenSymbols(a)
      BY <1>6, <2>2
    <3>2. a \in DOMAIN sizes' <=> a \in DOMAIN sizes
      BY <1>5, <1>10, <2>2
    <3>3. ASSUME NEW i, IsFirstOf(i, SeenSymbols(a)') PROVE sizes'[a] = symbols[i].size
      <4>1. IsFirstOf(i, SeenSymbols(a)) /\ SeenSymbols(a) # {}
        BY <3>1, <3>3 DEF IsFirstOf
      <4> QED
        BY <1>10, <2>1, <4>1
    <3> QED
      BY <2>1, <3>1, <3>2, <3>3
  <2>3. CASE n \in SizingSymbols(a)
    <3>1. SeenSymbols(a)' = SeenSymbols(a) \cup {n}
      BY <1>6, <2>3
    <3>2. IsEntry(sym) /\ sym.value = a /\ sym.size > 0 /\ a \in DOMAIN sizes'
      BY <1>5, <1>10, <2>3
    <3>3. ASSUME NEW i, IsFirstOf(i, SeenSymbols(a)') PROVE sizes'[a] = symbols[i].size
      <4>1. IF SeenSymbols(a) = {} THEN i = n ELSE IsFirstOf(i, SeenSymbols(a))
        BY <1>1, <1>6, <3>1, <3>3, FirstOfMore
      <4> QED
        BY <1>10, <2>1, <3>2, <4>1 DEF sym
    <3> QED
      BY <3>1, <3>2, <3>3
  <2> QED
    BY <2>2, <2>3
<1> QED
  BY <1>1, <1>4, <1>10, <1>11 DEF GivenInv

\* An unwind entry does if no symbol and no earlier entry did.
LEMMA TakeUnwindGiven ==
  ASSUME StageInv, GivenInv, TakeUnwindEntry
  PROVE  GivenInv'
<1> DEFINE n == taken + 1
           fn == unwind[n]
           sizes == authoritativeSizes
<1>1. /\ stage = "unwind" /\ stage' = "unwind" /\ analysisOptions.useEhFrame
      /\ taken \in Nat /\ taken' = n /\ n \in DOMAIN unwind /\ n \in Nat
      /\ UNCHANGED <<image, symbols, entryPoint, unwind, analysisOptions>>
      /\ fn.start \in Address /\ fn.size \in Nat /\ fn.size > 0
  <2>1. fn \in [start : Address, size : Nat \ {0}]
    <3> DEFINE T == [start : Address, size : Nat \ {0}]
    <3>1. unwind \in Seq(T) /\ n \in 1 .. Len(unwind)
      BY DEF TakeUnwindEntry, StageInv
    <3> HIDE DEF T, n
    <3>2. unwind[n] \in T
      BY <3>1
    <3> QED
      BY <3>2 DEF T
  <2>2. fn.start \in Address /\ fn.size \in Nat /\ fn.size > 0
    BY <2>1
  <2> QED
    BY <2>2 DEF TakeUnwindEntry, StageInv, elfVars
<1>2. UnwindSeen = taken /\ UnwindSeen' = n /\ SymbolsSeen' = SymbolsSeen
  BY <1>1 DEF SymbolsSeen, UnwindSeen, BeforeSymbols, BeforeUnwind
<1>3. 1 .. n = (1 .. taken) \cup {n}
  BY <1>1
<1>4. \A a : SeenSymbols(a)' = SeenSymbols(a)
  BY <1>1, <1>2 DEF SeenSymbols, SizingSymbols
<1>5. \A a : /\ SizingEntries(a)' = SizingEntries(a)
             /\ n \in SizingEntries(a) <=> fn.start = a
  BY <1>1 DEF SizingEntries
<1>6. \A a : /\ SeenEntries(a)' = SeenEntries(a) \cup ({n} \cap SizingEntries(a))
             /\ SeenEntries(a) \in SUBSET Nat /\ \A j \in SeenEntries(a) : j < n
  BY <1>1, <1>2, <1>3, <1>5 DEF SeenEntries
<1>8. regions # <<>>
  BY <1>1 DEF StageInv
<1>9. sizes' = WithSize(fn.start, fn.size)
  BY DEF TakeUnwindEntry
<1> HIDE DEF n, fn
<1>10. /\ DOMAIN sizes' \subseteq Address /\ \A a \in DOMAIN sizes' : sizes'[a] \in Nat
       /\ DOMAIN sizes' = DOMAIN sizes \cup {fn.start}
       /\ \A a \in DOMAIN sizes : sizes'[a] = sizes[a]
       /\ fn.start \notin DOMAIN sizes => sizes'[fn.start] = fn.size
  <2>1. fn.size # 0
    BY <1>1
  <2> QED
    BY <1>1, <1>9, <2>1, WithSizeIs
<1>11. ASSUME NEW a \in Address
       PROVE  /\ a \in DOMAIN sizes' <=> SeenSymbols(a) # {} \/ SeenEntries(a)' # {}
              /\ \A i : IsFirstOf(i, SeenSymbols(a)) => sizes'[a] = symbols[i].size
              /\ \A i : SeenSymbols(a) = {} /\ IsFirstOf(i, SeenEntries(a)') =>
                          sizes'[a] = unwind[i].size
  <2>1. /\ a \in DOMAIN sizes <=> SeenSymbols(a) # {} \/ SeenEntries(a) # {}
        /\ \A i : IsFirstOf(i, SeenSymbols(a)) => sizes[a] = symbols[i].size
        /\ \A i : SeenSymbols(a) = {} /\ IsFirstOf(i, SeenEntries(a)) =>
                    sizes[a] = unwind[i].size
    BY <1>8, <1>11 DEF GivenInv, IsFirstOf
  <2>2. \A i : IsFirstOf(i, SeenSymbols(a)) => sizes'[a] = symbols[i].size
    BY <1>10, <2>1 DEF IsFirstOf
  <2>3. CASE fn.start # a
    <3>1. SeenEntries(a)' = SeenEntries(a) /\ (a \in DOMAIN sizes' <=> a \in DOMAIN sizes)
      BY <1>5, <1>6, <1>10, <2>3
    <3>2. \A i : SeenSymbols(a) = {} /\ IsFirstOf(i, SeenEntries(a)') =>
                   sizes'[a] = unwind[i].size
      BY <1>10, <2>1, <3>1 DEF IsFirstOf
    <3> QED
      BY <2>1, <2>2, <3>1, <3>2
  <2>4. CASE fn.start = a
    <3>1. SeenEntries(a)' = SeenEntries(a) \cup {n} /\ a \in DOMAIN sizes'
      BY <1>5, <1>6, <1>10, <2>4
    <3>2. ASSUME NEW i, SeenSymbols(a) = {}, IsFirstOf(i, SeenEntries(a)')
          PROVE  sizes'[a] = unwind[i].size
      <4>1. IF SeenEntries(a) = {} THEN i = n ELSE IsFirstOf(i, SeenEntries(a))
        BY <1>1, <1>6, <3>1, <3>2, FirstOfMore
      <4>2. CASE SeenEntries(a) = {}
        BY <1>10, <2>1, <2>4, <3>2, <4>1, <4>2 DEF fn
      <4>3. CASE SeenEntries(a) # {}
        BY <1>10, <2>1, <3>2, <4>1, <4>3
      <4> QED
        BY <4>2, <4>3
    <3> QED
      BY <2>2, <3>1, <3>2
  <2> QED
    BY <2>3, <2>4
<1> QED
  BY <1>1, <1>4, <1>10, <1>11 DEF GivenInv

\* The other steps give no size.
LEMMA GivenFrame ==
  ASSUME GivenInv, UNCHANGED <<image, symbols, unwind, authoritativeSizes>>,
         regions # <<>> =>
           \A a : SeenSymbols(a)' = SeenSymbols(a) /\ SeenEntries(a)' = SeenEntries(a)
  PROVE  GivenInv'
BY DEF GivenInv, IsFirstOf, image

\* Every step keeps what is said of the sizes.
LEMMA GivenKept ==
  ASSUME StageInv, GivenInv, [PipelineNext]_pipelineVars
  PROVE  GivenInv'
<1> DEFINE Same == \A a : SeenSymbols(a)' = SeenSymbols(a) /\ SeenEntries(a)' = SeenEntries(a)
           NoSize == UNCHANGED <<image, symbols, entryPoint, unwind, authoritativeSizes>>
<1>1. CASE TakeSymbol \/ TakeUnwindEntry
  BY <1>1, TakeSymbolGiven, TakeUnwindGiven
<1>2. CASE TakeEntryPoint
  <2>1. /\ NoSize /\ stage = "symbols" /\ stage' = "unwind" /\ UNCHANGED analysisOptions
        /\ taken' = 0 /\ (analysisOptions.useSymbols => taken = Len(symbols))
    BY <1>2 DEF TakeEntryPoint, elfVars
  <2>2. SymbolsSeen' = SymbolsSeen /\ UnwindSeen = 0 /\ UnwindSeen' = 0
    BY <2>1 DEF SymbolsSeen, UnwindSeen, BeforeSymbols, BeforeUnwind
  <2>3. Same
    BY <2>1, <2>2 DEF SeenSymbols, SeenEntries, SizingSymbols, SizingEntries
  <2> QED
    BY <2>1, <2>3, GivenFrame
<1>3. CASE \E opts \in AnalysisOptionSets : AnalyzeImage(opts)
  <2>1. /\ NoSize /\ UNCHANGED taken /\ stage = "idle"
        /\ stage' = IF regions = <<>> THEN "done" ELSE "names"
    BY <1>3 DEF AnalyzeImage, elfVars, entryVars
  <2>2. regions # <<>> => Same
    BY <2>1, SeenKept
  <2> QED
    BY <2>1, <2>2, GivenFrame
<1>4. CASE ResolveName \/ NamesResolved
  <2>1. /\ NoSize /\ UNCHANGED <<analysisOptions, taken>>
        /\ stage = "names" /\ stage' \in {"names", "symbols"}
    BY <1>4 DEF ResolveName, NamesResolved, Resolver!ReadName, elfVars, entryVars
  <2>2. regions # <<>> => Same
    BY <2>1, SeenKept
  <2> QED
    BY <2>1, <2>2, GivenFrame
<1>5. CASE StrongStartsKnown
  <2>1. /\ NoSize /\ UNCHANGED <<analysisOptions, taken>>
        /\ stage = "unwind" /\ stage' \in {"traversal", "extents"}
        /\ analysisOptions.useEhFrame => taken = Len(unwind)
    BY <1>5 DEF StrongStartsKnown, elfVars, Recursive!Discover, image, Recursive!image
  <2>2. regions # <<>> => Same
    BY <2>1, SeenKept
  <2> QED
    BY <2>1, <2>2, GivenFrame
<1>6. CASE \/ Traverse \/ FindExtents \/ FindExtent \/ UNCHANGED pipelineVars
  <2>1. NoSize /\ UNCHANGED <<analysisOptions, taken, stage>>
    BY <1>6, AnalyzeStepFrame, TraversalFrame
       DEF Traverse, FindExtents, FindExtent, Analyze, pipelineFrame, pipelineVars, elfVars,
           entryVars
  <2>2. regions # <<>> => Same
    BY <2>1, SeenKept
  <2> QED
    BY <2>1, <2>2, GivenFrame
<1>7. CASE Traversed \/ Report
  <2>1. /\ NoSize /\ UNCHANGED <<analysisOptions, taken>>
        /\ \/ stage = "traversal" /\ stage' = "extents"
           \/ stage = "extents" /\ stage' = "done"
    BY <1>7 DEF Traversed, Report, pipelineFrame, elfVars, entryVars
  <2>2. regions # <<>> => Same
    BY <2>1, SeenKept
  <2> QED
    BY <2>1, <2>2, GivenFrame
<1> QED
  BY <1>1, <1>2, <1>3, <1>4, <1>5, <1>6, <1>7 DEF PipelineNext, PipelineStep
-----------------------------------------------------------------------------
(***************************************************************************)
(* The traversal.                                                          *)
(***************************************************************************)

\* Entries are addresses.
LEMMA EntryTypes ==
  ASSUME StageInv, EntriesInv, TraversalInv, TypeInv
  PROVE  /\ Known \subseteq Address
         /\ starts \subseteq Address /\ strongStarts \subseteq Address
         /\ FallbackSeeds \subseteq Address
<1>1. Known \subseteq Address
  <2> DEFINE T == [start : Address, size : Nat \ {0}]
             E == Resolver!ElfSymbol
  <2>1. symbols \in Seq(E) /\ unwind \in Seq(T) /\ entryPoint \in Address
        /\ taken \in Nat /\ stage \in Stages
        /\ (stage = "symbols" => taken <= Len(symbols))
        /\ (stage = "unwind" => taken <= Len(unwind))
    BY DEF StageInv
  <2> HIDE DEF T, E
  <2>2. 1 .. SymbolsSeen \subseteq DOMAIN symbols /\ 1 .. UnwindSeen \subseteq DOMAIN unwind
    BY <2>1 DEF SymbolsSeen, UnwindSeen, BeforeSymbols, BeforeUnwind
  <2>3. \A i \in DOMAIN symbols : symbols[i] \in E
    BY <2>1
  <2>4. \A i \in DOMAIN unwind : unwind[i] \in T
    BY <2>1
  <2>5. (\A e \in E : e.value \in Address) /\ \A t \in T : t.start \in Address
    BY DEF E, T, Resolver!ElfSymbol
  <2>6. EntryPointSeen \subseteq Address
    BY <2>1 DEF EntryPointSeen
  <2> QED
    BY <2>2, <2>3, <2>4, <2>5, <2>6 DEF Known
<1>2. functionStarts \subseteq Address
  BY SameImage DEF TraversalInv, Traversal!IInv, Traversal!TypeOK
<1>3. starts \subseteq Address /\ (strongStarts \subseteq Address)
  <2>1. CASE stage \in {"extents", "done"}
    BY <1>1, <1>2, <2>1 DEF EntriesInv, InCode
  <2>2. CASE stage \notin {"extents", "done"}
    <3>1. InCode(Known) \subseteq Address
      BY <1>1 DEF InCode
    <3> QED
      BY <2>2, <3>1 DEF EntriesInv
  <2> QED
    BY <2>1, <2>2
<1>4. FallbackSeeds \subseteq Address
  <2>1. IsImage(regions, words)
    BY TypeFacts
  <2>2. \A i \in DOMAIN regions : regions[i] \in Region
    BY <2>1 DEF IsImage
  <2> QED
    BY <2>2 DEF FallbackSeeds, Region
<1> QED
  BY <1>1, <1>3, <1>4

\* The steps of the other parts leave it as it is.
LEMMA TraversalUntouched ==
  ASSUME Traversal!IInv, UNCHANGED <<image, recursiveVars>>
  PROVE  Traversal!IInv'
<1>1. UNCHANGED Traversal!vars
  BY DEF Traversal!vars, Traversal!discoverVars, Traversal!image, image, recursiveVars
<1> QED
  BY <1>1, TraversalAssumptions, Traversal!NextIInv

\* Every step keeps what is said of the traversal.
LEMMA TraversalKept ==
  ASSUME PInv, [PipelineNext]_pipelineVars
  PROVE  TraversalInv'
<1> USE DEF PInv
<1>1. UNCHANGED image => FallbackSeeds' = FallbackSeeds
  BY DEF FallbackSeeds, image
<1>2. CASE \/ \E opts \in AnalysisOptionSets : AnalyzeImage(opts)
           \/ ResolveName \/ NamesResolved \/ TakeSymbol \/ TakeEntryPoint \/ TakeUnwindEntry
  <2>1. /\ UNCHANGED <<image, recursiveVars>>
        /\ stage \in {"idle", "names", "symbols", "unwind"}
        /\ stage' \in {"names", "symbols", "unwind", "done"}
        /\ stage' = "done" => regions = <<>>
    BY <1>2 DEF AnalyzeImage, ResolveName, NamesResolved, TakeSymbol, TakeEntryPoint,
                TakeUnwindEntry, Resolver!ReadName
  <2>2. phase' = "idle" /\ (stage' = "done" => regions' = <<>>)
    BY <2>1 DEF TraversalInv, recursiveVars, image
  <2> QED
    BY <2>1, <2>2, TraversalUntouched DEF TraversalInv
<1>3. CASE StrongStartsKnown
  <2>1. /\ stage = "unwind" /\ strongStarts' = starts /\ UNCHANGED <<image, analysisOptions>>
    BY <1>3 DEF StrongStartsKnown, Recursive!Discover, Recursive!image, image
  <2>2. phase = "idle"
    BY <2>1 DEF TraversalInv
  <2>3. CASE analysisOptions.useRecursive
    <3> DEFINE from == IF starts = {} THEN FallbackSeeds ELSE starts
               cap == analysisOptions.maxInstructions
    <3>1. Recursive!Discover(from, cap) /\ stage' = "traversal"
      BY <1>3, <2>3 DEF StrongStartsKnown
    <3>2. phase' = "seeding" /\ seeds' = from
      BY <3>1 DEF Recursive!Discover
    <3>3. from \in SUBSET Traversal!Address
      BY EntryTypes, SameImage DEF AnalysisInv
    <3>4. cap \in Nat
      BY DEF StageInv, AnalysisOptions
    <3> HIDE DEF from, cap
    <3>5. Traversal!Discover(from, cap)
      BY <3>1, SameSteps
    <3>6. Traversal!IInv'
      BY <3>3, <3>4, <3>5, TraversalAssumptions, Traversal!DiscoverIInv DEF TraversalInv
    <3> QED
      BY <1>1, <2>1, <3>1, <3>2, <3>6 DEF TraversalInv, from
  <2>4. CASE ~analysisOptions.useRecursive
    <3>1. UNCHANGED <<image, recursiveVars>> /\ stage' = "extents"
      BY <1>3, <2>4 DEF StrongStartsKnown
    <3> QED
      BY <2>1, <2>2, <2>4, <3>1, TraversalUntouched DEF TraversalInv, recursiveVars
  <2> QED
    BY <2>3, <2>4
<1>4. CASE Traverse
  <2>1. /\ Recursive!DiscoverStep /\ stage = "traversal"
        /\ UNCHANGED <<image, stage, strongStarts, seeds>> /\ phase' # "idle"
    BY <1>4, TraversalFrame DEF Traverse, entryVars
  <2>2. Traversal!IInv'
    BY <2>1, TraversalStep DEF TraversalInv
  <2> QED
    BY <1>1, <2>1, <2>2 DEF TraversalInv
<1>5. CASE Traversed
  <2>1. /\ UNCHANGED <<image, recursiveVars, strongStarts, analysisOptions>>
        /\ stage' = "extents" /\ phase = "discovered"
    BY <1>5 DEF Traversed
  <2>2. UNCHANGED <<phase, seeds>>
    BY <2>1 DEF recursiveVars
  <2> QED
    BY <1>1, <2>1, <2>2, TraversalUntouched DEF TraversalInv
<1>6. CASE FindExtents \/ FindExtent \/ Report \/ UNCHANGED pipelineVars
  <2>1. /\ UNCHANGED <<image, recursiveVars, strongStarts, analysisOptions>>
        /\ stage' = stage \/ (stage = "extents" /\ stage' = "done")
    BY <1>6, AnalyzeStepFrame
       DEF FindExtents, FindExtent, Analyze, Report, pipelineFrame, pipelineVars, entryVars
  <2>2. UNCHANGED <<phase, seeds>> /\ regions' = regions
    BY <2>1 DEF recursiveVars, image
  <2> QED
    BY <1>1, <2>1, <2>2, TraversalUntouched DEF TraversalInv
<1> QED
  BY <1>2, <1>3, <1>4, <1>5, <1>6 DEF PipelineNext, PipelineStep
-----------------------------------------------------------------------------
(***************************************************************************)
(* The analysis of the extents, and the report.                            *)
(***************************************************************************)

\* Functions start at whole words: at entries, or where a gap is carved.
LEMMA StartsAligned ==
  ASSUME AInv, AnalyzeStep,
         \A fn \in emitted \cup gapFunctions : fn.start \in AlignedAddress
  PROVE  \A fn \in emitted' \cup gapFunctions' : fn.start \in AlignedAddress
<1>1. EntryBoundaries \subseteq AlignedAddress
  BY EntryFacts, SearchTypes
<1>2. ASSUME NEW c \in AlignedAddress, NEW end, EmitReferenced(c, end)
      PROVE  \A fn \in emitted' : fn \in emitted \/ fn.start \in AlignedAddress
  BY <1>2 DEF EmitReferenced, Bounds
<1>3. CASE GraphStep
  BY <1>3 DEF GraphStep, analyzerVars, candidateVars, gapVars
<1>4. CASE \E c \in pending : EmitAuthoritative(c)
  <2>1. PICK c \in pending : EmitAuthoritative(c)
    BY <1>4
  <2>2. c \in AlignedAddress
    BY <1>1 DEF AInv, AnalyzerTypeOK
  <2> QED
    BY <1>2, <2>1, <2>2 DEF EmitAuthoritative, gapVars
<1>5. CASE EmitExtent
  <2>1. request.entry \in AlignedAddress
    BY <1>1, <1>5 DEF EmitExtent, AInv, CandidatesInv, ExtentInv
  <2> QED
    BY <1>2, <1>5, <2>1 DEF EmitExtent, gapVars
<1>6. CASE \/ \E c \in pending : DemoteInterior(c) \/ StartExtent(c)
           \/ CandidatesDone
  BY <1>6 DEF DemoteInterior, StartExtent, CandidatesDone, gapVars
<1>7. CASE AcceptGapFunction
  <2>1. cursor \in AlignedAddress
    BY <1>7 DEF AcceptGapFunction, AInv, SearchInv, CarveInv, Carried
  <2> QED
    BY <1>7, <2>1 DEF AcceptGapFunction, carveFrame, candidateVars, Bounds
<1>8. CASE \/ \E fn \in todo : PassFunction(fn)
           \/ LeaveRegion \/ GapsDone \/ CarveDone \/ SkipPadding \/ SkipData
           \/ StartGapCfg \/ RejectGapFunction
  BY <1>8 DEF PassFunction, LeaveRegion, GapsDone, CarveDone, SkipPadding, SkipData,
     StartGapCfg, RejectGapFunction, carveFrame, candidateVars, gapVars
<1>9. CASE FilterStep
  BY <1>9 DEF FilterStep, Filter, FilterDone, candidateVars, gapVars
<1> QED
  BY <1>3, <1>4, <1>5, <1>6, <1>7, <1>8, <1>9
     DEF AnalyzeStep, CandidateStep, GapStep

\* The pipeline calls the analyser with a proper input.
LEMMA PipelineInputType ==
  ASSUME PInv
  PROVE  IsInput(PipelineInput)
BY EntryTypes DEF PInv, AnalysisInv, GivenInv, IsInput, PipelineInput

\* The steps of the other parts leave it as it is.
LEMMA AnalysisUntouched ==
  ASSUME TypeInv, UNCHANGED <<image, extentVars>>
  PROVE  TypeInv'
<1>1. UNCHANGED analyzeVars
  BY DEF analyzeVars, extentVars
<1> QED
  BY <1>1, NextTypes

\* Every step keeps what is said of the analyser.
LEMMA AnalysisKept ==
  ASSUME PInv, [PipelineNext]_pipelineVars
  PROVE  AnalysisInv'
<1> USE DEF PInv
<1>1. CASE \/ \E opts \in AnalysisOptionSets : AnalyzeImage(opts)
           \/ ResolveName \/ NamesResolved \/ TakeSymbol \/ TakeEntryPoint \/ TakeUnwindEntry
           \/ StrongStartsKnown \/ Traverse \/ Traversed
  <2>1. UNCHANGED <<image, extentVars>> /\ stage \notin {"extents", "done"}
    BY <1>1, TraversalFrame
       DEF AnalyzeImage, ResolveName, NamesResolved, TakeSymbol, TakeEntryPoint,
           TakeUnwindEntry, StrongStartsKnown, Traverse, Traversed, Resolver!ReadName,
           Recursive!Discover, Recursive!image, image
  <2>2. pc' = "idle"
    BY <2>1 DEF AnalysisInv, extentVars, analyzerVars
  <2> QED
    BY <2>1, <2>2, AnalysisUntouched DEF AnalysisInv
<1>2. CASE FindExtents
  <2> DEFINE opts == [DefaultOptions EXCEPT
                        !.maxInstructions = analysisOptions.maxInstructions]
  <2>1. stage = "extents" /\ Analyze(PipelineInput, opts)
    BY <1>2 DEF FindExtents, PipelineInput
  <2>2. opts \in Options
    BY DEF StageInv, AnalysisOptions, Options, DefaultOptions
  <2> HIDE DEF opts
  <2>3. TypeInv'
    BY <2>1, <2>2, PipelineInputType, AnalyzeTypes DEF AnalysisInv
  <2>4. PipelineInput' = PipelineInput /\ stage' = stage
    BY <1>2 DEF FindExtents, pipelineFrame, entryVars, PipelineInput
  <2>5. input' = PipelineInput
    BY <2>1 DEF Analyze
  <2> QED
    BY <2>1, <2>3, <2>4, <2>5 DEF AnalysisInv
<1>3. CASE FindExtent
  <2>1. AnalyzeStep /\ UNCHANGED <<stage, entryVars>>
    BY <1>3 DEF FindExtent, pipelineFrame
  <2>2. TypeInv'
    BY <2>1, NextTypes DEF AnalysisInv, AnalyzeNext
  <2>3. PipelineInput' = PipelineInput
    BY <2>1 DEF PipelineInput, entryVars
  <2>4. UNCHANGED input /\ (pc' # "idle" => pc # "idle")
    BY <2>1, AnalyzeStepFrame DEF analyzerVars
  <2> QED
    BY <2>1, <2>2, <2>3, <2>4 DEF AnalysisInv
<1>4. CASE Report \/ UNCHANGED pipelineVars
  <2>1. /\ UNCHANGED <<image, extentVars, entryVars>>
        /\ stage \in {"extents", "done"} => stage' \in {"extents", "done"}
    BY <1>4 DEF Report, pipelineFrame, pipelineVars
  <2>2. UNCHANGED <<pc, input, PipelineInput>>
    BY <2>1 DEF extentVars, analyzerVars, constVars, entryVars, PipelineInput
  <2> QED
    BY <2>1, <2>2, AnalysisUntouched DEF AnalysisInv
<1> QED
  BY <1>1, <1>2, <1>3, <1>4 DEF PipelineNext, PipelineStep

\* The report describes the functions found, and is not touched again.
LEMMA ReportKept ==
  ASSUME PInv, [PipelineNext]_pipelineVars
  PROVE  ReportInv'
<1> USE DEF PInv
<1>1. CASE Report
  <2>1. /\ stage' = "done" /\ pc = "done" /\ regions # <<>>
        /\ UNCHANGED <<image, pc, result, disassembled>>
    BY <1>1 DEF Report, StageInv, pipelineFrame, extentVars, analyzerVars, filterVars,
                recursiveVars
  <2>2. PICK order \in Bijection(DOMAIN result, DOMAIN result) :
               functions' = [i \in DOMAIN result |-> FunctionOf(result[order[i]])]
    BY <1>1 DEF Report
  <2>3. /\ \A i \in DOMAIN result : order[i] \in DOMAIN result
        /\ \A j \in DOMAIN result : \E i \in DOMAIN result : order[i] = j
    BY <2>2 DEF Bijection, Injection, Surjection
  <2>4. \A b : Describes(FunctionOf(b), b)
    BY DEF Describes, FunctionOf
  <2>5. \A fn, b : Describes(fn, b)' <=> Describes(fn, b)
    <3>1. \A s, e : LastInstructionOf(s, e)' = LastInstructionOf(s, e)
      BY <2>1 DEF LastInstructionOf, EndAddress
    <3> QED
      BY <3>1 DEF Describes
  <2>6. Reported' = {FunctionOf(result[order[i]]) : i \in DOMAIN result}
    BY <2>2 DEF Reported
  <2>7. Functions' = Functions /\ Functions = {result[i] : i \in DOMAIN result}
    BY <2>1 DEF Functions
  <2>8. \A fn \in Reported' : \E b \in Functions : Describes(fn, b)
    BY <2>3, <2>4, <2>6, <2>7
  <2>9. \A b \in Functions : \E fn \in Reported' : Describes(fn, b)
    <3> SUFFICES ASSUME NEW j \in DOMAIN result
                 PROVE  \E fn \in Reported' : Describes(fn, result[j])
      BY <2>7
    <3>1. PICK i \in DOMAIN result : order[i] = j
      BY <2>3
    <3> QED
      BY <2>4, <2>6, <3>1
  <2>10. stage' = "done" /\ pc' = "done" /\ regions' # <<>>
    BY <2>1 DEF image
  <2> QED
    BY <2>5, <2>7, <2>8, <2>9, <2>10 DEF ReportInv
<1>2. CASE stage = "done" /\ ~Report
  <2>1. /\ UNCHANGED <<regions, stage, functions, disassembled>>
        /\ pc = "done" => UNCHANGED <<pc, result>>
    <3>1. FindExtent \/ UNCHANGED pipelineVars
      BY <1>2 DEF PipelineNext, PipelineStep, AnalyzeImage, ResolveName, NamesResolved,
         TakeSymbol, TakeEntryPoint, TakeUnwindEntry, StrongStartsKnown, Traverse, Traversed,
         FindExtents
    <3> QED
      BY <3>1, AnalyzeStepFrame
         DEF FindExtent, pipelineVars, pipelineFrame, recursiveVars, extentVars, image,
             analyzerVars, filterVars
  <2>2. \A s, e : LastInstructionOf(s, e)' = LastInstructionOf(s, e)
    BY <2>1 DEF LastInstructionOf, EndAddress
  <2>3. \A fn, b : Describes(fn, b)' <=> Describes(fn, b)
    BY <2>2 DEF Describes
  <2>4. Reported' = Reported /\ (pc = "done" => Functions' = Functions)
    BY <2>1 DEF Reported, Functions
  <2> QED
    BY <1>2, <2>1, <2>3, <2>4 DEF ReportInv
<1>3. CASE stage # "done" /\ ~Report
  <2>1. /\ UNCHANGED <<image, functions>>
        /\ stage' = "done" => regions = <<>>
    <3>1. CASE \/ \E opts \in AnalysisOptionSets : AnalyzeImage(opts)
               \/ ResolveName \/ NamesResolved \/ TakeSymbol \/ TakeEntryPoint
               \/ TakeUnwindEntry
      BY <3>1 DEF AnalyzeImage, ResolveName, NamesResolved, TakeSymbol, TakeEntryPoint,
                  TakeUnwindEntry, Resolver!ReadName
    <3>2. CASE StrongStartsKnown \/ Traverse \/ Traversed
      BY <3>2, TraversalFrame
         DEF StrongStartsKnown, Traverse, Traversed, Recursive!Discover, Recursive!image, image
    <3>3. CASE FindExtents \/ FindExtent \/ UNCHANGED pipelineVars
      BY <1>3, <3>3, AnalyzeStepFrame DEF FindExtents, FindExtent, Analyze, pipelineVars
    <3> QED
      BY <1>3, <3>1, <3>2, <3>3 DEF PipelineNext, PipelineStep
  <2>2. functions = <<>>
    BY <1>3 DEF ReportInv
  <2> QED
    BY <2>1, <2>2 DEF ReportInv, image
<1> QED
  BY <1>1, <1>2, <1>3
-----------------------------------------------------------------------------
(***************************************************************************)
(* The theorems.                                                           *)
(***************************************************************************)

\* The invariant holds before the call.
LEMMA InitPInv == PipelineInit => PInv
<1> SUFFICES ASSUME PipelineInit PROVE PInv
  OBVIOUS
<1>1. /\ stage = "idle" /\ taken = 0 /\ analysisOptions = AllSources
      /\ starts = {} /\ strongStarts = {} /\ functions = <<>>
      /\ authoritativeSizes = [a \in {} |-> 0]
      /\ AnalyzeInit /\ Recursive!DiscoverInit
  BY DEF PipelineInit, Resolver!Empty
<1>2. StageInv
  <2>1. /\ symbols \in Seq(Resolver!ElfSymbol) /\ entryPoint \in Address
        /\ unwind \in Seq([start : Address, size : Nat \ {0}])
    BY PipelineAssumption DEF PipelineInit
  <2>2. AllSources \in AnalysisOptions
    BY DEF AllSources, AnalysisOptions
  <2> QED
    BY <1>1, <2>1, <2>2 DEF StageInv, Stages, BeforeSymbols
<1>3. SymbolsSeen = 0 /\ UnwindSeen = 0 /\ EntryPointSeen = {}
  BY <1>1 DEF SymbolsSeen, UnwindSeen, EntryPointSeen, BeforeSymbols, BeforeUnwind
<1>4. EntriesInv
  <2>1. Known = {}
    BY <1>3 DEF Known
  <2> QED
    BY <1>1, <2>1 DEF EntriesInv, InCode
<1>5. GivenInv
  BY <1>1, <1>3 DEF GivenInv, SeenSymbols, SeenEntries
<1>6. TraversalInv
  <2>1. Traversal!Init
    BY <1>1, SameSteps DEF AnalyzeInit
  <2>2. Traversal!IInv
    BY <2>1, TraversalAssumptions, Traversal!InitIInv
  <2>3. phase = "idle"
    BY <1>1 DEF Recursive!DiscoverInit
  <2> QED
    BY <1>1, <2>2, <2>3 DEF TraversalInv
<1>7. AnalysisInv
  <2>1. TypeInv /\ pc = "idle"
    BY <1>1, InitTypes DEF AnalyzeInit, AnalyzerInit
  <2> QED
    BY <2>1 DEF AnalysisInv
<1>8. ReportInv
  BY <1>1 DEF ReportInv
<1> QED
  BY <1>2, <1>4, <1>5, <1>6, <1>7, <1>8 DEF PInv

\* The invariant, for whatever image and options the pipeline is given.
THEOREM PipelineInvariance == PipelineSpec => []PInv
<1>1. PipelineInit => PInv
  BY InitPInv
<1>2. PInv /\ [PipelineNext]_pipelineVars => PInv'
  BY StageKept, EntriesKept, GivenKept, TraversalKept, AnalysisKept, ReportKept DEF PInv
<1> QED
  BY <1>1, <1>2, PTL DEF PipelineSpec

\* A step of the pipeline is one of the analyser's, or leaves it alone.
LEMMA ExtentsKept ==
  ASSUME PInv, ExtentsInv, BelowTop(regions), [PipelineNext]_pipelineVars
  PROVE  ExtentsInv' /\ UNCHANGED image
<1> USE DEF ExtentsInv
<1>1. CASE FindExtents
  <2> DEFINE opts == [DefaultOptions EXCEPT
                        !.maxInstructions = analysisOptions.maxInstructions]
  <2>1. Analyze(PipelineInput, opts)
    BY <1>1 DEF FindExtents, PipelineInput
  <2>2. opts \in Options
    BY DEF PInv, StageInv, AnalysisOptions, Options, DefaultOptions
  <2>3. SettlingInv'
    BY <1>1, AnalyzeSettlingInv DEF FindExtents
  <2> HIDE DEF opts
  <2>4. AInv'
    BY <2>1, <2>2, PipelineInputType, AnalyzeAInv
  <2>5. UNCHANGED <<image, emitted, gapFunctions>>
    BY <2>1 DEF Analyze, gapVars
  <2> QED
    BY <2>3, <2>4, <2>5
<1>2. CASE FindExtent
  <2>1. AnalyzeStep
    BY <1>2 DEF FindExtent
  <2> QED
    BY <2>1, NextAInv, NextSettlingInv, StartsAligned, AnalyzeStepFrame DEF AnalyzeNext
<1>3. CASE ~FindExtents /\ ~FindExtent
  <2>1. UNCHANGED <<image, extentVars>>
    BY <1>3, TraversalFrame
       DEF PipelineNext, PipelineStep, AnalyzeImage, ResolveName, NamesResolved, TakeSymbol,
           TakeEntryPoint, TakeUnwindEntry, StrongStartsKnown, Traverse, Traversed, Report,
           Resolver!ReadName, Recursive!Discover, Recursive!image, image, pipelineVars
  <2>2. UNCHANGED <<analyzeVars, emitted, gapFunctions>>
    BY <2>1 DEF analyzeVars, extentVars, analyzerVars, candidateVars, gapVars
  <2> QED
    BY <2>1, <2>2, NextAInv, NextSettlingInv
<1> QED
  BY <1>1, <1>2, <1>3

\* With no region at the top of the address space, the analysis of the extents
\* keeps in the pipeline all that it promises by itself.
THEOREM ExtentsInvariance ==
  PipelineSpec /\ BelowTop(regions) => [](PInv /\ ExtentsInv)
<1>1. PipelineInit => ExtentsInv
  <2> SUFFICES ASSUME PipelineInit PROVE ExtentsInv
    OBVIOUS
  <2>1. AnalyzeInit /\ emitted = {} /\ gapFunctions = {}
    BY DEF PipelineInit, AnalyzeInit, AnalyzerInit
  <2> QED
    BY <2>1, InitAInv, InitSettlingInv DEF ExtentsInv
<1>2. PInv /\ (ExtentsInv /\ BelowTop(regions)) /\ [PipelineNext]_pipelineVars
        => (ExtentsInv /\ BelowTop(regions))'
  BY ExtentsKept DEF image
<1> QED
  BY <1>1, <1>2, PipelineInvariance, PTL DEF PipelineSpec

\* What the pipeline knows in the end are the sources that were wanted.
LEMMA KnownWhenDone ==
  ASSUME stage = "done", StageInv
  PROVE  Known = Sources
<1>1. /\ SymbolsSeen = IF analysisOptions.useSymbols THEN Len(symbols) ELSE 0
      /\ UnwindSeen = IF analysisOptions.useEhFrame THEN Len(unwind) ELSE 0
      /\ EntryPointSeen = IF analysisOptions.useEntryPoint THEN {entryPoint} \ {0} ELSE {}
  BY DEF SymbolsSeen, UnwindSeen, EntryPointSeen, BeforeSymbols, BeforeUnwind
<1>2. DOMAIN symbols = 1 .. Len(symbols) /\ DOMAIN unwind = 1 .. Len(unwind)
  BY DEF StageInv
<1>3. {symbols[i].value : i \in {j \in 1 .. SymbolsSeen : IsEntry(symbols[j])}}
        = IF analysisOptions.useSymbols
          THEN {symbols[i].value : i \in {j \in DOMAIN symbols : IsEntry(symbols[j])}} ELSE {}
  BY <1>1, <1>2
<1>4. {unwind[i].start : i \in 1 .. UnwindSeen}
        = IF analysisOptions.useEhFrame
          THEN {unwind[i].start : i \in DOMAIN unwind} ELSE {}
  BY <1>1, <1>2
<1> QED
  BY <1>1, <1>3, <1>4 DEF Known, Sources

\* What a source or a traversed call points at is in the report.
THEOREM EntriesAreAlwaysReported ==
  PipelineSpec /\ BelowTop(regions) => []EntriesAreReported
<1>1. PInv /\ ExtentsInv => EntriesAreReported
  <2> SUFFICES ASSUME PInv, ExtentsInv, stage = "done", NEW a \in AlignedAddress, Contains(a),
                      \/ a \in Sources
                      \/ \E c \in disassembled : a \in Recursive!CalledFrom(c)
                      \/ Sources = {} /\ analysisOptions.useRecursive /\ a \in FallbackSeeds
               PROVE  \E fn \in Reported : Holds(fn, a)
    BY DEF EntriesAreReported
  <2> USE DEF PInv
  <2>1. regions # <<>>
    BY DEF Contains, RegionsAt
  <2>2. pc = "done" /\ input = PipelineInput /\ AInv
    BY <2>1 DEF ReportInv, AnalysisInv, ExtentsInv
  <2>3. strongStarts = InCode(Sources) /\ starts = strongStarts \cup InCode(functionStarts)
    BY KnownWhenDone DEF EntriesInv
  <2>4. Traversal!StartsAreSeedsAndCallees /\ phase # "seeding"
    BY TraversalAssumptions, Traversal!StartsFacts DEF TraversalInv
  <2>5. a \in starts
    <3>1. CASE a \in Sources
      BY <2>3, <3>1 DEF InCode
    <3>2. CASE \E c \in disassembled : a \in Recursive!CalledFrom(c)
      <4>1. \A c : Recursive!CalledFrom(c) = Traversal!CalledFrom(c)
        BY DEF Recursive!CalledFrom, Traversal!CalledFrom, Recursive!StartAt,
               Traversal!StartAt, Recursive!Contains, Traversal!Contains,
               Recursive!RegionsAt, Traversal!RegionsAt
      <4>2. a \in functionStarts
        BY <2>4, <3>2, <4>1 DEF Traversal!StartsAreSeedsAndCallees
      <4> QED
        BY <2>3, <4>2 DEF InCode
    <3>3. CASE Sources = {} /\ analysisOptions.useRecursive /\ a \in FallbackSeeds
      <4>1. strongStarts = {}
        BY <2>3, <3>3 DEF InCode
      <4>2. seeds = FallbackSeeds
        BY <2>1, <3>3, <4>1 DEF TraversalInv
      <4>3. a \in functionStarts
        BY <2>4, <3>3, <4>2, SameImage DEF Traversal!StartsAreSeedsAndCallees
      <4> QED
        BY <2>3, <4>3 DEF InCode
    <3> QED
      BY <3>1, <3>2, <3>3
  <2>6. a \in EntryBoundaries
    BY <2>2, <2>3, <2>5
       DEF EntryBoundaries, StrongSorted, SoftUsable, IsUsable, PipelineInput, AlignedAddress
  <2>7. PICK b \in Functions : Holds(b, a)
    BY <2>2, <2>6, WhenDone DEF Done
  <2>8. PICK fn \in Reported : Describes(fn, b)
    BY <2>1, <2>7 DEF ReportInv
  <2> QED
    BY <2>7, <2>8 DEF Describes, Holds
<1> QED
  BY <1>1, ExtentsInvariance, PTL

\* What is known of a function of the report.
LEMMA ReportedFacts ==
  ASSUME PInv, ExtentsInv, NEW fn \in Reported
  PROVE  /\ stage = "done" /\ pc = "done" /\ input = PipelineInput /\ regions # <<>>
         /\ \E b \in Functions : Describes(fn, b)
         /\ \A b \in Functions :
              /\ b.start \in AlignedAddress /\ b.start \in Nat /\ b.end \in Nat
              /\ b.start < b.end /\ Contains(b.start)
<1> USE DEF PInv
<1>1. stage = "done" /\ regions # <<>>
  BY DEF ReportInv, Reported
<1>2. pc = "done" /\ input = PipelineInput /\ AInv
  BY <1>1 DEF ReportInv, AnalysisInv, ExtentsInv
<1>3. \E b \in Functions : Describes(fn, b)
  BY <1>1 DEF ReportInv
<1>4. ASSUME NEW b \in Functions
      PROVE  /\ b.start \in AlignedAddress /\ b.start \in Nat /\ b.end \in Nat
             /\ b.start < b.end /\ Contains(b.start)
  <2>1. b \in emitted \cup gapFunctions
    BY <1>2, <1>4, WhenDone DEF Done
  <2>2. IsFunction(b) /\ b.start \in Nat /\ b.end \in Nat /\ b.start < b.end
    BY <1>2, <2>1, SearchTypes
  <2>3. Contains(b.start)
    BY <1>2, <2>2, WithinIff, SearchTypes DEF IsFunction
  <2> QED
    BY <2>1, <2>2, <2>3 DEF ExtentsInv
<1> QED
  BY <1>1, <1>2, <1>3, <1>4

\* A function whose start was given a size has that size.
LEMMA SizeIsKept ==
  ASSUME PInv, ExtentsInv, NEW fn \in Reported, NEW size \in Nat, size > 0,
         fn.start \in Sources, fn.start \in DOMAIN authoritativeSizes,
         authoritativeSizes[fn.start] = size
  PROVE  IsCutTo(fn, size)
<1> USE DEF PInv
<1>1. PICK b \in Functions : Describes(fn, b)
  BY ReportedFacts
<1>2. /\ stage = "done" /\ pc = "done" /\ input = PipelineInput /\ AInv
      /\ b.start \in AlignedAddress /\ b.start \in Nat /\ b.end \in Nat
      /\ b.start < b.end /\ Contains(b.start)
      /\ fn.start = b.start /\ fn.size = b.end - b.start
  BY <1>1, ReportedFacts DEF ExtentsInv, Describes
<1>3. b.start \in StrongSorted
  <2>1. b.start \in strongStarts
    BY <1>2, KnownWhenDone DEF EntriesInv, InCode
  <2> QED
    BY <1>2, <2>1 DEF StrongSorted, IsUsable, PipelineInput, AlignedAddress
<1>4. IsSized(b.start) /\ input.authoritativeSizes[b.start] = size
  BY <1>2, <1>3 DEF IsSized, PipelineInput
<1>5. b \in emitted
  <2>1. PICK e \in emitted : Holds(e, b.start)
    BY <1>2, <1>3, WhenDone DEF Done
  <2>2. e.start \in Nat /\ e.end \in Nat /\ e.start <= b.start /\ b.start < e.end
    BY <1>2, <2>1, SearchTypes DEF Holds
  <2>3. ~Apart(b, e)
    BY <1>2, <2>2 DEF Apart
  <2>4. b \notin gapFunctions
    BY <1>2, <2>1, <2>3 DEF AInv, SearchInv, GapFunctionsInv
  <2> QED
    BY <1>2, <2>4, WhenDone DEF Done
<1>6. b.end = SizedEnd(b.start)
  BY <1>2, <1>4, <1>5 DEF AInv, CandidatesInv, SizesInv
<1>7. RegionEndFor(b.start) \in Nat
  <2>1. PICK i \in DOMAIN regions : RegionEndFor(b.start) = regions[i].end
    BY <1>2, RegionOf, SearchTypes
  <2> QED
    BY <1>2, <2>1, RegionFacts, SearchTypes
<1> QED
  BY <1>2, <1>4, <1>6, <1>7 DEF SizedEnd, IsCutTo, Lesser

\* The first size that was given for its start is the size of the function.
THEOREM FirstSizeIsAlwaysKept ==
  PipelineSpec /\ BelowTop(regions) => []FirstSizeIsKept
<1>1. PInv /\ ExtentsInv => FirstSizeIsKept
  <2> SUFFICES ASSUME PInv, ExtentsInv, NEW fn \in Reported
               PROVE  /\ \A i \in DOMAIN symbols :
                           IsFirstOf(i, SizingSymbols(fn.start)) =>
                             IsCutTo(fn, symbols[i].size)
                      /\ \A i \in DOMAIN unwind :
                           SizingSymbols(fn.start) = {}
                             /\ IsFirstOf(i, SizingEntries(fn.start)) =>
                               IsCutTo(fn, unwind[i].size)
    BY DEF FirstSizeIsKept
  <2> DEFINE a == fn.start
  <2> USE DEF PInv
  <2>1. stage = "done" /\ regions # <<>> /\ a \in Address
    BY ReportedFacts DEF Describes, AlignedAddress
  <2>2. SeenSymbols(a) = SizingSymbols(a) /\ SeenEntries(a) = SizingEntries(a)
    <3>1. DOMAIN symbols = 1 .. Len(symbols) /\ DOMAIN unwind = 1 .. Len(unwind)
      BY DEF StageInv
    <3> QED
      BY <2>1, <3>1 DEF SeenSymbols, SeenEntries, SizingSymbols, SizingEntries, SymbolsSeen,
                        UnwindSeen, BeforeSymbols, BeforeUnwind
  <2>3. ASSUME NEW i \in DOMAIN symbols, IsFirstOf(i, SizingSymbols(a))
        PROVE  IsCutTo(fn, symbols[i].size)
    <3>1. i \in SizingSymbols(a)
      BY <2>3 DEF IsFirstOf
    <3>2. a \in Sources /\ symbols[i].size > 0
      BY <3>1 DEF SizingSymbols, Sources
    <3>3. a \in DOMAIN authoritativeSizes /\ authoritativeSizes[a] = symbols[i].size
      BY <2>1, <2>2, <2>3, <3>1 DEF GivenInv
    <3>4. symbols[i].size \in Nat
      BY <3>3 DEF GivenInv
    <3> QED
      BY <3>2, <3>3, <3>4, SizeIsKept
  <2>4. ASSUME NEW i \in DOMAIN unwind, SizingSymbols(a) = {}, IsFirstOf(i, SizingEntries(a))
        PROVE  IsCutTo(fn, unwind[i].size)
    <3>1. i \in SizingEntries(a)
      BY <2>4 DEF IsFirstOf
    <3>2. a \in Sources /\ unwind[i].size > 0
      BY <3>1 DEF SizingEntries, Sources
    <3>3. a \in DOMAIN authoritativeSizes /\ authoritativeSizes[a] = unwind[i].size
      BY <2>1, <2>2, <2>4, <3>1 DEF GivenInv
    <3>4. unwind[i].size \in Nat
      BY <3>3 DEF GivenInv
    <3> QED
      BY <3>2, <3>3, <3>4, SizeIsKept
  <2> QED
    BY <2>3, <2>4
<1> QED
  BY <1>1, ExtentsInvariance, PTL

\* The last instruction lies in its function, ends it if one can, and no whole
\* traversed one comes after it.
THEOREM LastAlwaysEndsTheFunction ==
  PipelineSpec /\ BelowTop(regions) => []LastEndsTheFunction
<1>1. PInv /\ ExtentsInv => LastEndsTheFunction
  <2> SUFFICES ASSUME PInv, ExtentsInv, NEW fn \in Reported
               PROVE  /\ fn.start <= fn.lastInstruction /\ fn.lastInstruction < fn.end
                      /\ fn.end % kAArch64InstructionSize = 0 =>
                           EndAddress(fn.lastInstruction) = fn.end
                      /\ \A a \in disassembled :
                           Holds(fn, a) /\ EndAddress(a) <= fn.end => a <= fn.lastInstruction
    BY DEF LastEndsTheFunction
  <2> USE DEF kAArch64InstructionSize
  <2> DEFINE s == fn.start
             e == fn.end
             last == fn.lastInstruction
             ending == {a \in disassembled :
                          /\ a >= s /\ EndAddress(a) = e
                          /\ \A b \in disassembled : b < e => b <= a}
  <2>1. /\ s \in Nat /\ e \in Nat /\ s < e /\ s % 4 = 0
        /\ last = LastInstructionOf(s, e)
    BY ReportedFacts DEF Describes, AlignedAddress
  <2>2. disassembled \in SUBSET Nat
    BY SameImage DEF PInv, TraversalInv, Traversal!IInv, Traversal!TypeOK, AlignedAddress,
                     Address
  <2>3. CASE ending # {}
    <3>1. last \in ending
      BY <2>1, <2>3 DEF LastInstructionOf
    <3>2. /\ last \in Nat /\ s <= last /\ last + 4 = e
          /\ \A b \in disassembled : b < e => b <= last
      BY <2>2, <3>1 DEF EndAddress
    <3>3. \A a \in disassembled : a \in Nat /\ (Holds(fn, a) => a < e)
      BY <2>2 DEF Holds
    <3> HIDE DEF ending
    <3> QED
      BY <2>1, <3>2, <3>3 DEF EndAddress
  <2>4. CASE ending = {} /\ e - s >= 4
    <3>1. last = e - 4
      BY <2>1, <2>4 DEF LastInstructionOf
    <3> QED
      BY <2>1, <2>2, <2>4, <3>1 DEF EndAddress, Holds
  <2>5. CASE ending = {} /\ ~(e - s >= 4)
    <3>1. last = s
      BY <2>1, <2>5 DEF LastInstructionOf
    <3>2. e % 4 # 0
      BY <2>1, <2>5
    <3> QED
      BY <2>1, <2>2, <2>5, <3>1, <3>2 DEF EndAddress, Holds
  <2> QED
    BY <2>3, <2>4, <2>5
<1> QED
  BY <1>1, ExtentsInvariance, PTL
-----------------------------------------------------------------------------
(***************************************************************************)
(* The report as a whole: the code it leaves out, and its names.           *)
(***************************************************************************)

\* Code that stays outside every function of the report is not code to speak
\* of: padding, data, or one instruction that does not return and leads to no
\* other.
CodeIsReported ==
  stage = "done" /\ analysisOptions.maxInstructions >= 2 =>
    \A a \in AlignedAddress :
      \/ \E fn \in Reported : Holds(fn, a)
      \/ IsPaddingWord(a) \/ ~Decodes(a)
      \/ words[a].insn.flow # "return" /\ \A b \in AlignedAddress : ~LeadsOnTo(a, b)

\* The function symbols that can name addr.
NamingSymbols(addr) ==
  {i \in DOMAIN symbols : Resolver!IsNameable(symbols[i]) /\ symbols[i].value = addr}

\* Symbol i is the first of those with the best binding among S.
IsBestOf(i, S) ==
  /\ i \in S
  /\ \A j \in S : Resolver!Rank(j) < Resolver!Rank(i)
                    \/ (Resolver!Rank(j) = Resolver!Rank(i) /\ i <= j)

\* A function has the name of the first of the best bound symbols at its start,
\* wherever in the tables it is, and an invented name only if there is none.
NamesAreReported ==
  \A fn \in Reported :
    /\ fn.hasSymbol <=> NamingSymbols(fn.start) # {}
    /\ ~fn.hasSymbol => fn.name = [kind |-> "synthetic", of |-> fn.start]
    /\ fn.hasSymbol =>
         \E i \in DOMAIN symbols :
           /\ IsBestOf(i, NamingSymbols(fn.start))
           /\ fn.name.of = symbols[i].name
           /\ fn.name.kind = IF analysisOptions.demangle THEN "demangled" ELSE "raw"

\* What the pipeline calls the analyser with.
ExtentOptions ==
  [DefaultOptions EXCEPT !.maxInstructions = analysisOptions.maxInstructions]

OptionsInv ==
  /\ stage # "idle" => analysisOptions \in AnalysisOptionSets
  /\ pc # "idle" => options = ExtentOptions

\* The symbols are all read before a name is asked for, and what the report
\* shows is what the resolver still answers.
NamingInv ==
  /\ Naming!IInv
  /\ regions # <<>> /\ stage \notin {"idle", "names"} => named = Len(symbols)
  /\ \A fn \in Reported :
       /\ fn.hasSymbol = Naming!HasSymbol(fn.start)
       /\ fn.name = Naming!NameFor(fn.start, analysisOptions.demangle)

WholeInv == PInv /\ OptionsInv /\ NamingInv

\* The names of the pipeline are the resolver's.
LEMMA SameNames ==
  /\ Naming!ElfSymbol = Resolver!ElfSymbol
  /\ Resolver!ResolverInit => Naming!ResolverInit
  /\ Resolver!ReadName => Naming!ReadName
  /\ \A sym : Naming!IsNameable(sym) <=> Resolver!IsNameable(sym)
  /\ \A i : Naming!Rank(i) = Resolver!Rank(i)
  /\ \A a : Naming!HasSymbol(a) <=> Resolver!HasSymbol(a)
  /\ \A a, d : Naming!NameFor(a, d) = Resolver!NameFor(a, d)
<1>1. Naming!ElfSymbol = Resolver!ElfSymbol
  BY DEF Naming!ElfSymbol, Resolver!ElfSymbol, Naming!Binding, Resolver!Binding
<1>2. Resolver!ResolverInit => Naming!ResolverInit
  BY DEF Resolver!ResolverInit, Naming!ResolverInit, Resolver!Empty, Naming!Empty
<1>3. \A sym : Naming!IsNameable(sym) <=> Resolver!IsNameable(sym)
  BY DEF Naming!IsNameable, Resolver!IsNameable, Naming!IsFunction, Resolver!IsFunction,
         Naming!IsDefined, Resolver!IsDefined, Naming!HasName, Resolver!HasName
<1>4. \A b : Naming!BindingRank(b) = Resolver!BindingRank(b)
  BY DEF Naming!BindingRank, Resolver!BindingRank
<1>5. \A i : Naming!Rank(i) = Resolver!Rank(i)
  BY <1>4 DEF Naming!Rank, Resolver!Rank
<1>6. \A sym : Naming!IsBetter(sym) <=> Resolver!IsBetter(sym)
  BY <1>4 DEF Naming!IsBetter, Resolver!IsBetter
<1>7. \A m, k, v : Naming!Put(m, k, v) = Resolver!Put(m, k, v)
  BY DEF Naming!Put, Resolver!Put
<1>8. Resolver!ReadName => Naming!ReadName
  BY <1>3, <1>4, <1>6, <1>7 DEF Resolver!ReadName, Naming!ReadName
<1>9. \A a : Naming!HasSymbol(a) <=> Resolver!HasSymbol(a)
  BY DEF Naming!HasSymbol, Resolver!HasSymbol
<1>10. \A a, d : Naming!NameFor(a, d) = Resolver!NameFor(a, d)
  BY <1>9 DEF Naming!NameFor, Resolver!NameFor
<1> QED
  BY <1>1, <1>2, <1>3, <1>5, <1>8, <1>9, <1>10

\* What the resolver assumes of its constants holds of those the pipeline gives it.
LEMMA NamingAssumptions ==
  /\ NoName \notin Name
  /\ {im.symbols : im \in ElfImages} \subseteq Seq(Naming!ElfSymbol)
BY SameNames, PipelineAssumption

\* The analyser is called with the options of the pipeline.
LEMMA OptionsKept ==
  ASSUME PInv, OptionsInv, [PipelineNext]_pipelineVars
  PROVE  OptionsInv'
<1>1. CASE \E opts \in AnalysisOptionSets : AnalyzeImage(opts)
  <2>1. stage = "idle" /\ UNCHANGED <<pc, options>> /\ analysisOptions' \in AnalysisOptionSets
    BY <1>1 DEF AnalyzeImage, extentVars, analyzerVars, constVars
  <2>2. pc = "idle"
    BY <2>1 DEF PInv, AnalysisInv
  <2> QED
    BY <2>1, <2>2 DEF OptionsInv
<1>2. CASE FindExtents
  <2>1. stage = "extents" /\ stage' = stage /\ UNCHANGED analysisOptions
        /\ options' = ExtentOptions
    BY <1>2 DEF FindExtents, Analyze, pipelineFrame, ExtentOptions
  <2> QED
    BY <2>1 DEF OptionsInv, ExtentOptions
<1>3. CASE FindExtent
  <2>1. AnalyzeStep /\ UNCHANGED <<stage, analysisOptions>>
    BY <1>3 DEF FindExtent, pipelineFrame
  <2>2. UNCHANGED options /\ (pc' # "idle" => pc # "idle")
    BY <2>1, AnalyzeStepFrame DEF analyzerVars
  <2> QED
    BY <2>1, <2>2 DEF OptionsInv, ExtentOptions
<1>4. CASE ~(\E opts \in AnalysisOptionSets : AnalyzeImage(opts)) /\ ~FindExtents /\ ~FindExtent
  <2>1. /\ UNCHANGED <<analysisOptions, pc, options>>
        /\ stage' # "idle" => stage # "idle"
    BY <1>4
       DEF PipelineNext, PipelineStep, ResolveName, NamesResolved, TakeSymbol,
           TakeEntryPoint, TakeUnwindEntry, StrongStartsKnown, Traverse, Traversed, Report,
           pipelineVars, pipelineFrame, extentVars, analyzerVars, constVars
  <2> QED
    BY <2>1 DEF OptionsInv, ExtentOptions
<1> QED
  BY <1>1, <1>2, <1>3, <1>4

\* Nothing but the report says what the functions are.
LEMMA FunctionsFrame ==
  ASSUME [PipelineNext]_pipelineVars, ~Report
  PROVE  UNCHANGED functions
BY DEF PipelineNext, PipelineStep, AnalyzeImage, ResolveName, NamesResolved, TakeSymbol,
       TakeEntryPoint, TakeUnwindEntry, StrongStartsKnown, Traverse, Traversed,
       FindExtents, FindExtent, pipelineVars

\* Names are asked for when all symbols are read, and stay what they are.
LEMMA NamingKept ==
  ASSUME PInv, NamingInv, [PipelineNext]_pipelineVars
  PROVE  NamingInv'
<1>1. CASE ResolveName
  <2>1. stage = "names" /\ Resolver!ReadName /\ UNCHANGED <<image, stage, functions>>
    BY <1>1 DEF ResolveName
  <2>2. Naming!IInv'
    BY <2>1, SameNames, NamingAssumptions, Naming!NextIInv DEF NamingInv
  <2>3. functions = <<>>
    BY <2>1 DEF PInv, ReportInv
  <2> QED
    BY <2>1, <2>2, <2>3 DEF NamingInv, Reported
<1>2. CASE ~ResolveName
  <2>1. UNCHANGED <<symbols, named, nameByAddress, rankByAddress>> /\ UNCHANGED regions
    <3>1. UNCHANGED <<symbols, resolverVars>>
      BY <1>2 DEF PipelineNext, PipelineStep, AnalyzeImage, NamesResolved, TakeSymbol,
         TakeEntryPoint, TakeUnwindEntry, StrongStartsKnown, Traverse, Traversed,
         FindExtents, FindExtent, Report, pipelineFrame, elfVars, pipelineVars
    <3>2. UNCHANGED image
      BY <1>2, TraversalFrame, AnalyzeStepFrame
         DEF PipelineNext, PipelineStep, AnalyzeImage, NamesResolved, TakeSymbol,
             TakeEntryPoint, TakeUnwindEntry, StrongStartsKnown, Traverse, Traversed,
             FindExtents, FindExtent, Report, Analyze, Recursive!Discover,
             Recursive!image, image, pipelineVars
    <3> QED
      BY <3>1, <3>2 DEF resolverVars, image
  <2>2. Naming!IInv'
    <3>1. UNCHANGED Naming!vars
      BY <2>1 DEF Naming!vars, Naming!resolverVars
    <3> QED
      BY <3>1, NamingAssumptions, Naming!NextIInv DEF NamingInv
  <2>3. /\ \A a : Naming!HasSymbol(a)' <=> Naming!HasSymbol(a)
        /\ \A a, d : Naming!NameFor(a, d)' = Naming!NameFor(a, d)
    BY <2>1 DEF Naming!HasSymbol, Naming!NameFor
  <2>4. regions' # <<>> /\ stage' \notin {"idle", "names"} => named' = Len(symbols')
    <3>1. CASE stage \in {"idle", "names"}
      BY <1>2, <2>1, <3>1
         DEF PipelineNext, PipelineStep, AnalyzeImage, NamesResolved, TakeSymbol,
             TakeEntryPoint, TakeUnwindEntry, StrongStartsKnown, Traverse, Traversed,
             FindExtents, FindExtent, Report, pipelineVars, PInv, AnalysisInv
    <3>2. CASE stage \notin {"idle", "names"}
      BY <2>1, <3>2 DEF NamingInv
    <3> QED
      BY <3>1, <3>2
  <2>5. ASSUME NEW fn \in Reported'
        PROVE  /\ fn.hasSymbol = Naming!HasSymbol(fn.start)
               /\ fn.name = Naming!NameFor(fn.start, analysisOptions'.demangle)
    <3>1. CASE Report
      <4>1. PICK b : fn = FunctionOf(b)
        <5>1. PICK order : functions' = [i \in DOMAIN result |-> FunctionOf(result[order[i]])]
          BY <3>1 DEF Report
        <5> QED
          BY <2>5, <5>1 DEF Reported
      <4>2. analysisOptions' = analysisOptions
        BY <3>1 DEF Report, pipelineFrame
      <4>3. /\ fn.start = b.start /\ fn.hasSymbol = Resolver!HasSymbol(b.start)
            /\ fn.name = Resolver!NameFor(b.start, analysisOptions.demangle)
        BY <4>1 DEF FunctionOf
      <4>4. (Naming!HasSymbol(b.start)) = Resolver!HasSymbol(b.start)
        BY SameNames DEF Naming!HasSymbol, Resolver!HasSymbol
      <4>5. Naming!NameFor(b.start, analysisOptions.demangle)
              = Resolver!NameFor(b.start, analysisOptions.demangle)
        BY SameNames
      <4> QED
        BY <4>2, <4>3, <4>4, <4>5
    <3>2. CASE ~Report
      <4>1. functions' = functions
        BY <3>2, FunctionsFrame
      <4>2. fn \in Reported /\ functions # <<>>
        BY <2>5, <4>1 DEF Reported
      <4>3. stage = "done"
        BY <4>2 DEF PInv, ReportInv
      <4>4. analysisOptions' = analysisOptions
        BY <3>2, <4>3
           DEF PipelineNext, PipelineStep, AnalyzeImage, ResolveName, NamesResolved,
               TakeSymbol, TakeEntryPoint, TakeUnwindEntry, StrongStartsKnown, Traverse,
               Traversed, FindExtents, FindExtent, pipelineFrame, pipelineVars
      <4> QED
        BY <4>2, <4>4 DEF NamingInv
    <3> QED
      BY <3>1, <3>2
  <2> QED
    BY <2>1, <2>2, <2>3, <2>4, <2>5 DEF NamingInv, Naming!HasSymbol, Naming!NameFor
<1> QED
  BY <1>1, <1>2

\* The invariant of the report holds of every behaviour of the pipeline.
THEOREM WholeInvariance == PipelineSpec => []WholeInv
<1>1. PipelineInit => WholeInv
  <2> SUFFICES ASSUME PipelineInit PROVE WholeInv
    OBVIOUS
  <2>1. stage = "idle" /\ pc = "idle" /\ functions = <<>> /\ AnalyzeInit
    BY DEF PipelineInit, AnalyzeInit, AnalyzerInit
  <2>2. PInv /\ OptionsInv
    BY <2>1, InitPInv DEF OptionsInv
  <2>3. Naming!IInv
    <3>1. Naming!Init
      <4>1. symbols \in {im.symbols : im \in ElfImages} /\ Resolver!ResolverInit
        BY DEF PipelineInit
      <4> QED
        BY <4>1, SameNames DEF Naming!Init
    <3> QED
      BY <3>1, NamingAssumptions, Naming!InitIInv
  <2> QED
    BY <2>1, <2>2, <2>3 DEF WholeInv, NamingInv, Reported
<1>2. WholeInv /\ [PipelineNext]_pipelineVars => WholeInv'
  <2>1. PInv /\ [PipelineNext]_pipelineVars => PInv'
    BY StageKept, EntriesKept, GivenKept, TraversalKept, AnalysisKept, ReportKept DEF PInv
  <2> QED
    BY <2>1, OptionsKept, NamingKept DEF WholeInv
<1> QED
  BY <1>1, <1>2, PTL DEF PipelineSpec

\* What the report leaves out is no code to speak of, from whatever sources the
\* functions come.
THEOREM CodeIsAlwaysReported ==
  PipelineSpec /\ BelowTop(regions) => []CodeIsReported
<1>1. WholeInv /\ ExtentsInv => CodeIsReported
  <2> SUFFICES ASSUME WholeInv, ExtentsInv, stage = "done", analysisOptions.maxInstructions >= 2,
                      NEW a \in AlignedAddress, Decodes(a)
               PROVE  \/ \E fn \in Reported : Holds(fn, a)
                      \/ IsPaddingWord(a)
                      \/ /\ words[a].insn.flow # "return"
                         /\ \A b \in AlignedAddress : ~LeadsOnTo(a, b)
    BY DEF CodeIsReported
  <2>1. PInv
    BY DEF WholeInv
  <2>2. regions # <<>>
    <3>1. Contains(a)
      BY DEF Decodes, ReadsWord, Available, kAArch64InstructionSize
    <3> QED
      BY <3>1 DEF Contains, RegionsAt
  <2>3. /\ AInv /\ Done
        /\ \A b \in Functions : \E fn \in Reported : Describes(fn, b)
    BY <2>1, <2>2 DEF PInv, ExtentsInv, ReportInv, Done
  <2>4. /\ options.discoverGapFunctions /\ options.minGapFunctionInstructions = 2
        /\ options.maxInstructions >= 2
    <3>1. options = ExtentOptions
      BY <2>3 DEF WholeInv, OptionsInv, Done
    <3> QED
      BY <3>1 DEF ExtentOptions, DefaultOptions
  <2>5. GapsAreExhausted
    BY <2>3, ExhaustedWhenDone DEF ExtentsInv
  <2>6. CASE \E b \in Functions : Holds(b, a)
    BY <2>3, <2>6 DEF Describes, Holds
  <2> QED
    BY <2>3, <2>4, <2>5, <2>6 DEF GapsAreExhausted
<1> QED
  BY <1>1, WholeInvariance, ExtentsInvariance, PTL

\* Every function of the report is named by the best of the symbols at its
\* start.
THEOREM NamesAreAlwaysReported == PipelineSpec => []NamesAreReported
<1>1. WholeInv => NamesAreReported
  <2> SUFFICES ASSUME WholeInv, NEW fn \in Reported
               PROVE  /\ fn.hasSymbol <=> NamingSymbols(fn.start) # {}
                      /\ ~fn.hasSymbol => fn.name = [kind |-> "synthetic", of |-> fn.start]
                      /\ fn.hasSymbol =>
                           \E i \in DOMAIN symbols :
                             /\ IsBestOf(i, NamingSymbols(fn.start))
                             /\ fn.name.of = symbols[i].name
                             /\ fn.name.kind =
                                  IF analysisOptions.demangle THEN "demangled" ELSE "raw"
    BY DEF NamesAreReported
  <2> DEFINE a == fn.start
  <2>1. named = Len(symbols) /\ symbols \in Seq(Resolver!ElfSymbol)
    <3>1. stage = "done" /\ regions # <<>>
      BY DEF WholeInv, PInv, ReportInv, Reported
    <3> QED
      BY <3>1 DEF WholeInv, NamingInv, PInv, StageInv
  <2>2. NamingSymbols(a) = {i \in Naming!Readings : symbols[i].value = a}
    BY <2>1, SameNames DEF NamingSymbols, Naming!Readings
  <2>3. /\ \A i \in Naming!Readings : symbols[i].value \in DOMAIN nameByAddress
        /\ \A x \in DOMAIN nameByAddress : \E i \in Naming!Readings : Naming!KeptFrom(x, i)
    BY DEF WholeInv, NamingInv, Naming!IInv
  <2>4. /\ fn.hasSymbol <=> a \in DOMAIN nameByAddress
        /\ ~fn.hasSymbol => fn.name = [kind |-> "synthetic", of |-> a]
        /\ fn.hasSymbol =>
             fn.name = [kind |-> IF analysisOptions.demangle THEN "demangled" ELSE "raw",
                        of |-> nameByAddress[a]]
    BY DEF WholeInv, NamingInv, Naming!HasSymbol, Naming!NameFor
  <2> HIDE DEF a
  <2>5. fn.hasSymbol <=> NamingSymbols(a) # {}
    BY <2>2, <2>3, <2>4 DEF Naming!KeptFrom
  <2>6. ASSUME a \in DOMAIN nameByAddress
        PROVE  \E i \in DOMAIN symbols :
                 IsBestOf(i, NamingSymbols(a)) /\ nameByAddress[a] = symbols[i].name
    <3>1. PICK i \in Naming!Readings : Naming!KeptFrom(a, i)
      BY <2>3, <2>6
    <3>2. i \in DOMAIN symbols
      BY <2>1 DEF Naming!Readings
    <3>3. IsBestOf(i, NamingSymbols(a))
      BY <2>2, <3>1, SameNames DEF IsBestOf, Naming!KeptFrom, Naming!Wins
    <3> QED
      BY <3>1, <3>2, <3>3 DEF Naming!KeptFrom
  <2>7. fn.hasSymbol =>
          /\ fn.name.of = nameByAddress[a]
          /\ fn.name.kind = IF analysisOptions.demangle THEN "demangled" ELSE "raw"
    BY <2>4
  <2> QED
    BY <2>4, <2>5, <2>6, <2>7 DEF a
<1> QED
  BY <1>1, WholeInvariance, PTL
-----------------------------------------------------------------------------
(***************************************************************************)
(* The parts, in the pipeline, keep their promises.                        *)
(***************************************************************************)

\* Between all that it does the pipeline runs the traversal as it is specified.
THEOREM TheTraversalRuns == PipelineSpec => Traversal!Spec
<1>1. PipelineInit => Traversal!Init
  BY SameSteps DEF PipelineInit, AnalyzeInit
<1>2. WholeInv /\ [PipelineNext]_pipelineVars => [Traversal!Next]_(Traversal!vars)
  <2> SUFFICES ASSUME WholeInv, [PipelineNext]_pipelineVars
               PROVE  Traversal!Next \/ UNCHANGED Traversal!vars
    OBVIOUS
  <2>1. CASE Traverse
    BY <2>1, SameSteps DEF Traverse, Traversal!Next
  <2>2. CASE StrongStartsKnown /\ analysisOptions.useRecursive
    <3> DEFINE from == IF starts = {} THEN FallbackSeeds ELSE starts
    <3>1. Traversal!Discover(from, analysisOptions.maxInstructions)
      BY <2>2, SameSteps DEF StrongStartsKnown
    <3>2. from \in SUBSET Address
      <4>1. starts \subseteq Address /\ FallbackSeeds \subseteq Address
        BY EntryTypes DEF WholeInv, PInv, AnalysisInv
      <4> QED
        BY <4>1
    <3>3. analysisOptions \in AnalysisOptionSets
      BY <2>2 DEF StrongStartsKnown, WholeInv, OptionsInv
    <3> QED
      BY <3>1, <3>2, <3>3 DEF Traversal!Next
  <2>3. CASE ~Traverse /\ ~(StrongStartsKnown /\ analysisOptions.useRecursive)
    <3>1. UNCHANGED <<image, recursiveVars>>
      BY <2>3, AnalyzeStepFrame
         DEF PipelineNext, PipelineStep, AnalyzeImage, ResolveName, NamesResolved, TakeSymbol,
             TakeEntryPoint, TakeUnwindEntry, StrongStartsKnown, Traversed, FindExtents,
             FindExtent, Report, Analyze, pipelineFrame, pipelineVars, Resolver!ReadName
    <3> QED
      BY <3>1, SameImage DEF Traversal!vars, Traversal!discoverVars, recursiveVars, image,
                             Traversal!image
  <2> QED
    BY <2>1, <2>2, <2>3
<1> QED
  BY <1>1, <1>2, WholeInvariance, PTL DEF PipelineSpec, Traversal!Spec

\* So it finds exactly the code that can be reached from the entries that the
\* sources gave, or from the regions, or as much of it as its cap allows.
THEOREM TheTraversalAnswers == PipelineSpec => Traversal!FindsReachableCode
<1>1. Traversal!Spec => Traversal!FindsReachableCode
  BY TraversalAssumptions, Traversal!TraversalImplementsReachability
<1> QED
  BY <1>1, TheTraversalRuns

\* Every graph the pipeline has built has exactly the code its request reaches,
\* or as much of it as the cap allows.
THEOREM GraphsOfThePipelineAnswer == PipelineSpec => CoversReachableCode
<1>1. PipelineInit => Flow!ReachabilityInit
  BY DEF PipelineInit, AnalyzeInit, BuilderInit, Flow!ReachabilityInit, Reached, Complete
<1>2. PInv /\ [PipelineNext]_pipelineVars => [Flow!ReachabilityNext]_Answer
  <2> SUFFICES ASSUME PInv, [PipelineNext]_pipelineVars
               PROVE  Flow!ReachabilityNext \/ UNCHANGED Answer
    OBVIOUS
  <2>1. TypeInv
    BY DEF PInv, AnalysisInv
  <2>2. CASE FindExtent
    BY <2>1, <2>2, AnalyzeStepAnswers DEF FindExtent
  <2>3. CASE ~FindExtent
    <3>1. UNCHANGED <<image, builderVars>>
      BY <2>3, TraversalFrame
         DEF PipelineNext, PipelineStep, AnalyzeImage, ResolveName, NamesResolved, TakeSymbol,
             TakeEntryPoint, TakeUnwindEntry, StrongStartsKnown, Traverse, Traversed,
             FindExtents, Report, Analyze, extentVars, pipelineVars, Resolver!ReadName,
             Recursive!Discover, Recursive!image, image
    <3> QED
      BY <2>1, <3>1, StepAnswers, TypeFacts
  <2> QED
    BY <2>2, <2>3
<1> QED
  BY <1>1, <1>2, PipelineInvariance, PTL
     DEF PipelineSpec, CoversReachableCode, Flow!ReachabilitySpec, Flow!question, Answer
==============================================================================
