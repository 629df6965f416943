------------------------ MODULE RecursiveDisassembler ------------------------
(***************************************************************************)
(* RecursiveDisassembler::discover: from the seeds, follow calls, branches *)
(* and fall-throughs over the whole image, and collect the instructions    *)
(* met and the functions called.  Unlike CfgBuilder it crosses function    *)
(* boundaries, does not stop at a zero word that decodes, and does not go  *)
(* past an indirect branch.                                                *)
(***************************************************************************)
EXTENDS CodeMap, FiniteSets

CONSTANTS
  SeedSets,      \* the sets of seeds discover may be given
  Caps           \* and the values of maxInstructions

VARIABLES
  phase,             \* "idle", "seeding", "traversing" or "discovered"
  seeds,             \* the argument: its callers fill the vector in order
  unseeded,          \* the seeds the first loop has not come to
  maxInstructions,
  scheduled, worklist,
  disassembled,      \* the keys of instructionSizes; each size is that of a word
  functionStarts

discoverVars == <<phase, seeds, unseeded, maxInstructions, scheduled, worklist,
                  disassembled, functionStarts>>

ASSUME SeedsAssumption == SeedSets \subseteq SUBSET Address /\ Caps \subseteq Nat
-----------------------------------------------------------------------------
\* schedule(t): q is the worklist and the set of all that was ever on it.
Schedule(q, t) ==
  IF IsUsable(t) /\ t \notin q.scheduled
  THEN [worklist |-> Append(q.worklist, t), scheduled |-> q.scheduled \cup {t}]
  ELSE q

FollowsTarget(insn) == (IsBranch(insn) \/ insn.flow = "directCall") /\ insn.hasTarget

\* What functionStarts gains from an address.
StartAt(wanted, addr) == IF wanted /\ Contains(addr) THEN {addr} ELSE {}

DiscoverInit ==
  /\ phase = "idle"
  /\ seeds = {} /\ unseeded = {} /\ maxInstructions = 0
  /\ scheduled = {} /\ worklist = <<>>
  /\ disassembled = {} /\ functionStarts = {}

Discover(from, cap) ==
  /\ phase = "idle"
  /\ phase' = "seeding"
  /\ seeds' = from /\ unseeded' = from
  /\ maxInstructions' = cap
  /\ UNCHANGED <<image, scheduled, worklist, disassembled, functionStarts>>

TakeSeed(seed) ==
  /\ phase = "seeding"
  /\ seed \in unseeded /\ \A other \in unseeded : seed <= other
  /\ unseeded' = unseeded \ {seed}
  /\ functionStarts' = functionStarts \cup StartAt(TRUE, seed)
  /\ LET q == Schedule([worklist |-> worklist, scheduled |-> scheduled], seed)
     IN worklist' = q.worklist /\ scheduled' = q.scheduled
  /\ UNCHANGED <<image, phase, seeds, maxInstructions, disassembled>>

SeedsTaken ==
  /\ phase = "seeding" /\ unseeded = {}
  /\ phase' = "traversing"
  /\ UNCHANGED <<image, seeds, unseeded, maxInstructions, scheduled, worklist,
                 disassembled, functionStarts>>

AtInstructionCap == Cardinality(disassembled) >= maxInstructions

Turning == phase = "traversing" /\ worklist # <<>> /\ ~AtInstructionCap

Top == worklist[Len(worklist)]
Popped == [worklist |-> SubSeq(worklist, 1, Len(worklist) - 1),
           scheduled |-> scheduled]

\* Mutant of AfterDecoding: the walk does not come back from a direct call.
AfterLeaving(insn) ==
  LET q == IF FollowsTarget(insn) THEN Schedule(Popped, insn.target) ELSE Popped
  IN IF HasFallThrough(insn) /\ insn.flow # "directCall"
     THEN Schedule(q, EndAddress(Top)) ELSE q

AfterDecoding(insn) ==
  LET q == IF FollowsTarget(insn) THEN Schedule(Popped, insn.target) ELSE Popped
  IN IF HasFallThrough(insn) THEN Schedule(q, EndAddress(Top)) ELSE q

SkipData ==
  /\ Turning
  /\ ~Decodes(Top)
  /\ worklist' = Popped.worklist
  /\ UNCHANGED <<image, phase, seeds, unseeded, maxInstructions, scheduled,
                 disassembled, functionStarts>>

\* Mutant of Disassemble: only a target that is newly scheduled starts a function.
DisassembleFresh ==
  /\ Turning
  /\ Decodes(Top)
  /\ LET insn == words[Top].insn IN
       /\ disassembled' = disassembled \cup {Top}
       /\ worklist' = AfterDecoding(insn).worklist
       /\ scheduled' = AfterDecoding(insn).scheduled
       /\ functionStarts' =
            functionStarts
              \cup StartAt(insn.flow = "directCall" /\ insn.hasTarget
                             /\ insn.target \notin scheduled, insn.target)
  /\ UNCHANGED <<image, phase, seeds, unseeded, maxInstructions>>

Disassemble ==
  /\ Turning
  /\ Decodes(Top)
  /\ LET insn == words[Top].insn IN
       /\ disassembled' = disassembled \cup {Top}
       /\ worklist' = AfterDecoding(insn).worklist
       /\ scheduled' = AfterDecoding(insn).scheduled
       /\ functionStarts' =
            functionStarts
              \cup StartAt(insn.flow = "directCall" /\ insn.hasTarget, insn.target)
  /\ UNCHANGED <<image, phase, seeds, unseeded, maxInstructions>>

\* Mutant of Finish: the cap stops the turns but not the loop.
FinishWhenEmpty ==
  /\ phase = "traversing"
  /\ worklist = <<>>
  /\ phase' = "discovered"
  /\ UNCHANGED <<image, seeds, unseeded, maxInstructions, scheduled, worklist,
                 disassembled, functionStarts>>

\* Nothing is left, or the cap was reached with work left.
Finish ==
  /\ phase = "traversing"
  /\ worklist = <<>> \/ AtInstructionCap
  /\ phase' = "discovered"
  /\ UNCHANGED <<image, seeds, unseeded, maxInstructions, scheduled, worklist,
                 disassembled, functionStarts>>

DiscoverStep ==
  \/ \E seed \in unseeded : TakeSeed(seed)
  \/ SeedsTaken \/ SkipData \/ Disassemble \/ Finish

Init == ImageInit /\ DiscoverInit

Next == (\E from \in SeedSets, cap \in Caps : Discover(from, cap)) \/ DiscoverStep

vars == <<image, discoverVars>>

Spec == Init /\ [][Next]_vars

\* discover is one sequential call: once it is made, it runs.
FairSpec == Spec /\ WF_vars(DiscoverStep)
-----------------------------------------------------------------------------
\* Every variable of the traversal and the image it reads has its type.
TypeOK ==
  /\ IsImage(regions, words)
  /\ phase \in {"idle", "seeding", "traversing", "discovered"}
  /\ seeds \subseteq Address /\ unseeded \subseteq seeds
  /\ maxInstructions \in Nat
  /\ scheduled \subseteq AlignedAddress
  /\ worklist \in Seq(AlignedAddress)
  /\ disassembled \subseteq AlignedAddress
  /\ functionStarts \subseteq Address
-----------------------------------------------------------------------------
LeadsTo(a, b) ==
  \/ FollowsTarget(words[a].insn) /\ b = words[a].insn.target
  \/ HasFallThrough(words[a].insn) /\ b = EndAddress(a)

FlowEdges ==
  {e \in AlignedAddress \X AlignedAddress :
     LeadsTo(e[1], e[2]) /\ IsUsable(e[2]) /\ Decodes(e[2])}

FlowRoots == {a \in AlignedAddress : a \in seeds /\ IsUsable(a) /\ Decodes(a)}

\* The answer, once it is given: a worklist with something on it tells that it
\* is not all.
Asked == IF phase = "idle" THEN "idle"
         ELSE IF phase = "discovered" THEN "built" ELSE "building"
Reached == IF phase = "discovered" THEN disassembled ELSE {}
Complete == phase = "discovered" => worklist = <<>>

Flow == INSTANCE Reachability WITH
  Node <- AlignedAddress,
  phase <- Asked, edges <- FlowEdges, roots <- FlowRoots, limit <- maxInstructions,
  reached <- Reached, complete <- Complete

\* discover finds exactly the instructions that control flow reaches from the
\* seeds, or as many of them as the cap allows.  The order of the seeds and of
\* the stack decides which only when the cap cuts it short.
FindsReachableCode == Flow!ReachabilitySpec

CalledFrom(a) ==
  LET insn == words[a].insn
  IN StartAt(insn.flow = "directCall" /\ insn.hasTarget, insn.target)

\* The functions reported are the seeds in code and the targets of the calls
\* that were met, no more and no less, even after the cap: a target that was
\* scheduled for another reason first is reported all the same.
StartsAreSeedsAndCallees ==
  phase # "seeding" =>
    functionStarts = {s \in seeds : Contains(s)} \cup UNION {CalledFrom(a) : a \in disassembled}

\* discover returns, whatever cycles the code has.
DiscoverReturns == phase = "seeding" ~> phase = "discovered"
==============================================================================
