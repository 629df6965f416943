------------------------------ MODULE CfgBuilder ------------------------------
(***************************************************************************)
(* CfgBuilder::build: from the entry of a function, a depth-first walk of  *)
(* its instructions that never goes below the entry, past the upper bound, *)
(* out of the code regions or into a boundary (the entry of another        *)
(* function).  One step is one turn of the worklist loop.  The analyses    *)
(* call build many times on one cache, so a finished builder may be called *)
(* again.                                                                  *)
(***************************************************************************)
EXTENDS InstructionCache, FiniteSets

CONSTANT Requests      \* the CfgBuildRequests the builder may be given

VARIABLES
  status,          \* "idle", "building" or "built"
  request,         \* the CfgBuildRequest being served
  visited,         \* the instructions covered so far
  enqueued,        \* every address that was ever put on the worklist
  worklist,        \* a stack: the last element is taken first
  coveredEnd,      \* extentEnd of the graph
  truncated,       \* the instruction cap stopped the walk
  reachesReturn,
  callTargets,     \* *callTargetsOut
  blocks           \* the basic blocks, when they are asked for

walkVars == <<visited, enqueued, worklist, coveredEnd, truncated, reachesReturn,
              callTargets>>
builderVars == <<status, request, walkVars, blocks>>

CfgBuildRequest ==
  [entry : Address, upperBound : Address, boundaries : SUBSET Address,
   maxInstructions : Nat, linearPastIndirectBranch : BOOLEAN,
   wantsCallTargets : BOOLEAN, buildBasicBlocks : BOOLEAN]

ASSUME RequestsAssumption == Requests \subseteq CfgBuildRequest

\* CfgBuildRequest{}: what a request holds before the caller fills it in.  The
\* default cap of 8'000'000 instructions plays no part until then.
EmptyRequest ==
  [entry |-> 0, upperBound |-> 0, boundaries |-> {}, maxInstructions |-> 0,
   linearPastIndirectBranch |-> TRUE, wantsCallTargets |-> FALSE,
   buildBasicBlocks |-> FALSE]
-----------------------------------------------------------------------------
\* Mutant of IsSchedulable: the alignment is not tested.
IsInRange(t) ==
  /\ request.entry <= t
  /\ t < request.upperBound
  /\ Contains(t)
  /\ t \notin request.boundaries

IsSchedulable(t) ==
  /\ request.entry <= t
  /\ t < request.upperBound
  /\ t % kAArch64InstructionSize = 0
  /\ Contains(t)
  /\ t \notin request.boundaries

\* Mutant of Schedule: enqueued is not consulted.
ScheduleAgain(q, t) ==
  IF IsSchedulable(t)
  THEN [worklist |-> Append(q.worklist, t), enqueued |-> q.enqueued \cup {t}]
  ELSE q

\* schedule(t): q is the worklist and the set of all that was ever on it.
Schedule(q, t) ==
  IF IsSchedulable(t) /\ t \notin q.enqueued
  THEN [worklist |-> Append(q.worklist, t), enqueued |-> q.enqueued \cup {t}]
  ELSE q

FollowsTarget(insn) == IsBranch(insn) /\ insn.hasTarget

FollowsFallThrough(insn) ==
  \/ HasFallThrough(insn)
  \/ insn.flow = "indirectBranch" /\ request.linearPastIndirectBranch

Top == worklist[Len(worklist)]
Popped == [worklist |-> SubSeq(worklist, 1, Len(worklist) - 1),
           enqueued |-> enqueued]

\* Mutant of AfterCovering: a branch with a target has no fall-through.
AfterBranching(insn) ==
  IF FollowsTarget(insn) THEN Schedule(Popped, insn.target)
  ELSE IF FollowsFallThrough(insn) THEN Schedule(Popped, EndAddress(Top)) ELSE Popped

\* The worklist once the instruction on top is covered.
AfterCovering(insn) ==
  LET q == IF FollowsTarget(insn) THEN Schedule(Popped, insn.target) ELSE Popped
  IN IF FollowsFallThrough(insn) THEN Schedule(q, EndAddress(Top)) ELSE q
-----------------------------------------------------------------------------
(***************************************************************************)
(* buildBlocks cuts the covered instructions, in address order, at every   *)
(* leader and wherever they are not contiguous.  A block keeps the flow    *)
(* and the successors of its last instruction.                             *)
(***************************************************************************)
TargetIn(insn, covered) ==
  IF IsBranch(insn) /\ insn.hasTarget THEN {insn.target} \cap covered ELSE {}

\* Mutant of Leaders: the target of a branch starts no block.
FallThroughLeaders(covered, entry) ==
  {entry} \cup UNION {{EndAddress(a)} \cap covered :
                        a \in {b \in covered : IsBlockTerminator(InsnAt(b))}}

Leaders(covered, entry) ==
  {entry} \cup UNION {({EndAddress(a)} \cap covered) \cup TargetIn(InsnAt(a), covered) :
                        a \in {b \in covered : IsBlockTerminator(InsnAt(b))}}

BlockStarts(covered, entry) ==
  {a \in covered : \/ a \in Leaders(covered, entry)
                   \/ a - kAArch64InstructionSize \notin covered}

FallThroughKind(insn) == IF IsCall(insn) THEN "callReturn" ELSE "fallThrough"

\* Mutant of Successors: a branch does not fall through.
TakenSuccessors(insn, a, covered) ==
  {[target |-> t, kind |-> "branchTaken"] : t \in TargetIn(insn, covered)}
  \cup
  {[target |-> t, kind |-> FallThroughKind(insn)] :
     t \in IF HasFallThrough(insn) /\ ~IsBranch(insn) THEN {EndAddress(a)} \cap covered ELSE {}}

Successors(insn, a, covered) ==
  {[target |-> t, kind |-> "branchTaken"] : t \in TargetIn(insn, covered)}
  \cup
  {[target |-> t, kind |-> FallThroughKind(insn)] :
     t \in IF HasFallThrough(insn) THEN {EndAddress(a)} \cap covered ELSE {}}

\* Mutant of IsLastOf: a leader does not close the block before it.
IsLastOfRun(a, s, covered, starts) ==
  /\ a >= s
  /\ EndAddress(a) \notin covered

\* The last instruction of the block that starts at s.
IsLastOf(a, s, covered, starts) ==
  /\ a >= s
  /\ \A x \in covered : s < x /\ x <= a => x \notin starts
  /\ EndAddress(a) \in covered => EndAddress(a) \in starts

BuildBlocks(covered, entry) ==
  LET starts == BlockStarts(covered, entry)
      Block(s) ==
        LET last == CHOOSE a \in covered : IsLastOf(a, s, covered, starts)
        IN [start |-> s, end |-> EndAddress(last),
            terminatorFlow |-> InsnAt(last).flow,
            successors |-> Successors(InsnAt(last), last, covered)]
  IN {Block(s) : s \in starts}
-----------------------------------------------------------------------------
BuilderInit ==
  /\ status = "idle"
  /\ request = EmptyRequest
  /\ visited = {} /\ enqueued = {} /\ worklist = <<>>
  /\ coveredEnd = 0
  /\ truncated = FALSE /\ reachesReturn = FALSE
  /\ callTargets = {} /\ blocks = {}

\* The entry need not be outside the boundaries: it is one of them.
EntryIsSchedulable(req) ==
  /\ req.entry % kAArch64InstructionSize = 0
  /\ req.entry < req.upperBound
  /\ Contains(req.entry)

\* A call of build, up to its loop.
BeginBuild(req) ==
  /\ status # "building"
  /\ status' = "building"
  /\ request' = req
  /\ worklist' = IF EntryIsSchedulable(req) THEN <<req.entry>> ELSE <<>>
  /\ enqueued' = IF EntryIsSchedulable(req) THEN {req.entry} ELSE {}
  /\ visited' = {}
  /\ coveredEnd' = req.entry
  /\ truncated' = FALSE /\ reachesReturn' = FALSE
  /\ callTargets' = {} /\ blocks' = {}
  /\ UNCHANGED image

Build(req) == BeginBuild(req) /\ UNCHANGED cacheVars

AtCap == Cardinality(visited) >= request.maxInstructions

Turning == status = "building" /\ worklist # <<>> /\ ~AtCap

\* Mutant of CrossesUpperBound: the start is compared instead of the end.
StartsPastUpperBound(a) == a > request.upperBound

CrossesUpperBound(a) == EndAddress(a) > request.upperBound

\* The end of a skipping turn: the address leaves the worklist for good.
Drop ==
  /\ worklist' = Popped.worklist
  /\ UNCHANGED <<image, status, request, visited, enqueued, coveredEnd, truncated,
                 reachesReturn, callTargets, blocks>>

SkipHardStop ==
  /\ Turning
  /\ IsHardStopWord(Top)
  /\ Drop
  /\ UNCHANGED cacheVars

SkipUndecodable ==
  /\ Turning
  /\ ~IsHardStopWord(Top)
  /\ Hit(Top) => CrossesUpperBound(Top)
  /\ CacheAt(Top)
  /\ Drop

Cover ==
  /\ Turning
  /\ ~IsHardStopWord(Top)
  /\ Hit(Top) /\ ~CrossesUpperBound(Top)
  /\ CacheAt(Top)
  /\ LET insn == InsnAt(Top) IN
       /\ visited' = visited \cup {Top}
       /\ coveredEnd' = IF EndAddress(Top) > coveredEnd THEN EndAddress(Top)
                                                        ELSE coveredEnd
       /\ worklist' = AfterCovering(insn).worklist
       /\ enqueued' = AfterCovering(insn).enqueued
       /\ reachesReturn' = (reachesReturn \/ insn.flow = "return")
       /\ callTargets' =
            IF insn.flow = "directCall" /\ insn.hasTarget /\ request.wantsCallTargets
            THEN callTargets \cup {insn.target} ELSE callTargets
  /\ UNCHANGED <<image, status, request, truncated, blocks>>

\* The loop ends: nothing is left, or the cap was reached with work left.
Return ==
  /\ status = "building"
  /\ worklist = <<>> \/ AtCap
  /\ status' = "built"
  /\ truncated' = (worklist # <<>>)
  /\ blocks' = IF request.buildBasicBlocks THEN BuildBlocks(visited, request.entry)
                                           ELSE {}
  /\ UNCHANGED <<image, cacheVars, request, visited, enqueued, worklist, coveredEnd,
                 reachesReturn, callTargets>>

BuilderStep == SkipHardStop \/ SkipUndecodable \/ Cover \/ Return

Init == ImageInit /\ CacheInit /\ BuilderInit

Next == (\E req \in Requests : Build(req)) \/ BuilderStep

vars == <<image, cacheVars, builderVars>>

Spec == Init /\ [][Next]_vars
-----------------------------------------------------------------------------
BuilderTypeOK ==
  /\ status \in {"idle", "building", "built"}
  /\ request \in CfgBuildRequest
  /\ visited \subseteq AlignedAddress
  /\ enqueued \subseteq AlignedAddress
  /\ worklist \in Seq(AlignedAddress)
  /\ coveredEnd \in Address
  /\ truncated \in BOOLEAN /\ reachesReturn \in BOOLEAN
  /\ callTargets \subseteq Address

\* Every variable of the builder, its cache and the image it reads has its type.
TypeOK == IsImage(regions, words) /\ CacheTypeOK /\ BuilderTypeOK
-----------------------------------------------------------------------------
(***************************************************************************)
(* The question a request asks, as a graph on the aligned addresses.       *)
(***************************************************************************)
IsCoverable(a) ==
  ~IsHardStopWord(a) /\ Decodes(a) /\ ~CrossesUpperBound(a)

LeadsTo(a, b) ==
  \/ FollowsTarget(words[a].insn) /\ b = words[a].insn.target
  \/ FollowsFallThrough(words[a].insn) /\ b = EndAddress(a)

FlowEdges ==
  {e \in AlignedAddress \X AlignedAddress :
     LeadsTo(e[1], e[2]) /\ IsSchedulable(e[2]) /\ IsCoverable(e[2])}

FlowRoots ==
  {a \in AlignedAddress :
     a = request.entry /\ EntryIsSchedulable(request) /\ IsCoverable(a)}

\* The answer, once it is given.
Reached == IF status = "built" THEN visited ELSE {}
Complete == status = "built" => ~truncated

Flow == INSTANCE Reachability WITH
  Node <- AlignedAddress,
  phase <- status, edges <- FlowEdges, roots <- FlowRoots,
  limit <- request.maxInstructions,
  reached <- Reached, complete <- Complete

\* build answers the question its request asks: a graph that is not truncated
\* covers exactly the instructions that control flow reaches from the entry
\* inside the bounds, in whatever order the stack produced them; a truncated
\* one covers as many of those as the cap allows.
CoversReachableCode == Flow!ReachabilitySpec
-----------------------------------------------------------------------------
\* No address is on the worklist twice, or comes back once visited: enqueued
\* alone keeps the walk finite, and the test of visited in the loop never fires.
WorklistIsFresh ==
  /\ \A i, j \in DOMAIN worklist : worklist[i] = worklist[j] => i = j
  /\ \A i \in DOMAIN worklist : worklist[i] \in enqueued \ visited

\* The extent ends right after the last covered instruction, and a non-empty
\* extent stays inside [entry, upperBound] and inside code.  The callers turn
\* it into the bounds of a function without looking at the graph again.
ExtentIsTight ==
  status # "idle" =>
    /\ \A a \in visited : EndAddress(a) <= coveredEnd
    /\ coveredEnd = request.entry \/ \E a \in visited : EndAddress(a) = coveredEnd
    /\ \A a \in visited : request.entry <= a /\ EndAddress(a) <= request.upperBound
    /\ \A a \in visited : Contains(a) /\ Contains(EndAddress(a) - 1)

\* The memo table never disagrees with the disassembler, however many graphs
\* were built through it, and the decode counter counts its valid entries.
CacheIsCoherent ==
  /\ \A a \in DOMAIN cache : cache[a] = Decode(a)
  /\ decoded = Cardinality({a \in DOMAIN cache : cache[a].valid})

\* regionContaining asks one region only, the last that starts at or before
\* the address; that is enough to find every address that any region holds.
RegionLookupIsExact ==
  \A a \in Address :
    Contains(a) <=> \E i \in DOMAIN regions : regions[i].start <= a /\ a < regions[i].end
-----------------------------------------------------------------------------
HasBlocks == status = "built" /\ request.buildBasicBlocks

InBlock(b) == {a \in visited : b.start <= a /\ a < b.end}

\* Each covered instruction is in exactly one block, and a block is a run of
\* covered instructions with no hole.
BlocksPartitionTheCode ==
  HasBlocks =>
    /\ \A a \in visited : \E b \in blocks : a \in InBlock(b)
    /\ \A b, c \in blocks : b # c => InBlock(b) \cap InBlock(c) = {}
    /\ \A b \in blocks : \A a \in AlignedAddress :
         b.start <= a /\ a < b.end => a \in visited

\* Control leaves a block only after its last instruction and enters a block
\* only at its first: no branch sits inside one, no edge points inside one.
BlocksAreBasic ==
  HasBlocks =>
    \A b \in blocks :
      /\ \A a \in InBlock(b) : IsBlockTerminator(words[a].insn) => EndAddress(a) = b.end
      /\ \A e \in b.successors : \E c \in blocks : c.start = e.target

\* Every block but that of the entry is the successor of some block, or comes
\* right after an indirect branch the walk went past: the edges, computed
\* after the walk from the covered set, account for all that the walk did.
EveryBlockIsReached ==
  HasBlocks =>
    \A b \in blocks :
      \/ b.start = request.entry
      \/ \E c \in blocks : \E e \in c.successors : e.target = b.start
      \/ /\ request.linearPastIndirectBranch
         /\ \E c \in blocks : c.end = b.start /\ c.terminatorFlow = "indirectBranch"
==============================================================================
