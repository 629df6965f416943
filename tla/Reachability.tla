----------------------------- MODULE Reachability -----------------------------
(***************************************************************************)
(* What a traversal of code promises its caller, whatever the order in     *)
(* which it visits: asked for the nodes that can be reached from some      *)
(* roots, it answers with all of them, or says that it stopped at its      *)
(* limit and answers with that many of them.                               *)
(***************************************************************************)
EXTENDS Naturals, FiniteSets

CONSTANT Node

VARIABLES
  phase,      \* "idle", "building" (a question is pending) or "built"
  edges,      \* the question: the graph,
  roots,      \*   where to start,
  limit,      \*   and how many nodes an answer may hold
  reached,    \* the answer,
  complete    \*   and whether it is all of it

question == <<edges, roots, limit>>

\* A set of nodes that no edge leaves.
Closed(S) ==
  /\ roots \subseteq S
  /\ \A a \in S, b \in Node \ S : <<a, b>> \notin edges

\* All of R can be reached: no closed set is without it.
AllReachable(R) == \A S \in SUBSET Node : R \subseteq S \/ ~Closed(S)

ReachabilityInit == phase = "idle" /\ reached = {} /\ complete = TRUE

Ask ==
  /\ phase # "building"
  /\ phase' = "building"
  /\ reached' = {} /\ complete'

\* The least closed set is the set of the nodes that can be reached.
AnswerAll ==
  /\ Closed(reached') /\ AllReachable(reached')
  /\ Cardinality(reached') <= limit
  /\ complete'

AnswerPart ==
  /\ AllReachable(reached')
  /\ Cardinality(reached') = limit
  /\ ~complete'

Answer ==
  /\ phase = "building"
  /\ phase' = "built"
  /\ AnswerAll \/ AnswerPart
  /\ UNCHANGED question

ReachabilityNext == Ask \/ Answer

ReachabilitySpec ==
  ReachabilityInit /\ [][ReachabilityNext]_<<phase, question, reached, complete>>
==============================================================================
