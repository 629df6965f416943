----------------------------- MODULE MCCfgBuilder -----------------------------
(***************************************************************************)
(* The graph builder on all code of 4 words, asked again and again for     *)
(* graphs that are bounded, cut by a boundary, capped, unaligned or empty. *)
(***************************************************************************)
EXTENDS AArch64Code, SampleCode

Flows == {Seq1, Ret, IndirectBr, Zero, Data, Cond(12), Br(0), Br(8)}

\* Three words: loops, calls, an unaligned region start, two regions that meet.
MCLoopImages ==
  ImagesOver(One(0, 12), 0, 3,
             {Seq1, Nop, Zero, Data, IndirectCall, Br(0), Br(4), Cond(4), CallTo(20)})
  \cup ImagesOver(Two(2, 8, 8, 14), 4, 3, {Seq1, Data, Br(4), Cond(12)})

\* Code at 0 .. 15, and code at 4 .. 19 whose region ends inside a word.
MCImages ==
  ImagesOver(One(0, 16), 0, 4, Flows \cup {CallTo(8)})
  \cup ImagesOver(Two(4, 8, 8, 18), 4, 4, {Seq1, Ret, Cond(4), Br(12), Br(6)})
  \cup MCLoopImages

Ask(entry, upper, boundaries, cap, linear) ==
  [EmptyRequest EXCEPT !.entry = entry, !.upperBound = upper,
                       !.boundaries = boundaries, !.maxInstructions = cap,
                       !.linearPastIndirectBranch = linear,
                       !.wantsCallTargets = linear, !.buildBasicBlocks = TRUE]

MCRequests ==
  {Ask(0, 24, {}, 9, TRUE), Ask(4, 18, {4, 12}, 9, FALSE), Ask(0, 14, {}, 2, TRUE),
   Ask(2, 12, {}, 9, FALSE)}
==============================================================================
