----------------------- MODULE MCFunctionExtentAnalyzer -----------------------
(***************************************************************************)
(* The extent analyser on all code of 5 words from small alphabets.        *)
(***************************************************************************)
EXTENDS FunctionExtentAnalyzer, SampleCode

Given(strong, soft, sizes) ==
  [strongEntries |-> strong, softEntries |-> soft, authoritativeSizes |-> sizes]

NoSizes == [a \in {} |-> 0]
Sizes == [a \in {4, 12} |-> IF a = 4 THEN 6 ELSE 64]
TwoSizes == [a \in {4, 12} |-> IF a = 4 THEN 1 ELSE 10]

Defaults ==
  [maxInstructions |-> 9, discoverGapFunctions |-> TRUE,
   linearPastIndirectBranch |-> TRUE, minGapFunctionInstructions |-> 2]

\* What the pipeline asks for, no search of gaps, and a cap that cuts graphs.
MCOptions ==
  {Defaults, [Defaults EXCEPT !.discoverGapFunctions = FALSE],
   [Defaults EXCEPT !.maxInstructions = 2, !.linearPastIndirectBranch = FALSE]}
MCDefaults == {Defaults}

\* One region of four words, or two adjacent ones with ragged ends up to where
\* BelowTop allows, with all code over an alphabet.
MCImages ==
  ImagesOver(One(0, 16), 0, 4, {Seq1, Ret, Zero, Cond(12), Br(4)})
  \cup ImagesOver(One(4, 20), 4, 4, {Seq1, Nop, Data, IndirectBr})
  \cup ImagesOver(Two(2, 10, 10, 24), 4, 5, {Seq1, Br(16), Cond(4)})

\* Strong and soft entries in and out of the code, aligned or not, and sizes that
\* are too short, not of whole words, or run over other entries and the region.
MCInputs ==
  {Given({0, 8}, {16}, NoSizes), Given({4, 12}, {0, 8, 12}, Sizes),
   Given({0, 2}, {16}, NoSizes), Given({12}, {8, 16, 24}, TwoSizes)}

\* Padding and data in a region that reaches the top, and nothing to start from.
MCTopImages == ImagesOver(One(20, 31), 20, 2, {Nop, Zero, Data})
MCTopInputs == {Given({}, {}, NoSizes)}
==============================================================================
