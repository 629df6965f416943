-------------------------- MODULE MCFunctionAnalyzer --------------------------
(***************************************************************************)
(* The whole pipeline on code of 4 words, with symbols and unwind entries  *)
(* that agree, disagree, overlap, point inside words, outside code, or are *)
(* missing.                                                                *)
(***************************************************************************)
EXTENDS FunctionAnalyzer, SampleCode

CONSTANTS n1, n2

MCName == {n1, n2}

Symbol(value, size, name) ==
  [value |-> value, size |-> size, name |-> name, type |-> "func",
   binding |-> "global", section |-> "index"]

Fde(start, size) == [start |-> start, size |-> size]

\* In turn: a stripped image, one with two sizes for the same address, one with
\* a ragged size and entries inside other functions, and one whose entries are
\* not code.
MCElfImages ==
  {[symbols |-> <<>>, entryPoint |-> 0, unwind |-> <<>>],
   [symbols |-> <<Symbol(4, 8, n1), Symbol(4, 4, n2)>>, entryPoint |-> 8,
    unwind |-> <<Fde(4, 12), Fde(12, 4)>>],
   [symbols |-> <<Symbol(0, 0, NoName), [Symbol(8, 4, n2) EXCEPT !.section = "undefined"]>>,
    entryPoint |-> 12, unwind |-> <<Fde(0, 6), Fde(4, 30)>>],
   [symbols |-> <<[Symbol(8, 4, n1) EXCEPT !.type = "other"], Symbol(24, 4, n2)>>,
    entryPoint |-> 6, unwind |-> <<>>]}

MCImages ==
  ImagesOver(One(0, 16), 0, 4, {Seq1, Ret, Data, CallTo(8), Br(12)})
  \cup ImagesOver(Two(0, 8, 8, 14), 0, 3, {Seq1, Zero, Cond(8)})
  \cup ImagesOver(<<>>, 0, 1, {Seq1})

Ask(symbolsWanted, unwindWanted, entryWanted, recursive, cap) ==
  [AllSources EXCEPT !.useSymbols = symbolsWanted, !.useEhFrame = unwindWanted,
                     !.useEntryPoint = entryWanted, !.useRecursive = recursive,
                     !.maxInstructions = cap]

MCAnalysisOptions ==
  {Ask(TRUE, TRUE, TRUE, TRUE, 9), Ask(FALSE, TRUE, FALSE, TRUE, 9),
   Ask(TRUE, FALSE, TRUE, FALSE, 2)}

\* Two images are enough to disagree with the README.
MCReadmeImages == ImagesOver(One(0, 16), 0, 4, {Seq1, Ret, Data})
MCReadmeElfImages ==
  {[symbols |-> <<Symbol(0, 12, n1)>>, entryPoint |-> 0, unwind |-> <<Fde(0, 12)>>]}
==============================================================================
