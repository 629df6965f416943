---------------------- MODULE MCRecursiveDisassembler ----------------------
(***************************************************************************)
(* The traversal on all code of 4 words: cycles, calls into the middle of  *)
(* code, a zero word that decodes, targets outside every region or inside  *)
(* a word, a region that ends inside one.                                  *)
(***************************************************************************)
EXTENDS RecursiveDisassembler, SampleCode

DecodingZero == [Seq1 EXCEPT !.pattern = "zero"]

MCImages ==
  ImagesOver(One(0, 16), 0, 4,
             {Seq1, Ret, IndirectCall, Data, CallTo(8), CallTo(6), Cond(12), Br(0)})
  \cup ImagesOver(Two(4, 10, 12, 20), 4, 4,
                  {DecodingZero, IndirectBr, CallTo(16), CallTo(24), Br(12), Cond(4)})

MCSeedSets == {{}, {0}, {4, 12}, {2, 8, 24}}
MCCaps == {2, 9}
==============================================================================
