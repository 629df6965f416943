--------------------------- MODULE MCCodeMapBuilder ---------------------------
(***************************************************************************)
(* Files of 8 bytes in an address space of 256, with                       *)
(* up to two sections and two segments that nest, meet, overlap, reach     *)
(* past the file, or wrap around the top of the address space.             *)
(***************************************************************************)
EXTENDS CodeMapBuilder

MCWidths == [w \in Sizes |-> 1]

Text(addr, offset, size) ==
  [name |-> ".text", allocated |-> TRUE, executable |-> TRUE, hasFileData |-> TRUE,
   address |-> addr, fileOffset |-> offset, size |-> size]
Rodata(addr, offset, size) == [Text(addr, offset, size) EXCEPT !.executable = FALSE]
Bss(addr, offset, size) == [Text(addr, offset, size) EXCEPT !.hasFileData = FALSE]

Load(addr, offset, size) ==
  [type |-> "load", executable |-> TRUE, fileOffset |-> offset,
   virtualAddress |-> addr, fileSize |-> size]

Ranges == {<<16, 0, 4>>, <<20, 4, 6>>, <<18, 2, 4>>, <<16, 6, 0>>, <<8, 2, 12>>,
           <<252, 0, 4>>, <<250, 1, 4>>, <<30, 253, 6>>, <<30, 9, 4>>}

MCSections ==
  UNION {{Text(r[1], r[2], r[3]), Rodata(r[1], r[2], r[3]), Bss(r[1], r[2], r[3])} : r \in Ranges}

MCSegments ==
  UNION {{Load(r[1], r[2], r[3]), [Load(r[1], r[2], r[3]) EXCEPT !.executable = FALSE],
          [Load(r[1], r[2], r[3]) EXCEPT !.type = "other"]} :
           r \in {<<16, 0, 4>>, <<8, 2, 12>>, <<250, 1, 4>>, <<20, 4, 6>>}}

UpTo2(S) == {<<>>} \cup {<<x>> : x \in S} \cup {<<x, y>> : x, y \in S}

Of(sections, segments) ==
  [bytes |-> [i \in 1 .. 8 |-> i], sections |-> sections, segments |-> segments]

MCFiles ==
  {Of(s, g) : s \in UpTo2(MCSections), g \in {<<>>, <<Load(16, 0, 6)>>}}
  \cup {Of(s, g) : s \in {<<>>, <<Rodata(16, 0, 2)>>, <<Text(30, 9, 4)>>}, g \in UpTo2(MCSegments)}
==============================================================================
