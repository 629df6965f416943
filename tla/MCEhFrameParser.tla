---------------------------- MODULE MCEhFrameParser ----------------------------
(***************************************************************************)
(* Files whose unwind table a compiler could have written, in several      *)
(* encodings, found in three ways, and the same cut short or with one byte *)
(* damaged.  A u16 and a u32 have one byte and a u64 two, so that the      *)
(* values of a field and their sums are small; the rest is byte for byte.  *)
(***************************************************************************)
EXTENDS EhFrameParser, FiniteSets

MCWidths == [w \in Sizes |-> IF w = "u64" THEN 2 ELSE 1]

tableAt == 300       \* the address of the table

\* The bytes of n, least significant first, in a field of the kind.
LittleEndian(n, w) == [i \in 1 .. w |-> (n \div (256 ^ (i - 1))) % 256]
Leb(n) ==
  IF n < 64 THEN <<n>>
  ELSE IF n < 8192 THEN <<(n % 128) + 128, n \div 128>>
  ELSE <<(n % 128) + 128, ((n \div 128) % 128) + 128, n \div 16384>>
SignedLeb(n) == IF n >= WordLimit - 64 THEN <<n % 128>> ELSE Leb(n)
Put(n, kind) ==
  CASE kind = "uleb" -> Leb(n)
    [] kind = "sleb" -> SignedLeb(n)
    [] OTHER -> LittleEndian(n, Width(kind))

\* What an address stored at address at is relative to.
Origin(encoding, at) ==
  CASE encoding \div 16 = 1 -> at
    [] encoding \div 16 = 3 -> tableAt
    [] OTHER -> 0

\* An address stored at position p of the table.
PutAddress(a, p, encoding) ==
  Put((a - Origin(encoding, tableAt + p)) % WordLimit, Kind(encoding))

\* An entry with its length, in the short form or the long one.
Entry(long, body) ==
  IF long THEN <<MaxU32>> \o LittleEndian(Len(body) + 1, 2) \o body \o <<0>>
          ELSE <<Len(body) + 1>> \o body \o <<0>>

HeadSize(long) == IF long THEN 3 ELSE 1
IdSize(long) == IF long THEN 2 ELSE 1

AugmentationData(c) ==
  FoldLeft(LAMBDA data, letter :
             data \o (CASE letter = kLetterR -> <<c.encoding>>
                        [] letter = kLetterP -> <<27, 9>>
                        [] letter = kLetterL -> <<27>>
                        [] OTHER -> <<>>),
           <<>>, Tail(c.augmentation))

\* A CIE: [long, version, augmentation, encoding, wraps].  The augmentation of
\* one that wraps has a length that leads back to position 0.
PutCie(c) ==
  Entry(c.long,
    LittleEndian(0, IdSize(c.long)) \o <<c.version>> \o c.augmentation \o <<0>>
    \o (IF c.version = 4 THEN <<8, 0>> ELSE <<>>) \o <<4, 120, 30>>
    \o (IF c.augmentation = <<>> THEN <<>>
        ELSE Leb(IF c.wraps THEN WordLimit - 12 ELSE Len(AugmentationData(c)))
              \o AugmentationData(c)))

\* The FDE of a function, at position p, that refers to a CIE at cieAt.
PutFde(c, long, p, cieAt, fn) ==
  LET idAt == p + HeadSize(long)
      startAt == idAt + IdSize(long)
      start == PutAddress(fn.start, startAt, c.encoding)
  IN Entry(long, LittleEndian(idAt - cieAt, IdSize(long)) \o start
                 \o Put(fn.size, Kind(c.encoding)))

Function(s, n) == [start |-> s, size |-> n]
Ranges == <<Function(310, 5), Function(320, 7), Function(290, 1), Function(280, 120)>>

\* The table with one more FDE, for the range fn, that refers to the i-th entry.
WithFde(table, c, long, i, fn) ==
  LET p == Len(table.bytes)
  IN [bytes |-> table.bytes \o PutFde(c, long, p, table.starts[i], fn),
      starts |-> Append(table.starts, p)]

\* Two CIEs, then two FDEs of each in turn: FDEs must find their own CIE.
TwoCies(c, d, long) ==
  LET cies == [bytes |-> PutCie(c) \o PutCie(d), starts |-> <<0, Len(PutCie(c))>>]
      Add(table, i) == IF i % 2 = 1 THEN WithFde(table, c, long, 1, Ranges[i])
                                    ELSE WithFde(table, d, long, 2, Ranges[i])
      table == FoldLeft(Add, cies, <<1, 2, 3, 4>>)
  IN [bytes |-> table.bytes, starts |-> table.starts,
      ends |-> SubSeq(table.starts, 4, 6) \o <<Len(table.bytes)>>,
      ranges |-> Ranges]

Cie(version, augmentation, encoding) ==
  [long |-> FALSE, version |-> version, augmentation |-> augmentation, encoding |-> encoding,
   wraps |-> FALSE]

zR == <<kLetterZ, kLetterR>>
zPLR == <<kLetterZ, kLetterP, kLetterL, kLetterR>>
zRS == <<kLetterZ, kLetterR, kLetterS>>
zRB == <<kLetterZ, kLetterR, 66>>

\* Absolute; relative to itself, signed or not; relative to the table; LEB128.
MCCies ==
  {Cie(1, <<>>, 0), Cie(1, zR, 27), Cie(3, zPLR, 28), Cie(4, zRS, 49), Cie(1, zRB, 60),
   Cie(3, zR, 25), [Cie(1, zPLR, 27) EXCEPT !.long = TRUE]}

\* The table in a section of its own, or its first n bytes.
InSection(t, n) ==
  [bytes |-> <<7>> \o SubSeq(t.bytes, 1, n),
   sections |-> <<[name |-> ".eh_frame", allocated |-> TRUE, executable |-> FALSE,
                   hasFileData |-> TRUE, address |-> tableAt, fileOffset |-> 1,
                   size |-> Len(t.bytes)]>>,
   segments |-> <<>>,
   ranges |-> SubSeq(t.ranges, 1, Cardinality({i \in DOMAIN t.ends : t.ends[i] <= n})),
   whole |-> TRUE]

\* One byte of the table is v.
Damaged(t, n, v) ==
  [InSection(t, Len(t.bytes)) EXCEPT
     !.bytes[n + 2] = v, !.whole = FALSE, !.ranges = InSection(t, n).ranges]

\* The bytes of the i-th entry.
EntrySize(t, i) ==
  (IF i < Len(t.starts) THEN t.starts[i + 1] ELSE Len(t.bytes)) - t.starts[i]

\* The table ends after n bytes of its entry at position p, whose length agrees.
Shortened(t, p, n) ==
  [InSection(t, p + n) EXCEPT
     !.bytes[p + 2] = n - 1, !.whole = FALSE, !.ranges = InSection(t, p).ranges]

\* A file without sections: a header before the table points to it, and a
\* terminator ends it.  A pointer in an unknown encoding hides it.
ByHeader(t, encoding) ==
  LET at == tableAt - 5
      hdr == <<1, encoding, 0, 0, (IF (encoding \div 16) % 8 = 1 THEN 1 ELSE 5)>>
      segment == [type |-> "load", executable |-> FALSE, fileOffset |-> 0,
                  virtualAddress |-> at, fileSize |-> Len(t.bytes) + 9]
  IN [bytes |-> hdr \o t.bytes \o <<0, 9, 9, 9>>,
      sections |-> <<>>,
      segments |-> <<segment, [segment EXCEPT !.type = "ehFrame", !.fileSize = 5]>>,
      ranges |-> IF Decodes(encoding) THEN t.ranges ELSE <<>>,
      whole |-> TRUE]

\* Only the header has a section.
ByHeaderSection(t, encoding) ==
  LET f == ByHeader(t, encoding)
      section == [name |-> ".eh_frame_hdr", allocated |-> FALSE, executable |-> FALSE,
                  hasFileData |-> TRUE, address |-> tableAt - 5, fileOffset |-> 0, size |-> 5]
  IN [f EXCEPT !.sections = <<section>>, !.segments = <<f.segments[1]>>]

Uniform == {TwoCies(c, d, long) : c, d \in MCCies, long \in BOOLEAN}
Few1 == TwoCies(Cie(3, zPLR, 27), Cie(4, zRS, 49), FALSE)
Few == {Few1, TwoCies(Cie(1, <<>>, 0), Cie(1, zR, 25), TRUE)}
Wrapping == TwoCies([Cie(1, zR, 27) EXCEPT !.wraps = TRUE], Cie(1, zR, 9), FALSE)

MCFiles ==
  {InSection(t, Len(t.bytes)) : t \in Uniform \cup {Wrapping}}
  \cup UNION {{InSection(t, n) : n \in 0 .. Len(t.bytes)} : t \in Few}
  \cup UNION {{Damaged(t, n, v) : n \in 0 .. Len(t.bytes) - 1, v \in {0, 80, 255}} :
                 t \in Few}
  \cup UNION {{Shortened(Few1, Few1.starts[i], n) : n \in 2 .. EntrySize(Few1, i)} :
                 i \in DOMAIN Few1.starts}
  \cup {ByHeader(t, e) : t \in Few, e \in {27, 59, 187, 255}}
  \cup {ByHeaderSection(t, 27) : t \in Few}
=============================================================================
