--------------------------- MODULE ItaniumDemangler ---------------------------
(***************************************************************************)
(* ItaniumDemangler: a recursive descent over a mangled C++ name.  What is *)
(* parsed so far is kept in a table of substitutions, which the rest of    *)
(* the name refers to by number, so a component that is not recorded, or   *)
(* recorded twice or too early, makes later parts mean something else.     *)
(*                                                                         *)
(* A mangled name is a sequence of tokens, a source name with its length   *)
(* or an operator's code being one token; what is shown of it is a         *)
(* sequence of words.  A parse takes the state of the parser and gives the *)
(* state after it, with the text it returns; a failure is for good.        *)
(***************************************************************************)
EXTENDS Integers, SequencesExt

CONSTANTS
  SourceName,      \* the tokens of source names
  kMaxDepth        \* 256 in the code

\* Some of the builtin types and of the operators; the others are alike.
BuiltinTypes == [v |-> "void", i |-> "int", c |-> "char", b |-> "bool", l |-> "long", z |-> "..."]
ExtendedBuiltins == [n |-> "std::nullptr_t", a |-> "auto"]
OperatorNames == [pl |-> "operator+", aS |-> "operator=", cl |-> "operator()"]

\* The abbreviations of std and its members.
StandardNames ==
  [t |-> <<"std">>, a |-> <<"std", "::", "allocator">>, b |-> <<"std", "::", "basic_string">>,
   s |-> <<"std", "::", "string">>, i |-> <<"std", "::", "istream">>,
   o |-> <<"std", "::", "ostream">>, d |-> <<"std", "::", "iostream">>]

Base36 ==
  <<"0", "1", "2", "3", "4", "5", "6", "7", "8", "9", "A", "B", "C", "D", "E", "F", "G", "H", "I",
    "J", "K", "L", "M", "N", "O", "P", "Q", "R", "S", "T", "U", "V", "W", "X", "Y", "Z">>

Base36Value(c) == (CHOOSE k \in DOMAIN Base36 : Base36[k] = c) - 1

Qualifiers == [K |-> "const", V |-> "volatile", r |-> "restrict"]
Indirections == [P |-> "*", R |-> "&", O |-> "&&"]

Start ==
  [pos |-> 2, ok |-> TRUE, text |-> <<>>, subs |-> <<>>, templateArgs |-> <<>>,
   lastWasTemplate |-> FALSE, lastSubStdNs |-> FALSE, depth |-> 0]
-----------------------------------------------------------------------------
Fail(st) == [st EXCEPT !.ok = FALSE]
Skip(st, n) == [st EXCEPT !.pos = @ + n]
Returns(st, text) == [st EXCEPT !.text = text]

\* What is parsed after st, shown after what st returns.
ShownAfter(st, separator, parsed) == Returns(parsed, st.text \o separator \o parsed.text)

PeekAt(s, st, d) == IF st.pos + d <= Len(s) THEN s[st.pos + d] ELSE "eof"
Peek(s, st) == PeekAt(s, st, 0)
AtEnd(s, st) == Peek(s, st) \in {"E", "eof"}

Expect(s, st, token) == IF Peek(s, st) = token THEN Skip(st, 1) ELSE Fail(st)

\* A text that is in the table already is not added again.
AddSub(st) ==
  IF ~st.ok \/ st.text \in Range(st.subs) THEN st ELSE [st EXCEPT !.subs = Append(@, st.text)]

RecordIf(condition, st) == IF condition THEN AddSub(st) ELSE st

\* DepthGuard: what the guarded call returns, back at the depth of its caller.
Enter(st) == [st EXCEPT !.depth = @ + 1, !.ok = @ /\ st.depth < kMaxDepth]
Leave(st, guarded) == [guarded EXCEPT !.depth = st.depth]

CanStartType(c) ==
  \/ c \in SourceName \cup DOMAIN BuiltinTypes \cup DOMAIN Qualifiers \cup DOMAIN Indirections
  \/ c \in {"N", "S", "F", "D", "T"}

\* A vector of texts, and the state after the last one.
ListFrom(st) == [at |-> st, list |-> <<>>]
Listed(q, parsed) == [at |-> parsed, list |-> Append(q.list, parsed.text)]

Join(texts) ==
  IF texts = <<>> THEN <<>>
  ELSE FoldLeft(LAMBDA text, t : text \o <<",">> \o t, Head(texts), Tail(texts))

\* The first position from that of st on where the token is not one of these.
RunEnd(s, st, tokens) == Min({p \in st.pos .. Len(s) + 1 : p <= Len(s) => s[p] \notin tokens})

\* The number of a substitution or of a template parameter, as an index into a
\* table; the parse fails unless it has that entry.
Entry(s, st, entries) ==
  LET end == RunEnd(s, st, Range(Base36))
      digits == SubSeq(s, st.pos, end - 1)
      index == IF digits = <<>> THEN 0
               ELSE 1 + FoldLeft(LAMBDA n, c : 36 * n + Base36Value(c), 0, digits)
  IN IF end <= Len(s) /\ s[end] = "_" /\ index < Len(entries)
     THEN Returns([st EXCEPT !.pos = end + 1], entries[index + 1]) ELSE Fail(st)

ParseTemplateParam(s, st) == AddSub(Entry(s, Skip(st, 1), st.templateArgs))

ParseSubstitution(s, st) ==
  LET c == PeekAt(s, st, 1)
      entered == [Skip(st, 1) EXCEPT !.lastSubStdNs = c = "t"]
  IN IF c \in DOMAIN StandardNames THEN Returns(Skip(entered, 1), StandardNames[c])
     ELSE Entry(s, entered, st.subs)

ParseUnqualifiedName(s, st) ==
  LET c == Peek(s, st)
  IN CASE c \in SourceName -> Returns(Skip(st, 1), <<c>>)
       [] c \in DOMAIN OperatorNames -> Returns(Skip(st, 1), <<OperatorNames[c]>>)
       [] OTHER -> Fail(st)

\* What follows std:: in the namespace's own abbreviation.
WithStdMember(s, st) ==
  IF st.ok /\ st.lastSubStdNs /\ Peek(s, st) \in SourceName \cup DOMAIN OperatorNames
  THEN AddSub(ShownAfter(st, <<"::">>, ParseUnqualifiedName(s, st)))
  ELSE st
-----------------------------------------------------------------------------
RECURSIVE ParseType(_, _), ParseTypes(_, _), ParseTemplateArg(_, _), ParseArgs(_, _),
          ParseComponents(_, _, _, _)

\* The types up to what cannot start one.
ParseTypes(s, q) ==
  IF ~q.at.ok \/ AtEnd(s, q.at) \/ ~CanStartType(Peek(s, q.at)) THEN q
  ELSE ParseTypes(s, Listed(q, ParseType(s, q.at)))

Parameters(types) ==
  <<"(">> \o (IF types = << <<"void">> >> THEN <<>> ELSE Join(types)) \o <<")">>

\* The template arguments up to the end.
ParseArgs(s, q) ==
  IF ~q.at.ok \/ AtEnd(s, q.at) THEN q ELSE ParseArgs(s, Listed(q, ParseTemplateArg(s, q.at)))

\* DepthGuard in the body of a loop.
EnterLoop(s, st) == IF AtEnd(s, st) THEN st ELSE Enter(st)

\* The arguments in effect are those of the template parsed last.
CloseTemplateArgs(s, st, q) ==
  Returns([Expect(s, Leave(st, q.at), "E") EXCEPT !.templateArgs = q.list],
          <<"<">> \o Join(q.list) \o <<">">>)

ParseTemplateArgs(s, st) ==
  CloseTemplateArgs(s, st, ParseArgs(s, ListFrom(EnterLoop(s, Skip(st, 1)))))

\* Template arguments, if there are any, after the text so far.
WithTemplateArgs(s, st) ==
  IF ~st.ok \/ Peek(s, st) # "I" THEN st
  ELSE [ShownAfter(st, <<>>, ParseTemplateArgs(s, st)) EXCEPT !.lastWasTemplate = TRUE]

\* A literal is shown without its type, if it has a value.
Literal(type, value) ==
  CASE type = <<"bool">> -> IF value = <<"0">> THEN <<"false">> ELSE <<"true">>
    [] type # <<"bool">> /\ value = <<>> -> type
    [] OTHER -> [i \in DOMAIN value |-> IF i = 1 /\ value[i] = "n" THEN "-" ELSE value[i]]

CloseLiteral(s, type) ==
  LET end == Min({p \in type.pos .. Len(s) + 1 : p <= Len(s) => s[p] = "E"})
  IN IF ~type.ok THEN type
     ELSE Returns(Expect(s, [type EXCEPT !.pos = end], "E"),
                  Literal(type.text, SubSeq(s, type.pos, end - 1)))

ParseExprPrimary(s, st) ==
  LET entered == Skip(st, 1)
  IN CloseLiteral(s, IF CanStartType(Peek(s, entered)) THEN ParseType(s, entered)
                     ELSE Returns(entered, <<>>))

ClosePack(s, q) == Returns(Expect(s, q.at, "E"), Join(q.list))

ParsePack(s, st) == ClosePack(s, ParseArgs(s, ListFrom(Skip(st, 1))))

ParseTemplateArg(s, st) ==
  LET entered == Enter(st)
      c == Peek(s, st)
  IN Leave(st, CASE ~entered.ok \/ c = "X" -> Fail(entered)
                 [] c = "L" -> ParseExprPrimary(s, entered)
                 [] c = "J" -> ParsePack(s, entered)
                 [] OTHER -> ParseType(s, entered))
-----------------------------------------------------------------------------
IsConstructor(s, st) == Peek(s, st) = "C" /\ PeekAt(s, st, 1) \in {"1", "2", "3", "4", "5"}
IsDestructor(s, st) == Peek(s, st) = "D" /\ PeekAt(s, st, 1) \in {"0", "1", "2", "4", "5"}

\* One component of a nested name.  A constructor is called what the component
\* before it is, which is last; after an abbreviation that is all it stands for.
ParseComponent(s, st, last) ==
  CASE Peek(s, st) = "S" -> ParseSubstitution(s, st)
    [] IsConstructor(s, st) -> Returns(Skip(st, 2), last)
    [] IsDestructor(s, st) -> Returns(Skip(st, 2), <<"~">> \o last)
    [] OTHER -> ParseUnqualifiedName(s, st)

\* Each prefix of a nested name becomes a substitution except the whole, and
\* except what came out of the table.
RecordPrefix(s, st, named) == RecordIf(Peek(s, st) # "S" /\ Peek(s, named) # "E", named)

\* The components up to the end, the first of which may be still to come.
ParseComponents(s, st, last, first) ==
  IF ~st.ok \/ AtEnd(s, st) THEN st
  ELSE IF Peek(s, st) = "I"
       THEN ParseComponents(s, RecordPrefix(s, st, WithTemplateArgs(s, st)), last, first)
  ELSE LET component == ParseComponent(s, st, last)
           named == IF first THEN component ELSE ShownAfter(st, <<"::">>, component)
           next == IF IsConstructor(s, st) \/ IsDestructor(s, st) THEN last ELSE component.text
       IN ParseComponents(s, RecordPrefix(s, st, [named EXCEPT !.lastWasTemplate = FALSE]), next,
                          FALSE)

ParseNestedName(s, st, asType) ==
  LET entered == Skip(st, 1)
      qualified == [entered EXCEPT !.pos = RunEnd(s, entered, DOMAIN Qualifiers)]
      referred == IF Peek(s, qualified) \in {"R", "O"} THEN Skip(qualified, 1) ELSE qualified
      parsed == ParseComponents(s, Returns(EnterLoop(s, referred), <<>>), <<>>, TRUE)
  IN RecordIf(asType, Expect(s, Leave(st, parsed), "E"))

\* The first type is that of the result.
CloseFunctionType(s, q) ==
  AddSub(Returns(Expect(s, q.at, "E"), Head(q.list) \o Parameters(Tail(q.list))))

ParseFunctionType(s, st) ==
  LET entered == Skip(st, IF PeekAt(s, st, 1) = "Y" THEN 2 ELSE 1)
  IN CloseFunctionType(s, ParseTypes(s, Listed(ListFrom(entered), ParseType(s, entered))))

ParseExtendedBuiltin(s, st) ==
  LET c == PeekAt(s, st, 1)
  IN IF c \in DOMAIN ExtendedBuiltins THEN Returns(Skip(st, 2), <<ExtendedBuiltins[c]>>)
     ELSE Fail(Skip(st, 2))

\* Qualifiers and indirections are shown after the type.
Followed(base, words) == AddSub(Returns(base, base.text \o words))

\* A group of qualifiers is one component.
ParseQualified(s, st) ==
  LET end == RunEnd(s, st, DOMAIN Qualifiers)
      words == Reverse([i \in 1 .. end - st.pos |-> Qualifiers[s[st.pos + i - 1]]])
  IN Followed(ParseType(s, [st EXCEPT !.pos = end]), words)

ParseIndirection(s, st) ==
  Followed(ParseType(s, Skip(st, 1)), <<Indirections[Peek(s, st)]>>)

\* A name from the table is a component of its own again only with arguments.
ParseTemplateOf(s, named) == RecordIf(Peek(s, named) = "I", WithTemplateArgs(s, named))

ParseSubstitutedType(s, st) == ParseTemplateOf(s, WithStdMember(s, ParseSubstitution(s, st)))

\* Mutant of ParseClassName: a class is not recorded.
UnrecordedClassName(s, st) == WithTemplateArgs(s, ParseUnqualifiedName(s, st))

\* A class template is recorded only with its arguments.
ParseClassName(s, st) == AddSub(WithTemplateArgs(s, ParseUnqualifiedName(s, st)))

ParseType(s, st) ==
  LET entered == Enter(st)
      c == Peek(s, st)
  IN Leave(st,
       CASE ~entered.ok -> entered
         [] entered.ok /\ c \in DOMAIN Qualifiers -> ParseQualified(s, entered)
         [] entered.ok /\ c \in DOMAIN Indirections -> ParseIndirection(s, entered)
         [] entered.ok /\ c = "N" -> ParseNestedName(s, entered, TRUE)
         [] entered.ok /\ c = "S" -> ParseSubstitutedType(s, entered)
         [] entered.ok /\ c = "T" -> ParseTemplateParam(s, entered)
         [] entered.ok /\ c \in SourceName -> ParseClassName(s, entered)
         [] entered.ok /\ c = "F" -> ParseFunctionType(s, entered)
         [] entered.ok /\ c = "D" -> ParseExtendedBuiltin(s, entered)
         [] entered.ok /\ c \in DOMAIN BuiltinTypes -> Returns(Skip(entered, 1), <<BuiltinTypes[c]>>)
         [] OTHER -> Fail(entered))
-----------------------------------------------------------------------------
\* A name outside any class; it is recorded only if it is a template.
ParseName(s, st) ==
  CASE Peek(s, st) = "N" -> ParseNestedName(s, st, FALSE)
    [] Peek(s, st) = "Z" -> Fail(st)
    [] Peek(s, st) = "S" -> ParseTemplateOf(s, WithStdMember(s, ParseSubstitution(s, st)))
    [] OTHER -> ParseTemplateOf(s, ParseUnqualifiedName(s, st))

\* The types after a name are its parameters, after the return type if the name
\* is a template.
WithParameters(name, q) ==
  IF ~name.ok \/ q.list = <<>> THEN q.at
  ELSE Returns(q.at, name.text \o Parameters(IF name.lastWasTemplate THEN Tail(q.list) ELSE q.list))

\* What follows the parameters is not looked at.
ParseSignature(s, name) == WithParameters(name, ParseTypes(s, ListFrom(name)))

ParseEncoding(s, st) == ParseSignature(s, ParseName(s, st))

LooksMangled(s) == s # <<>> /\ s[1] \in {"_Z", "___Z"}

\* What is not mangled, or is not understood, is shown as it is.
TextOr(s, parsed) == IF LooksMangled(s) /\ parsed.ok /\ parsed.text # <<>> THEN parsed.text ELSE s

Demangle(s) == TextOr(s, ParseEncoding(s, Start))
=============================================================================
