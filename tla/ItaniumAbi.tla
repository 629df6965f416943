------------------------------ MODULE ItaniumAbi ------------------------------
(***************************************************************************)
(* How a compiler mangles a declaration by the Itanium C++ ABI, and how    *)
(* the declaration reads: what the demangler is to undo.                   *)
(*                                                                         *)
(* A declaration is a tree.  A component that was mangled before is        *)
(* written as its number among the components so far.  Builtin types, std  *)
(* and its abbreviations are never numbered, and neither is the function.  *)
(*                                                                         *)
(* Layout is the demangler's: qualifiers come after the type they qualify, *)
(* and the star of a pointer to a function after the parameters.           *)
(***************************************************************************)
EXTENDS ItaniumDemangler

Tree(kind, word, parts) == [kind |-> kind, word |-> word, parts |-> parts]

Builtin(code) == Tree("builtin", code, <<>>)
Pointer(type) == Tree("P", "", <<type>>)
Reference(type) == Tree("R", "", <<type>>)
Const(type) == Tree("K", "", <<type>>)
FunctionType(ret, params) == Tree("F", "", <<ret>> \o params)
Name1(word) == Tree("name", word, <<>>)
Member(scope, word) == Tree("name", word, <<scope>>)
Std == Tree("std", "", <<>>)
Abbreviated(code) == Tree("abbreviated", code, <<>>)
Constructor(scope) == Tree("constructor", "", <<scope>>)
Destructor(scope) == Tree("destructor", "", <<scope>>)
Template(name, args) == Tree("template", "", <<name>> \o args)
Parameter0 == Tree("parameter", "", <<>>)

\* The types of a function template begin with its return type, unless it is a
\* constructor.
Declaration(name, types) == [name |-> name, types |-> types]
-----------------------------------------------------------------------------
RECURSIVE IsNested(_), Mangle(_, _), MangleAll(_, _), MangleScope(_, _)

IsNested(t) ==
  \/ t.kind = "template" /\ IsNested(t.parts[1])
  \/ t.kind \in {"name", "constructor", "destructor"} /\ t.parts # <<>> /\ t.parts[1].kind # "std"

\* What is mangled so far: the tokens, and the components in order.
Nothing == [tokens |-> <<>>, components |-> <<>>]

Emit(m, tokens) == [m EXCEPT !.tokens = @ \o tokens]
Number(m, t) == [m EXCEPT !.components = Append(@, t)]

Substituted(m, t) ==
  LET k == CHOOSE k \in DOMAIN m.components : m.components[k] = t
  IN Emit(m, IF k = 1 THEN <<"S", "_">> ELSE <<"S", Base36[k - 1], "_">>)

IsNumbered(m, t) == t \in Range(m.components)

\* The last component of a name after its scope.
MangleLast(m, t) ==
  CASE t.kind = "template" ->
         Emit(MangleAll(Emit(MangleScope(m, t.parts[1]), <<"I">>), Tail(t.parts)), <<"E">>)
    [] t.kind = "constructor" -> Emit(MangleScope(m, t.parts[1]), <<"C", "1">>)
    [] t.kind = "destructor" -> Emit(MangleScope(m, t.parts[1]), <<"D", "1">>)
    [] t.kind = "name" -> Emit(IF t.parts = <<>> THEN m ELSE MangleScope(m, t.parts[1]), <<t.word>>)

MangleScope(m, t) ==
  CASE IsNumbered(m, t) -> Substituted(m, t)
    [] ~IsNumbered(m, t) /\ t.kind = "std" -> Emit(m, <<"S", "t">>)
    [] ~IsNumbered(m, t) /\ t.kind = "abbreviated" -> Emit(m, <<"S", t.word>>)
    [] OTHER -> Number(MangleLast(m, t), t)

Mangle(m, t) ==
  CASE IsNumbered(m, t) -> Substituted(m, t)
    [] ~IsNumbered(m, t) /\ t.kind = "builtin" -> Emit(m, <<t.word>>)
    [] ~IsNumbered(m, t) /\ t.kind = "parameter" -> Number(Emit(m, <<"T", "_">>), t)
    [] ~IsNumbered(m, t) /\ t.kind \in {"P", "R", "K"} ->
         Number(Mangle(Emit(m, <<t.kind>>), t.parts[1]), t)
    [] ~IsNumbered(m, t) /\ t.kind = "F" ->
         Number(Emit(MangleAll(Emit(m, <<"F">>), t.parts), <<"E">>), t)
    [] OTHER -> IF IsNested(t) THEN Emit(MangleScope(Emit(m, <<"N">>), t), <<"E">>)
                ELSE MangleScope(m, t)

MangleAll(m, types) ==
  IF types = <<>> THEN m ELSE MangleAll(Mangle(m, Head(types)), Tail(types))

\* The mangled name of a declaration.
Mangled(d) ==
  LET begun == Emit(Nothing, <<"_Z">>)
      named == IF IsNested(d.name) THEN Emit(MangleLast(Emit(begun, <<"N">>), d.name), <<"E">>)
               ELSE MangleLast(begun, d.name)
  IN MangleAll(named, d.types).tokens
-----------------------------------------------------------------------------
RECURSIVE Read(_, _), ReadAll(_, _), ClassOf(_)

Word(t) == IF t.word \in DOMAIN OperatorNames THEN OperatorNames[t.word] ELSE t.word

\* The classes the abbreviations stand for, most of which are typedefs.
AbbreviatedClasses ==
  [a |-> "allocator", b |-> "basic_string", s |-> "basic_string", i |-> "basic_istream",
   o |-> "basic_ostream", d |-> "basic_iostream"]

\* The class of a type, without its arguments.
ClassOf(t) == IF t.kind = "template" THEN ClassOf(t.parts[1]) ELSE t

\* What a constructor of the class is called.
ClassName(t) ==
  LET class == ClassOf(t)
  IN IF class.kind = "abbreviated" THEN AbbreviatedClasses[class.word] ELSE class.word

\* How a type or a name reads, in a function template with the given argument.
Read(t, arg) ==
  CASE t.kind = "builtin" -> <<BuiltinTypes[t.word]>>
    [] t.kind = "parameter" -> arg
    [] t.kind = "std" -> <<"std">>
    [] t.kind = "abbreviated" -> StandardNames[t.word]
    [] t.kind = "P" -> Append(Read(t.parts[1], arg), "*")
    [] t.kind = "R" -> Append(Read(t.parts[1], arg), "&")
    [] t.kind = "K" -> Append(Read(t.parts[1], arg), "const")
    [] t.kind = "F" -> Read(t.parts[1], arg) \o Parameters(ReadAll(Tail(t.parts), arg))
    [] t.kind = "template" ->
         Read(t.parts[1], arg) \o <<"<">> \o Join(ReadAll(Tail(t.parts), arg)) \o <<">">>
    [] t.kind = "constructor" -> Read(t.parts[1], arg) \o <<"::", ClassName(t.parts[1])>>
    [] t.kind = "destructor" -> Read(t.parts[1], arg) \o <<"::", "~", ClassName(t.parts[1])>>
    [] t.kind = "name" ->
         (IF t.parts = <<>> THEN <<>> ELSE Read(t.parts[1], arg) \o <<"::">>) \o <<Word(t)>>

ReadAll(types, arg) == [i \in DOMAIN types |-> Read(types[i], arg)]

\* How a declaration reads.
Declared(d) ==
  LET isTemplate == d.name.kind = "template"
      hasResult == isTemplate /\ d.name.parts[1].kind # "constructor"
      arg == IF isTemplate THEN Read(d.name.parts[2], <<>>) ELSE <<>>
      types == ReadAll(d.types, arg)
  IN Read(d.name, <<>>) \o Parameters(IF hasResult THEN Tail(types) ELSE types)
-----------------------------------------------------------------------------
RECURSIVE Subtrees(_), Levels(_)

Subtrees(t) == {t} \cup UNION {Subtrees(t.parts[i]) : i \in DOMAIN t.parts}

Trees(d) == Subtrees(d.name) \cup UNION {Subtrees(d.types[i]) : i \in DOMAIN d.types}

\* At least as many nested calls as the demangler makes for a type.
Levels(t) == 3 + Max({0} \cup {Levels(t.parts[i]) : i \in DOMAIN t.parts})
=============================================================================
