---------------------------- MODULE MCSymbolNames -----------------------------
(***************************************************************************)
(* The resolver on all tables of up to 3 symbols (two addresses, two names *)
(* that may be missing, every binding, symbols that are no functions or    *)
(* are defined elsewhere), and on one symbol for each of many              *)
(* declarations: global and nested functions, constructors, destructors,   *)
(* operators and member templates, with up to three parameters that share  *)
(* parts with the name and with one another.                               *)
(***************************************************************************)
EXTENDS SymbolNames

MCSourceName == {"f", "Foo", "N", "A", "vector", "Pair"}

\* The classes and templates of the program.
Foo == Name1("Foo")
ClassNA == Member(Name1("N"), "A")
Vector(arg) == Template(Member(Std, "vector"), <<arg>>)
Scoped(arg) == Template(ClassNA, <<arg>>)
Pair(arg) == Template(Name1("Pair"), <<arg>>)
Allocator(arg) == Template(Abbreviated("a"), <<arg>>)

BaseTypes == {Builtin("i"), Foo, ClassNA}

Around(t) ==
  {Pointer(t), Reference(t), Const(t), Pointer(Const(t)), Vector(t), Scoped(t), Allocator(t),
   Pointer(FunctionType(t, <<Foo>>))}

OneLevel == BaseTypes \cup UNION {Around(t) : t \in BaseTypes}

FewTypes ==
  {Builtin("i"), Foo, ClassNA, Pointer(Foo), Pointer(Const(Foo)), Vector(Foo), Scoped(Foo),
   Member(Vector(Foo), "A"), Abbreviated("s"), Member(Std, "A"), Member(Allocator(Foo), "A")}

FunctionNames ==
  {Name1("f"), Member(Name1("N"), "f"), Member(Std, "f"), Constructor(ClassNA),
   Member(Scoped(Foo), "f"), Constructor(Scoped(Builtin("i"))), Destructor(ClassNA),
   Constructor(Vector(Foo)), Destructor(Scoped(Foo)), Member(ClassNA, "pl"),
   Member(Allocator(Foo), "f"), Member(Abbreviated("o"), "pl"),
   Member(Member(Std, "A"), "f"), Constructor(Member(Abbreviated("s"), "A"))}

\* Those the demangler does not call by their class.
AbbreviationMakers ==
  {Constructor(Allocator(Builtin("c"))), Destructor(Allocator(Foo)), Constructor(Abbreviated("s")),
   Destructor(Abbreviated("i")), Constructor(Template(Abbreviated("b"), <<Foo>>)),
   Template(Constructor(Allocator(Builtin("c"))), <<Foo>>)}

ConstructorTemplates == {Template(Constructor(ClassNA), <<t>>) : t \in {Builtin("i"), Foo}}

MemberTemplates ==
  {Template(Member(scope, "f"), <<t>>) :
     scope \in {Name1("N"), Vector(Foo)}, t \in {Builtin("i"), Foo, Vector(Foo)}}

\* A pointer to a pointer to ... Foo, of n pointers.
Pointers[n \in Nat] == IF n = 0 THEN Foo ELSE Pointer(Pointers[n - 1])

MCDeclarations ==
  {Declaration(name, <<Builtin("v")>>) :
     name \in FunctionNames \cup AbbreviationMakers \cup ConstructorTemplates}
  \cup {Declaration(name, <<t, u>>) : name \in FunctionNames, t \in OneLevel, u \in FewTypes}
  \cup {Declaration(Name1("f"), <<t, u, w>>) : t \in FewTypes, u \in FewTypes, w \in FewTypes}
  \cup {Declaration(name, <<Builtin("v"), t, u>>) :
          name \in MemberTemplates, t \in FewTypes, u \in FewTypes}
  \cup {Declaration(name, <<Pointers[n], Pointers[n]>>) :
          name \in {Name1("f"), Member(Scoped(Foo), "f")}, n \in 1 .. 14}

\* Declarations the demangler reads in its own way.
MCMisread ==
  {Declaration(Name1("f"), <<t, u, w>>) :
     t \in {Foo, Pair(Foo)}, u \in {Foo, Pair(Foo)}, w \in {Foo, Pair(Foo), Pointer(Foo)}}
  \cup {Declaration(Template(Name1("f"), <<Foo>>), <<Builtin("v"), t, u>>) :
          t \in {Foo, Parameter0}, u \in {Foo, Parameter0, Pointer(Parameter0)}}
  \cup {Declaration(Member(Std, "f"), <<Foo, t>>) : t \in {Foo, Pointer(Foo)}}
  \cup {Declaration(Template(Member(Name1("N"), "f"), <<Foo>>), <<Builtin("v"), t, Parameter0>>) :
          t \in {Builtin("i"), Vector(Builtin("i"))}}
  \cup {Declaration(name, <<t>>) :
          name \in AbbreviationMakers \cup ConstructorTemplates, t \in {Builtin("v"), Foo}}

Function(value, name, binding) ==
  [value |-> value, size |-> 0, name |-> name, type |-> "func", binding |-> binding,
   section |-> "index"]

MCName == Seq(STRING) \ {<<>>}
MCNoName == <<>>
MCUnnamed == Declaration(Foo, <<>>)

n1 == Declaration(Name1("f"), <<Foo, Pointer(Foo), Foo>>)
n2 == Declaration(Name1("f"), <<Builtin("i"), Foo, Foo>>)

\* A symbol of a program; its name is that of the declaration.
Symbol(value, declaration, binding) ==
  [symbol |-> Function(value, MCNoName, binding), declaration |-> declaration]

MCSymbols ==
  {Symbol(v, d, b) : v \in {0, 4}, d \in {n1, n2, MCUnnamed}, b \in Binding}
  \cup {[Symbol(0, n1, "global") EXCEPT !.symbol.type = "other"],
        [Symbol(0, n1, "global") EXCEPT !.symbol.section = "undefined"],
        [Symbol(4, n2, "global") EXCEPT !.symbol.section = "reserved"],
        [Symbol(4, n2, "weak") EXCEPT !.symbol.type = "ifunc"]}

Tables == UNION {[1 .. n -> MCSymbols] : n \in 0 .. 3}

MCPrograms == {<<Symbol(0, d, "global")>> : d \in MCDeclarations} \cup Tables

MCMisleading == {<<Symbol(0, d, "global")>> : d \in MCMisread}
===============================================================================
