----------------------------- MODULE SymbolNames ------------------------------
(***************************************************************************)
(* The names of a C++ program as a report shows them: the compiler mangles *)
(* its declarations into the symbols' names, NameResolver picks one symbol *)
(* for each address, and ItaniumDemangler reads the name back.             *)
(***************************************************************************)
EXTENDS NameResolver, ItaniumAbi

CONSTANTS
  Unnamed,         \* the declaration of a symbol without a name
  Programs         \* what each symbol of a program is, and what it declares

VARIABLE declared  \* the declarations behind the symbols of the program analysed

programVars == <<declared, vars>>

ProgramsAssumption ==
  \A program \in Programs : \A i \in DOMAIN program :
    DOMAIN program[i] = {"symbol", "declaration"}

ASSUME ProgramsAssumption

NameOf(d) == IF d = Unnamed THEN NoName ELSE Mangled(d)

ProgramInit ==
  \E program \in Programs :
    /\ declared = [i \in DOMAIN program |-> program[i].declaration]
    /\ symbols = [i \in DOMAIN program |-> [program[i].symbol EXCEPT !.name = NameOf(declared[i])]]
    /\ ResolverInit

ProgramNext == ReadName /\ UNCHANGED declared

ProgramSpec == ProgramInit /\ [][ProgramNext]_programVars

\* nameFor with the demangler behind it.
Shown(addr) ==
  LET shown == NameFor(addr, TRUE)
  IN IF shown.kind = "demangled" THEN Demangle(shown.of) ELSE shown
-----------------------------------------------------------------------------
\* A template of the global namespace.
IsGlobalTemplate(t) == t.kind = "template" /\ t.parts[1].kind = "name" /\ t.parts[1].parts = <<>>

\* The name of a function, or of a function template without its arguments.
FunctionNamed(d) == IF d.name.kind = "template" THEN d.name.parts[1] ELSE d.name

\* The function is directly in std.
IsStdFunction(d) == FunctionNamed(d).parts = <<Std>>

\* A constructor or destructor of a class that an abbreviation stands for.
MakesAbbreviated(d) ==
  /\ FunctionNamed(d).kind \in {"constructor", "destructor"}
  /\ ClassOf(FunctionNamed(d).parts[1]).kind = "abbreviated"

\* A constructor that is a template itself.
IsConstructorTemplate(d) == d.name.kind = "template" /\ d.name.parts[1].kind = "constructor"

\* The declarations the demangler reads as the ABI writes them: the function is
\* not directly in std, nor a constructor or destructor of an abbreviated class,
\* which the demangler calls by the abbreviation's whole text, nor a constructor
\* template, whose first parameter it takes for a result; the templates are
\* members of a namespace or a class, where the numbering agrees; and no type is a
\* template parameter.
IsFollowed(d) ==
  /\ ~IsStdFunction(d)
  /\ ~MakesAbbreviated(d)
  /\ ~IsConstructorTemplate(d)
  /\ \A t \in Trees(d) : ~IsGlobalTemplate(t) /\ t # Parameter0

\* The depth up to which the demangler is sure to follow a declaration.
IsShallow(d) == \A t \in Trees(d) : Levels(t) <= kMaxDepth

\* A function is shown as the declaration of the best bound symbol at its
\* address: what substitutions, qualifiers, nested names and template arguments
\* abbreviate is put back in place, and a name nested too deep for the parser is
\* shown whole or as it is in the file, never in part.
NamesAreReadable ==
  \A i \in Readings :
    Wins(i) /\ IsFollowed(declared[i]) =>
      Shown(symbols[i].value)
        \in {Declared(declared[i])}
              \cup (IF IsShallow(declared[i]) THEN {} ELSE {symbols[i].name})

\* What README.md says of the report, "(C++ names are demangled)": the name
\* shown is the function's own, whatever it is declared with.
NamesAreTrue ==
  \A i \in Readings :
    Wins(i) => Shown(symbols[i].value) \in {Declared(declared[i]), symbols[i].name}
===============================================================================
