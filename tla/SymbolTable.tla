----------------------------- MODULE SymbolTable -----------------------------
(***************************************************************************)
(* What maru_intern promises its callers (src/eval-k-generated.c): the     *)
(* symbol table is a list of symbols, at most one for each name.  Interning *)
(* a name that is already present leaves the list alone.  Interning a new   *)
(* name appends one fresh symbol.  An entry, once made, never changes:     *)
(* its name, its symbol and its position stay the same across every later   *)
(* intern, growth of the array behind the list included.  EvalK models the *)
(* array and the search and is checked to implement this module.          *)
(***************************************************************************)
EXTENDS Sequences, SequencesExt

CONSTANTS
  Names,     \* the C strings the program interns
  Syms       \* the values a symbol can be

VARIABLES
  names,     \* maru_symbol_name of symbols[0 .. len-1], in order
  syms       \* symbols[0 .. len-1]

Init == names = <<>> /\ syms = <<>>

\* maru_intern(name) when no symbol of that name is present: a symbol that
\* is not in the table yet goes at the end.
Intern(nm, s) ==
  /\ nm \notin ToSet(names)
  /\ s \notin ToSet(syms)
  /\ names' = Append(names, nm)
  /\ syms' = Append(syms, s)

Next == \E nm \in Names, s \in Syms : Intern(nm, s)

Spec == Init /\ [][Next]_<<names, syms>>
==============================================================================
