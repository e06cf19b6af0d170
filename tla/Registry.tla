------------------------------ MODULE Registry ------------------------------
(* compile.Register and what reads it (compile/compile.go:233-332): one map  *)
(* of checkers and one of bundlers behind one lock, so that each operation   *)
(* is one step.  A value's name and roles are its own.                       *)

CONSTANTS
    Values,     \* what a host may register
    Tokens,     \* the names they answer to
    NameOf,     \* Name(), for each value
    Checks,     \* the values that are Checkers
    Bundles,    \* the values that are Bundlers
    Nils,       \* the values that are nil, of a type with a role or of none
    Nobody      \* no value: what a name nobody took stands for

ASSUME NamesAssumption  == NameOf \in [Values -> Tokens]
ASSUME RolesAssumption  == Checks \subseteq Values /\ Bundles \subseteq Values
ASSUME NobodyAssumption == Nobody \notin Values

VARIABLES checkers, bundlers

(* A definition named <Definition>_<Bug> is the mutant of that definition a  *)
(* check uses to show that a property notices the bug; nothing here uses it. *)

registry == <<checkers, bundlers>>

RegistryInit ==
    /\ checkers = [n \in Tokens |-> Nobody]
    /\ bundlers = [n \in Tokens |-> Nobody]

Taken(roles, v, filed) == v \in roles /\ filed[NameOf[v]] # Nobody

\* A nil has its type's roles but no Name to call: it is refused first.  A name is
\* looked up in every role before it is filed in any.
Refuses_CheckerOnly(v) == Taken(Checks, v, checkers)
Refuses_BundlerOnly(v) == Taken(Bundles, v, bundlers)
Refuses(v) == \/ v \in Nils
              \/ v \notin Checks \cup Bundles
              \/ Taken(Checks, v, checkers)
              \/ Taken(Bundles, v, bundlers)

Filed_AnyRole(roles, v, filed) == [filed EXCEPT ![NameOf[v]] = v]
Filed(roles, v, filed) ==
    IF v \in roles THEN [filed EXCEPT ![NameOf[v]] = v] ELSE filed

Register(v) ==
    IF Refuses(v) THEN UNCHANGED registry
    ELSE /\ checkers' = Filed(Checks, v, checkers)
         /\ bundlers' = Filed(Bundles, v, bundlers)

Unregister(n) ==
    /\ checkers' = [checkers EXCEPT ![n] = Nobody]
    /\ bundlers' = [bundlers EXCEPT ![n] = Nobody]

CheckerNamed(n) == checkers[n]
=============================================================================
