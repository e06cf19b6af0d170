------------------------------ MODULE MCReload ------------------------------
(* Reload on small instances, for TLC.                                       *)
EXTENDS Reload

CONSTANTS old, both, pack, gone, c1, c2

\* A checker, a bundler and a value that is both, all of one name, and the nil a
\* constructor that failed handed back.
Tools      == {old, both, pack, gone}
CheckTools == {old, both, gone}
PackTools  == {both, pack}
NilTools   == {gone}
LiveChecks == {old, both}
OneName    == {"tsgo"}
Names      == [v \in Tools |-> "tsgo"]
TwoCalls   == {c1, c2}
=============================================================================
