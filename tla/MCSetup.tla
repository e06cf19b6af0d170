------------------------------- MODULE MCSetup -------------------------------
(* Setup with small sources and a small word, for TLC.                       *)
EXTENDS Setup

CONSTANTS good, evil, wide, torn, lower, upper

AllContents == {good, evil, wide}
WideOnes    == {wide}
AllSums     == {lower, upper}
Folded      == [s \in AllSums |-> good]

\* 64 pages are what a guest can have and 256 the word: a cap of 4 MiB is the
\* largest one can take, 5 panics, and 16 and 17 wrap to nothing and to one.
Engines ==
    [role : {"engine"}, path : BOOLEAN, url : BOOLEAN,
     sum : {lower, upper, NoSum}, cache : BOOLEAN, memory : {0, 4, 5, 16, 17},
     wasi : {TRUE}]
Sandboxes ==
    [role : {"sandbox"}, path : {FALSE}, url : {FALSE}, sum : {NoSum},
     cache : {FALSE}, memory : {0, 64, 65}, wasi : BOOLEAN]
AllConfigs == Engines \cup Sandboxes
AllWants   == {0, 1, 3, 5, 17}
=============================================================================
