----------------------------- MODULE MCSandbox ------------------------------
(* Sandbox on small instances, for TLC.                                      *)
EXTENDS Sandbox

CONSTANTS i1, i2, k1, b1

One    == {i1}
Both   == {i1, i2}
OneKey == {k1}
OneByte == {b1}
NoBytes == {}
GetAndPut == {"get", "put"}
ListAndPut == {"list", "put"}

\* Bound of SandboxShared.cfg: what follows CloseEngine is left to the nested
\* run.  A guest the Engine closed goes on as one its context closed.
EngineOpen == ~shut
=============================================================================
