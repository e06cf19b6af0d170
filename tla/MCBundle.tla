------------------------------ MODULE MCBundle ------------------------------
(* Bundle on small instances, for TLC.                                       *)
EXTENDS BundleInv

\* Requests that may break the host, may carry a file, or do neither.
LoadAndUnknown == {"on-load", "unknown"}
LoadOnly       == {"on-load"}
AllCommands    == Known \cup {"unknown"}
=============================================================================
