----------------------------- MODULE MCAliases ------------------------------
(* MCPlugin with a project and hosts that the theorems about resolved names  *)
(* ask for: hosts that keep to what compile.go says of Realpath, and a root  *)
(* with a name.                                                              *)
EXTENDS MCPlugin

ASSUME AliasesAssumption == AnswersNames /\ ReadsUnderAnswers /\ RootIsName
=============================================================================
