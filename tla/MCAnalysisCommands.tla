-------------------------- MODULE MCAnalysisCommands --------------------------
(* Instances of AnalysisCommands: the processes of a family are interchangeable. *)
EXTENDS AnalysisCommands, MCReporting, TLC

Processes == Permutations(Process) \cup Permutations(Builder)
=============================================================================
