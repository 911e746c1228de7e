------------------------------ MODULE AtomicFile ------------------------------
(***************************************************************************)
(* What a reader of the gate file may rely on: it holds a state some       *)
(* process had in memory, and changes from one such state to the next in a *)
(* single step.  After two saves have overlapped nothing is promised.      *)
(***************************************************************************)
CONSTANTS Processes, States, Garbled

VARIABLES
    file,              \* what loading the file yields: a state, or Garbled
    memory,            \* the state each running process would save
    overlapped         \* two saves have been under way at once

vars == <<file, memory, overlapped>>

Init == file \in States /\ memory \in [Processes -> States] /\ overlapped = FALSE

\* The file becomes the state that process p had in memory.
Install(p) == file' = memory[p] /\ UNCHANGED <<memory, overlapped>>

\* A process starts, learns or stops, or a save begins, fails or dies unfinished.
Proceed ==
    /\ UNCHANGED file
    /\ memory' \in [Processes -> States]
    /\ overlapped' \in {overlapped, TRUE}

Mangle == overlapped /\ file' \in States \union {Garbled} /\ UNCHANGED <<memory, overlapped>>

Next == (\E p \in Processes : Install(p)) \/ Proceed \/ Mangle

Spec == Init /\ [][Next]_vars
=============================================================================
