------------------------------- MODULE GateFile -------------------------------
(***************************************************************************)
(* The gate file (GateState::load and save, gate.rs) under the processes   *)
(* that use it: the service, which loads it once and saves it at the end   *)
(* of every cycle, and manual-signal (lib.rs), which loads it, runs one    *)
(* cycle, saves it and ends.  calibration-summary only loads it.           *)
(*                                                                         *)
(* save writes the whole state to a temporary file, of the same name in    *)
(* every process, and renames it over the gate file.  The write is one     *)
(* call in the code and many in the system, so it is done here cell by     *)
(* cell: a state is the set of samples it holds, its text one cell per     *)
(* sample and a last one that closes the document.  A file is an inode     *)
(* that names and open descriptors refer to.  The machine itself does not  *)
(* stop: save syncs nothing to the disk.                                   *)
(***************************************************************************)
EXTENDS Integers, Sequences, FiniteSets, FiniteSetsExt, SequencesExt

CONSTANTS
    Services, Diagnostics,     \* processes of serve and of manual-signal
    MaxFailures,               \* bound: writes of the temporary file that fail
    MaxSamples,                \* bound: samples recorded
    MaxStarts                  \* bound: processes started

ASSUME FileAssumption ==
    /\ Services \intersect Diagnostics = {}
    /\ IsFiniteSet(Services) /\ IsFiniteSet(Diagnostics)
    /\ {MaxFailures, MaxSamples, MaxStarts} \subseteq Nat

VARIABLES
    content,           \* of each inode: a sequence of cells
    target,            \* the inode named gate_state_path, or NoFile
    temporary,         \* the inode named like it with the extension .tmp, or NoFile
    pc,                \* of each process: "running", "saving", "down", or "stopped"
                       \* when it was ended from outside
    gates,             \* of each process: the samples of its GateState
    handle, written,   \* of each process that saves: the inode it writes, its cells done
    \* bookkeeping of the model
    samples, starts,   \* samples recorded and processes started so far
    failures,          \* writes that have failed so far
    overlapped,        \* two saves have been under way at once
    together           \* two processes have been up at once

fileVars == <<content, target, temporary>>
saveVars == <<handle, written>>
vars == <<fileVars, saveVars, pc, gates, samples, starts, failures, overlapped, together>>

Processes == Services \union Diagnostics
Samples == 1 .. MaxSamples
States == SUBSET Samples
NoFile == 0
Inodes == 1 .. Cardinality(Processes) + 2

Close == MaxSamples + 1    \* the end of the document
Hole == 0                  \* what a write beyond the end of a file leaves before it

\* serde_json::to_vec_pretty: the samples in an order that depends on them only.
Text(S) == SetToSeq(S) \o <<Close>>

IsText(cells) == \E S \in States : cells = Text(S)
Parsed(cells) == CHOOSE S \in States : cells = Text(S)

Up == {p \in Processes : pc[p] \in {"running", "saving"}}
Saving == {p \in Processes : pc[p] = "saving"}

-----------------------------------------------------------------------------
(* load.                                                                   *)

\* Seeded fault: the state starts empty, whatever the file holds.
LoadedNothing(inode) == {{}}

\* The state load returns, as a set that is empty for its error.
Loaded(inode) ==
    IF inode = NoFile THEN {{}}
    ELSE {S \in States : content[inode] = Text(S)}

Start(p) ==
    /\ p \notin Up /\ starts < MaxStarts
    /\ starts' = starts + 1
    /\ \/ /\ gates' \in {[gates EXCEPT ![p] = S] : S \in Loaded(target)}
          /\ pc' = [pc EXCEPT ![p] = "running"]
          /\ together' = (together \/ Up # {})
       \/ /\ Loaded(target) = {}
          /\ UNCHANGED <<gates, pc, together>>
    /\ UNCHANGED <<fileVars, saveVars, samples, failures, overlapped>>

\* A cycle records a sample.
Record(p) ==
    /\ pc[p] = "running" /\ samples < MaxSamples
    /\ samples' = samples + 1
    /\ gates' = [gates EXCEPT ![p] = @ \union {samples + 1}]
    /\ UNCHANGED <<fileVars, saveVars, pc, starts, failures, overlapped, together>>

-----------------------------------------------------------------------------
(* save.                                                                   *)

\* File::create: an existing file is emptied.
Truncated(inode) == <<>>

\* The temporary file is created or emptied.
BeginSave(p) ==
    LET inode == IF temporary # NoFile THEN temporary
                 ELSE Min(Inodes \ ({target} \union {handle[q] : q \in Saving}))
    IN /\ pc[p] = "running"
       /\ temporary' = inode
       /\ content' = [content EXCEPT ![inode] = IF temporary = NoFile THEN <<>>
                                                ELSE Truncated(inode)]
       /\ handle' = [handle EXCEPT ![p] = inode]
       /\ written' = [written EXCEPT ![p] = 0]
       /\ pc' = [pc EXCEPT ![p] = "saving"]
       /\ overlapped' = (overlapped \/ Saving # {})
       /\ UNCHANGED <<target, gates, samples, starts, failures, together>>

\* cells with value v at position i, whatever was there.
Overwritten(cells, i, v) ==
    [j \in 1 .. Max({i, Len(cells)}) |->
        IF j = i THEN v ELSE IF j <= Len(cells) THEN cells[j] ELSE Hole]

Write(p) ==
    LET at == written[p] + 1
    IN /\ pc[p] = "saving" /\ at <= Len(Text(gates[p]))
       /\ content' = [content EXCEPT ![handle[p]] =
                        Overwritten(@, at, Text(gates[p])[at])]
       /\ written' = [written EXCEPT ![p] = at]
       /\ UNCHANGED <<target, temporary, pc, gates, handle, samples, starts, failures,
                      overlapped, together>>

\* Seeded fault: the rename comes before the last write.
WrittenBefore(p) == written[p] + 1 >= Len(Text(gates[p]))

AllWritten(p) == written[p] = Len(Text(gates[p]))

\* Seeded fault: a service whose save fails ends.
EndsOnFailure(p) == "down"

\* Seeded fault: a failed save is not over.
SavesOn(p) == "saving"

\* A service goes on after a failed save, manual-signal returns the error.
AfterFailure(p) == IF p \in Services THEN "running" ELSE "down"

EndSave(p, state) ==
    /\ pc' = [pc EXCEPT ![p] = state]
    /\ handle' = [handle EXCEPT ![p] = NoFile]
    /\ written' = [written EXCEPT ![p] = 0]
    /\ UNCHANGED <<gates, samples, starts, overlapped, together>>

\* rename: whatever has the temporary name by now becomes the gate file.
Install(p) ==
    /\ pc[p] = "saving" /\ AllWritten(p)
    /\ temporary # NoFile
    /\ target' = temporary /\ temporary' = NoFile
    /\ EndSave(p, IF p \in Services THEN "running" ELSE "down")
    /\ UNCHANGED <<content, failures>>

\* The temporary file is gone: another process has renamed it.
InstallFails(p) ==
    /\ pc[p] = "saving" /\ AllWritten(p)
    /\ temporary = NoFile
    /\ EndSave(p, AfterFailure(p))
    /\ UNCHANGED <<fileVars, failures>>

WriteFails(p) ==
    /\ failures < MaxFailures /\ failures' = failures + 1
    /\ pc[p] = "saving" /\ ~AllWritten(p)
    /\ EndSave(p, AfterFailure(p))
    /\ UNCHANGED fileVars

\* The process is ended, between saves or within one.
Stop(p) ==
    /\ p \in Up
    /\ EndSave(p, "stopped")
    /\ UNCHANGED <<fileVars, failures>>

-----------------------------------------------------------------------------
Init ==
    /\ content = [i \in Inodes |-> <<>>] /\ target = NoFile /\ temporary = NoFile
    /\ pc = [p \in Processes |-> "down"] /\ gates = [p \in Processes |-> {}]
    /\ handle = [p \in Processes |-> NoFile] /\ written = [p \in Processes |-> 0]
    /\ samples = 0 /\ starts = 0 /\ failures = 0 /\ overlapped = FALSE /\ together = FALSE

Saves(p) == BeginSave(p) \/ Write(p) \/ Install(p) \/ InstallFails(p)

Next == \E p \in Processes : Start(p) \/ Record(p) \/ Saves(p) \/ WriteFails(p) \/ Stop(p)

Spec == Init /\ [][Next]_vars

\* A process that is up gets to its next save and through it: the interval of
\* the service ticks again after a cycle that failed.
FairSpec == Spec /\ \A p \in Processes : WF_vars(Saves(p))

-----------------------------------------------------------------------------
(* Properties.                                                             *)

\* Every variable has its type.
TypeOK ==
    /\ content \in [Inodes -> Seq(0 .. Close)]
    /\ target \in Inodes \union {NoFile} /\ temporary \in Inodes \union {NoFile}
    /\ target = temporary => target = NoFile
    /\ pc \in [Processes -> {"running", "saving", "down", "stopped"}]
    /\ gates \in [Processes -> States]
    /\ handle \in [Processes -> Inodes \union {NoFile}]
    /\ \A p \in Processes : /\ written[p] \in 0 .. Len(Text(gates[p]))
                            /\ pc[p] = "saving" <=> handle[p] # NoFile
    /\ samples \in 0 .. MaxSamples /\ starts \in 0 .. MaxStarts
    /\ failures \in 0 .. MaxFailures
    /\ overlapped \in BOOLEAN /\ together \in BOOLEAN

Garbled == {Hole}         \* stands for text that does not parse; no state
Content == IF target = NoFile THEN {}
           ELSE IF IsText(content[target]) THEN Parsed(content[target]) ELSE Garbled

File == INSTANCE AtomicFile WITH file <- Content, memory <- gates

\* As long as no two saves have been under way at once, save is atomic: through
\* failed writes, a process that dies at any point of a save, and what it leaves
\* behind, the file always loads and holds what a process had in memory.
ImplementsAtomicFile == File!Spec

\* Samples leave the gate file only if two processes have been up at once: one
\* process after the other, however each of them ended, loses none.
OneByOneKeepsSamples ==
    [][~together' => IF Content = Garbled THEN FALSE ELSE Content \subseteq Content']_vars

\* A file that two saves garbled does not stay so under a service that is up and whose
\* cycles reach their save: the next saves replace it, although one may fail with the
\* rename.  (A cycle that Gamma or Monitor fails ends before its save; while all do, the
\* file stays as it is.)
RepairedWhileUp ==
    \A p \in Services :
        (Content = Garbled /\ p \in Up) ~> (Content # Garbled \/ pc[p] = "stopped")
=============================================================================
