---------------------------- MODULE GateFileProofs ----------------------------
(***************************************************************************)
(* What GateFile's run checks of two processes, proved for any number of   *)
(* them: save is atomic as long as no two saves overlap, and samples leave *)
(* the file only when two processes have been up at once.                  *)
(***************************************************************************)
EXTENDS GateFile, FiniteFolds, SequenceTheorems

-----------------------------------------------------------------------------
(* Texts.                                                                  *)

Cells == 0 .. Close
Listed(text) == {text[i] : i \in 1 .. Len(text)} \ {Close}

\* A text has at least the cell that closes it, and tells its state.
LEMMA TextType ==
  ASSUME NEW S \in States
  PROVE  /\ Text(S) \in Seq(Cells) /\ Len(Text(S)) \in Nat \ {0}
         /\ S = Listed(Text(S))
<1>0. MaxSamples \in Nat
  BY FileAssumption
<1>1. S \subseteq Cells /\ Close \in Cells /\ Close \notin S /\ IsFiniteSet(S)
  <2>1. S \subseteq 1 .. MaxSamples
    BY DEF States, Samples
  <2>2. IsFiniteSet(S)
    <3>1. IsFiniteSet(1 .. MaxSamples)
      BY <1>0, FS_Interval
    <3> QED BY <2>1, <3>1, FS_Subset
  <2> QED BY <1>0, <2>1, <2>2 DEF Cells, Close
<1> DEFINE n == Cardinality(S)
           f == SetToSeq(S)
<1>2. n \in Nat /\ f \in [1 .. n -> S] /\ \A x \in S : \E i \in 1 .. n : f[i] = x
  BY <1>1, SetToSeqLists
<1> HIDE DEF n, f
<1>3. f \in Seq(Cells) /\ Len(f) = n
  BY <1>1, <1>2
<1>4. <<Close>> \in Seq(Cells) /\ Len(<<Close>>) = 1 /\ <<Close>>[1] = Close
  BY <1>1
<1>5. Text(S) = f \o <<Close>>
  BY DEF Text, f
<1> DEFINE t == f \o <<Close>>
<1>6. /\ t \in Seq(Cells) /\ Len(t) = n + 1
      /\ \A i \in 1 .. n : t[i] = f[i]
      /\ t[n + 1] = Close
  <2>1. /\ t \in Seq(Cells) /\ Len(t) = Len(f) + Len(<<Close>>)
        /\ \A i \in 1 .. Len(f) + Len(<<Close>>) :
              t[i] = IF i <= Len(f) THEN f[i] ELSE <<Close>>[i - Len(f)]
    BY <1>3, <1>4, ConcatProperties
  <2> HIDE DEF t
  <2> QED BY <1>2, <1>3, <1>4, <2>1
<1> HIDE DEF t
<1>7. S = {t[i] : i \in 1 .. n + 1} \ {Close}
  <2>1. \A x \in S : x \in {t[i] : i \in 1 .. n + 1} \ {Close}
    BY <1>1, <1>2, <1>6
  <2>2. \A i \in 1 .. n + 1 : t[i] # Close => t[i] \in S
    BY <1>2, <1>6
  <2> QED BY <2>1, <2>2
<1> QED BY <1>2, <1>5, <1>6, <1>7 DEF t, Listed

\* Parsing is the inverse of writing.
LEMMA TextParses ==
  ASSUME NEW S \in States
  PROVE  /\ IsText(Text(S)) /\ Parsed(Text(S)) = S
         /\ \A T \in States : Text(S) = Text(T) => S = T
<1>1. \A T \in States : Text(S) = Text(T) => S = T
  <2>1. \A T \in States : T = Listed(Text(T))
    BY TextType
  <2> QED BY <2>1
<1>2. Parsed(Text(S)) = S
  <2>1. Parsed(Text(S)) \in States /\ Text(S) = Text(Parsed(Text(S)))
    BY Zenon DEF Parsed
  <2> QED BY <1>1, <2>1
<1> QED BY <1>1, <1>2 DEF IsText

\* The first n cells of a text, and nothing more.
IsBeginning(cells, text, n) == Len(cells) = n /\ \A i \in 1 .. n : cells[i] = text[i]

\* A cell more is written, at the end or within what is there.
LEMMA OverwrittenType ==
  ASSUME NEW cells \in Seq(Cells), NEW n \in Nat, NEW v \in Cells
  PROVE  /\ Overwritten(cells, n + 1, v) \in Seq(Cells)
         /\ Len(cells) = n => /\ Len(Overwritten(cells, n + 1, v)) = n + 1
                              /\ \A i \in 1 .. n : Overwritten(cells, n + 1, v)[i] = cells[i]
                              /\ Overwritten(cells, n + 1, v)[n + 1] = v
<1> DEFINE k == Max({n + 1, Len(cells)})
           w == Overwritten(cells, n + 1, v)
<1>1. Len(cells) \in Nat /\ k \in Nat /\ k >= n + 1 /\ k >= Len(cells)
      /\ (Len(cells) = n => k = n + 1)
  <2>1. Len(cells) \in Nat
    OBVIOUS
  <2> QED BY <2>1 DEF Max
<1>2. w = [j \in 1 .. k |-> IF j = n + 1 THEN v ELSE IF j <= Len(cells) THEN cells[j] ELSE Hole]
  BY DEF Overwritten
<1>3. Hole \in Cells /\ \A j \in 1 .. Len(cells) : cells[j] \in Cells
  BY FileAssumption DEF Hole, Cells, Close
<1> HIDE DEF k, w
<1>4. \A j \in 1 .. k : w[j] \in Cells
  BY <1>1, <1>2, <1>3
<1>5. w \in [1 .. k -> Cells]
  BY <1>2, <1>4
<1>6. w \in Seq(Cells) /\ Len(w) = k
  BY <1>1, <1>5
<1>7. Len(cells) = n => /\ Len(w) = n + 1
                        /\ \A i \in 1 .. n : w[i] = cells[i]
                        /\ w[n + 1] = v
  BY <1>1, <1>2, <1>6
<1> QED BY <1>6, <1>7 DEF w

-----------------------------------------------------------------------------
(***************************************************************************)
(* The inductive invariant.                                                *)
(***************************************************************************)
\* Only who saves has written something.
SavesType ==
    /\ written \in [Processes -> Nat]
    /\ \A p \in Processes \ Saving : written[p] = 0

\* A save that no other overlaps works on the temporary file alone, and the gate file
\* is whole.
Undisturbed ==
    ~overlapped =>
        /\ target # NoFile => IsText(content[target])
        /\ \A p, q \in Saving : p = q
        /\ \A p \in Saving : /\ temporary # NoFile /\ handle[p] = temporary
                             /\ IsBeginning(content[temporary], Text(gates[p]), written[p])

\* A process that has been up alone knows all samples of the file.
OneByOne ==
    ~together => /\ ~overlapped
                 /\ \A p, q \in Up : p = q
                 /\ \A p \in Up : Content \subseteq gates[p]

IInv == TypeOK /\ SavesType /\ Undisturbed /\ OneByOne

\* At the start no process is up, and the file has the text of no samples.
LEMMA InitIInv == Init => IInv
<1> SUFFICES ASSUME Init PROVE IInv
  OBVIOUS
<1>1. Saving = {} /\ Up = {} /\ NoFile \notin Inodes
  BY DEF Init, Saving, Up, NoFile, Inodes
<1>2. \A S \in States : Len(Text(S)) \in Nat
  BY TextType
<1>3. {} \in States
  BY DEF States
<1>4. TypeOK
  <2>1. content \in [Inodes -> Seq(0 .. Close)]
    BY DEF Init
  <2>2. /\ target = NoFile /\ temporary = NoFile
        /\ pc \in [Processes -> {"running", "saving", "down", "stopped"}]
        /\ gates \in [Processes -> States]
        /\ handle \in [Processes -> Inodes \union {NoFile}]
    BY <1>3 DEF Init
  <2>3. \A p \in Processes : written[p] \in 0 .. Len(Text(gates[p]))
    BY <1>2, <2>2 DEF Init
  <2>4. \A p \in Processes : pc[p] # "saving" /\ handle[p] = NoFile
    BY DEF Init
  <2>5. /\ samples \in 0 .. MaxSamples /\ starts \in 0 .. MaxStarts
        /\ failures \in 0 .. MaxFailures
    BY FileAssumption DEF Init
  <2>6. overlapped \in BOOLEAN /\ together \in BOOLEAN
    BY Zenon DEF Init
  <2> QED BY <2>1, <2>2, <2>3, <2>4, <2>5, <2>6 DEF TypeOK
<1> QED BY <1>1, <1>4 DEF Init, IInv, SavesType, Undisturbed, OneByOne

\* The content is a state, or stands for none.
LEMMA ContentType ==
  ASSUME TypeOK
  PROVE  /\ Content \in States \union {Garbled} /\ Garbled \notin States
         /\ target = NoFile \/ IsText(content[target]) => Content \in States
         /\ target # NoFile /\ IsText(content[target]) => content[target] = Text(Content)
<1>1. Garbled \notin States /\ {} \in States
  BY DEF Garbled, States, Samples, Hole
<1>2. ASSUME target # NoFile, IsText(content[target])
      PROVE  Content \in States /\ content[target] = Text(Content)
  <2>1. PICK S \in States : content[target] = Text(S)
    BY <1>2 DEF IsText
  <2>2. Parsed(content[target]) = S
    BY <2>1, TextParses
  <2> QED BY <1>2, <2>1, <2>2 DEF Content
<1> QED BY <1>1, <1>2 DEF Content

\* The content changes only with the gate file.
LEMMA ContentStays ==
  ASSUME TypeOK, target' = target, target # NoFile => content'[target] = content[target]
  PROVE  Content' = Content
BY DEF Content, Parsed, IsText

\* There is always an inode that no name and no descriptor refers to.
LEMMA FreeInode ==
  ASSUME TypeOK, NEW p \in Processes, p \notin Saving
  PROVE  LET free == Inodes \ ({target} \union {handle[q] : q \in Saving})
         IN Min(free) \in free
<1> DEFINE used == {handle[q] : q \in Saving}
           free == Inodes \ ({target} \union used)
           n == Cardinality(Processes)
<1>1. IsFiniteSet(Processes) /\ n \in Nat
  BY FileAssumption, FS_Union, FS_CardinalityType DEF Processes
<1>2. IsFiniteSet(Saving) /\ Cardinality(Saving) <= n
  BY <1>1, FS_Subset DEF Saving, Up
<1>3. IsFiniteSet(used) /\ Cardinality(used) <= n /\ Cardinality(used) \in Nat
  <2> DEFINE f == [q \in Saving |-> handle[q]]
  <2>1. f \in Surjection(Saving, used)
    BY DEF Surjection
  <2> HIDE DEF f, used
  <2>2. IsFiniteSet(used) /\ Cardinality(used) <= Cardinality(Saving)
    BY <1>2, <2>1, FS_Surjection
  <2>3. Cardinality(used) \in Nat /\ Cardinality(Saving) \in Nat
    BY <1>2, <2>2, FS_CardinalityType
  <2> QED BY <1>1, <1>2, <2>2, <2>3
<1> HIDE DEF used
<1>4. IsFiniteSet(used \union {target}) /\ Cardinality(used \union {target}) <= n + 1
      /\ Cardinality(used \union {target}) \in Nat
  <2>1. /\ IsFiniteSet(used \union {target})
        /\ Cardinality(used \union {target}) = IF target \in used THEN Cardinality(used)
                                                ELSE Cardinality(used) + 1
    BY <1>3, FS_AddElement
  <2> QED BY <1>1, <1>3, <2>1
<1>5. Inodes = 1 .. n + 2 /\ IsFiniteSet(Inodes) /\ Cardinality(Inodes) = n + 2
  <2>1. Inodes = 1 .. n + 2
    BY DEF Inodes
  <2> HIDE DEF n
  <2>2. IsFiniteSet(1 .. n + 2) /\ Cardinality(1 .. n + 2) = n + 2
    <3> DEFINE k == n + 2
    <3>1. k \in Int /\ 1 \in Int /\ 1 <= k
      BY <1>1
    <3> HIDE DEF k
    <3>2. IsFiniteSet(1 .. k) /\ Cardinality(1 .. k) = IF 1 > k THEN 0 ELSE k - 1 + 1
      BY <3>1, FS_Interval
    <3>3. IsFiniteSet(1 .. k) /\ Cardinality(1 .. k) = k
      BY <3>1, <3>2
    <3> QED BY <3>3 DEF k
  <2> QED BY <2>1, <2>2
<1>6. free # {}
  <2>1. SUFFICES ASSUME Inodes \subseteq used \union {target} PROVE FALSE
    OBVIOUS
  <2> HIDE DEF n
  <2>2. Cardinality(Inodes) <= Cardinality(used \union {target})
    BY <1>4, <2>1, FS_Subset
  <2> QED BY <1>1, <1>4, <1>5, <2>2
<1>7. IsFiniteSet(free) /\ \A x \in free : x \in Int
  <2> HIDE DEF n
  <2>1. free \in SUBSET Inodes /\ \A x \in Inodes : x \in Int
    BY <1>1, <1>5
  <2> QED BY <1>5, <2>1, FS_Subset
<1>8. \E x \in free : \A y \in free : x <= y
  <2> HIDE DEF free
  <2> QED BY <1>6, <1>7, LeastExists
<1>9. Min(free) \in free
  <2> HIDE DEF free
  <2> QED BY <1>8, Zenon DEF Min
<1> QED BY <1>9 DEF used

-----------------------------------------------------------------------------
(* The steps.                                                              *)

\* load
LEMMA StartKeeps ==
  ASSUME IInv, NEW p \in Processes, Start(p)
  PROVE  IInv' /\ Content' = Content
<1>1. /\ p \notin Up /\ starts \in 0 .. MaxStarts /\ starts < MaxStarts /\ starts' = starts + 1
      /\ UNCHANGED <<content, target, temporary, handle, written, samples, failures, overlapped>>
  BY DEF Start, IInv, TypeOK, fileVars, saveVars
<1>2. Content' = Content
  BY <1>1, ContentStays DEF IInv
<1>3. starts' \in 0 .. MaxStarts
  BY <1>1, FileAssumption
<1>4. CASE /\ gates' \in {[gates EXCEPT ![p] = S] : S \in Loaded(target)}
           /\ pc' = [pc EXCEPT ![p] = "running"]
           /\ together' = (together \/ Up # {})
  <2>1. PICK S \in Loaded(target) : gates' = [gates EXCEPT ![p] = S]
    BY <1>4
  <2>2. /\ S \in States
        /\ target = NoFile => S = {}
        /\ target # NoFile => content[target] = Text(S)
    BY <2>1 DEF Loaded, States
  <2>3. S = Content
    BY <2>2, TextParses DEF Content
  <2>4. /\ pc \in [Processes -> {"running", "saving", "down", "stopped"}]
        /\ gates \in [Processes -> States] /\ together \in BOOLEAN
    BY DEF IInv, TypeOK
  <2>5. /\ pc' \in [Processes -> {"running", "saving", "down", "stopped"}]
        /\ gates' \in [Processes -> States] /\ pc'[p] = "running" /\ gates'[p] = S
        /\ \A q \in Processes : q # p => pc'[q] = pc[q] /\ gates'[q] = gates[q]
    BY <1>4, <2>1, <2>2, <2>4
  <2>6. Saving' = Saving /\ Up' = Up \union {p} /\ p \notin Saving
    BY <1>1, <2>5 DEF Saving, Up
  <2>7. written[p] = 0 /\ Len(Text(S)) \in Nat
    BY <2>2, <2>6, TextType DEF IInv, SavesType
  <2>8. TypeOK'
    <3>1. \A q \in Processes : /\ written'[q] \in 0 .. Len(Text(gates'[q]))
                               /\ pc'[q] = "saving" <=> handle'[q] # NoFile
      <4> SUFFICES ASSUME NEW q \in Processes
                   PROVE  /\ written'[q] \in 0 .. Len(Text(gates'[q]))
                          /\ pc'[q] = "saving" <=> handle'[q] # NoFile
        OBVIOUS
      <4>1. CASE q = p
        BY <1>1, <2>5, <2>7, <4>1 DEF IInv, TypeOK, Up
      <4>2. CASE q # p
        BY <1>1, <2>5, <4>2 DEF IInv, TypeOK
      <4> QED BY <4>1, <4>2
    <3>2. together' \in BOOLEAN
      BY <1>4, Zenon
    <3> QED BY <1>1, <1>3, <2>5, <3>1, <3>2 DEF IInv, TypeOK
  <2>9. SavesType'
    BY <1>1, <2>6 DEF IInv, SavesType
  <2>10. Undisturbed'
    BY <1>1, <2>5, <2>6 DEF IInv, Undisturbed, IsText, Saving
  <2>11. OneByOne'
    <3> SUFFICES ASSUME ~together'
                 PROVE  /\ ~overlapped'
                        /\ \A q, r \in Up' : q = r
                        /\ \A q \in Up' : Content' \subseteq gates'[q]
      BY DEF OneByOne
    <3>1. ~together /\ Up = {}
      BY <1>4, Zenon
    <3>2. ~overlapped
      BY <3>1 DEF IInv, OneByOne
    <3> QED BY <1>1, <1>2, <2>3, <2>5, <2>6, <3>1, <3>2
  <2> QED BY <1>2, <2>8, <2>9, <2>10, <2>11 DEF IInv
<1>5. CASE UNCHANGED <<gates, pc, together>>
  <2>1. Saving' = Saving /\ Up' = Up
    BY <1>5 DEF Saving, Up
  <2>2. TypeOK'
    BY <1>1, <1>3, <1>5 DEF IInv, TypeOK
  <2>3. SavesType' /\ Undisturbed' /\ OneByOne'
    BY <1>1, <1>2, <1>5, <2>1 DEF IInv, SavesType, Undisturbed, OneByOne, IsText
  <2> QED BY <1>2, <2>2, <2>3 DEF IInv
<1> QED BY <1>4, <1>5 DEF Start

\* A cycle
LEMMA RecordKeeps ==
  ASSUME IInv, NEW p \in Processes, Record(p)
  PROVE  IInv' /\ Content' = Content
<1>1. /\ pc[p] = "running" /\ samples \in 0 .. MaxSamples /\ samples < MaxSamples
      /\ samples' = samples + 1
      /\ gates' = [gates EXCEPT ![p] = gates[p] \union {samples + 1}]
      /\ gates \in [Processes -> States]
      /\ UNCHANGED <<content, target, temporary, handle, written, pc, starts, failures,
                     overlapped, together>>
  BY DEF Record, IInv, TypeOK, fileVars, saveVars
<1>2. Content' = Content
  BY <1>1, ContentStays DEF IInv
<1>3. samples' \in 0 .. MaxSamples /\ samples + 1 \in Samples
  BY <1>1, FileAssumption DEF Samples
<1>4. /\ gates' \in [Processes -> States] /\ gates[p] \subseteq gates'[p]
      /\ \A q \in Processes : q # p => gates'[q] = gates[q]
  <2>1. gates[p] \union {samples + 1} \in States
    BY <1>1, <1>3 DEF States
  <2> QED BY <1>1, <2>1
<1>5. Saving' = Saving /\ Up' = Up /\ p \notin Saving
  BY <1>1 DEF Saving, Up
<1>6. written[p] = 0 /\ Len(Text(gates'[p])) \in Nat
  <2>1. gates'[p] \in States
    BY <1>4
  <2> HIDE DEF Saving
  <2> QED BY <1>5, <2>1, TextType DEF IInv, SavesType
<1>7. TypeOK'
  <2>1. \A q \in Processes : written'[q] \in 0 .. Len(Text(gates'[q]))
    BY <1>1, <1>4, <1>6 DEF IInv, TypeOK
  <2> QED BY <1>1, <1>3, <1>4, <2>1 DEF IInv, TypeOK
<1>8. SavesType'
  BY <1>1, <1>5 DEF IInv, SavesType
<1>9. Undisturbed'
  BY <1>1, <1>4, <1>5 DEF IInv, Undisturbed, IsText, Saving
<1>10. OneByOne'
  <2>1. \A q \in Processes : gates[q] \subseteq gates'[q]
    BY <1>4
  <2>2. Up \subseteq Processes
    BY DEF Up
  <2> QED BY <1>1, <1>2, <1>5, <2>1, <2>2 DEF IInv, OneByOne
<1> QED BY <1>2, <1>7, <1>8, <1>9, <1>10 DEF IInv

\* File::create
LEMMA BeginKeeps ==
  ASSUME IInv, NEW p \in Processes, BeginSave(p)
  PROVE  IInv' /\ Content' = Content
<1> DEFINE free == Inodes \ ({target} \union {handle[q] : q \in Saving})
<1>1. PICK inode : /\ inode = IF temporary # NoFile THEN temporary ELSE Min(free)
                   /\ pc[p] = "running" /\ temporary' = inode
                   /\ content' = [content EXCEPT ![inode] = <<>>]
                   /\ handle' = [handle EXCEPT ![p] = inode]
                   /\ written' = [written EXCEPT ![p] = 0]
                   /\ pc' = [pc EXCEPT ![p] = "saving"]
                   /\ overlapped' = (overlapped \/ Saving # {})
                   /\ UNCHANGED <<target, gates, samples, starts, failures, together>>
  <2>1. \A i : (IF temporary = NoFile THEN <<>> ELSE Truncated(i)) = <<>>
    BY DEF Truncated
  <2> QED BY <2>1 DEF BeginSave
<1>2. p \notin Saving /\ p \in Up
  BY <1>1 DEF Saving, Up
<1>3. inode \in Inodes /\ inode # target
  <2>1. temporary \in Inodes \union {NoFile} /\ (target = temporary => target = NoFile)
    BY DEF IInv, TypeOK
  <2>2. Min(free) \in free
    BY <1>2, FreeInode DEF IInv
  <2> HIDE DEF free
  <2>3. free \subseteq Inodes /\ target \notin free
    BY DEF free
  <2> QED BY <1>1, <2>1, <2>2, <2>3
<1> HIDE DEF free
<1>4. NoFile \notin Inodes
  BY DEF NoFile, Inodes
<1>5. /\ content \in [Inodes -> Seq(0 .. Close)] /\ <<>> \in Seq(0 .. Close)
      /\ pc \in [Processes -> {"running", "saving", "down", "stopped"}]
      /\ handle \in [Processes -> Inodes \union {NoFile}] /\ written \in [Processes -> Nat]
  BY DEF IInv, TypeOK, SavesType
<1>6. /\ content' \in [Inodes -> Seq(0 .. Close)] /\ content'[inode] = <<>>
      /\ \A i \in Inodes : i # inode => content'[i] = content[i]
      /\ pc' \in [Processes -> {"running", "saving", "down", "stopped"}] /\ pc'[p] = "saving"
      /\ handle' \in [Processes -> Inodes \union {NoFile}] /\ handle'[p] = inode
      /\ written' \in [Processes -> Nat] /\ written'[p] = 0
      /\ \A q \in Processes : q # p => /\ pc'[q] = pc[q] /\ handle'[q] = handle[q]
                                       /\ written'[q] = written[q]
  BY <1>1, <1>3, <1>5
<1>7. Content' = Content
  <2>1. target # NoFile => content'[target] = content[target]
    BY <1>3, <1>6 DEF IInv, TypeOK
  <2> QED BY <1>1, <2>1, ContentStays DEF IInv
<1>8. Saving' = Saving \union {p} /\ Up' = Up
  BY <1>1, <1>6 DEF Saving, Up
<1>9. TypeOK'
  <2>1. \A q \in Processes : /\ written'[q] \in 0 .. Len(Text(gates'[q]))
                             /\ pc'[q] = "saving" <=> handle'[q] # NoFile
    <3> SUFFICES ASSUME NEW q \in Processes
                 PROVE  /\ written'[q] \in 0 .. Len(Text(gates'[q]))
                        /\ pc'[q] = "saving" <=> handle'[q] # NoFile
      OBVIOUS
    <3>1. CASE q = p
      <4>1. gates[p] \in States
        BY DEF IInv, TypeOK
      <4>2. Len(Text(gates[p])) \in Nat
        BY <4>1, TextType
      <4> QED BY <1>1, <1>3, <1>4, <1>6, <3>1, <4>2
    <3>2. CASE q # p
      BY <1>1, <1>6, <3>2 DEF IInv, TypeOK
    <3> QED BY <3>1, <3>2
  <2>2. overlapped' \in BOOLEAN
    BY <1>1, Zenon
  <2> QED BY <1>1, <1>3, <1>6, <2>1, <2>2 DEF IInv, TypeOK
<1>10. SavesType'
  BY <1>6, <1>8 DEF IInv, SavesType
<1>11. Undisturbed'
  <2> SUFFICES ASSUME ~overlapped'
               PROVE  /\ target' # NoFile => IsText(content'[target'])
                      /\ \A q, r \in Saving' : q = r
                      /\ \A q \in Saving' : /\ temporary' # NoFile /\ handle'[q] = temporary'
                                            /\ IsBeginning(content'[temporary'], Text(gates'[q]), written'[q])
    BY DEF Undisturbed, IsText
  <2>1. ~overlapped /\ Saving = {}
    BY <1>1, Zenon
  <2>2. Saving' = {p}
    BY <1>8, <2>1
  <2>3. target # NoFile => IsText(content[target]) /\ content'[target] = content[target]
    BY <1>3, <1>6, <2>1 DEF IInv, TypeOK, Undisturbed
  <2>4. IsBeginning(content'[inode], Text(gates'[p]), written'[p])
    BY <1>6 DEF IsBeginning
  <2> QED BY <1>1, <1>3, <1>4, <1>6, <2>2, <2>3, <2>4
<1>12. OneByOne'
  <2> SUFFICES ASSUME ~together PROVE ~overlapped'
    BY <1>1, <1>7, <1>8 DEF IInv, OneByOne
  <2>1. ~overlapped /\ \A q, r \in Up : q = r
    BY DEF IInv, OneByOne
  <2>2. Saving = {}
    BY <1>2, <2>1 DEF Saving, Up
  <2> QED BY <1>1, <2>1, <2>2, Zenon
<1> QED BY <1>7, <1>9, <1>10, <1>11, <1>12 DEF IInv

\* fs::write, one cell
LEMMA WriteKeeps ==
  ASSUME IInv, NEW p \in Processes, Write(p)
  PROVE  IInv' /\ (~overlapped => Content' = Content)
<1>n. PICK n \in Nat : n = written[p]
  BY DEF IInv, SavesType
<1>h. PICK h \in Inodes : h = handle[p]
  BY DEF Write, IInv, TypeOK
<1>t. PICK text \in Seq(Cells) : text = Text(gates[p])
  <2>1. gates[p] \in States
    BY DEF IInv, TypeOK
  <2> QED BY <2>1, TextType
<1>1. /\ pc[p] = "saving" /\ n + 1 <= Len(text)
      /\ content' = [content EXCEPT ![h] = Overwritten(content[h], n + 1, text[n + 1])]
      /\ written' = [written EXCEPT ![p] = n + 1]
      /\ UNCHANGED <<target, temporary, pc, gates, handle, samples, starts, failures,
                     overlapped, together>>
  BY <1>n, <1>h, <1>t DEF Write
<1>2. /\ content \in [Inodes -> Seq(Cells)] /\ written \in [Processes -> Nat]
      /\ Len(text) \in Nat /\ text[n + 1] \in Cells
  <2>1. content \in [Inodes -> Seq(Cells)] /\ written \in [Processes -> Nat]
    BY DEF IInv, TypeOK, SavesType, Cells
  <2> QED BY <1>1, <2>1
<1>3. /\ Overwritten(content[h], n + 1, text[n + 1]) \in Seq(Cells)
      /\ Len(content[h]) = n =>
           /\ Len(Overwritten(content[h], n + 1, text[n + 1])) = n + 1
           /\ \A i \in 1 .. n : Overwritten(content[h], n + 1, text[n + 1])[i] = content[h][i]
           /\ Overwritten(content[h], n + 1, text[n + 1])[n + 1] = text[n + 1]
  <2>1. PICK c \in Seq(Cells) : c = content[h]
    BY <1>2
  <2>2. PICK v \in Cells : v = text[n + 1]
    BY <1>2
  <2>3. /\ Overwritten(c, n + 1, v) \in Seq(Cells)
        /\ Len(c) = n => /\ Len(Overwritten(c, n + 1, v)) = n + 1
                         /\ \A i \in 1 .. n : Overwritten(c, n + 1, v)[i] = c[i]
                         /\ Overwritten(c, n + 1, v)[n + 1] = v
    BY OverwrittenType
  <2> QED BY <2>1, <2>2, <2>3
<1>4. /\ content' \in [Inodes -> Seq(Cells)] /\ written' \in [Processes -> Nat]
      /\ content'[h] = Overwritten(content[h], n + 1, text[n + 1])
      /\ \A i \in Inodes : i # h => content'[i] = content[i]
      /\ written'[p] = n + 1 /\ \A q \in Processes : q # p => written'[q] = written[q]
  BY <1>1, <1>2, <1>3
<1>5. Saving' = Saving /\ Up' = Up /\ p \in Saving
  BY <1>1 DEF Saving, Up
<1>6. ASSUME ~overlapped
      PROVE  /\ h = temporary /\ h # target
             /\ \A q \in Saving : q = p
             /\ IsBeginning(content[h], text, n)
  <2>1. handle[p] = temporary /\ temporary # NoFile /\ IsBeginning(content[temporary], text, n)
    BY <1>n, <1>t, <1>5, <1>6 DEF IInv, Undisturbed
  <2> QED BY <1>h, <1>5, <1>6, <2>1 DEF IInv, Undisturbed, TypeOK
<1>7. ~overlapped => Content' = Content
  <2> SUFFICES ASSUME ~overlapped PROVE Content' = Content
    OBVIOUS
  <2>1. target # NoFile => content'[target] = content[target]
    BY <1>4, <1>6 DEF IInv, TypeOK
  <2> QED BY <1>1, <2>1, ContentStays DEF IInv
<1>8. TypeOK'
  <2>1. \A q \in Processes : written'[q] \in 0 .. Len(Text(gates'[q]))
    <3> SUFFICES ASSUME NEW q \in Processes PROVE written'[q] \in 0 .. Len(Text(gates'[q]))
      OBVIOUS
    <3>1. CASE q = p
      BY <1>t, <1>1, <1>2, <1>4, <3>1
    <3>2. CASE q # p
      BY <1>1, <1>4, <3>2 DEF IInv, TypeOK
    <3> QED BY <3>1, <3>2
  <2>2. content' \in [Inodes -> Seq(0 .. Close)]
    BY <1>4 DEF Cells
  <2> QED BY <1>1, <2>1, <2>2 DEF IInv, TypeOK
<1>9. SavesType'
  BY <1>4, <1>5 DEF IInv, SavesType
<1>10. Undisturbed'
  <2> SUFFICES ASSUME ~overlapped
               PROVE  /\ target' # NoFile => IsText(content'[target])
                      /\ \A q, r \in Saving' : q = r
                      /\ \A q \in Saving' : /\ temporary' # NoFile /\ handle'[q] = temporary'
                                            /\ IsBeginning(content'[temporary'], Text(gates'[q]), written'[q])
    BY <1>1 DEF Undisturbed, IsText
  <2>1. IsBeginning(content'[h], text, n + 1)
    <3>1. Len(content[h]) = n /\ \A i \in 1 .. n : content[h][i] = text[i]
      BY <1>6 DEF IsBeginning
    <3>2. \A i \in 1 .. n + 1 : i \in 1 .. n \/ i = n + 1
      OBVIOUS
    <3> QED BY <1>3, <1>4, <3>1, <3>2 DEF IsBeginning
  <2>2. target # NoFile => IsText(content'[target])
    BY <1>4, <1>6 DEF IInv, TypeOK, Undisturbed
  <2>3. temporary # NoFile /\ handle[p] = temporary
    BY <1>h, <1>6 DEF Inodes, NoFile
  <2> QED BY <1>t, <1>1, <1>4, <1>5, <1>6, <2>1, <2>2, <2>3
<1>11. OneByOne'
  BY <1>1, <1>5, <1>7 DEF IInv, OneByOne
<1> QED BY <1>7, <1>8, <1>9, <1>10, <1>11 DEF IInv

\* A save that ends, or a process that does, without a rename.
LEMMA EndKeeps ==
  ASSUME IInv, NEW p \in Processes, p \in Up, NEW state \in {"running", "down", "stopped"},
         EndSave(p, state), UNCHANGED fileVars, failures' \in 0 .. MaxFailures
  PROVE  IInv' /\ Content' = Content
<1>1. /\ pc' = [pc EXCEPT ![p] = state] /\ handle' = [handle EXCEPT ![p] = NoFile]
      /\ written' = [written EXCEPT ![p] = 0]
      /\ UNCHANGED <<content, target, temporary, gates, samples, starts, overlapped, together>>
  BY DEF EndSave, fileVars
<1>2. /\ pc \in [Processes -> {"running", "saving", "down", "stopped"}]
      /\ handle \in [Processes -> Inodes \union {NoFile}] /\ written \in [Processes -> Nat]
  BY DEF IInv, TypeOK, SavesType
<1>3. /\ pc' \in [Processes -> {"running", "saving", "down", "stopped"}] /\ pc'[p] = state
      /\ handle' \in [Processes -> Inodes \union {NoFile}] /\ handle'[p] = NoFile
      /\ written' \in [Processes -> Nat] /\ written'[p] = 0
      /\ \A q \in Processes : q # p => /\ pc'[q] = pc[q] /\ handle'[q] = handle[q]
                                       /\ written'[q] = written[q]
  BY <1>1, <1>2
<1>4. Content' = Content
  BY <1>1, ContentStays DEF IInv
<1>5. Saving' = Saving \ {p} /\ Up' \subseteq Up
  BY <1>3 DEF Saving, Up
<1>6. TypeOK'
  <2>1. \A q \in Processes : /\ written'[q] \in 0 .. Len(Text(gates'[q]))
                             /\ pc'[q] = "saving" <=> handle'[q] # NoFile
    <3> SUFFICES ASSUME NEW q \in Processes
                 PROVE  /\ written'[q] \in 0 .. Len(Text(gates'[q]))
                        /\ pc'[q] = "saving" <=> handle'[q] # NoFile
      OBVIOUS
    <3>1. CASE q = p
      <4>1. gates[p] \in States
        BY DEF IInv, TypeOK
      <4>2. Len(Text(gates[p])) \in Nat
        BY <4>1, TextType
      <4> QED BY <1>1, <1>3, <3>1, <4>2
    <3>2. CASE q # p
      BY <1>1, <1>3, <3>2 DEF IInv, TypeOK
    <3> QED BY <3>1, <3>2
  <2> QED BY <1>1, <1>3, <2>1 DEF IInv, TypeOK
<1>7. SavesType'
  BY <1>3, <1>5 DEF IInv, SavesType
<1>8. Undisturbed'
  BY <1>1, <1>3, <1>5 DEF IInv, Undisturbed, IsText, Saving
<1>9. OneByOne'
  BY <1>1, <1>4, <1>5 DEF IInv, OneByOne
<1> QED BY <1>4, <1>6, <1>7, <1>8, <1>9 DEF IInv

\* rename
LEMMA InstallKeeps ==
  ASSUME IInv, NEW p \in Processes, Install(p)
  PROVE  IInv' /\ (~overlapped => Content' = gates[p])
<1> DEFINE state == IF p \in Services THEN "running" ELSE "down"
<1>1. /\ pc[p] = "saving" /\ written[p] = Len(Text(gates[p])) /\ temporary # NoFile
      /\ target' = temporary /\ temporary' = NoFile
      /\ pc' = [pc EXCEPT ![p] = state] /\ handle' = [handle EXCEPT ![p] = NoFile]
      /\ written' = [written EXCEPT ![p] = 0]
      /\ UNCHANGED <<content, gates, samples, starts, failures, overlapped, together>>
  BY DEF Install, AllWritten, EndSave
<1>2. /\ pc \in [Processes -> {"running", "saving", "down", "stopped"}]
      /\ handle \in [Processes -> Inodes \union {NoFile}] /\ written \in [Processes -> Nat]
  BY DEF IInv, TypeOK, SavesType
<1>3. /\ pc' \in [Processes -> {"running", "saving", "down", "stopped"}]
      /\ pc'[p] \in {"running", "down"}
      /\ handle' \in [Processes -> Inodes \union {NoFile}] /\ handle'[p] = NoFile
      /\ written' \in [Processes -> Nat] /\ written'[p] = 0
      /\ \A q \in Processes : q # p => /\ pc'[q] = pc[q] /\ handle'[q] = handle[q]
                                       /\ written'[q] = written[q]
  BY <1>1, <1>2
<1>4. Saving' = Saving \ {p} /\ Up' \subseteq Up /\ p \in Saving /\ p \in Up
  BY <1>1, <1>3 DEF Saving, Up
<1>5. TypeOK'
  <2>1. \A q \in Processes : /\ written'[q] \in 0 .. Len(Text(gates'[q]))
                             /\ pc'[q] = "saving" <=> handle'[q] # NoFile
    <3> SUFFICES ASSUME NEW q \in Processes
                 PROVE  /\ written'[q] \in 0 .. Len(Text(gates'[q]))
                        /\ pc'[q] = "saving" <=> handle'[q] # NoFile
      OBVIOUS
    <3>1. CASE q = p
      <4>1. gates[p] \in States
        BY DEF IInv, TypeOK
      <4>2. Len(Text(gates[p])) \in Nat
        BY <4>1, TextType
      <4> QED BY <1>1, <1>3, <3>1, <4>2
    <3>2. CASE q # p
      BY <1>1, <1>3, <3>2 DEF IInv, TypeOK
    <3> QED BY <3>1, <3>2
  <2> QED BY <1>1, <1>3, <2>1 DEF IInv, TypeOK
<1>6. SavesType'
  BY <1>3, <1>4 DEF IInv, SavesType
<1>7. ASSUME ~overlapped
      PROVE  content[temporary] = Text(gates[p]) /\ gates[p] \in States
  <2>1. IsBeginning(content[temporary], Text(gates[p]), Len(Text(gates[p])))
    BY <1>1, <1>4, <1>7 DEF IInv, Undisturbed
  <2>2. gates[p] \in States /\ content[temporary] \in Seq(Cells)
    BY <1>1 DEF IInv, TypeOK, Cells
  <2>3. Text(gates[p]) \in Seq(Cells)
    BY <2>2, TextType
  <2>4. \A s, t \in Seq(Cells) : IsBeginning(s, t, Len(t)) => s = t
    BY DEF IsBeginning
  <2> QED BY <2>1, <2>2, <2>3, <2>4
<1>8. Undisturbed'
  BY <1>1, <1>3, <1>4, <1>7, TextParses DEF IInv, Undisturbed, IsText
<1>9. ~overlapped => Content' = gates[p]
  <2> SUFFICES ASSUME ~overlapped PROVE Content' = gates[p]
    OBVIOUS
  <2>1. content'[target'] = Text(gates[p]) /\ target' # NoFile
    BY <1>1, <1>7
  <2>2. IsText(Text(gates[p])) /\ Parsed(Text(gates[p])) = gates[p]
    BY <1>7, TextParses
  <2>3. Content' = IF target' = NoFile THEN {}
                   ELSE IF IsText(content'[target']) THEN Parsed(content'[target']) ELSE Garbled
    BY DEF Content, IsText, Parsed
  <2> QED BY <2>1, <2>2, <2>3
<1>10. OneByOne'
  <2> SUFFICES ASSUME ~together
               PROVE  /\ ~overlapped /\ \A q, r \in Up' : q = r
                      /\ \A q \in Up' : Content' \subseteq gates[q]
    BY <1>1 DEF OneByOne
  <2>1. ~overlapped /\ \A q \in Up : q = p
    BY <1>4 DEF IInv, OneByOne
  <2> QED BY <1>4, <1>9, <2>1
<1> QED BY <1>5, <1>6, <1>8, <1>9, <1>10 DEF IInv

\* A step of process p that does not rename the file leaves its content, but for a
\* write into a file that two saves share.
Quiet(p) == Start(p) \/ Record(p) \/ BeginSave(p) \/ InstallFails(p) \/ WriteFails(p) \/ Stop(p)

\* None of the quiet actions changes what the file holds.
LEMMA QuietKeeps ==
  ASSUME IInv, NEW p \in Processes, Quiet(p)
  PROVE  IInv' /\ Content' = Content
<1>1. CASE Start(p)
  BY <1>1, StartKeeps
<1>2. CASE Record(p)
  BY <1>2, RecordKeeps
<1>3. CASE BeginSave(p)
  BY <1>3, BeginKeeps
<1>4. CASE InstallFails(p)
  <2>1. /\ p \in Up /\ EndSave(p, AfterFailure(p)) /\ UNCHANGED fileVars
        /\ AfterFailure(p) \in {"running", "down", "stopped"} /\ failures' \in 0 .. MaxFailures
    BY <1>4 DEF InstallFails, Up, AfterFailure, IInv, TypeOK
  <2> QED BY <2>1, EndKeeps
<1>5. CASE WriteFails(p)
  <2>1. failures' \in 0 .. MaxFailures
    BY <1>5, FileAssumption DEF WriteFails, IInv, TypeOK
  <2>2. /\ p \in Up /\ EndSave(p, AfterFailure(p)) /\ UNCHANGED fileVars
        /\ AfterFailure(p) \in {"running", "down", "stopped"}
    BY <1>5 DEF WriteFails, Up, AfterFailure
  <2> QED BY <2>1, <2>2, EndKeeps
<1>6. CASE Stop(p)
  <2>1. /\ p \in Up /\ EndSave(p, "stopped") /\ UNCHANGED fileVars
        /\ "stopped" \in {"running", "down", "stopped"} /\ failures' \in 0 .. MaxFailures
    BY <1>6 DEF Stop, IInv, TypeOK
  <2> QED BY <2>1, EndKeeps
<1> QED BY <1>1, <1>2, <1>3, <1>4, <1>5, <1>6 DEF Quiet

\* Every step keeps the invariant.
LEMMA NextIInv == IInv /\ [Next]_vars => IInv'
<1> SUFFICES ASSUME IInv, [Next]_vars PROVE IInv'
  OBVIOUS
<1>1. CASE UNCHANGED vars
  <2>1. Content' = Content
    BY <1>1, ContentStays DEF IInv, vars, fileVars
  <2>2. Saving' = Saving /\ Up' = Up
    BY <1>1 DEF vars, Saving, Up
  <2>3. TypeOK'
    BY <1>1 DEF IInv, TypeOK, vars, fileVars, saveVars
  <2>4. SavesType' /\ Undisturbed' /\ OneByOne'
    BY <1>1, <2>1, <2>2 DEF IInv, vars, fileVars, saveVars, SavesType, Undisturbed, OneByOne, IsText
  <2> QED BY <2>3, <2>4 DEF IInv
<1>2. ASSUME NEW p \in Processes, Quiet(p) PROVE IInv'
  BY <1>2, QuietKeeps
<1>3. ASSUME NEW p \in Processes, Write(p) PROVE IInv'
  BY <1>3, WriteKeeps
<1>4. ASSUME NEW p \in Processes, Install(p) PROVE IInv'
  BY <1>4, InstallKeeps
<1> QED BY <1>1, <1>2, <1>3, <1>4 DEF Next, Saves, Quiet

\* The invariant holds in every reachable state.
LEMMA Invariant == Spec => []IInv
BY InitIInv, NextIInv, PTL DEF Spec

-----------------------------------------------------------------------------
(* What save promises.                                                     *)

\* Every variable of the gate file and of its processes has its type.
THEOREM TypeCorrect == Spec => []TypeOK
<1>1. IInv => TypeOK
  BY DEF IInv
<1> QED BY <1>1, Invariant, PTL

\* Until two processes have been up at once, no step of load or save, and none that
\* ends a process, takes a sample out of the gate file or leaves it unreadable.
THEOREM SamplesKept == Spec => OneByOneKeepsSamples
<1> DEFINE Kept == ~together' => IF Content = Garbled THEN FALSE ELSE Content \subseteq Content'
<1>1. ASSUME IInv, [Next]_vars, ~together' PROVE Content # Garbled /\ Content \subseteq Content'
  <2>1. ~together
    <3>1. CASE UNCHANGED vars
      BY <1>1, <3>1 DEF vars
    <3>2. ASSUME NEW p \in Processes, Start(p) PROVE ~together
      <4>1. CASE together' = (together \/ Up # {})
        BY <1>1, <4>1, Zenon
      <4>2. CASE UNCHANGED <<gates, pc, together>>
        BY <1>1, <4>2
      <4> QED BY <3>2, <4>1, <4>2 DEF Start
    <3>3. ASSUME NEW p \in Processes, Record(p) \/ Saves(p) \/ WriteFails(p) \/ Stop(p)
          PROVE  ~together
      BY <1>1, <3>3 DEF Record, Saves, BeginSave, Write, Install, InstallFails, WriteFails, Stop,
                        EndSave
    <3> QED BY <1>1, <3>1, <3>2, <3>3 DEF Next
  <2>2. ~overlapped
    BY <1>1, <2>1 DEF IInv, OneByOne
  <2>3. Content \in States /\ Garbled \notin States
    BY <1>1, <2>2, ContentType DEF IInv, Undisturbed
  <2>4. Content \subseteq Content'
    <3>1. CASE UNCHANGED vars
      BY <1>1, <3>1, ContentStays DEF IInv, vars, fileVars
    <3>2. ASSUME NEW p \in Processes, Quiet(p) PROVE Content' = Content
      BY <1>1, <3>2, QuietKeeps
    <3>3. ASSUME NEW p \in Processes, Write(p) PROVE Content' = Content
      BY <1>1, <2>2, <3>3, WriteKeeps
    <3>4. ASSUME NEW p \in Processes, Install(p) PROVE Content \subseteq Content'
      <4>1. Content' = gates[p] /\ p \in Up
        BY <1>1, <2>2, <3>4, InstallKeeps DEF Install, Up
      <4> QED BY <1>1, <2>1, <4>1 DEF IInv, OneByOne
    <3> QED BY <1>1, <3>1, <3>2, <3>3, <3>4 DEF Next, Saves, Quiet
  <2> QED BY <2>3, <2>4
<1>2. IInv /\ [Next]_vars => [Kept]_vars
  BY <1>1
<1> HIDE DEF Kept
<1>3. Spec => [][Kept]_vars
  BY <1>2, Invariant, PTL DEF Spec
<1> QED BY <1>3, PTL DEF OneByOneKeepsSamples, Kept

ContentOK == Content \in States \union {Garbled}

\* The memory of processes is always one of states, and an overlap is not undone.
LEMMA ProceedsWhenQuiet ==
  ASSUME IInv, IInv', NEW p \in Processes, Quiet(p), Content' = Content
  PROVE  File!Proceed
<1>1. gates' \in [Processes -> States]
  BY DEF IInv, TypeOK
<1>2. overlapped' \in {overlapped, TRUE}
  <2>1. CASE BeginSave(p)
    <3>1. overlapped' = (overlapped \/ Saving # {}) /\ overlapped \in BOOLEAN
      BY <2>1 DEF BeginSave, IInv, TypeOK
    <3> QED BY <3>1, Zenon
  <2>2. CASE Start(p) \/ Record(p) \/ InstallFails(p) \/ WriteFails(p) \/ Stop(p)
    BY <2>2 DEF Start, Record, InstallFails, WriteFails, Stop, EndSave
  <2> QED BY <2>1, <2>2 DEF Quiet
<1> QED BY <1>1, <1>2 DEF File!Proceed

\* save implements an atomic file for as long as no two of them overlap: each step
\* of load, of save, and of whatever ends them half way is one of AtomicFile's.
THEOREM SaveIsAtomic == Spec => ImplementsAtomicFile
<1>1. Init => File!Init
  <2> SUFFICES ASSUME Init PROVE File!Init
    OBVIOUS
  <2>1. Content = {} /\ {} \in States
    BY DEF Init, Content, States
  <2> QED BY <2>1 DEF Init, File!Init
<1>0. IInv => ContentOK
  BY ContentType DEF IInv, ContentOK
<1>2. IInv /\ IInv' /\ ContentOK' /\ [Next]_vars => [File!Next]_(File!vars)
  <2> SUFFICES ASSUME IInv, IInv', ContentOK', [Next]_vars PROVE [File!Next]_(File!vars)
    OBVIOUS
  <2>1. CASE UNCHANGED vars
    <3>1. Content' = Content
      BY <2>1, ContentStays DEF IInv, vars, fileVars
    <3> QED BY <2>1, <3>1 DEF vars, File!vars
  <2>2. ASSUME NEW p \in Processes, Quiet(p) PROVE File!Next
    <3>1. Content' = Content
      BY <2>2, QuietKeeps
    <3> QED BY <2>2, <3>1, ProceedsWhenQuiet DEF File!Next
  <2>3. ASSUME NEW p \in Processes, Write(p) PROVE File!Next
    <3>1. UNCHANGED <<gates, overlapped>>
      BY <2>3 DEF Write
    <3>2. CASE overlapped
      BY <3>1, <3>2 DEF ContentOK, File!Next, File!Mangle
    <3>3. CASE ~overlapped
      <4>1. Content' = Content
        BY <2>3, <3>3, WriteKeeps
      <4>2. gates' \in [Processes -> States] /\ overlapped' \in {overlapped, TRUE}
        BY <3>1 DEF IInv, TypeOK
      <4> QED BY <4>1, <4>2 DEF File!Next, File!Proceed
    <3> QED BY <3>2, <3>3
  <2>4. ASSUME NEW p \in Processes, Install(p) PROVE File!Next
    <3>1. UNCHANGED <<gates, overlapped>>
      BY <2>4 DEF Install, EndSave
    <3>2. CASE overlapped
      BY <3>1, <3>2 DEF ContentOK, File!Next, File!Mangle
    <3>3. CASE ~overlapped
      <4>1. Content' = gates[p]
        BY <2>4, <3>3, InstallKeeps
      <4> QED BY <2>4, <3>1, <4>1 DEF File!Next, File!Install
    <3> QED BY <3>2, <3>3
  <2> QED BY <2>1, <2>2, <2>3, <2>4 DEF Next, Saves, Quiet
<1> QED BY <1>0, <1>1, <1>2, Invariant, PTL DEF Spec, ImplementsAtomicFile, File!Spec
=============================================================================
