----------------------------- MODULE StorageProofs -----------------------------
(****************************************************************************)
(* What is stored, for every value of the parameters: the atomic private    *)
(* files implement what PrivateFile promises, for every set of writers,     *)
(* documents and inodes and every number of transactions, failures, crashes *)
(* and edits, and so does the variant for secrets; the usage history; and   *)
(* the services' invariant of what is stored and their action property,     *)
(* machine by machine.                                                      *)
(****************************************************************************)
EXTENDS ServiceProofs, ConfigurationProofs

(* The parameters of the private files.                                     *)
LEMMA FileParameters ==
    /\ FileInodes \subseteq Nat \ {0} /\ Absent \notin Values /\ Absent \notin Writers
BY ServicesAssumption DEF File!FileAssumption

(* The entries of a directory are different names.                          *)
LEMMA NamesDiffer ==
    /\ File!Current \in File!Names /\ File!Previous \in File!Names
    /\ File!Current # File!Previous
    /\ \A w \in Writers : /\ <<"new", w>> \in File!Names /\ <<"link", w>> \in File!Names
                          /\ <<"new", w>> # File!Current /\ <<"link", w>> # File!Current
                          /\ <<"new", w>> # File!Previous /\ <<"link", w>> # File!Previous
    /\ \A v, w \in Writers : /\ <<"new", v>> # <<"link", w>>
                             /\ v # w => <<"new", v>> # <<"new", w>>
BY DEF File!Names, File!Current, File!Previous, File!NoWriter

(* The directories after a change and after a sync.                         *)
LEMMA DirChanged ==
    ASSUME r2 \in Seq(File!Directory), r2 # << >>, NEW d \in File!Directory,
           r2' = Append(r2, d)
    PROVE  /\ r2' \in Seq(File!Directory) /\ r2' # << >> /\ File!dir' = d
           /\ DOMAIN r2' = DOMAIN r2 \cup {Len(r2) + 1} /\ Len(r2) + 1 \notin DOMAIN r2
           /\ \A k \in DOMAIN r2 : r2'[k] = r2[k]
           /\ r2'[Len(r2) + 1] = d
<1>1. /\ r2' \in Seq(File!Directory) /\ Len(r2') = Len(r2) + 1 /\ Len(r2) \in Nat
      /\ DOMAIN r2 = 1..Len(r2) /\ DOMAIN r2' = 1..(Len(r2) + 1)
      /\ \A k \in 1..Len(r2) : r2'[k] = r2[k]
      /\ r2'[Len(r2) + 1] = d
  BY AppendProperties, LenProperties
<1>2. File!dir' = r2'[Len(r2')]
  BY DEF File!dir, File!Last
<1>3. DOMAIN r2' = DOMAIN r2 \cup {Len(r2) + 1} /\ Len(r2) + 1 \notin DOMAIN r2
  BY <1>1
<1>4. r2' # << >>
  BY <1>1
<1> QED
  BY <1>1, <1>2, <1>3, <1>4

(* A synced directory is the only one a crash may leave.                    *)
LEMMA DirSynced ==
    ASSUME NEW d \in File!Directory, r2' = <<d>>
    PROVE  /\ r2' \in Seq(File!Directory) /\ r2' # << >> /\ File!dir' = d
           /\ DOMAIN r2' = {1} /\ r2'[1] = d
<1>1. r2' \in Seq(File!Directory) /\ Len(r2') = 1 /\ r2'[1] = d /\ DOMAIN r2' = {1}
  OBVIOUS
<1> QED
  BY <1>1 DEF File!dir, File!Last

(* The directory now is the last of its changes.                            *)
LEMMA DirNow ==
    ASSUME r2 \in Seq(File!Directory), r2 # << >>
    PROVE  /\ Len(r2) \in DOMAIN r2 /\ File!dir = r2[Len(r2)] /\ File!dir \in File!Directory
           /\ \A k \in DOMAIN r2 : r2[k] \in File!Directory
<1>1. Len(r2) \in Nat /\ Len(r2) # 0 /\ DOMAIN r2 = 1..Len(r2)
  BY EmptySeq, LenProperties
<1>2. Len(r2) \in DOMAIN r2
  BY <1>1
<1>3. \A k \in DOMAIN r2 : r2[k] \in File!Directory
  BY <1>1, ElementOfSeq
<1>4. File!dir = r2[Len(r2)]
  BY DEF File!dir, File!Last
<1> QED
  BY <1>2, <1>3, <1>4

------------------------------------------------------------------------------
(* What a step can do to the documents: leave them, sync the directory, put *)
(* a whole document in place, or lose changes that were not synced.         *)

DocumentsKept ==
    \A k \in DOMAIN r2 :
        r2[k][File!Current] # 0 => r1'[r2[k][File!Current]] = r1[r2[k][File!Current]]

Quiet ==
    /\ DocumentsKept /\ File!dir'[File!Current] = File!dir[File!Current]
    /\ \A k \in DOMAIN r2' : \E j \in DOMAIN r2 : r2'[k][File!Current] = r2[j][File!Current]
    /\ \A j \in DOMAIN r2 : \E k \in DOMAIN r2' : r2'[k][File!Current] = r2[j][File!Current]

Synced == r1' = r1 /\ r2' = <<File!dir>>

Replaced ==
    /\ DocumentsKept
    /\ \E d \in File!Directory : /\ r2' = Append(r2, d) /\ d[File!Current] # 0
                                 /\ r1'[d[File!Current]] \in Values

Lost == r1' = r1 /\ \E k \in DOMAIN r2 : r2' = <<r2[k]>>

Shape == Quiet \/ Synced \/ Replaced \/ Lost

(* A change of other entries shows nobody a change.                         *)
LEMMA QuietChange ==
    ASSUME File!FileTypes, DocumentsKept,
           \/ r2' = r2
           \/ \E d \in File!Directory : /\ r2' = Append(r2, d)
                                        /\ d[File!Current] = File!dir[File!Current]
    PROVE  Quiet
<1>1. /\ Len(r2) \in DOMAIN r2 /\ File!dir = r2[Len(r2)]
      /\ r2 \in Seq(File!Directory) /\ r2 # << >>
  BY DirNow DEF File!FileTypes
<1>2. CASE r2' = r2
  BY <1>2 DEF Quiet, File!dir, File!Last
<1>3. ASSUME NEW d \in File!Directory, r2' = Append(r2, d),
             d[File!Current] = File!dir[File!Current]
      PROVE  Quiet
  <2>1. /\ File!dir' = d /\ DOMAIN r2' = DOMAIN r2 \cup {Len(r2) + 1}
        /\ \A k \in DOMAIN r2 : r2'[k] = r2[k]
        /\ r2'[Len(r2) + 1] = d
    BY <1>1, <1>3, DirChanged
  <2> QED
    BY <1>1, <1>3, <2>1 DEF Quiet
<1> QED
  BY <1>2, <1>3

(* No shape leaves a torn document.                                         *)
LEMMA ShapeKeepsWhole ==
    ASSUME File!FileTypes, File!WholeDocuments, Shape PROVE File!WholeDocuments'
<1>1. /\ Len(r2) \in DOMAIN r2 /\ File!dir = r2[Len(r2)]
      /\ r2 \in Seq(File!Directory) /\ r2 # << >>
      /\ \A k \in DOMAIN r2 : r2[k] \in File!Directory
  BY DirNow DEF File!FileTypes
<1>0. File!Current' = File!Current
  BY DEF File!Current, File!NoWriter
<1>2. CASE Quiet
  BY <1>0, <1>2 DEF Quiet, DocumentsKept, File!WholeDocuments
<1>3. ASSUME NEW j \in DOMAIN r2, r1' = r1, r2' = <<r2[j]>> PROVE File!WholeDocuments'
  <2>1. DOMAIN r2' = {1} /\ r2'[1] = r2[j]
    BY <1>1, <1>3, DirSynced
  <2> QED
    BY <1>0, <1>3, <2>1 DEF File!WholeDocuments
<1>4. ASSUME NEW d \in File!Directory, r2' = Append(r2, d), DocumentsKept,
             r1'[d[File!Current]] \in Values
      PROVE  File!WholeDocuments'
  <2>1. /\ DOMAIN r2' = DOMAIN r2 \cup {Len(r2) + 1}
        /\ \A k \in DOMAIN r2 : r2'[k] = r2[k]
        /\ r2'[Len(r2) + 1] = d
    BY <1>1, <1>4, DirChanged
  <2> QED
    BY <1>0, <1>4, <2>1 DEF File!WholeDocuments, DocumentsKept
<1> QED
  BY <1>1, <1>2, <1>3, <1>4 DEF Shape, Synced, Replaced, Lost

(* Every shape is a step of the promised file, or none.                     *)
LEMMA ShapeImplements ==
    ASSUME File!FileTypes, IsFile, machine' = machine, Shape
    PROVE  [Abstract!Next]_(Abstract!vars)
<1> DEFINE C == File!Current
           doc(files, d) == IF d[C] = 0 THEN Absent ELSE files[d[C]]
           before == doc(r1, File!dir)
           then == doc(r1', File!dir')
           possible == {doc(r1, r2[k]) : k \in DOMAIN r2}
           later == {doc(r1', r2'[k]) : k \in DOMAIN r2'}
<1>0. /\ Abstract!vars = <<before, possible>> /\ Abstract!vars' = <<then, later>>
      /\ Abstract!Replace <=> then \in Values /\ later = possible \cup {then}
      /\ Abstract!Sync <=> then = before /\ later = {before}
      /\ Abstract!Crash <=> then \in possible /\ later = {then}
  <2>1. IsFile' /\ File!Current' = File!Current
    BY DEF IsFile, File!Current, File!NoWriter
  <2> QED
    BY <2>1 DEF Abstract!vars, Abstract!Replace, Abstract!Sync, Abstract!Crash, File!Document
<1>1. /\ Len(r2) \in DOMAIN r2 /\ File!dir = r2[Len(r2)]
      /\ r2 \in Seq(File!Directory) /\ r2 # << >>
      /\ \A k \in DOMAIN r2 : r2[k] \in File!Directory
  BY DirNow DEF File!FileTypes
<1> HIDE DEF C
<1>2. CASE Quiet
  <2>1. \A j \in DOMAIN r2 : \A d : d[C] = r2[j][C] => doc(r1', d) = doc(r1, r2[j])
    BY <1>2 DEF Quiet, DocumentsKept, C
  <2>2. then = before
    BY <1>1, <1>2, <2>1 DEF Quiet, C
  <2>3. later = possible
    BY <1>2, <2>1 DEF Quiet, C
  <2> QED
    BY <1>0, <2>2, <2>3
<1>3. CASE Synced
  <2>1. /\ DOMAIN r2' = {1} /\ r2'[1] = File!dir /\ File!dir' = File!dir /\ r1' = r1
    BY <1>1, <1>3, DirSynced DEF Synced
  <2>2. then = before /\ later = {before}
    BY <2>1
  <2> QED
    BY <1>0, <2>2 DEF Abstract!Next
<1>4. ASSUME NEW d \in File!Directory, r2' = Append(r2, d), DocumentsKept,
             d[C] # 0, r1'[d[C]] \in Values
      PROVE  Abstract!Next
  <2>1. /\ DOMAIN r2' = DOMAIN r2 \cup {Len(r2) + 1} /\ File!dir' = d
        /\ \A k \in DOMAIN r2 : r2'[k] = r2[k]
        /\ r2'[Len(r2) + 1] = d
    BY <1>1, <1>4, DirChanged
  <2>2. \A k \in DOMAIN r2 : doc(r1', r2'[k]) = doc(r1, r2[k])
    BY <1>4, <2>1 DEF DocumentsKept, C
  <2>3. then \in Values /\ doc(r1', r2'[Len(r2) + 1]) = then
    BY <1>4, <2>1
  <2>4. later = possible \cup {then}
    BY <2>1, <2>2, <2>3
  <2> QED
    BY <1>0, <2>3, <2>4 DEF Abstract!Next
<1>5. ASSUME NEW j \in DOMAIN r2, r1' = r1, r2' = <<r2[j]>> PROVE Abstract!Next
  <2>1. DOMAIN r2' = {1} /\ r2'[1] = r2[j] /\ File!dir' = r2[j]
    BY <1>1, <1>5, DirSynced
  <2>2. then = doc(r1, r2[j]) /\ later = {then}
    BY <1>5, <2>1
  <2> QED
    BY <1>0, <2>2 DEF Abstract!Next
<1> QED
  BY <1>2, <1>3, <1>4, <1>5 DEF Shape, Replaced, Lost, C

------------------------------------------------------------------------------
(* The steps. One transaction is under way at a time, so that of the        *)
(* invariant about the writers only the part of the one that moves has to   *)
(* be shown again.                                                          *)

Moved(w) ==
    /\ r4' \in [Writers -> File!Transaction] /\ r3' \in Writers \cup {Absent}
    /\ \A v \in Writers \ {w} : r4'[v] = r4[v]
    /\ r4'[w].pc # "idle" => r3' = w /\ r4'[w].value \in Values

(* A transaction that moves on stays typed, and its file apart.             *)
LEMMA WriterMoves ==
    ASSUME File!FileTypes, NEW w \in Writers, ~File!At(w, "idle") \/ r3 = Absent,
           Moved(w), r1' \in [FileInodes -> Values \cup {Absent}],
           r2' \in Seq(File!Directory), r2' # << >>, File!Apart(w)'
    PROVE  File!FileTypes' /\ File!StagedApart'
<1>1. \A v \in Writers \ {w} : r4'[v].pc = "idle"
  BY FileParameters DEF File!FileTypes, File!At, Moved
<1>2. File!FileTypes'
  <2>1. \A v \in Writers : ~(r4'[v].pc = "idle") => r3' = v /\ r4'[v].value \in Values
    BY <1>1 DEF Moved
  <2> QED
    BY <2>1 DEF File!FileTypes, File!At, File!NoWriter, Moved, File!Directory, File!Names,
                File!Transaction, File!Steps, File!Written, File!Current, File!Previous
<1>3. ASSUME NEW v \in Writers \ {w} PROVE File!Apart(v)'
  BY <1>1, <1>3 DEF File!Apart, File!Written
<1> QED
  BY <1>2, <1>3 DEF File!StagedApart

(* Dropping a transaction is quiet.                                         *)
LEMMA DropStep ==
    ASSUME File!FileTypes, NEW w \in Writers, ~File!At(w, "idle"), File!Drop(w), r1' = r1
    PROVE  File!FileTypes' /\ File!StagedApart' /\ Shape
<1>1. r4' = [r4 EXCEPT ![w] = File!Idle] /\ r3' = Absent
  BY DEF File!Drop, File!NoWriter
<1>2. File!Idle \in File!Transaction /\ File!Idle.pc = "idle"
  BY DEF File!Idle, File!Transaction, File!Steps
<1>3. Moved(w) /\ r4'[w].pc = "idle"
  BY <1>1, <1>2 DEF Moved, File!FileTypes
<1>4. File!Apart(w)'
  BY <1>3 DEF File!Apart, File!Written
<1> DEFINE d == [File!dir EXCEPT ![<<"new", w>>] = 0, ![<<"link", w>>] = 0]
<1>5. d \in File!Directory /\ d[File!Current] = File!dir[File!Current]
  <2>1. File!dir \in File!Directory
    BY DirNow DEF File!FileTypes
  <2> QED
    BY <2>1, NamesDiffer DEF File!Directory
<1>6. r2' = r2 \/ r2' = Append(r2, d)
  BY DEF File!Drop
<1> HIDE DEF d
<1>7. Quiet
  BY <1>5, <1>6, QuietChange DEF DocumentsKept
<1>8. r2' \in Seq(File!Directory) /\ r2' # << >>
  BY <1>5, <1>6, DirChanged DEF File!FileTypes
<1> QED
  BY <1>3, <1>4, <1>7, <1>8, WriterMoves DEF File!FileTypes, Shape

(* A step inside a transaction that writes or syncs the directory without   *)
(* touching the document or the staged entry.                               *)
LEMMA InnerStep ==
    ASSUME File!FileKept, NEW w \in Writers, r4[w].pc \in File!Written,
           Moved(w), r4'[w].pc \in File!Written, r4'[w].file = r4[w].file, r1' = r1,
           \/ r2' = r2
           \/ r2' = <<File!dir>>
           \/ \E d \in File!Directory : /\ r2' = Append(r2, d)
                                        /\ d[File!Current] = File!dir[File!Current]
                                        /\ d[<<"new", w>>] = File!dir[<<"new", w>>]
    PROVE  File!FileTypes' /\ File!StagedApart' /\ Shape
<1>0. File!FileTypes /\ File!Apart(w)
  BY DEF File!FileKept, File!StagedApart
<1>1. /\ Len(r2) \in DOMAIN r2 /\ File!dir = r2[Len(r2)] /\ File!dir \in File!Directory
      /\ r2 \in Seq(File!Directory) /\ r2 # << >>
  BY <1>0, DirNow DEF File!FileTypes
<1>2. r4[w].pc # "idle" /\ r4[w].pc # "created" /\ r4'[w].pc # "created"
  BY DEF File!Written
<1>3. /\ r4[w].file # 0 /\ File!dir[<<"new", w>>] = r4[w].file
      /\ \A k \in DOMAIN r2 : r2[k][File!Current] # r4[w].file
      /\ r1[r4[w].file] \in Values
  BY <1>0, <1>2 DEF File!Apart, File!At
<1>4. File!Current' = File!Current
  BY DEF File!Current, File!NoWriter
<1>5. ASSUME r2' \in Seq(File!Directory), r2' # << >>,
             File!dir'[<<"new", w>>] = File!dir[<<"new", w>>],
             \A k \in DOMAIN r2' : r2'[k][File!Current] # r4[w].file
      PROVE  File!FileTypes' /\ File!StagedApart'
  <2>1. File!Apart(w)'
    BY <1>2, <1>3, <1>4, <1>5 DEF File!Apart, File!At
  <2> QED
    BY <1>0, <1>2, <1>5, <2>1, WriterMoves DEF File!FileTypes, File!At
<1>6. CASE r2' = r2
  <2>1. Quiet
    BY <1>0, <1>6, QuietChange DEF DocumentsKept
  <2>2. File!dir' = File!dir
    BY <1>6 DEF File!dir, File!Last
  <2> QED
    BY <1>1, <1>3, <1>5, <1>6, <2>1, <2>2 DEF Shape
<1>7. CASE r2' = <<File!dir>>
  <2>1. /\ r2' \in Seq(File!Directory) /\ r2' # << >> /\ File!dir' = File!dir
        /\ DOMAIN r2' = {1} /\ r2'[1] = File!dir
    BY <1>1, <1>7, DirSynced
  <2> QED
    BY <1>1, <1>3, <1>5, <1>7, <2>1 DEF Shape, Synced
<1>8. ASSUME NEW d \in File!Directory, r2' = Append(r2, d),
             d[File!Current] = File!dir[File!Current],
             d[<<"new", w>>] = File!dir[<<"new", w>>]
      PROVE  File!FileTypes' /\ File!StagedApart' /\ Shape
  <2>1. Quiet
    BY <1>0, <1>8, QuietChange DEF DocumentsKept
  <2>2. /\ r2' \in Seq(File!Directory) /\ r2' # << >> /\ File!dir' = d
        /\ DOMAIN r2' = DOMAIN r2 \cup {Len(r2) + 1}
        /\ \A k \in DOMAIN r2 : r2'[k] = r2[k]
        /\ r2'[Len(r2) + 1] = d
    BY <1>1, <1>8, DirChanged
  <2>3. \A k \in DOMAIN r2' : r2'[k][File!Current] # r4[w].file
    BY <1>1, <1>3, <1>8, <2>2
  <2> QED
    BY <1>5, <1>8, <2>1, <2>2, <2>3 DEF Shape
<1> QED
  BY <1>6, <1>7, <1>8

(* A transaction begins, stages its file and writes it.                     *)
LEMMA StagingSteps ==
    ASSUME File!FileKept, NEW w \in Writers,
           File!Acquire(w) \/ File!CreateTemporary(w) \/ File!WriteTemporary(w)
    PROVE  File!FileTypes' /\ File!StagedApart' /\ Shape
<1>0. File!FileTypes /\ File!Apart(w)
  BY DEF File!FileKept, File!StagedApart
<1>1. /\ Len(r2) \in DOMAIN r2 /\ File!dir = r2[Len(r2)] /\ File!dir \in File!Directory
      /\ r2 \in Seq(File!Directory) /\ r2 # << >>
      /\ r1 \in [FileInodes -> Values \cup {Absent}] /\ r4 \in [Writers -> File!Transaction]
  BY <1>0, DirNow DEF File!FileTypes
<1>2. r4[w] \in File!Transaction
  BY <1>1
<1>3. File!Current' = File!Current
  BY DEF File!Current, File!NoWriter
<1>4. CASE File!Acquire(w)
  <2>1. PICK v \in Values :
            r4' = [r4 EXCEPT ![w] = [File!Idle EXCEPT !.pc = "locked", !.value = v]]
    BY <1>4 DEF File!Acquire
  <2>2. /\ [File!Idle EXCEPT !.pc = "locked", !.value = v] \in File!Transaction
        /\ [File!Idle EXCEPT !.pc = "locked", !.value = v].pc = "locked"
        /\ [File!Idle EXCEPT !.pc = "locked", !.value = v].value = v
    BY DEF File!Idle, File!Transaction, File!Steps
  <2>3. Moved(w) /\ r4'[w].pc = "locked"
    BY <1>1, <1>4, <2>1, <2>2 DEF Moved, File!Acquire
  <2>4. File!Apart(w)'
    BY <2>3 DEF File!Apart, File!Written
  <2>5. r1' = r1 /\ r2' = r2 /\ r3 = Absent
    BY <1>4 DEF File!Acquire, File!NoWriter
  <2>6. Quiet
    BY <1>0, <2>5, QuietChange DEF DocumentsKept
  <2> QED
    BY <1>0, <1>1, <2>3, <2>4, <2>5, <2>6, WriterMoves DEF Shape
<1>5. CASE File!CreateTemporary(w)
  <2> DEFINE i == File!NewInode
             d == [File!dir EXCEPT ![<<"new", w>>] = i]
  <2>1. /\ r4[w].pc = "locked" /\ File!FreeInodes # {} /\ r3' = r3
        /\ r1' = [r1 EXCEPT ![i] = Absent] /\ r2' = Append(r2, d)
        /\ r4' = [r4 EXCEPT ![w].pc = "created", ![w].file = i]
    BY <1>5 DEF File!CreateTemporary, File!At, File!ChangeDir
  <2>2. i \in File!FreeInodes
    BY <2>1 DEF File!NewInode
  <2>3. /\ i \in FileInodes /\ i # 0
        /\ \A k \in DOMAIN r2 : r2[k][File!Current] # i
    BY <2>2, FileParameters, NamesDiffer DEF File!FreeInodes
  <2>4. /\ d \in File!Directory /\ d[File!Current] = File!dir[File!Current]
        /\ d[<<"new", w>>] = i
    BY <1>1, <2>3, NamesDiffer DEF File!Directory
  <2> HIDE DEF i, d
  <2>5. Moved(w) /\ r4'[w].pc = "created" /\ r4'[w].file = i
    <3>1. r3 = w /\ r3 \in Writers \cup {Absent} /\ r4[w].value \in Values
      BY <1>0, <2>1 DEF File!FileTypes, File!At
    <3>2. r4'[w] = [r4[w] EXCEPT !.pc = "created", !.file = i]
      BY <1>1, <2>1
    <3>3. /\ r4'[w] \in File!Transaction /\ r4'[w].pc = "created" /\ r4'[w].file = i
          /\ r4'[w].value = r4[w].value
      BY <1>2, <2>3, <3>2 DEF File!Transaction, File!Steps
    <3> QED
      BY <1>1, <2>1, <3>1, <3>3 DEF Moved
  <2>6. /\ r2' \in Seq(File!Directory) /\ r2' # << >> /\ File!dir' = d
        /\ DOMAIN r2' = DOMAIN r2 \cup {Len(r2) + 1}
        /\ \A k \in DOMAIN r2 : r2'[k] = r2[k]
        /\ r2'[Len(r2) + 1] = d
    BY <1>1, <2>1, <2>4, DirChanged
  <2>7. File!Apart(w)'
    <3>1. \A k \in DOMAIN r2' : r2'[k][File!Current] # i
      BY <1>1, <2>3, <2>4, <2>6
    <3> QED
      BY <1>3, <2>3, <2>4, <2>5, <2>6, <3>1 DEF File!Apart, File!At
  <2>8. DocumentsKept
    <3>1. \A k \in DOMAIN r2 : r2[k][File!Current] \in FileInodes \cup {0}
      BY <1>1, DirNow, NamesDiffer DEF File!Directory
    <3> QED
      BY <1>1, <2>1, <2>3, <3>1 DEF DocumentsKept
  <2>9. Quiet
    BY <1>0, <2>1, <2>4, <2>8, QuietChange
  <2>10. r1' \in [FileInodes -> Values \cup {Absent}] /\ ~File!At(w, "idle")
    BY <1>1, <2>1 DEF File!At
  <2> QED
    BY <1>0, <2>5, <2>6, <2>7, <2>9, <2>10, WriterMoves DEF Shape
<1>6. CASE File!WriteTemporary(w)
  <2>1. /\ r4[w].pc = "created" /\ r2' = r2 /\ r3' = r3
        /\ r1' = [r1 EXCEPT ![r4[w].file] = r4[w].value]
        /\ r4' = [r4 EXCEPT ![w].pc = "staged"]
    BY <1>6 DEF File!WriteTemporary, File!At, File!Goto
  <2>2. r3 = w /\ r4[w].value \in Values
    BY <1>0, <2>1 DEF File!FileTypes, File!At
  <2>3. /\ r4[w].file # 0 /\ File!dir[<<"new", w>>] = r4[w].file
        /\ \A k \in DOMAIN r2 : r2[k][File!Current] # r4[w].file
    BY <1>0, <2>1 DEF File!Apart
  <2>4. r4[w].file \in FileInodes
    BY <1>2, <2>3 DEF File!Transaction
  <2>5. Moved(w) /\ r4'[w].pc = "staged" /\ r4'[w].file = r4[w].file
    <3>1. r4'[w] = [r4[w] EXCEPT !.pc = "staged"]
      BY <1>1, <2>1
    <3>2. /\ r4'[w] \in File!Transaction /\ r4'[w].pc = "staged"
          /\ r4'[w].file = r4[w].file /\ r4'[w].value = r4[w].value
      BY <1>2, <3>1 DEF File!Transaction, File!Steps, File!Written
    <3> QED
      BY <1>1, <2>1, <2>2, <3>2 DEF Moved
  <2>6. File!dir' = File!dir
    BY <2>1 DEF File!dir, File!Last
  <2>7. r1'[r4[w].file] \in Values
    BY <1>1, <2>1, <2>2, <2>4
  <2>8. File!Apart(w)'
    BY <1>3, <2>1, <2>3, <2>5, <2>6, <2>7 DEF File!Apart, File!At
  <2>9. DocumentsKept
    BY <1>1, <2>1, <2>3 DEF DocumentsKept
  <2>10. Quiet
    BY <1>0, <2>1, <2>9, QuietChange
  <2>11. r1' \in [FileInodes -> Values \cup {Absent}] /\ ~File!At(w, "idle")
    BY <1>1, <2>1, <2>2, <2>4 DEF File!At
  <2> QED
    BY <1>0, <1>1, <2>1, <2>5, <2>8, <2>10, <2>11, WriterMoves DEF Shape
<1> QED
  BY <1>4, <1>5, <1>6

(* The predecessor is pinned, linked and published, and the file about to   *)
(* be replaced is checked.                                                  *)
LEMMA PreparingSteps ==
    ASSUME File!FileKept, NEW w \in Writers,
           \/ File!Pin(w) \/ File!Link(w) \/ File!PublishPredecessor(w)
           \/ File!SyncPredecessor(w) \/ Secret!PinPrivate(w) \/ File!Validate(w)
    PROVE  File!FileTypes' /\ File!StagedApart' /\ Shape
<1>0. File!FileTypes
  BY DEF File!FileKept
<1>1. /\ Len(r2) \in DOMAIN r2 /\ File!dir = r2[Len(r2)] /\ File!dir \in File!Directory
      /\ r1 \in [FileInodes -> Values \cup {Absent}] /\ r4 \in [Writers -> File!Transaction]
  BY <1>0, DirNow DEF File!FileTypes
<1>2. /\ r4[w] \in File!Transaction
      /\ \A n \in File!Names : File!dir[n] \in FileInodes \cup {0}
  BY <1>1 DEF File!Directory
<1>3. r1' = r1 /\ r4[w].pc \in File!Written /\ ~File!At(w, "idle")
  BY DEF File!Pin, File!Link, File!PublishPredecessor, File!SyncPredecessor,
         Secret!PinPrivate, File!Validate, File!At, Secret!At, File!Written
<1>4. r3 = w /\ r4[w].value \in Values
  BY <1>0, <1>3 DEF File!FileTypes
(* One field of the transaction, and where it is.                           *)
<1>5. ASSUME NEW t, r3' = r3, r4' = [r4 EXCEPT ![w] = t], t.pc \in File!Written,
             t \in File!Transaction, t.file = r4[w].file, t.value = r4[w].value
      PROVE  Moved(w) /\ r4'[w].pc \in File!Written /\ r4'[w].file = r4[w].file
  <2>1. r4'[w] = t
    BY <1>1, <1>5
  <2> QED
    BY <1>1, <1>4, <1>5, <2>1 DEF Moved
<1>6. ASSUME NEW q \in File!Written, NEW e \in FileInodes \cup {0},
             NEW o \in Values \cup {Absent}
      PROVE  /\ [r4[w] EXCEPT !.pc = q] \in File!Transaction
             /\ [r4[w] EXCEPT !.expected = e, !.pc = q] \in File!Transaction
             /\ [r4[w] EXCEPT !.pc = q, !.expected = e] \in File!Transaction
             /\ [r4[w] EXCEPT !.pc = q, !.replaced = o] \in File!Transaction
  BY <1>2 DEF File!Transaction, File!Steps
<1>7. ASSUME NEW q \in File!Written, r3' = r3, r4' = [r4 EXCEPT ![w].pc = q]
      PROVE  Moved(w) /\ r4'[w].pc \in File!Written /\ r4'[w].file = r4[w].file
  <2>1. /\ r4' = [r4 EXCEPT ![w] = [r4[w] EXCEPT !.pc = q]]
        /\ [r4[w] EXCEPT !.pc = q].file = r4[w].file
        /\ [r4[w] EXCEPT !.pc = q].value = r4[w].value
        /\ [r4[w] EXCEPT !.pc = q].pc = q
    BY <1>1, <1>2, <1>7 DEF File!Transaction
  <2> QED
    BY <1>5, <1>6, <1>7, <2>1, FileParameters
<1>8. CASE File!Pin(w)
  <2> DEFINE q == IF File!dir[File!Current] \in {0, File!dir[File!Previous]}
                  THEN "prepared" ELSE "pinned"
             t == [r4[w] EXCEPT !.expected = File!dir[File!Current], !.pc = q]
  <2>1. /\ r4' = [r4 EXCEPT ![w].expected = File!dir[File!Current], ![w].pc = q]
        /\ r3' = r3 /\ (r2' = r2 \/ r2' = <<File!dir>>)
    BY <1>8 DEF File!Pin, File!SyncDir
  <2>2. q \in File!Written /\ File!dir[File!Current] \in FileInodes \cup {0}
    BY <1>2, NamesDiffer DEF File!Written
  <2> HIDE DEF q
  <2>3. r4' = [r4 EXCEPT ![w] = t]
    BY <1>1, <2>1
  <2>4. t.pc = q /\ t.file = r4[w].file /\ t.value = r4[w].value
    BY <1>2 DEF File!Transaction
  <2>5. t \in File!Transaction
    BY <1>6, <2>2, FileParameters
  <2> HIDE DEF t
  <2>6. Moved(w) /\ r4'[w].pc \in File!Written /\ r4'[w].file = r4[w].file
    BY <1>5, <2>1, <2>2, <2>3, <2>4, <2>5
  <2> QED
    BY <1>3, <2>1, <2>6, InnerStep
<1>9. CASE File!Link(w)
  <2>1. CASE File!Drop(w)
    BY <1>0, <1>3, <2>1, DropStep
  <2>2. CASE ~File!Drop(w)
    <3> DEFINE d == [File!dir EXCEPT ![<<"link", w>>] = File!dir[File!Current]]
    <3>1. r2' = Append(r2, d) /\ r4' = [r4 EXCEPT ![w].pc = "linked"] /\ r3' = r3
      BY <1>9, <2>2 DEF File!Link, File!ChangeDir, File!Goto
    <3>2. /\ d \in File!Directory /\ d[File!Current] = File!dir[File!Current]
          /\ d[<<"new", w>>] = File!dir[<<"new", w>>]
      BY <1>1, <1>2, NamesDiffer DEF File!Directory
    <3>3. Moved(w) /\ r4'[w].pc \in File!Written /\ r4'[w].file = r4[w].file
      BY <1>7, <3>1 DEF File!Written
    <3> QED
      BY <1>3, <3>1, <3>2, <3>3, InnerStep
  <2> QED
    BY <2>1, <2>2
<1>10. CASE File!PublishPredecessor(w)
  <2> DEFINE d == [File!dir EXCEPT ![File!Previous] = File!dir[<<"link", w>>],
                                   ![<<"link", w>>] = 0]
  <2>1. r2' = Append(r2, d) /\ r4' = [r4 EXCEPT ![w].pc = "published"] /\ r3' = r3
    BY <1>10 DEF File!PublishPredecessor, File!ChangeDir, File!Goto
  <2>2. /\ d \in File!Directory /\ d[File!Current] = File!dir[File!Current]
        /\ d[<<"new", w>>] = File!dir[<<"new", w>>]
    BY <1>1, <1>2, NamesDiffer DEF File!Directory
  <2>3. Moved(w) /\ r4'[w].pc \in File!Written /\ r4'[w].file = r4[w].file
    BY <1>7, <2>1 DEF File!Written
  <2> QED
    BY <1>3, <2>1, <2>2, <2>3, InnerStep
<1>11. CASE File!SyncPredecessor(w)
  <2>1. r2' = <<File!dir>> /\ r4' = [r4 EXCEPT ![w].pc = "prepared"] /\ r3' = r3
    BY <1>11 DEF File!SyncPredecessor, File!SyncDir, File!Goto
  <2>2. Moved(w) /\ r4'[w].pc \in File!Written /\ r4'[w].file = r4[w].file
    BY <1>7, <2>1 DEF File!Written
  <2> QED
    BY <1>3, <2>1, <2>2, InnerStep
<1>12. CASE Secret!PinPrivate(w)
  <2>0. Secret!dir = File!dir /\ Secret!Current = File!Current
    BY DEF Secret!dir, File!dir, Secret!Last, File!Last, Secret!Current, File!Current,
           Secret!NoWriter, File!NoWriter
  <2>1. CASE Secret!Drop(w)
    <3>1. File!Drop(w)
      BY <2>0, <2>1 DEF Secret!Drop, File!Drop, Secret!Idle, File!Idle,
                        Secret!NoWriter, File!NoWriter
    <3> QED
      BY <1>0, <1>3, <3>1, DropStep
  <2>2. CASE ~Secret!Drop(w)
    <3> DEFINE t == [r4[w] EXCEPT !.pc = "prepared", !.expected = File!dir[File!Current]]
    <3>1. /\ r4' = [r4 EXCEPT ![w].pc = "prepared", ![w].expected = File!dir[File!Current]]
          /\ r3' = r3 /\ r2' = r2
      BY <1>12, <2>0, <2>2 DEF Secret!PinPrivate
    <3>2. "prepared" \in File!Written /\ File!dir[File!Current] \in FileInodes \cup {0}
      BY <1>2, NamesDiffer DEF File!Written
    <3>3. r4' = [r4 EXCEPT ![w] = t]
      BY <1>1, <3>1
    <3>4. t.pc = "prepared" /\ t.file = r4[w].file /\ t.value = r4[w].value
      BY <1>2 DEF File!Transaction
    <3>5. t \in File!Transaction
      BY <1>6, <3>2, FileParameters
    <3> HIDE DEF t
    <3>6. Moved(w) /\ r4'[w].pc \in File!Written /\ r4'[w].file = r4[w].file
      BY <1>5, <3>1, <3>2, <3>3, <3>4, <3>5
    <3> QED
      BY <1>3, <3>1, <3>6, InnerStep
  <2> QED
    BY <2>1, <2>2
<1>13. CASE File!Validate(w)
  <2>1. CASE File!Drop(w)
    BY <1>0, <1>3, <2>1, DropStep
  <2>2. CASE ~File!Drop(w)
    <3> DEFINE o == File!Document(File!dir)
               t == [r4[w] EXCEPT !.pc = "validated", !.replaced = o]
    <3>1. /\ r4' = [r4 EXCEPT ![w].pc = "validated", ![w].replaced = o]
          /\ r3' = r3 /\ r2' = r2
      BY <1>13, <2>2 DEF File!Validate
    <3>2. "validated" \in File!Written /\ o \in Values \cup {Absent}
      BY <1>1, <1>2, NamesDiffer DEF File!Written, File!Document
    <3> HIDE DEF o
    <3>3. r4' = [r4 EXCEPT ![w] = t]
      BY <1>1, <3>1
    <3>4. t.pc = "validated" /\ t.file = r4[w].file /\ t.value = r4[w].value
      BY <1>2 DEF File!Transaction
    <3>5. t \in File!Transaction
      BY <1>6, <3>2, FileParameters
    <3> HIDE DEF t
    <3>6. Moved(w) /\ r4'[w].pc \in File!Written /\ r4'[w].file = r4[w].file
      BY <1>5, <3>1, <3>2, <3>3, <3>4, <3>5
    <3> QED
      BY <1>3, <3>1, <3>6, InnerStep
  <2> QED
    BY <2>1, <2>2
<1> QED
  BY <1>8, <1>9, <1>10, <1>11, <1>12, <1>13

(* The rename, the end of a transaction, a failure and a read.              *)
LEMMA CommitSteps ==
    ASSUME File!FileKept, NEW w \in Writers,
           File!Rename(w) \/ File!Finish(w) \/ File!Fail(w) \/ File!Read(w)
    PROVE  File!FileTypes' /\ File!StagedApart' /\ Shape
<1>0. File!FileTypes /\ File!Apart(w)
  BY DEF File!FileKept, File!StagedApart
<1>1. /\ Len(r2) \in DOMAIN r2 /\ File!dir = r2[Len(r2)] /\ File!dir \in File!Directory
      /\ r2 \in Seq(File!Directory) /\ r2 # << >>
      /\ r1 \in [FileInodes -> Values \cup {Absent}] /\ r4 \in [Writers -> File!Transaction]
  BY <1>0, DirNow DEF File!FileTypes
<1>2. r4[w] \in File!Transaction
  BY <1>1
<1>3. CASE File!Rename(w)
  <2> DEFINE d == [File!dir EXCEPT ![File!Current] = File!dir[<<"new", w>>],
                                   ![<<"new", w>>] = 0]
  <2>1. /\ r4[w].pc = "validated" /\ r1' = r1 /\ r2' = Append(r2, d) /\ r3' = r3
        /\ r4' = [r4 EXCEPT ![w].pc = "renamed"]
    BY <1>3 DEF File!Rename, File!At, File!ChangeDir, File!Goto
  <2>2. /\ r4[w].file # 0 /\ File!dir[<<"new", w>>] = r4[w].file
        /\ r1[r4[w].file] \in Values
    BY <1>0, <2>1 DEF File!Apart, File!At, File!Written
  <2>3. d \in File!Directory /\ d[File!Current] = r4[w].file
    BY <1>1, <2>2, NamesDiffer DEF File!Directory
  <2> HIDE DEF d
  <2>4. Replaced
    BY <2>1, <2>2, <2>3 DEF Replaced, DocumentsKept
  <2>5. r2' \in Seq(File!Directory) /\ r2' # << >>
    BY <1>1, <2>1, <2>3, DirChanged
  <2>6. r3 = w /\ r4[w].value \in Values
    BY <1>0, <2>1 DEF File!FileTypes, File!At
  <2>7. Moved(w) /\ r4'[w].pc = "renamed"
    <3>1. r4'[w] = [r4[w] EXCEPT !.pc = "renamed"]
      BY <1>1, <2>1
    <3>2. /\ r4'[w] \in File!Transaction /\ r4'[w].pc = "renamed"
          /\ r4'[w].value = r4[w].value
      BY <1>2, <3>1 DEF File!Transaction, File!Steps
    <3> QED
      BY <1>1, <2>1, <2>6, <3>2 DEF Moved
  <2>8. File!Apart(w)' /\ ~File!At(w, "idle")
    BY <2>1, <2>7 DEF File!Apart, File!Written, File!At
  <2> QED
    BY <1>0, <1>1, <2>1, <2>4, <2>5, <2>7, <2>8, WriterMoves DEF Shape
<1>4. CASE File!Finish(w)
  <2>1. /\ r4[w].pc = "renamed" /\ r1' = r1 /\ r2' = <<File!dir>> /\ r3' = Absent
        /\ r4' = [r4 EXCEPT ![w] = File!Idle]
    BY <1>4 DEF File!Finish, File!At, File!SyncDir, File!NoWriter
  <2>2. File!Idle \in File!Transaction /\ File!Idle.pc = "idle"
    BY DEF File!Idle, File!Transaction, File!Steps
  <2>3. Moved(w) /\ r4'[w].pc = "idle"
    BY <1>1, <2>1, <2>2 DEF Moved
  <2>4. File!Apart(w)' /\ ~File!At(w, "idle")
    BY <2>1, <2>3 DEF File!Apart, File!Written, File!At
  <2>5. r2' \in Seq(File!Directory) /\ r2' # << >>
    BY <1>1, <2>1, DirSynced
  <2> QED
    BY <1>0, <1>1, <2>1, <2>3, <2>4, <2>5, WriterMoves DEF Shape, Synced
<1>5. CASE File!Fail(w)
  <2>1. ~File!At(w, "idle") /\ File!Drop(w) /\ r1' = r1
    BY <1>5 DEF File!Fail
  <2> QED
    BY <1>0, <2>1, DropStep
<1>6. CASE File!Read(w)
  <2>1. r1' = r1 /\ r2' = r2 /\ r3' = r3 /\ r4' = r4
    BY <1>6 DEF File!Read
  <2>2. Quiet
    BY <1>0, <2>1, QuietChange DEF DocumentsKept
  <2>3. File!FileTypes' /\ File!StagedApart'
    BY <2>1 DEF File!FileKept, File!FileTypes, File!StagedApart, File!Apart, File!At,
                File!dir, File!Last, File!Directory, File!Names, File!Transaction,
                File!Current, File!Previous, File!NoWriter, File!Steps, File!Written
  <2> QED
    BY <2>2, <2>3 DEF Shape
<1> QED
  BY <1>3, <1>4, <1>5, <1>6

(* A power loss, and a program that takes no lock.                          *)
LEMMA OutsideSteps ==
    ASSUME File!FileKept, File!Crash \/ File!Edit
    PROVE  File!FileTypes' /\ File!StagedApart' /\ Shape
<1>0. File!FileTypes /\ File!StagedApart
  BY DEF File!FileKept
<1>1. /\ Len(r2) \in DOMAIN r2 /\ File!dir = r2[Len(r2)] /\ File!dir \in File!Directory
      /\ r2 \in Seq(File!Directory) /\ r2 # << >>
      /\ \A k \in DOMAIN r2 : r2[k] \in File!Directory
      /\ r1 \in [FileInodes -> Values \cup {Absent}] /\ r4 \in [Writers -> File!Transaction]
  BY <1>0, DirNow DEF File!FileTypes
<1>2. File!Current' = File!Current
  BY DEF File!Current, File!NoWriter
<1>3. CASE File!Crash
  <2>1. PICK k \in DOMAIN r2 : r2' = <<r2[k]>>
    BY <1>3 DEF File!Crash
  <2>2. r1' = r1 /\ r3' = Absent /\ r4' = [w \in Writers |-> File!Idle]
    BY <1>3 DEF File!Crash, File!NoWriter
  <2>3. File!Idle \in File!Transaction /\ File!Idle.pc = "idle"
    BY DEF File!Idle, File!Transaction, File!Steps
  <2>4. r2' \in Seq(File!Directory) /\ r2' # << >>
    BY <1>1, <2>1, DirSynced
  <2>5. r4' \in [Writers -> File!Transaction] /\ \A w \in Writers : r4'[w].pc = "idle"
    BY <2>2, <2>3
  <2>6. File!FileTypes'
    BY <1>1, <2>2, <2>4, <2>5
       DEF File!FileTypes, File!At, File!NoWriter, File!Directory, File!Names, File!Current,
           File!Previous, File!Transaction, File!Steps, File!Written
  <2>7. File!StagedApart'
    BY <2>5 DEF File!StagedApart, File!Apart, File!Written
  <2> QED
    BY <2>1, <2>2, <2>6, <2>7 DEF Shape, Lost
<1>4. CASE File!Edit
  <2> DEFINE i == File!NewInode
             d == [File!dir EXCEPT ![File!Current] = i]
  <2>1. PICK v \in Values : r1' = [r1 EXCEPT ![i] = v] /\ r2' = Append(r2, d)
    BY <1>4 DEF File!Edit, File!ChangeDir
  <2>2. UNCHANGED <<r3, r4>> /\ File!FreeInodes # {}
    BY <1>4 DEF File!Edit
  <2>3. i \in File!FreeInodes
    BY <2>2 DEF File!NewInode
  <2>4. /\ i \in FileInodes /\ i # 0
        /\ \A k \in DOMAIN r2 : r2[k][File!Current] # i
        /\ \A w \in Writers : r4[w].file # i
    BY <2>3, FileParameters, NamesDiffer DEF File!FreeInodes
  <2>5. /\ d \in File!Directory /\ d[File!Current] = i
        /\ \A w \in Writers : d[<<"new", w>>] = File!dir[<<"new", w>>]
    BY <1>1, <2>4, NamesDiffer DEF File!Directory
  <2> HIDE DEF i, d
  <2>6. /\ r2' \in Seq(File!Directory) /\ r2' # << >> /\ File!dir' = d
        /\ DOMAIN r2' = DOMAIN r2 \cup {Len(r2) + 1}
        /\ \A k \in DOMAIN r2 : r2'[k] = r2[k]
        /\ r2'[Len(r2) + 1] = d
    BY <1>1, <2>1, <2>5, DirChanged
  <2>7. r1' \in [FileInodes -> Values \cup {Absent}] /\ r1'[i] = v
    BY <1>1, <2>1, <2>4
  <2>8. File!FileTypes'
    BY <1>0, <2>2, <2>6, <2>7
       DEF File!FileTypes, File!At, File!NoWriter, File!Directory, File!Names, File!Current,
           File!Previous, File!Transaction, File!Steps, File!Written
  <2>9. ASSUME NEW w \in Writers, r4[w].pc \in File!Written \cup {"created"}
        PROVE  /\ r4[w].file # 0 /\ File!dir'[<<"new", w>>] = r4[w].file
               /\ \A k \in DOMAIN r2' : r2'[k][File!Current] # r4[w].file
               /\ r4[w].pc # "created" => r1'[r4[w].file] \in Values
    <3>1. /\ r4[w].file # 0 /\ File!dir[<<"new", w>>] = r4[w].file
          /\ \A k \in DOMAIN r2 : r2[k][File!Current] # r4[w].file
          /\ r4[w].pc # "created" => r1[r4[w].file] \in Values
      BY <1>0, <2>9 DEF File!StagedApart, File!Apart, File!At
    <3>2. r4[w].file \in FileInodes
      BY <1>1, <3>1 DEF File!Transaction
    <3> QED
      BY <1>1, <2>1, <2>4, <2>5, <2>6, <3>1, <3>2
  <2>10. File!StagedApart'
    BY <1>2, <2>2, <2>9 DEF File!StagedApart, File!Apart, File!At, File!Written
  <2>11. DocumentsKept
    <3>1. \A k \in DOMAIN r2 : r2[k][File!Current] \in FileInodes \cup {0}
      BY <1>1, NamesDiffer DEF File!Directory
    <3> QED
      BY <1>1, <2>1, <2>4, <3>1 DEF DocumentsKept
  <2>12. Replaced
    BY <2>1, <2>4, <2>5, <2>7, <2>11 DEF Replaced
  <2> QED
    BY <2>8, <2>10, <2>12 DEF Shape
<1> QED
  BY <1>3, <1>4

(* Every step keeps the invariant, and has one of the four shapes.          *)
LEMMA FileStep ==
    ASSUME File!FileKept,
           File!Next \/ \E w \in Writers : Secret!PinPrivate(w)
    PROVE  File!FileKept' /\ Shape
<1>1. File!FileTypes' /\ File!StagedApart' /\ Shape
  <2>1. ASSUME NEW w \in Writers PROVE ~File!PinPrivate(w)
    BY DEF File!PinPrivate
  <2> QED
    BY <2>1, StagingSteps, PreparingSteps, CommitSteps, OutsideSteps DEF File!Next, File!Step
<1>2. File!WholeDocuments'
  BY <1>1, ShapeKeepsWhole DEF File!FileKept
<1> QED
  BY <1>1, <1>2 DEF File!FileKept

(* At first there is no file.                                               *)
LEMMA FileStarts == File!Init => File!FileKept
<1> SUFFICES ASSUME File!Init PROVE File!FileKept
  OBVIOUS
<1> DEFINE d == [n \in File!Names |-> 0]
<1>1. /\ r1 = [i \in FileInodes |-> Absent] /\ r2 = <<d>> /\ r3 = Absent
      /\ r4 = [w \in Writers |-> File!Idle]
  BY DEF File!Init, File!NoWriter
<1>2. d \in File!Directory /\ d[File!Current] = 0
  BY NamesDiffer DEF File!Directory
<1> HIDE DEF d
<1>3. r2 \in Seq(File!Directory) /\ r2 # << >> /\ DOMAIN r2 = {1} /\ r2[1] = d
  BY <1>1, <1>2
<1>4. File!Idle \in File!Transaction /\ File!Idle.pc = "idle"
  BY DEF File!Idle, File!Transaction, File!Steps
<1>5. r4 \in [Writers -> File!Transaction] /\ \A w \in Writers : r4[w].pc = "idle"
  BY <1>1, <1>4
<1>6. File!FileTypes
  BY <1>1, <1>3, <1>5 DEF File!FileTypes, File!At, File!NoWriter
<1>7. File!StagedApart
  BY <1>5 DEF File!StagedApart, File!Apart, File!Written
<1>8. File!WholeDocuments
  BY <1>2, <1>3 DEF File!WholeDocuments
<1> QED
  BY <1>6, <1>7, <1>8 DEF File!FileKept

(* The two kinds of write take the same steps, but for the one that pins    *)
(* the current file.                                                        *)
Ordinary(w) ==
    \/ File!Acquire(w) \/ File!CreateTemporary(w) \/ File!WriteTemporary(w) \/ File!Link(w)
    \/ File!PublishPredecessor(w) \/ File!SyncPredecessor(w)
    \/ File!Validate(w) \/ File!Rename(w) \/ File!Finish(w) \/ File!Fail(w) \/ File!Read(w)

(* The steps of an ordinary write.                                          *)
LEMMA OrdinarySteps ==
    ASSUME File!Next
    PROVE  \/ \E w \in Writers : Ordinary(w) \/ File!Pin(w)
           \/ File!Crash \/ File!Edit
<1>1. \A w \in Writers : ~File!PinPrivate(w)
  BY DEF File!PinPrivate
<1> QED
  BY <1>1 DEF File!Next, File!Step, Ordinary

(* A secret's file starts as any other.                                     *)
LEMMA SecretStarts == Secret!Init => File!Init
BY DEF Secret!Init, File!Init, Secret!Names, File!Names, Secret!Current, File!Current,
       Secret!Previous, File!Previous, Secret!NoWriter, File!NoWriter, Secret!Idle, File!Idle

(* The steps of a secret's write: it pins in its own way.                   *)
LEMMA SecretSteps ==
    ASSUME Secret!Next
    PROVE  \/ \E w \in Writers : Ordinary(w) \/ Secret!PinPrivate(w)
           \/ File!Crash \/ File!Edit
<1>1. /\ Secret!NoWriter = File!NoWriter /\ Secret!Idle = File!Idle
      /\ Secret!Current = File!Current /\ Secret!Names = File!Names
      /\ Secret!dir = File!dir /\ Secret!SyncDir = File!SyncDir
  BY DEF Secret!NoWriter, File!NoWriter, Secret!Idle, File!Idle, Secret!Current, File!Current,
         Secret!Previous, File!Previous, Secret!Names, File!Names, Secret!dir, File!dir,
         Secret!Last, File!Last, Secret!SyncDir, File!SyncDir
<1>2. Secret!FreeInodes = File!FreeInodes /\ Secret!NewInode = File!NewInode
  BY <1>1 DEF Secret!FreeInodes, File!FreeInodes, Secret!NewInode, File!NewInode
<1>3. ASSUME NEW w \in Writers, Secret!Step(w) PROVE Ordinary(w) \/ Secret!PinPrivate(w)
  <2>1. Secret!Acquire(w) => File!Acquire(w)
    BY <1>1 DEF Secret!Acquire, File!Acquire, Secret!At, File!At
  <2>2. Secret!CreateTemporary(w) => File!CreateTemporary(w)
    BY <1>1, <1>2 DEF Secret!CreateTemporary, File!CreateTemporary, Secret!At, File!At,
       Secret!ChangeDir, File!ChangeDir
  <2>3. Secret!WriteTemporary(w) => File!WriteTemporary(w)
    BY DEF Secret!WriteTemporary, File!WriteTemporary, Secret!At, File!At, Secret!Goto, File!Goto
  <2>4. ~Secret!Pin(w)
    BY DEF Secret!Pin
  <2>5. Secret!Drop(w) => File!Drop(w)
    BY <1>1 DEF Secret!Drop, File!Drop
  <2>6. Secret!Link(w) => File!Link(w)
    BY <1>1, <2>5 DEF Secret!Link, File!Link, Secret!At, File!At, Secret!Goto, File!Goto,
       Secret!ChangeDir, File!ChangeDir
  <2>7. Secret!PublishPredecessor(w) => File!PublishPredecessor(w)
    BY <1>1 DEF Secret!PublishPredecessor, File!PublishPredecessor, Secret!At, File!At,
       Secret!Goto, File!Goto, Secret!ChangeDir, File!ChangeDir, Secret!Previous, File!Previous,
       Secret!NoWriter, File!NoWriter
  <2>8. Secret!SyncPredecessor(w) => File!SyncPredecessor(w)
    BY <1>1 DEF Secret!SyncPredecessor, File!SyncPredecessor, Secret!At, File!At,
       Secret!Goto, File!Goto
  <2>9. Secret!Validate(w) => File!Validate(w)
    BY <1>1, <2>5 DEF Secret!Validate, File!Validate, Secret!At, File!At,
       Secret!Document, File!Document
  <2>10. Secret!Rename(w) => File!Rename(w)
    BY <1>1 DEF Secret!Rename, File!Rename, Secret!At, File!At, Secret!Goto, File!Goto,
       Secret!ChangeDir, File!ChangeDir
  <2>11. Secret!Finish(w) => File!Finish(w)
    BY <1>1 DEF Secret!Finish, File!Finish, Secret!At, File!At
  <2>12. Secret!Fail(w) => File!Fail(w)
    BY <2>5 DEF Secret!Fail, File!Fail, Secret!At, File!At
  <2>13. Secret!Read(w) => File!Read(w)
    <3>1. ASSUME NEW S PROVE Secret!Cardinality(S) = File!Cardinality(S)
      BY Zenon DEF Secret!Cardinality, File!Cardinality
    <3>2. \A d, i : Secret!Links(d, i) = File!Links(d, i)
      BY <1>1, <3>1 DEF Secret!Links, File!Links
    <3>3. \A d : Secret!Readable(d) <=> File!Readable(d)
      BY <1>1, <3>2 DEF Secret!Readable, File!Readable
    <3>4. \A d : Secret!Document(d) = File!Document(d)
      BY <1>1 DEF Secret!Document, File!Document
    <3> QED
      BY <1>1, <3>3, <3>4 DEF Secret!Read, File!Read, Secret!At, File!At
  <2> QED
    BY <1>3, <2>1, <2>2, <2>3, <2>4, <2>6, <2>7, <2>8, <2>9, <2>10, <2>11, <2>12, <2>13
       DEF Secret!Step, Ordinary
<1>4. Secret!Crash => File!Crash
  BY <1>1 DEF Secret!Crash, File!Crash
<1>5. Secret!Edit => File!Edit
  BY <1>1, <1>2 DEF Secret!Edit, File!Edit, Secret!ChangeDir, File!ChangeDir
<1> QED
  BY <1>3, <1>4, <1>5 DEF Secret!Next

(* The storage layer keeps the promise of PrivateFile: whatever writers,    *)
(* failing operations, power losses and editors outside the lock do, the    *)
(* path names no file or a whole document, a transaction replaces it in one *)
(* step, and a crash leaves a document that was current since the last sync *)
(* of the directory, for atomic_write and for its variant that keeps no     *)
(* predecessor.                                                             *)
THEOREM FilesImplementPrivateFile == ServicesSpec => ImplementsPrivateFile
<1> DEFINE Inv == IsFile => File!FileKept
<1>1. ServicesInit => Inv
  <2>1. ServicesInit /\ IsFile => File!Init \/ Secret!Init
    BY DEF ServicesInit, Starts, IsFile
  <2> QED
    BY <2>1, FileStarts, SecretStarts
<1>2. ServicesInit => Abstract!Init
  <2>1. ASSUME File!Init PROVE File!Document(File!dir) = Absent /\ DOMAIN r2 = {1}
                               /\ File!Document(r2[1]) = Absent
    <3>1. r2 = <<[n \in File!Names |-> 0]>>
      BY <2>1 DEF File!Init
    <3>2. Len(r2) = 1 /\ DOMAIN r2 = {1} /\ r2[1][File!Current] = 0
      BY <3>1, NamesDiffer
    <3> QED
      BY <3>2 DEF File!Document, File!dir, File!Last
  <2>2. ASSUME File!Init
        PROVE  {File!Document(r2[k]) : k \in DOMAIN r2} = {Absent}
    BY <2>1, <2>2
  <2>3. ServicesInit /\ IsFile => File!Init
    <3>1. ServicesInit /\ IsFile => File!Init \/ Secret!Init
      BY DEF ServicesInit, Starts, IsFile
    <3> QED
      BY <3>1, SecretStarts
  <2> QED
    BY <2>1, <2>2, <2>3 DEF Abstract!Init
<1>3. Inv /\ [ServicesNext]_all => Inv' /\ [Abstract!Next]_(Abstract!vars)
  <2> SUFFICES ASSUME Inv, [ServicesNext]_all
               PROVE  Inv' /\ [Abstract!Next]_(Abstract!vars)
    OBVIOUS
  <2>1. machine' = machine /\ (IsFile' <=> IsFile)
    BY MachineIsFixed DEF IsFile
  <2>2. CASE ~IsFile
    BY <2>1, <2>2 DEF Abstract!vars
  <2>3. CASE IsFile /\ ServicesNext
    <3>1. File!Next \/ \E w \in Writers : Secret!PinPrivate(w)
      <4>1. \A w \in Writers : Ordinary(w) => File!Step(w)
        BY DEF Ordinary, File!Step
      <4> QED
        BY <2>3, <4>1, SecretSteps DEF ServicesNext, Runs, IsFile, File!Next
    <3>2. File!FileKept' /\ Shape
      BY <2>3, <3>1, FileStep
    <3> QED
      BY <2>1, <2>3, <3>2, ShapeImplements DEF File!FileKept
  <2>4. CASE IsFile /\ UNCHANGED all
    <3>1. r1' = r1 /\ r2' = r2 /\ r3' = r3 /\ r4' = r4
      BY <2>4 DEF all, registers
    <3>2. File!FileKept'
      BY <2>4, <3>1 DEF File!FileKept, File!FileTypes, File!StagedApart, File!Apart, File!At,
         File!WholeDocuments, File!dir, File!Last
    <3>3. UNCHANGED Abstract!vars
      BY <2>1, <3>1 DEF Abstract!vars, File!Document, File!dir, File!Last
    <3> QED
      BY <3>2, <3>3
  <2> QED
    BY <2>2, <2>3, <2>4
<1> QED
  BY <1>1, <1>2, <1>3, PTL DEF ServicesSpec, ImplementsPrivateFile, Abstract!Spec

(****************************************************************************)
(* What of the private files survives.                                      *)
(****************************************************************************)
(* Durability.  Without an edit or a failure nothing but a rename puts an   *)
(* entry under the path.                                                    *)
LEMMA BudgetStep ==
    ASSUME File!BudgetKept,
           \/ \E w \in Writers : Ordinary(w) \/ File!Pin(w) \/ Secret!PinPrivate(w)
           \/ File!Crash \/ File!Edit
    PROVE  File!BudgetKept'
<1>1. MaxFailures \in Nat /\ MaxEdits \in Nat
  BY ServicesAssumption DEF File!FileAssumption
<1>2. r6' = r6 \/ \E b \in {"writes", "failures", "crashes", "edits"} :
                      r6[b] > 0 /\ r6' = [r6 EXCEPT ![b] = @ - 1]
  BY DEF Ordinary, File!Acquire, File!CreateTemporary, File!WriteTemporary, File!Link,
         File!PublishPredecessor, File!SyncPredecessor, File!Validate, File!Rename, File!Finish,
         File!Fail, File!Read, File!Pin, Secret!PinPrivate, File!Crash, File!Edit
<1> QED
  BY <1>1, <1>2 DEF File!BudgetKept

(* A change of other entries keeps the promise about what is not synced     *)
(* yet.                                                                     *)
LEMMA UnsyncedKept ==
    ASSUME File!FileTypes, File!OnlyRenamesUnsynced, r6' = r6 \/ \E q : r6' = [r6 EXCEPT !.writes = q],
           File!BudgetKept,
           \A v \in Writers : r4[v].pc = "renamed" => r4'[v].pc = "renamed",
           \/ r2' = r2
           \/ \E d \in File!Directory : /\ r2' = Append(r2, d)
                                        /\ d[File!Current] = File!dir[File!Current]
    PROVE  File!OnlyRenamesUnsynced'
<1>1. /\ Len(r2) \in DOMAIN r2 /\ File!dir = r2[Len(r2)]
      /\ r2 \in Seq(File!Directory) /\ r2 # << >>
  BY DirNow DEF File!FileTypes
<1>2. r6'.edits = r6.edits /\ r6'.failures = r6.failures
  BY DEF File!BudgetKept
<1>3. CASE r2' = r2
  BY <1>2, <1>3 DEF File!OnlyRenamesUnsynced, File!At, File!dir, File!Last, File!Current, File!NoWriter
<1>4. ASSUME NEW d \in File!Directory, r2' = Append(r2, d),
             d[File!Current] = File!dir[File!Current]
      PROVE  File!OnlyRenamesUnsynced'
  <2>1. /\ File!dir' = d /\ DOMAIN r2' = DOMAIN r2 \cup {Len(r2) + 1}
        /\ \A k \in DOMAIN r2 : r2'[k] = r2[k]
        /\ r2'[Len(r2) + 1] = d
    BY <1>1, <1>4, DirChanged
  <2>2. File!Current' = File!Current
    BY DEF File!Current, File!NoWriter
  <2> QED
    BY <1>2, <1>4, <2>1, <2>2 DEF File!OnlyRenamesUnsynced, File!At
<1> QED
  BY <1>3, <1>4

(* A secret's write is dropped as any other.                                *)
LEMMA SameDrop == \A w : Secret!Drop(w) => File!Drop(w)
BY DEF Secret!Drop, File!Drop, Secret!Idle, File!Idle,
       Secret!NoWriter, File!NoWriter, Secret!dir, File!dir, Secret!Last, File!Last

(* Every step keeps that promise.                                           *)
LEMMA UnsyncedStep ==
    ASSUME File!FileTypes, File!BudgetKept, File!OnlyRenamesUnsynced,
           \/ \E w \in Writers : Ordinary(w) \/ File!Pin(w) \/ Secret!PinPrivate(w)
           \/ File!Crash \/ File!Edit
    PROVE  File!OnlyRenamesUnsynced'
<1>1. /\ Len(r2) \in DOMAIN r2 /\ File!dir = r2[Len(r2)] /\ File!dir \in File!Directory
      /\ r2 \in Seq(File!Directory) /\ r2 # << >>
      /\ \A k \in DOMAIN r2 : r2[k] \in File!Directory
      /\ r4 \in [Writers -> File!Transaction]
  BY DirNow DEF File!FileTypes
<1>2. /\ r6.edits \in 0..MaxEdits /\ r6.failures \in 0..MaxFailures
      /\ MaxFailures \in Nat /\ MaxEdits \in Nat
  BY ServicesAssumption DEF File!BudgetKept, File!FileAssumption
<1>3. ASSUME NEW d \in File!Directory, r2' = <<d>> PROVE File!OnlyRenamesUnsynced'
  <2>1. File!dir' = d /\ DOMAIN r2' = {1} /\ r2'[1] = d
    BY <1>3, DirSynced
  <2> QED
    BY <2>1 DEF File!OnlyRenamesUnsynced
<1>4. CASE File!Crash
  BY <1>1, <1>3, <1>4 DEF File!Crash
<1>5. CASE File!Edit
  <2>1. r6'.edits = r6.edits - 1
    BY <1>5 DEF File!Edit, File!BudgetKept
  <2> QED
    BY <1>2, <2>1 DEF File!OnlyRenamesUnsynced
<1>6. ASSUME NEW w \in Writers, Ordinary(w) \/ File!Pin(w) \/ Secret!PinPrivate(w)
      PROVE  File!OnlyRenamesUnsynced'
  <2>1. CASE File!Fail(w)
    <3>1. r6'.failures = r6.failures - 1
      BY <2>1 DEF File!Fail, File!BudgetKept
    <3> QED
      BY <1>2, <3>1 DEF File!OnlyRenamesUnsynced
  <2>2. CASE File!Rename(w)
    <3>1. r4'[w].pc = "renamed"
      BY <1>1, <2>2 DEF File!Rename, File!Goto, File!Transaction
    <3> QED
      BY <3>1 DEF File!OnlyRenamesUnsynced, File!At
  <2>3. CASE File!Finish(w) \/ File!SyncPredecessor(w)
    BY <1>1, <1>3, <2>3 DEF File!Finish, File!SyncPredecessor, File!SyncDir
  <2>4. ASSUME NEW t, r4' = [r4 EXCEPT ![w] = t], r4[w].pc # "renamed"
        PROVE  \A v \in Writers : r4[v].pc = "renamed" => r4'[v].pc = "renamed"
    BY <1>1, <2>4
  <2>5. ASSUME File!Drop(w) \/ Secret!Drop(w), r4[w].pc # "renamed", r6' = r6
        PROVE  File!OnlyRenamesUnsynced'
    <3> DEFINE d == [File!dir EXCEPT ![<<"new", w>>] = 0, ![<<"link", w>>] = 0]
    <3>1. File!Drop(w)
      BY <2>5, SameDrop
    <3>2. /\ r4' = [r4 EXCEPT ![w] = File!Idle]
          /\ r2' = r2 \/ r2' = Append(r2, d)
      BY <3>1 DEF File!Drop
    <3>3. d \in File!Directory /\ d[File!Current] = File!dir[File!Current]
      BY <1>1, NamesDiffer DEF File!Directory
    <3> HIDE DEF d
    <3> QED
      BY <2>4, <2>5, <3>2, <3>3, UnsyncedKept
  (* The steps that change the transaction and no directory.                *)
  <2>6. ASSUME NEW t, r4' = [r4 EXCEPT ![w] = t], r4[w].pc # "renamed", r2' = r2,
               r6' = r6 \/ \E q : r6' = [r6 EXCEPT !.writes = q]
        PROVE  File!OnlyRenamesUnsynced'
    BY <2>4, <2>6, UnsyncedKept
  <2>7. ASSUME NEW n \in File!Names \ {File!Current}, NEW i \in FileInodes \cup {0},
               NEW m \in File!Names \ {File!Current}, NEW j \in FileInodes \cup {0},
               r2' = Append(r2, [[File!dir EXCEPT ![n] = i] EXCEPT ![m] = j]),
               NEW t, r4' = [r4 EXCEPT ![w] = t], r4[w].pc # "renamed", r6' = r6
        PROVE  File!OnlyRenamesUnsynced'
    <3> DEFINE d == [[File!dir EXCEPT ![n] = i] EXCEPT ![m] = j]
    <3>1. d \in File!Directory /\ d[File!Current] = File!dir[File!Current]
      BY <1>1, NamesDiffer DEF File!Directory
    <3> HIDE DEF d
    <3> QED
      BY <2>4, <2>7, <3>1, UnsyncedKept DEF d
  <2>8. /\ File!Previous \in File!Names \ {File!Current}
        /\ <<"new", w>> \in File!Names \ {File!Current}
        /\ <<"link", w>> \in File!Names \ {File!Current}
        /\ File!dir[File!Current] \in FileInodes \cup {0}
        /\ File!dir[<<"link", w>>] \in FileInodes \cup {0}
    BY <1>1, NamesDiffer DEF File!Directory
  <2>9. CASE File!Acquire(w)
    <3>1. \E v \in Values :
              r4' = [r4 EXCEPT ![w] = [File!Idle EXCEPT !.pc = "locked", !.value = v]]
      BY <2>9 DEF File!Acquire
    <3>2. r4[w].pc # "renamed" /\ r2' = r2 /\ r6' = [r6 EXCEPT !.writes = r6.writes - 1]
      BY <2>9 DEF File!Acquire, File!At
    <3> QED
      BY <2>6, <3>1, <3>2
  <2>10. CASE File!CreateTemporary(w)
    <3>1. File!NewInode \in FileInodes
      BY <2>10 DEF File!CreateTemporary, File!NewInode, File!FreeInodes
    <3>2. /\ r2' = Append(r2, [File!dir EXCEPT ![<<"new", w>>] = File!NewInode])
          /\ r4' = [r4 EXCEPT ![w] = [r4[w] EXCEPT !.pc = "created", !.file = File!NewInode]]
          /\ r4[w].pc # "renamed" /\ r6' = r6
      BY <1>1, <2>10 DEF File!CreateTemporary, File!ChangeDir, File!At
    <3>3. [File!dir EXCEPT ![<<"new", w>>] = File!NewInode]
            = [[File!dir EXCEPT ![<<"new", w>>] = File!NewInode]
                  EXCEPT ![<<"new", w>>] = File!NewInode]
      BY <1>1, <2>8 DEF File!Directory
    <3> QED
      BY <2>7, <2>8, <3>1, <3>2, <3>3
  <2>11. CASE File!WriteTemporary(w)
    <3>1. /\ r4' = [r4 EXCEPT ![w] = [r4[w] EXCEPT !.pc = "staged"]]
          /\ r4[w].pc # "renamed" /\ r6' = r6 /\ r2' = r2
      BY <1>1, <2>11 DEF File!WriteTemporary, File!Goto, File!At
    <3> QED
      BY <2>6, <3>1
  <2>12. CASE File!Link(w)
    <3>1. r4[w].pc # "renamed" /\ r6' = r6
      BY <2>12 DEF File!Link, File!At
    <3>2. CASE ~File!Drop(w)
      <4>1. /\ r2' = Append(r2, [File!dir EXCEPT ![<<"link", w>>] = File!dir[File!Current]])
            /\ r4' = [r4 EXCEPT ![w] = [r4[w] EXCEPT !.pc = "linked"]]
        BY <1>1, <2>12, <3>2 DEF File!Link, File!ChangeDir, File!Goto
      <4>2. [File!dir EXCEPT ![<<"link", w>>] = File!dir[File!Current]]
              = [[File!dir EXCEPT ![<<"link", w>>] = File!dir[File!Current]]
                    EXCEPT ![<<"link", w>>] = File!dir[File!Current]]
        BY <1>1, <2>8 DEF File!Directory
      <4> QED
        BY <2>7, <2>8, <3>1, <4>1, <4>2
    <3> QED
      BY <2>5, <3>1, <3>2
  <2>13. CASE File!PublishPredecessor(w)
    <3>1. /\ r2' = Append(r2, [[File!dir EXCEPT ![File!Previous] = File!dir[<<"link", w>>]]
                                   EXCEPT ![<<"link", w>>] = 0])
          /\ r4' = [r4 EXCEPT ![w] = [r4[w] EXCEPT !.pc = "published"]]
          /\ r4[w].pc # "renamed" /\ r6' = r6
      BY <1>1, <2>8, <2>13 DEF File!PublishPredecessor, File!ChangeDir, File!Goto, File!At,
         File!Directory
    <3> QED
      BY <2>7, <2>8, <3>1
  <2>14. CASE File!Validate(w)
    <3>1. r4[w].pc # "renamed" /\ r6' = r6
      BY <2>14 DEF File!Validate, File!At
    <3>2. CASE ~File!Drop(w)
      <4>1. /\ r4' = [r4 EXCEPT ![w] =
                         [r4[w] EXCEPT !.pc = "validated", !.replaced = File!Document(File!dir)]]
            /\ r2' = r2
        BY <1>1, <2>14, <3>2 DEF File!Validate
      <4> QED
        BY <2>6, <3>1, <4>1
    <3> QED
      BY <2>5, <3>1, <3>2
  <2>15. CASE File!Read(w)
    BY <2>15, UnsyncedKept DEF File!Read
  <2>16. CASE File!Pin(w)
    <3>1. CASE r2' = <<File!dir>>
      BY <1>1, <1>3, <3>1
    <3>2. CASE r2' # <<File!dir>>
      <4> DEFINE q == IF File!dir[File!Current] \in {0, File!dir[File!Previous]}
                      THEN "prepared" ELSE "pinned"
      <4>1. /\ r4' = [r4 EXCEPT ![w] = [r4[w] EXCEPT !.expected = File!dir[File!Current], !.pc = q]]
            /\ r2' = r2 /\ r6' = r6 /\ r4[w].pc # "renamed"
        BY <1>1, <2>16, <3>2 DEF File!Pin, File!At, File!SyncDir
      <4> QED
        BY <2>6, <4>1
    <3> QED
      BY <3>1, <3>2
  <2>17. CASE Secret!PinPrivate(w)
    <3>1. r4[w].pc # "renamed" /\ r6' = r6
      BY <2>17 DEF Secret!PinPrivate, Secret!At
    <3>2. CASE ~Secret!Drop(w)
      <4>1. /\ r4' = [r4 EXCEPT ![w] =
                         [r4[w] EXCEPT !.pc = "prepared", !.expected = Secret!dir[Secret!Current]]]
            /\ r2' = r2
        BY <1>1, <2>17, <3>2 DEF Secret!PinPrivate
      <4> QED
        BY <2>6, <3>1, <4>1
    <3> QED
      BY <2>5, <3>1, <3>2
  <2> QED
    BY <1>6, <2>1, <2>2, <2>3, <2>9, <2>10, <2>11, <2>12, <2>13, <2>14, <2>15, <2>16, <2>17
       DEF Ordinary
<1> QED
  BY <1>4, <1>5, <1>6

(* Predecessors.  What a transaction has pinned stays where it has put it:  *)
(* nobody else holds the lock, and an editor gets a fresh inode.            *)
LEMMA PredecessorStep ==
    ASSUME File!FileKept, \A w \in Writers : File!PredecessorInHand(w),
           \/ \E w \in Writers : Ordinary(w) \/ File!Pin(w)
           \/ File!Crash \/ File!Edit
    PROVE  \A w \in Writers : File!PredecessorInHand(w)'
<1>0. File!FileTypes
  BY DEF File!FileKept
<1>1. /\ Len(r2) \in DOMAIN r2 /\ File!dir = r2[Len(r2)] /\ File!dir \in File!Directory
      /\ r2 \in Seq(File!Directory) /\ r2 # << >>
      /\ \A k \in DOMAIN r2 : r2[k] \in File!Directory
      /\ r1 \in [FileInodes -> Values \cup {Absent}] /\ r4 \in [Writers -> File!Transaction]
  BY <1>0, DirNow DEF File!FileTypes
<1>2. File!Current' = File!Current /\ File!Previous' = File!Previous
  BY DEF File!Current, File!Previous, File!NoWriter
<1>3. ASSUME NEW w \in Writers, r4'[w].pc \in {"idle", "locked", "created", "staged"}
      PROVE  File!PredecessorInHand(w)'
  BY <1>3 DEF File!PredecessorInHand
<1>4. CASE File!Crash
  <2>1. \A w \in Writers : r4'[w].pc = "idle"
    BY <1>4 DEF File!Crash, File!Idle
  <2> QED
    BY <1>3, <2>1
<1>5. CASE File!Edit
  <2> DEFINE i == File!NewInode
             d == [File!dir EXCEPT ![File!Current] = i]
  <2>1. PICK v \in Values : r1' = [r1 EXCEPT ![i] = v] /\ r2' = Append(r2, d)
    BY <1>5 DEF File!Edit, File!ChangeDir
  <2>2. r4' = r4 /\ i \in File!FreeInodes
    BY <1>5 DEF File!Edit, File!NewInode
  <2>3. /\ i \in FileInodes /\ i # 0
        /\ \A k \in DOMAIN r2 : r2[k][File!Previous] # i
        /\ \A w \in Writers : r4[w].expected # i
    BY <2>2, FileParameters, NamesDiffer DEF File!FreeInodes
  <2>4. /\ d \in File!Directory /\ d[File!Previous] = File!dir[File!Previous]
        /\ \A w \in Writers : d[<<"link", w>>] = File!dir[<<"link", w>>]
    BY <1>1, <2>3, NamesDiffer DEF File!Directory
  <2> HIDE DEF i, d
  <2>5. /\ File!dir' = d /\ DOMAIN r2' = DOMAIN r2 \cup {Len(r2) + 1}
        /\ \A k \in DOMAIN r2 : r2'[k] = r2[k]
        /\ r2'[Len(r2) + 1] = d
    BY <1>1, <2>1, <2>4, DirChanged
  <2>6. ASSUME NEW w \in Writers PROVE File!PredecessorInHand(w)'
    <3>1. /\ r4[w].expected \in FileInodes \cup {0}
          /\ \A k \in DOMAIN r2 : r2[k][File!Previous] \in FileInodes \cup {0}
      BY <1>1, NamesDiffer DEF File!Transaction, File!Directory
    <3>2. /\ r4[w].expected # 0 => r1'[r4[w].expected] = r1[r4[w].expected]
          /\ \A k \in DOMAIN r2 :
                 r2[k][File!Previous] # 0 => r1'[r2[k][File!Previous]] = r1[r2[k][File!Previous]]
      BY <1>1, <2>1, <2>3, <3>1
    <3>3. \A k \in DOMAIN r2' : \E j \in DOMAIN r2 : r2'[k][File!Previous] = r2[j][File!Previous]
      BY <1>1, <2>4, <2>5
    <3> QED
      BY <1>2, <2>2, <2>4, <2>5, <3>2, <3>3 DEF File!PredecessorInHand
  <2> QED
    BY <2>6
<1>6. ASSUME NEW w \in Writers, Ordinary(w) \/ File!Pin(w)
      PROVE  \A v \in Writers : File!PredecessorInHand(v)'
  (* The others are idle and stay so.                                       *)
  <2>1. ASSUME ~File!At(w, "idle"), \A v \in Writers \ {w} : r4'[v] = r4[v],
               File!PredecessorInHand(w)'
        PROVE  \A v \in Writers : File!PredecessorInHand(v)'
    <3>1. \A v \in Writers \ {w} : r4[v].pc = "idle"
      BY <1>0, <2>1, FileParameters DEF File!FileTypes, File!At
    <3> QED
      BY <1>3, <2>1, <3>1
  <2>2. ASSUME NEW t, r4' = [r4 EXCEPT ![w] = t]
        PROVE  r4'[w] = t /\ \A v \in Writers \ {w} : r4'[v] = r4[v]
    BY <1>1, <2>2
  <2>3. r4[w] \in File!Transaction /\ File!PredecessorInHand(w)
    BY <1>1
  <2>4. CASE File!Acquire(w)
    <3>1. \A v \in Writers : r4'[v].pc \in {"idle", "locked"}
      BY <1>0, <1>1, <2>4, FileParameters
         DEF File!Acquire, File!FileTypes, File!At, File!NoWriter, File!Idle
    <3> QED
      BY <1>3, <3>1
  <2>5. CASE File!Read(w)
    <3>1. \A v \in Writers : r4'[v].pc = "idle"
      BY <1>0, <1>1, <2>5, FileParameters DEF File!Read, File!FileTypes, File!At, File!NoWriter
    <3> QED
      BY <1>3, <3>1
  <2>6. CASE File!CreateTemporary(w) \/ File!WriteTemporary(w)
    <3>1. \E t : r4' = [r4 EXCEPT ![w] = t] /\ t.pc \in {"created", "staged"}
      <4>1. \/ r4' = [r4 EXCEPT ![w] = [r4[w] EXCEPT !.pc = "created", !.file = File!NewInode]]
            \/ r4' = [r4 EXCEPT ![w] = [r4[w] EXCEPT !.pc = "staged"]]
        BY <1>1, <2>6 DEF File!CreateTemporary, File!WriteTemporary, File!Goto
      <4>2. /\ [r4[w] EXCEPT !.pc = "created", !.file = File!NewInode].pc = "created"
            /\ [r4[w] EXCEPT !.pc = "staged"].pc = "staged"
        BY <2>3 DEF File!Transaction
      <4> QED
        BY <4>1, <4>2
    <3>2. ~File!At(w, "idle")
      BY <2>6 DEF File!CreateTemporary, File!WriteTemporary, File!At
    <3> QED
      BY <1>3, <2>1, <2>2, <3>1, <3>2
  <2>7. ASSUME File!Drop(w), ~File!At(w, "idle")
        PROVE  \A v \in Writers : File!PredecessorInHand(v)'
    <3>1. r4' = [r4 EXCEPT ![w] = File!Idle] /\ File!Idle.pc = "idle"
      BY <2>7 DEF File!Drop, File!Idle
    <3> QED
      BY <1>3, <2>1, <2>2, <2>7, <3>1
  <2>8. CASE File!Finish(w) \/ File!Fail(w)
    <3>1. r4' = [r4 EXCEPT ![w] = File!Idle] /\ File!Idle.pc = "idle" /\ ~File!At(w, "idle")
      BY <2>8 DEF File!Finish, File!Fail, File!Drop, File!Idle, File!At
    <3> QED
      BY <1>3, <2>1, <2>2, <3>1
  <2>9. CASE File!Pin(w)
    <3> DEFINE q == IF File!dir[File!Current] \in {0, File!dir[File!Previous]}
                    THEN "prepared" ELSE "pinned"
               t == [r4[w] EXCEPT !.expected = File!dir[File!Current], !.pc = q]
    <3>1. /\ r4' = [r4 EXCEPT ![w] = t] /\ ~File!At(w, "idle")
          /\ IF File!dir[File!Current] # 0 /\ File!dir[File!Current] = File!dir[File!Previous]
             THEN r2' = <<File!dir>> ELSE r2' = r2
      BY <1>1, <2>9 DEF File!Pin, File!At, File!SyncDir
    <3>2. t.pc = q /\ t.expected = File!dir[File!Current]
      BY <2>3 DEF File!Transaction
    <3> HIDE DEF t
    <3>3. q = "pinned" => File!dir[File!Current] # 0
      OBVIOUS
    <3>4. q = "prepared" /\ File!dir[File!Current] # 0
              => \A k \in DOMAIN r2' : r2'[k][File!Previous] = File!dir[File!Current]
      BY <1>1, <3>1, DirSynced
    <3>5. q \in {"prepared", "pinned"}
      OBVIOUS
    <3> HIDE DEF q
    <3>6. File!PredecessorInHand(w)'
      BY <1>2, <2>2, <3>1, <3>2, <3>3, <3>4, <3>5 DEF File!PredecessorInHand
    <3> QED
      BY <2>1, <2>2, <3>1, <3>6
  <2>10. CASE File!Link(w) /\ ~File!Drop(w)
    <3> DEFINE d == [File!dir EXCEPT ![<<"link", w>>] = File!dir[File!Current]]
               t == [r4[w] EXCEPT !.pc = "linked"]
    <3>1. /\ r2' = Append(r2, d) /\ r4' = [r4 EXCEPT ![w] = t] /\ r4[w].pc = "pinned"
          /\ File!dir[File!Current] = r4[w].expected
      BY <1>1, <2>10 DEF File!Link, File!ChangeDir, File!Goto, File!At
    <3>2. t.pc = "linked" /\ t.expected = r4[w].expected
      BY <2>3 DEF File!Transaction
    <3>3. d \in File!Directory /\ d[<<"link", w>>] = r4[w].expected
      BY <1>1, <3>1, NamesDiffer DEF File!Directory
    <3> HIDE DEF d, t
    <3>4. File!dir' = d
      BY <1>1, <3>1, <3>3, DirChanged
    <3>5. File!PredecessorInHand(w)'
      BY <2>2, <2>3, <3>1, <3>2, <3>3, <3>4 DEF File!PredecessorInHand
    <3> QED
      BY <2>1, <2>2, <3>1, <3>5 DEF File!At
  <2>11. CASE File!PublishPredecessor(w)
    <3> DEFINE d == [File!dir EXCEPT ![File!Previous] = File!dir[<<"link", w>>],
                                     ![<<"link", w>>] = 0]
               t == [r4[w] EXCEPT !.pc = "published"]
    <3>1. r2' = Append(r2, d) /\ r4' = [r4 EXCEPT ![w] = t] /\ r4[w].pc = "linked"
      BY <1>1, <2>11 DEF File!PublishPredecessor, File!ChangeDir, File!Goto, File!At
    <3>2. t.pc = "published" /\ t.expected = r4[w].expected
      BY <2>3 DEF File!Transaction
    <3>3. d \in File!Directory /\ d[File!Previous] = File!dir[<<"link", w>>]
      BY <1>1, NamesDiffer DEF File!Directory
    <3> HIDE DEF d, t
    <3>4. File!dir' = d
      BY <1>1, <3>1, <3>3, DirChanged
    <3>5. File!PredecessorInHand(w)'
      BY <1>2, <2>2, <2>3, <3>1, <3>2, <3>3, <3>4 DEF File!PredecessorInHand
    <3> QED
      BY <2>1, <2>2, <3>1, <3>5 DEF File!At
  <2>12. CASE File!SyncPredecessor(w)
    <3> DEFINE t == [r4[w] EXCEPT !.pc = "prepared"]
    <3>1. r2' = <<File!dir>> /\ r4' = [r4 EXCEPT ![w] = t] /\ r4[w].pc = "published"
      BY <1>1, <2>12 DEF File!SyncPredecessor, File!SyncDir, File!Goto, File!At
    <3>2. t.pc = "prepared" /\ t.expected = r4[w].expected
      BY <2>3 DEF File!Transaction
    <3> HIDE DEF t
    <3>3. DOMAIN r2' = {1} /\ r2'[1] = File!dir
      BY <1>1, <3>1, DirSynced
    <3>4. File!PredecessorInHand(w)'
      BY <1>2, <2>2, <2>3, <3>1, <3>2, <3>3 DEF File!PredecessorInHand
    <3> QED
      BY <2>1, <2>2, <3>1, <3>4 DEF File!At
  <2>13. CASE File!Validate(w) /\ ~File!Drop(w)
    <3> DEFINE o == IF r4[w].expected = 0 THEN Absent ELSE r1[r4[w].expected]
               t == [r4[w] EXCEPT !.pc = "validated", !.replaced = o]
    <3>1. /\ r4' = [r4 EXCEPT ![w] = t] /\ r2' = r2 /\ r1' = r1 /\ r4[w].pc = "prepared"
      BY <1>1, <2>13 DEF File!Validate, File!Document, File!At
    <3>2. t.pc = "validated" /\ t.expected = r4[w].expected /\ t.replaced = o
      BY <2>3 DEF File!Transaction
    <3> HIDE DEF t
    <3>3. File!PredecessorInHand(w)'
      BY <1>2, <2>2, <2>3, <3>1, <3>2 DEF File!PredecessorInHand
    <3> QED
      BY <2>1, <2>2, <3>1, <3>3 DEF File!At
  <2>14. CASE File!Rename(w)
    <3> DEFINE d == [File!dir EXCEPT ![File!Current] = File!dir[<<"new", w>>],
                                     ![<<"new", w>>] = 0]
               t == [r4[w] EXCEPT !.pc = "renamed"]
    <3>1. /\ r2' = Append(r2, d) /\ r4' = [r4 EXCEPT ![w] = t] /\ r4[w].pc = "validated"
          /\ r1' = r1
      BY <1>1, <2>14 DEF File!Rename, File!ChangeDir, File!Goto, File!At
    <3>2. t.pc = "renamed" /\ t.expected = r4[w].expected /\ t.replaced = r4[w].replaced
      BY <2>3 DEF File!Transaction
    <3>3. d \in File!Directory /\ d[File!Previous] = File!dir[File!Previous]
      BY <1>1, NamesDiffer DEF File!Directory
    <3> HIDE DEF d, t
    <3>4. /\ DOMAIN r2' = DOMAIN r2 \cup {Len(r2) + 1}
          /\ \A k \in DOMAIN r2 : r2'[k] = r2[k]
          /\ r2'[Len(r2) + 1] = d
      BY <1>1, <3>1, <3>3, DirChanged
    <3>5. /\ r4[w].replaced # Absent => r4[w].expected # 0
          /\ r4[w].replaced # Absent => r4[w].replaced = r1[r4[w].expected]
          /\ r4[w].replaced # Absent => \A k \in DOMAIN r2 : r2[k][File!Previous] = r4[w].expected
      BY <2>3, <3>1 DEF File!PredecessorInHand
    <3>6. \A k \in DOMAIN r2' : \E j \in DOMAIN r2 : r2'[k][File!Previous] = r2[j][File!Previous]
      BY <1>1, <3>3, <3>4
    <3>7. File!PredecessorInHand(w)'
      BY <1>2, <2>2, <3>1, <3>2, <3>5, <3>6 DEF File!PredecessorInHand
    <3> QED
      BY <2>1, <2>2, <3>1, <3>7 DEF File!At
  <2>15. File!Link(w) \/ File!Validate(w) => ~File!At(w, "idle")
    BY DEF File!Link, File!Validate, File!At
  <2> QED
    BY <1>6, <2>4, <2>5, <2>6, <2>7, <2>8, <2>9, <2>10, <2>11, <2>12, <2>13, <2>14, <2>15
       DEF Ordinary
<1> QED
  BY <1>4, <1>5, <1>6

(* Secrets.  A fresh inode has no other name, and a rename moves its only   *)
(* one.                                                                     *)
LEMMA NameGiven ==
    ASSUME NEW d \in File!Directory, File!SingleNames(d),
           NEW n \in File!Names \ {File!Previous}, \A w \in Writers : n # <<"link", w>>,
           NEW i \in FileInodes \cup {0}, i # 0 => \A m \in File!Names : d[m] # i
    PROVE  [d EXCEPT ![n] = i] \in File!Directory /\ File!SingleNames([d EXCEPT ![n] = i])
<1> DEFINE e == [d EXCEPT ![n] = i]
<1>1. e \in File!Directory /\ e[n] = i /\ \A m \in File!Names \ {n} : e[m] = d[m]
  BY DEF File!Directory
<1>2. e[File!Previous] = 0 /\ \A w \in Writers : e[<<"link", w>>] = 0
  BY <1>1, NamesDiffer DEF File!SingleNames
<1>3. ASSUME NEW m1 \in File!Names, NEW m2 \in File!Names, m1 # m2, e[m1] = e[m2]
      PROVE  e[m1] = 0
  BY <1>1, <1>3 DEF File!SingleNames
<1> HIDE DEF e
<1>4. File!SingleNames(e)
  BY <1>2, <1>3 DEF File!SingleNames
<1> QED
  BY <1>1, <1>4 DEF e

(* A directory that names every file once, put last, leaves all of them so. *)
LEMMA SingleNamesKept ==
    ASSUME File!FileTypes, \A k \in DOMAIN r2 : File!SingleNames(r2[k]),
           \/ r2' = r2
           \/ \E d \in File!Directory : File!SingleNames(d) /\ (r2' = <<d>> \/ r2' = Append(r2, d))
    PROVE  \A k \in DOMAIN r2' : File!SingleNames(r2'[k])
<1>1. r2 \in Seq(File!Directory) /\ r2 # << >>
  BY DEF File!FileTypes
<1>2. ASSUME NEW d \in File!Directory, r2' = <<d>> PROVE DOMAIN r2' = {1} /\ r2'[1] = d
  BY <1>2, DirSynced
<1>3. ASSUME NEW d \in File!Directory, r2' = Append(r2, d)
      PROVE  /\ DOMAIN r2' = DOMAIN r2 \cup {Len(r2) + 1}
             /\ \A k \in DOMAIN r2 : r2'[k] = r2[k]
             /\ r2'[Len(r2) + 1] = d
  BY <1>1, <1>3, DirChanged
<1> QED
  BY <1>2, <1>3

(* Every step of a secret's write leaves its file one name, and no write at *)
(* the steps that link a predecessor.                                       *)
LEMMA SecretStep ==
    ASSUME File!SecretStored,
           \/ \E w \in Writers : Ordinary(w) \/ Secret!PinPrivate(w)
           \/ File!Crash \/ File!Edit
    PROVE  /\ \A k \in DOMAIN r2' : File!SingleNames(r2'[k])
           /\ \A w \in Writers : r4'[w].pc \notin {"pinned", "linked", "published"}
<1>0. /\ File!FileTypes /\ \A k \in DOMAIN r2 : File!SingleNames(r2[k])
      /\ \A w \in Writers : r4[w].pc \notin {"pinned", "linked", "published"}
  BY DEF File!FileKept, File!SecretStored
<1>1. /\ Len(r2) \in DOMAIN r2 /\ File!dir = r2[Len(r2)] /\ File!dir \in File!Directory
      /\ \A k \in DOMAIN r2 : r2[k] \in File!Directory
      /\ r4 \in [Writers -> File!Transaction]
  BY <1>0, DirNow DEF File!FileTypes
<1>2. File!SingleNames(File!dir)
  BY <1>0, <1>1
<1>3. ASSUME NEW i \in File!FreeInodes
      PROVE  i \in FileInodes /\ \A m \in File!Names : File!dir[m] # i
  BY <1>1, <1>3 DEF File!FreeInodes
<1>4. CASE File!Crash
  <2>1. \E k \in DOMAIN r2 : r2' = <<r2[k]>>
    BY <1>4 DEF File!Crash
  <2>2. \A w \in Writers : r4'[w].pc = "idle"
    BY <1>4 DEF File!Crash, File!Idle
  <2> QED
    BY <1>0, <1>1, <2>1, <2>2, SingleNamesKept
<1>5. CASE File!Edit
  <2>1. r2' = Append(r2, [File!dir EXCEPT ![File!Current] = File!NewInode]) /\ r4' = r4
    BY <1>5 DEF File!Edit, File!ChangeDir
  <2>2. File!NewInode \in File!FreeInodes
    BY <1>5 DEF File!Edit, File!NewInode
  <2>3. /\ [File!dir EXCEPT ![File!Current] = File!NewInode] \in File!Directory
        /\ File!SingleNames([File!dir EXCEPT ![File!Current] = File!NewInode])
    <3>1. File!Current \in File!Names \ {File!Previous} /\ \A w \in Writers : File!Current # <<"link", w>>
      BY NamesDiffer
    <3> QED
      BY <1>1, <1>2, <1>3, <2>2, <3>1, NameGiven
  <2> QED
    BY <1>0, <2>1, <2>3, SingleNamesKept
<1>6. ASSUME NEW w \in Writers, Ordinary(w) \/ Secret!PinPrivate(w)
      PROVE  /\ \A k \in DOMAIN r2' : File!SingleNames(r2'[k])
             /\ \A v \in Writers : r4'[v].pc \notin {"pinned", "linked", "published"}
  <2>1. /\ <<"new", w>> \in File!Names \ {File!Previous}
        /\ \A v \in Writers : <<"new", w>> # <<"link", v>>
    BY NamesDiffer
  <2>2. ASSUME NEW t, r4' = [r4 EXCEPT ![w] = t], t.pc \notin {"pinned", "linked", "published"}
        PROVE  \A v \in Writers : r4'[v].pc \notin {"pinned", "linked", "published"}
    BY <1>0, <1>1, <2>2
  <2>3. r4[w] \in File!Transaction
    BY <1>1
  <2>4. ASSUME File!Drop(w)
        PROVE  /\ \A k \in DOMAIN r2' : File!SingleNames(r2'[k])
               /\ \A v \in Writers : r4'[v].pc \notin {"pinned", "linked", "published"}
    <3> DEFINE d == [File!dir EXCEPT ![<<"new", w>>] = 0]
    <3>1. d \in File!Directory /\ File!SingleNames(d)
      BY <1>1, <1>2, <2>1, NameGiven
    <3>2. [File!dir EXCEPT ![<<"new", w>>] = 0, ![<<"link", w>>] = 0] = d
      <4>1. d[<<"link", w>>] = 0
        BY <3>1 DEF File!SingleNames
      <4> QED
        BY <1>1, <3>1, <4>1, NamesDiffer DEF File!Directory
    <3> HIDE DEF d
    <3>3. (r2' = r2 \/ r2' = Append(r2, d)) /\ r4' = [r4 EXCEPT ![w] = File!Idle]
      BY <2>4, <3>2 DEF File!Drop
    <3>4. File!Idle.pc = "idle"
      BY DEF File!Idle
    <3> QED
      BY <1>0, <2>2, <3>1, <3>3, <3>4, SingleNamesKept
  <2>5. CASE File!Acquire(w)
    <3>1. PICK v \in Values :
              r4' = [r4 EXCEPT ![w] = [File!Idle EXCEPT !.pc = "locked", !.value = v]]
      BY <2>5 DEF File!Acquire
    <3>2. [File!Idle EXCEPT !.pc = "locked", !.value = v].pc = "locked"
      BY DEF File!Idle
    <3>3. r2' = r2
      BY <2>5 DEF File!Acquire
    <3> QED
      BY <1>0, <2>2, <3>1, <3>2, <3>3
  <2>6. CASE File!CreateTemporary(w)
    <3> DEFINE d == [File!dir EXCEPT ![<<"new", w>>] = File!NewInode]
               t == [r4[w] EXCEPT !.pc = "created", !.file = File!NewInode]
    <3>1. r2' = Append(r2, d) /\ r4' = [r4 EXCEPT ![w] = t]
      BY <1>1, <2>6 DEF File!CreateTemporary, File!ChangeDir
    <3>2. File!NewInode \in File!FreeInodes
      BY <2>6 DEF File!CreateTemporary, File!NewInode
    <3>3. d \in File!Directory /\ File!SingleNames(d)
      BY <1>1, <1>2, <1>3, <2>1, <3>2, NameGiven
    <3>4. t.pc = "created"
      BY <2>3 DEF File!Transaction
    <3> HIDE DEF d, t
    <3> QED
      BY <1>0, <2>2, <3>1, <3>3, <3>4, SingleNamesKept
  <2>7. CASE File!Rename(w)
    <3> DEFINE d == [File!dir EXCEPT ![File!Current] = File!dir[<<"new", w>>],
                                     ![<<"new", w>>] = 0]
               t == [r4[w] EXCEPT !.pc = "renamed"]
    <3>1. r2' = Append(r2, d) /\ r4' = [r4 EXCEPT ![w] = t]
      BY <1>1, <2>7 DEF File!Rename, File!ChangeDir, File!Goto
    <3>2. /\ d \in File!Directory /\ d[File!Current] = File!dir[<<"new", w>>]
          /\ d[<<"new", w>>] = 0
          /\ \A m \in File!Names \ {File!Current, <<"new", w>>} : d[m] = File!dir[m]
      BY <1>1, NamesDiffer DEF File!Directory
    <3>3. t.pc = "renamed"
      BY <2>3 DEF File!Transaction
    <3> HIDE DEF d, t
    <3>4. d[File!Previous] = 0 /\ \A v \in Writers : d[<<"link", v>>] = 0
      BY <1>2, <3>2, NamesDiffer DEF File!SingleNames
    <3>5. ASSUME NEW n \in File!Names, NEW m \in File!Names, n # m, d[n] = d[m]
          PROVE  d[n] = 0
      BY <1>2, <3>2, <3>5, NamesDiffer DEF File!SingleNames
    <3>6. File!SingleNames(d)
      BY <3>4, <3>5 DEF File!SingleNames
    <3> QED
      BY <1>0, <2>2, <3>1, <3>2, <3>3, <3>6, SingleNamesKept
  <2>8. CASE File!Finish(w)
    <3>1. r2' = <<File!dir>> /\ r4' = [r4 EXCEPT ![w] = File!Idle] /\ File!Idle.pc = "idle"
      BY <2>8 DEF File!Finish, File!SyncDir, File!Idle
    <3> QED
      BY <1>0, <1>1, <1>2, <2>2, <3>1, SingleNamesKept
  <2>9. CASE File!WriteTemporary(w) \/ (File!Validate(w) /\ ~File!Drop(w))
    <3>1. r2' = r2
      BY <2>9 DEF File!WriteTemporary, File!Validate
    <3>2. \/ r4' = [r4 EXCEPT ![w] = [r4[w] EXCEPT !.pc = "staged"]]
          \/ r4' = [r4 EXCEPT ![w] = [r4[w] EXCEPT !.pc = "validated", !.replaced = File!Document(File!dir)]]
      BY <1>1, <2>9 DEF File!WriteTemporary, File!Validate, File!Goto
    <3>3. /\ [r4[w] EXCEPT !.pc = "staged"].pc = "staged"
          /\ [r4[w] EXCEPT !.pc = "validated", !.replaced = File!Document(File!dir)].pc = "validated"
      BY <2>3 DEF File!Transaction
    <3> QED
      BY <1>0, <2>2, <3>1, <3>2, <3>3
  <2>10. CASE Secret!PinPrivate(w) /\ ~Secret!Drop(w)
    <3> DEFINE t == [r4[w] EXCEPT !.pc = "prepared", !.expected = Secret!dir[Secret!Current]]
    <3>1. r4' = [r4 EXCEPT ![w] = t] /\ r2' = r2
      BY <1>1, <2>10 DEF Secret!PinPrivate
    <3>2. t.pc = "prepared"
      BY <2>3 DEF File!Transaction
    <3> HIDE DEF t
    <3> QED
      BY <1>0, <2>2, <3>1, <3>2
  <2>11. CASE File!Read(w)
    BY <1>0, <2>11 DEF File!Read
  <2>12. /\ ~File!Link(w) /\ ~File!PublishPredecessor(w) /\ ~File!SyncPredecessor(w)
         /\ File!Fail(w) => File!Drop(w)
    BY <1>0 DEF File!Link, File!PublishPredecessor, File!SyncPredecessor, File!Fail, File!At
  <2> QED
    BY <1>6, <2>4, <2>5, <2>6, <2>7, <2>8, <2>9, <2>10, <2>11, <2>12, SameDrop DEF Ordinary
<1> QED
  BY <1>4, <1>5, <1>6

------------------------------------------------------------------------------
(* What the invariants are for.                                             *)

(* So an idle file is durable, its predecessor is kept, and a secret has no *)
(* second copy.                                                             *)
LEMMA StoredMeans ==
    /\ File!FileStored => File!DurableWhenIdle /\ File!PredecessorKept
    /\ File!SecretStored => Secret!DurableWhenIdle /\ Secret!NoSecondCopy
<1>1. ASSUME File!FileKept, File!OnlyRenamesUnsynced
      PROVE  File!DurableWhenIdle /\ Secret!DurableWhenIdle
  <2>1. r3 = Absent => \A w \in Writers : ~File!At(w, "renamed")
    BY <1>1, FileParameters DEF File!FileKept, File!FileTypes, File!At
  <2>2. File!DurableWhenIdle
    BY <1>1, <2>1 DEF File!DurableWhenIdle, File!OnlyRenamesUnsynced, File!NoWriter, File!Document
  <2> QED
    BY <2>2 DEF File!DurableWhenIdle, Secret!DurableWhenIdle, File!NoWriter, Secret!NoWriter,
       File!Document, Secret!Document, File!dir, Secret!dir, File!Last, Secret!Last,
       File!Current, Secret!Current
<1>2. File!FileStored => File!PredecessorKept
  BY DEF File!FileStored, File!PredecessorKept, File!PredecessorInHand, File!At
<1>3. ASSUME File!SecretStored PROVE Secret!NoSecondCopy
  <2>1. /\ Secret!Current = File!Current /\ Secret!Previous = File!Previous
        /\ Secret!Names = File!Names
    BY DEF Secret!NoWriter, File!NoWriter, Secret!Current, File!Current,
           Secret!Previous, File!Previous, Secret!Names, File!Names
  <2>2. \A S : Secret!Cardinality(S) = Cardinality(S)
    BY Zenon DEF Secret!Cardinality, Cardinality
  <2>3. ASSUME NEW k \in DOMAIN r2, r2[k][File!Current] # 0
        PROVE  Secret!Links(r2[k], r2[k][File!Current]) = 1
    <3>1. {n \in File!Names : r2[k][n] = r2[k][File!Current]} = {File!Current}
      BY <1>3, <2>3, NamesDiffer DEF File!SecretStored, File!SingleNames
    <3> QED
      BY <2>1, <2>2, <3>1, FS_Singleton DEF Secret!Links
  <2>4. \A k \in DOMAIN r2 : r2[k][File!Previous] = 0
    BY <1>3 DEF File!SecretStored, File!SingleNames
  <2> QED
    BY <2>1, <2>3, <2>4 DEF Secret!NoSecondCopy, Secret!Readable
<1> QED
  BY <1>1, <1>2, <1>3 DEF File!FileStored, File!SecretStored

(****************************************************************************)
(* The usage history.                                                       *)
(****************************************************************************)
(* The history counts as this module does.                                  *)
LEMMA CardinalityInHistory == \A S : History!Cardinality(S) = Cardinality(S)
BY Zenon DEF History!Cardinality, Cardinality

(* The rows of a table that are newer than one of them.                     *)
Newer(S, r) == {s \in S : History!Older(r, s)}

(* The rows are ordered by time, then by number.                            *)
LEMMA NewerOrder ==
    ASSUME NEW K, K \subseteq [id : Nat, at : Nat],
           NEW r \in K, NEW s \in K, History!Older(r, s)
    PROVE  ~History!Older(s, r) /\ ~History!Older(s, s)
           /\ \A t \in K : History!Older(s, t) => History!Older(r, t)
<1>1. /\ r.at \in Nat /\ r.id \in Nat /\ s.at \in Nat /\ s.id \in Nat
      /\ \A t \in K : t.at \in Nat /\ t.id \in Nat
  OBVIOUS
<1> QED  BY <1>1 DEF History!Older

(* Finitely many rows are newer than one.                                   *)
LEMMA NewerFinite ==
    ASSUME NEW K, IsFiniteSet(K), NEW r
    PROVE  IsFiniteSet(Newer(K, r)) /\ Cardinality(Newer(K, r)) \in Nat
<1>1. Newer(K, r) \in SUBSET K
  BY DEF Newer
<1>2. IsFiniteSet(Newer(K, r))
  BY <1>1, FS_Subset
<1> QED  BY <1>2, FS_CardinalityType

(* Rows with as many newer ones as the table keeps can leave it before the  *)
(* others are pruned: what is kept in the end is the same.                  *)
LEMMA PruneInAnyOrder ==
    ASSUME NEW K, K \subseteq [id : Nat, at : Nat], IsFiniteSet(K),
           NEW J \in SUBSET K,
           \A s \in K \ J : ~(Cardinality(Newer(K, s)) < Retention)
    PROVE  History!Prune(J) = History!Prune(K)
<1>0. Retention \in Nat
  BY ServicesAssumption DEF History!HistoryAssumption
<1>1. /\ IsFiniteSet(J)
      /\ \A r : Newer(J, r) \subseteq Newer(K, r)
  BY FS_Subset DEF Newer
<1>2. \A r : /\ IsFiniteSet(Newer(K, r)) /\ IsFiniteSet(Newer(J, r))
             /\ Cardinality(Newer(K, r)) \in Nat /\ Cardinality(Newer(J, r)) \in Nat
  BY <1>1, NewerFinite
<1>3. /\ \A S : History!Prune(S) = {r \in S : Cardinality(Newer(S, r)) < Retention}
  BY CardinalityInHistory DEF History!Prune, Newer
<1>4. ASSUME NEW r \in History!Prune(K)
      PROVE  r \in History!Prune(J)
  <2>1. r \in K /\ Cardinality(Newer(K, r)) < Retention
    BY <1>3
  <2>2. r \in J
    BY <2>1
  <2>3. Cardinality(Newer(J, r)) <= Cardinality(Newer(K, r))
    BY <1>1, <1>2, FS_Subset
  <2>4. Cardinality(Newer(J, r)) < Retention
    BY <2>1, <2>3, <1>0, <1>2
  <2> QED  BY <2>2, <2>4, <1>3
<1>5. ASSUME NEW r \in History!Prune(J)
      PROVE  r \in History!Prune(K)
  <2>1. r \in J /\ Cardinality(Newer(J, r)) < Retention
    BY <1>3
  <2>2. Newer(K, r) = Newer(J, r)
    <3> SUFFICES ASSUME Newer(K, r) # Newer(J, r)  PROVE FALSE
      OBVIOUS
    <3> DEFINE Behind == {s \in K \ J : History!Older(r, s)}
               Counts == {Cardinality(Newer(K, s)) : s \in Behind}
    <3>1. Behind # {}
      BY <1>1 DEF Newer
    <3>2. Counts \subseteq Nat /\ Counts # {}
      BY <3>1, <1>2
    <3>3. PICK n \in Counts : \A m \in Counts : n <= m
      <4> HIDE DEF Counts
      <4> QED  BY <3>2, LeastNatural
    <3>4. PICK s \in Behind : n = Cardinality(Newer(K, s))
      OBVIOUS
    <3>5. s \in K /\ s \notin J /\ History!Older(r, s)
      OBVIOUS
    <3>6. ASSUME NEW t \in Newer(K, s)
          PROVE  t \in Newer(J, r)
      <4>1. t \in K /\ History!Older(s, t)
        BY DEF Newer
      <4>2. History!Older(r, t)
        BY <4>1, <3>5, <2>1, NewerOrder
      <4>3. CASE t \in J
        BY <4>2, <4>3 DEF Newer
      <4>4. CASE t \notin J
        <5>1. t \in Behind
          BY <4>1, <4>2, <4>4
        <5>2. n <= Cardinality(Newer(K, t))
          BY <5>1, <3>3
        <5>3. ~History!Older(t, t) /\ \A u \in K : History!Older(t, u) => History!Older(s, u)
          BY <4>1, <3>5, NewerOrder
        <5>4. Newer(K, t) \subseteq Newer(K, s) /\ t \notin Newer(K, t)
          BY <5>3 DEF Newer
        <5>5. Newer(K, t) # Newer(K, s)
          BY <5>4
        <5>6. /\ Cardinality(Newer(K, t)) <= Cardinality(Newer(K, s))
              /\ Cardinality(Newer(K, t)) # Cardinality(Newer(K, s))
          BY <5>4, <5>5, <1>2, FS_Subset
        <5> QED  BY <5>2, <5>6, <3>4, <1>2
      <4> QED  BY <4>3, <4>4
    <3>7. Newer(K, s) \in SUBSET Newer(J, r)
      BY <3>6
    <3>8. Cardinality(Newer(K, s)) <= Cardinality(Newer(J, r))
      BY <3>7, <1>2, FS_Subset
    <3>9. Cardinality(Newer(K, s)) < Retention
      BY <3>8, <2>1, <1>0, <1>2
    <3> QED  BY <3>9, <3>5
  <2> QED  BY <2>1, <2>2, <1>3
<1> QED  BY <1>4, <1>5

(* prune_records is idempotent, and a row that is inserted into a pruned    *)
(* table leaves what the whole history with it would leave.                 *)
LEMMA PruneAgain ==
    ASSUME NEW I, I \subseteq [id : Nat, at : Nat], IsFiniteSet(I), NEW x \in [id : Nat, at : Nat]
    PROVE  /\ History!Prune(History!Prune(I)) = History!Prune(I)
           /\ History!Prune(History!Prune(I) \cup {x}) = History!Prune(I \cup {x})
<1>0. Retention \in Nat
  BY ServicesAssumption DEF History!HistoryAssumption
<1>1. History!Prune(I) = {r \in I : Cardinality(Newer(I, r)) < Retention}
  BY CardinalityInHistory DEF History!Prune, Newer
<1>2. \A s \in I \ History!Prune(I) : ~(Cardinality(Newer(I, s)) < Retention)
  BY <1>1
<1>3. History!Prune(History!Prune(I)) = History!Prune(I)
  <2>1. History!Prune(I) \in SUBSET I
    BY <1>1
  <2> QED  BY <1>2, <2>1, PruneInAnyOrder
<1>4. IsFiniteSet(I \cup {x}) /\ I \cup {x} \subseteq [id : Nat, at : Nat]
  BY FS_AddElement
<1>5. ASSUME NEW s \in (I \cup {x}) \ (History!Prune(I) \cup {x})
      PROVE  ~(Cardinality(Newer(I \cup {x}, s)) < Retention)
  <2>1. s \in I \ History!Prune(I)
    OBVIOUS
  <2>2. Newer(I, s) \subseteq Newer(I \cup {x}, s)
    BY DEF Newer
  <2>3. /\ Cardinality(Newer(I, s)) \in Nat /\ Cardinality(Newer(I \cup {x}, s)) \in Nat
        /\ IsFiniteSet(Newer(I \cup {x}, s))
    BY <1>4, NewerFinite
  <2>4. Cardinality(Newer(I, s)) <= Cardinality(Newer(I \cup {x}, s))
    BY <2>2, <2>3, FS_Subset
  <2> QED  BY <2>1, <2>3, <2>4, <1>2, <1>0
<1>6. History!Prune(History!Prune(I) \cup {x}) = History!Prune(I \cup {x})
  <2>1. History!Prune(I) \cup {x} \in SUBSET (I \cup {x})
    BY <1>1
  <2> HIDE DEF History!Prune
  <2> QED  BY <1>4, <1>5, <2>1, PruneInAnyOrder
<1> QED  BY <1>3, <1>6

(* Finite means the same there.                                             *)
LEMMA FiniteInHistory == \A S : History!IsFiniteSet(S) <=> IsFiniteSet(S)
BY Zenon DEF History!IsFiniteSet, IsFiniteSet

(* The rows that may be inserted.                                           *)
LEMMA RowsWiden ==
    ASSUME NEW n \in Nat
    PROVE  /\ Times \subseteq Nat
           /\ [id : 1 .. n, at : Times] \subseteq [id : Nat, at : Nat]
           /\ [id : 1 .. n, at : Times] \subseteq [id : 1 .. (n + 1), at : Times]
<1>1. Times \subseteq Nat
  BY ServicesAssumption DEF History!HistoryAssumption
<1>2. ASSUME NEW x \in [id : 1 .. n, at : Times]
      PROVE  x \in [id : Nat, at : Nat] /\ x \in [id : 1 .. (n + 1), at : Times]
  <2>1. x = [id |-> x.id, at |-> x.at] /\ x.id \in 1 .. n /\ x.at \in Times
    OBVIOUS
  <2>2. x.id \in Nat /\ x.id \in 1 .. (n + 1)
    BY <2>1
  <2>3. x.at \in Nat
    BY <2>1, <1>1, Zenon
  <2> QED  BY <2>1, <2>2, <2>3
<1> QED  BY <1>1, <1>2

(* A database as the store's type has it, with n rows given an id.          *)
FileType(n) ==
    [kind : History!Kinds, rows : SUBSET [id : 1 .. n, at : Times],
     inserted : SUBSET [id : 1 .. n, at : Times]]

(* What every step keeps of the databases, and of the handles on them.      *)
FilesKept ==
    /\ r11 \in Nat /\ r1 \in Seq(FileType(r11))
    /\ \A f \in DOMAIN r1 : r1[f].rows = History!Prune(r1[f].inserted)
    /\ \A f \in DOMAIN r1 : IsFiniteSet(r1[f].inserted)
    /\ \A id \in r10 : \E f \in DOMAIN r1 : \E r \in r1[f].inserted : r.id = id
HandlesKept ==
    /\ r9 \in 0 .. Len(r1) /\ r12 \in 0 .. Len(r1)
    /\ r3 \in [ident : 0 .. Len(r1), created : BOOLEAN]
    /\ r2 \in {"closed", "preparing", "opening", "open", "closing"}
    /\ r4 \in {"starting", "checked", "connected", "confirmed", "migrated", "none", "ready",
               "busy", "failed", "removing", "ended"}
    /\ History!OpenedIsOurs
ChannelKept ==
    /\ r4 = "busy" => r5 \in History!Command
    /\ r7 \in Seq(History!Command) /\ Len(r7) <= Capacity /\ r6 \in BOOLEAN
    /\ r8 \subseteq Callers

(* These are the store's invariant, in this state and in the next.          *)
LEMMA HistoryParts ==
    /\ History!HistoryKept <=> FilesKept /\ HandlesKept /\ ChannelKept
    /\ History!HistoryKept' <=> FilesKept' /\ HandlesKept' /\ ChannelKept'
<1>1. History!HistoryKept <=> FilesKept /\ HandlesKept /\ ChannelKept
  BY FiniteInHistory DEF History!HistoryKept, FilesKept, HandlesKept, ChannelKept, FileType,
     History!TypeOK, History!RetainsNewest, History!ReceiptsAreCommitted, History!Starting
<1>2. \A S : History!Prune(S)' = History!Prune(S)
  BY DEF History!Prune, History!Older
<1>3. History!RetainsNewest' <=> (\A f \in DOMAIN r1 : r1[f].rows = History!Prune(r1[f].inserted))'
  BY DEF History!RetainsNewest
<1>4. (\A f \in DOMAIN r1 : History!IsFiniteSet(r1[f].inserted))'
         <=> (\A f \in DOMAIN r1 : IsFiniteSet(r1[f].inserted))'
  BY FiniteInHistory
<1>5. History!HistoryKept' <=> FilesKept' /\ HandlesKept' /\ ChannelKept'
  BY <1>3, <1>4 DEF History!HistoryKept, FilesKept, HandlesKept, ChannelKept, FileType,
     History!TypeOK, History!ReceiptsAreCommitted, History!Starting
<1> QED  BY <1>1, <1>5

(* Nothing is kept of nothing.                                              *)
LEMMA PruneNothing == History!Prune({}) = {}
BY DEF History!Prune

(* A new database is a database.                                            *)
LEMMA EmptyTyped ==
    ASSUME NEW kind \in History!Kinds, NEW n \in Nat
    PROVE  /\ History!Empty(kind) \in FileType(n) /\ History!Empty(kind).kind = kind
           /\ History!Empty(kind).rows = {} /\ History!Empty(kind).inserted = {}
BY DEF History!Empty, FileType

(* At first there is no table.                                              *)
LEMMA HistoryStarts == History!Init => History!HistoryKept
<1> SUFFICES ASSUME History!Init  PROVE History!HistoryKept
  OBVIOUS
<1>1. PICK kind \in History!Kinds : r1 = <<History!Empty(kind)>>
  BY DEF History!Init
<1>2. /\ History!Empty(kind) \in FileType(0)
      /\ History!Empty(kind).rows = {} /\ History!Empty(kind).inserted = {}
  BY EmptyTyped
<1>3. /\ r1 \in Seq(FileType(0)) /\ Len(r1) = 1 /\ DOMAIN r1 = {1} /\ r1[1] = History!Empty(kind)
  BY <1>1, <1>2
<1>4. FilesKept
  BY <1>2, <1>3, FS_EmptySet, PruneNothing DEF FilesKept, History!Init
<1>5. History!Unprepared.ident = 0 /\ History!Unprepared.created = FALSE
      /\ History!Unprepared \in [ident : 0 .. 1, created : BOOLEAN]
  BY DEF History!Unprepared
<1>6. HandlesKept
  BY <1>3, <1>5 DEF HandlesKept, History!OpenedIsOurs, History!Starting, History!Init
<1>7. << >> \in Seq(History!Command) /\ Len(<< >>) <= Capacity
  BY ServicesAssumption DEF History!HistoryAssumption
<1>8. ChannelKept
  BY <1>7 DEF ChannelKept, History!Init
<1> QED  BY <1>4, <1>6, <1>8, HistoryParts

(* What is known of a database.                                             *)
LEMMA FileFacts ==
    ASSUME FilesKept
    PROVE  /\ Len(r1) \in Nat /\ DOMAIN r1 = 1 .. Len(r1) /\ r11 \in Nat
           /\ \A f \in DOMAIN r1 : r1[f] \in FileType(r11)
BY DEF FilesKept

(* Steps between the callers and the worker leave the databases alone.      *)
LEMMA FilesStay ==
    ASSUME FilesKept, UNCHANGED <<r1, r10, r11>>
    PROVE  FilesKept'
BY DEF FilesKept, FileType, History!Prune, History!Older

(* Another database appears, without a row.                                 *)
LEMMA FilesGrow ==
    ASSUME FilesKept, UNCHANGED <<r10, r11>>,
           NEW kind \in History!Kinds, r1' = Append(r1, History!Empty(kind))
    PROVE  /\ FilesKept' /\ Len(r1') = Len(r1) + 1
           /\ \A f \in DOMAIN r1 : f \in DOMAIN r1' /\ r1'[f] = r1[f]
           /\ r1'[Len(r1) + 1] = History!Empty(kind)
<1>1. Len(r1) \in Nat /\ DOMAIN r1 = 1 .. Len(r1) /\ r11 \in Nat
  BY FileFacts
<1>2. /\ History!Empty(kind) \in FileType(r11)
      /\ History!Empty(kind).rows = {} /\ History!Empty(kind).inserted = {}
  BY <1>1, EmptyTyped
<1>3. /\ r1' \in Seq(FileType(r11)) /\ Len(r1') = Len(r1) + 1
      /\ DOMAIN r1' = 1 .. (Len(r1) + 1)
      /\ \A f \in DOMAIN r1 : r1'[f] = r1[f]
      /\ r1'[Len(r1) + 1] = History!Empty(kind)
  BY <1>1, <1>2 DEF FilesKept
<1>4. ASSUME NEW f \in DOMAIN r1'
      PROVE  f \in DOMAIN r1 \/ f = Len(r1) + 1
  BY <1>1, <1>3
<1>5. \A f \in DOMAIN r1 : f \in DOMAIN r1'
  BY <1>1, <1>3
<1>6. \A f \in DOMAIN r1' : r1'[f].rows = History!Prune(r1'[f].inserted) /\ IsFiniteSet(r1'[f].inserted)
  <2> SUFFICES ASSUME NEW f \in DOMAIN r1'
               PROVE  r1'[f].rows = History!Prune(r1'[f].inserted) /\ IsFiniteSet(r1'[f].inserted)
    OBVIOUS
  <2>1. CASE f \in DOMAIN r1
    BY <2>1, <1>3 DEF FilesKept
  <2>2. CASE f = Len(r1) + 1
    BY <2>2, <1>2, <1>3, PruneNothing, FS_EmptySet
  <2> QED  BY <2>1, <2>2, <1>4
<1>7. \A id \in r10' : \E f \in DOMAIN r1' : \E r \in r1'[f].inserted : r.id = id
  BY <1>3, <1>5 DEF FilesKept
<1>8. r1' \in Seq(FileType(r11))'
  BY <1>3 DEF FileType
<1>9. FilesKept'
  BY <1>1, <1>6, <1>7, <1>8 DEF FilesKept, History!Prune, History!Older
<1> QED  BY <1>3, <1>5, <1>9

(* A database gets another kind.                                            *)
LEMMA FilesMarked ==
    ASSUME FilesKept, UNCHANGED <<r10, r11>>, NEW k \in DOMAIN r1,
           NEW kind \in History!Kinds, r1' = [r1 EXCEPT ![k].kind = kind]
    PROVE  /\ FilesKept' /\ Len(r1') = Len(r1) /\ DOMAIN r1' = DOMAIN r1
           /\ \A f \in DOMAIN r1 : r1'[f].inserted = r1[f].inserted
           /\ \A f \in DOMAIN r1 : f # k => r1'[f] = r1[f]
           /\ r1'[k].kind = kind
<1>1. /\ Len(r1) \in Nat /\ DOMAIN r1 = 1 .. Len(r1) /\ r11 \in Nat
      /\ \A f \in DOMAIN r1 : r1[f] \in FileType(r11)
  BY FileFacts
<1> DEFINE g == [r1[k] EXCEPT !.kind = kind]
<1>2. /\ g \in FileType(r11) /\ g.kind = kind /\ g.rows = r1[k].rows /\ g.inserted = r1[k].inserted
  BY <1>1 DEF FileType
<1>3. r1' = [r1 EXCEPT ![k] = g]
  OBVIOUS
<1> HIDE DEF g
<1>4. /\ r1' \in Seq(FileType(r11)) /\ Len(r1') = Len(r1) /\ DOMAIN r1' = DOMAIN r1
      /\ \A f \in DOMAIN r1 : f # k => r1'[f] = r1[f]
      /\ r1'[k] = g
  BY <1>1, <1>2, <1>3 DEF FilesKept
<1>5. \A f \in DOMAIN r1 : r1'[f].inserted = r1[f].inserted /\ r1'[f].rows = r1[f].rows
  BY <1>2, <1>4
<1>6. \A f \in DOMAIN r1' : r1'[f].rows = History!Prune(r1'[f].inserted) /\ IsFiniteSet(r1'[f].inserted)
  BY <1>4, <1>5 DEF FilesKept
<1>7. \A id \in r10' : \E f \in DOMAIN r1' : \E r \in r1'[f].inserted : r.id = id
  BY <1>4, <1>5 DEF FilesKept
<1>8. r1' \in Seq(FileType(r11))'
  BY <1>4 DEF FileType
<1>9. FilesKept'
  BY <1>1, <1>6, <1>7, <1>8 DEF FilesKept, History!Prune, History!Older
<1> QED  BY <1>2, <1>4, <1>5, <1>9

(* The retention at the start finds the table pruned.                       *)
LEMMA RetentionAgain ==
    ASSUME FilesKept, NEW k \in DOMAIN r1, r1' = [r1 EXCEPT ![k].rows = History!Prune(@)]
    PROVE  r1' = r1
<1>1. r11 \in Nat /\ r1[k] \in FileType(r11) /\ IsFiniteSet(r1[k].inserted)
      /\ r1[k].rows = History!Prune(r1[k].inserted) /\ r1 \in Seq(FileType(r11))
  BY FileFacts DEF FilesKept
<1>2. r1[k].inserted \subseteq [id : Nat, at : Nat]
  BY <1>1, RowsWiden DEF FileType
<1>3. [id |-> 0, at |-> 0] \in [id : Nat, at : Nat]
  OBVIOUS
<1>4. History!Prune(r1[k].rows) = r1[k].rows
  BY <1>1, <1>2, <1>3, PruneAgain
<1>5. [r1[k] EXCEPT !.rows = History!Prune(@)] = r1[k]
  BY <1>1, <1>4 DEF FileType
<1> HIDE DEF History!Prune
<1>6. r1' = [r1 EXCEPT ![k] = [r1[k] EXCEPT !.rows = History!Prune(@)]]
  OBVIOUS
<1>7. r1' = [r1 EXCEPT ![k] = r1[k]]
  BY <1>5, <1>6
<1> QED  BY <1>1, <1>7

(* A function on the first numbers is a sequence.                           *)
LEMMA SequenceOf ==
    ASSUME NEW S, NEW n \in Nat, NEW s \in [1 .. n -> S]
    PROVE  s \in Seq(S) /\ Len(s) = n
OBVIOUS

(* WorkerState::insert on the table.                                        *)
LEMMA FilesInserted ==
    ASSUME FilesKept, NEW k \in DOMAIN r1, r5 \in History!Command, r11' = r11 + 1,
           r1' = [r1 EXCEPT ![k].inserted = @ \cup {History!Row},
                            ![k].rows = History!Prune(@ \cup {History!Row})],
           r10' \in {r10, r10 \cup {History!Row.id}}
    PROVE  /\ FilesKept' /\ Len(r1') = Len(r1) /\ DOMAIN r1' = DOMAIN r1
           /\ \A f \in DOMAIN r1 : r1'[f].kind = r1[f].kind
           /\ \A f \in DOMAIN r1 : f # k => r1'[f] = r1[f]
<1>1. /\ Len(r1) \in Nat /\ DOMAIN r1 = 1 .. Len(r1) /\ r11 \in Nat /\ Times \subseteq Nat
      /\ \A f \in DOMAIN r1 : r1[f] \in FileType(r11)
  BY FileFacts, RowsWiden
<1> DEFINE row == History!Row
           g == [r1[k] EXCEPT !.inserted = @ \cup {row}, !.rows = History!Prune(@ \cup {row})]
<1>2. row = [id |-> r11 + 1, at |-> r5.at] /\ r5.at \in Times
  BY DEF History!Row, History!Command
<1>3. row \in [id : 1 .. (r11 + 1), at : Times] /\ row \in [id : Nat, at : Nat] /\ row.id = History!Row.id
  <2>1. r11 + 1 \in Nat /\ r11 + 1 \in 1 .. (r11 + 1)
    BY <1>1
  <2>2. r5.at \in Nat
    BY <1>1, <1>2, Zenon
  <2> QED  BY <1>2, <2>1, <2>2
<1>4. r1' = [r1 EXCEPT ![k] = g]
  OBVIOUS
<1> HIDE DEF row
<1>5. FileType(r11) \subseteq FileType(r11 + 1)
  <2>1. [id : 1 .. r11, at : Times] \subseteq [id : 1 .. (r11 + 1), at : Times]
    BY <1>1, RowsWiden
  <2> QED  BY <2>1 DEF FileType
<1> DEFINE I == r1[k].inserted
<1>6. /\ I \subseteq [id : Nat, at : Nat] /\ IsFiniteSet(I) /\ r1[k].rows = History!Prune(I)
      /\ I \subseteq [id : 1 .. (r11 + 1), at : Times]
  BY <1>1, <1>5, RowsWiden DEF FilesKept, FileType
<1> HIDE DEF I
<1>7. History!Prune(r1[k].rows \cup {row}) = History!Prune(I \cup {row})
  BY <1>3, <1>6, PruneAgain
<1>8. History!Prune(I \cup {row}) \subseteq I \cup {row}
  BY DEF History!Prune
<1>9. IsFiniteSet(I \cup {row}) /\ I \cup {row} \subseteq [id : 1 .. (r11 + 1), at : Times]
  BY <1>3, <1>6, FS_AddElement
<1>10. /\ g.kind = r1[k].kind /\ g.inserted = I \cup {row} /\ g.rows = History!Prune(I \cup {row})
       /\ g \in FileType(r11 + 1)
  <2> HIDE DEF History!Prune
  <2>1. r1[k] \in FileType(r11) /\ r1[k] \in FileType(r11 + 1)
    BY <1>1, <1>5
  <2>2. g.inserted = I \cup {row} /\ g.kind = r1[k].kind /\ g.rows = History!Prune(r1[k].rows \cup {row})
    BY <2>1 DEF FileType, I
  <2>3. History!Prune(I \cup {row}) \in SUBSET [id : 1 .. (r11 + 1), at : Times]
    BY <1>8, <1>9
  <2>4. g = [r1[k] EXCEPT !.inserted = I \cup {row}, !.rows = History!Prune(I \cup {row})]
    BY <1>7 DEF I
  <2>5. g \in FileType(r11 + 1)
    BY <2>1, <2>3, <2>4, <1>9 DEF FileType
  <2> QED  BY <2>2, <2>5, <1>7
<1> HIDE DEF g
<1>11. /\ Len(r1') = Len(r1) /\ DOMAIN r1' = DOMAIN r1
       /\ \A f \in DOMAIN r1 : f # k => r1'[f] = r1[f]
       /\ r1'[k] = g /\ r1' \in Seq(FileType(r11 + 1))
  <2>1. r1 \in [1 .. Len(r1) -> FileType(r11 + 1)]
    BY <1>1, <1>5 DEF FilesKept
  <2>2. r1' \in [1 .. Len(r1) -> FileType(r11 + 1)]
    BY <2>1, <1>4, <1>10
  <2>3. r1' \in Seq(FileType(r11 + 1)) /\ Len(r1') = Len(r1)
    <3> DEFINE S == FileType(r11 + 1) n == Len(r1)
    <3>1. n \in Nat /\ r1' \in [1 .. n -> S]
      BY <1>1, <2>2
    <3> HIDE DEF S, n
    <3>2. r1' \in Seq(S) /\ Len(r1') = n
      BY <3>1, SequenceOf
    <3> QED  BY <3>2 DEF S, n
  <2> QED  BY <1>1, <1>4, <2>1, <2>2, <2>3
<1>13. \A f \in DOMAIN r1' : r1'[f].rows = History!Prune(r1'[f].inserted) /\ IsFiniteSet(r1'[f].inserted)
  <2> HIDE DEF History!Prune
  <2> QED  BY <1>9, <1>10, <1>11 DEF FilesKept
<1>14. \A f \in DOMAIN r1 : r1[f].inserted \subseteq r1'[f].inserted
  BY <1>10, <1>11 DEF I
<1>15. \A id \in r10' : \E f \in DOMAIN r1' : \E r \in r1'[f].inserted : r.id = id
  <2>1. \A id \in r10 : \E f \in DOMAIN r1' : \E r \in r1'[f].inserted : r.id = id
    BY <1>11, <1>14 DEF FilesKept
  <2>2. row \in r1'[k].inserted
    BY <1>10, <1>11
  <2> QED  BY <1>3, <1>11, <2>1, <2>2
<1>16. r1' \in Seq(FileType(r11))' /\ r11' \in Nat
  BY <1>1, <1>11 DEF FileType
<1>17. FilesKept'
  BY <1>13, <1>15, <1>16 DEF FilesKept, History!Prune, History!Older
<1> QED  BY <1>10, <1>11, <1>17

(* The handles are kept while databases only get rows, by a worker that has *)
(* one of this version open, and while a failed worker ends.                *)
LEMMA HandlesStay ==
    ASSUME FilesKept, HandlesKept, Len(r1') = Len(r1), UNCHANGED <<r2, r3, r12>>,
           r9' \in {0, r9}, r4 # "none",
           r4' \in {"ready", "busy", "failed", "removing", "ended"},
           r4' \in {"ready", "busy"} => r4 \in {"ready", "busy"},
           r4' \in {"failed", "removing"} => r3.created /\ r4 \in History!Starting \cup {"failed"} /\ r1' = r1,
           r3.ident # 0 => r1'[r3.ident].kind = r1[r3.ident].kind
    PROVE  HandlesKept'
<1>1. Len(r1) \in Nat /\ DOMAIN r1 = 1 .. Len(r1)
  BY FileFacts
<1>2. r9' \in 0 .. Len(r1') /\ r12' \in 0 .. Len(r1') /\ r3' \in [ident : 0 .. Len(r1'), created : BOOLEAN]
  BY <1>1 DEF HandlesKept
<1>3. History!OpenedIsOurs'
  BY <1>1 DEF HandlesKept, History!OpenedIsOurs, History!Ours, History!Starting
<1> QED  BY <1>2, <1>3 DEF HandlesKept

(* A handle that is closed promises nothing.                                *)
LEMMA HandlesClose ==
    ASSUME FilesKept, HandlesKept, r1' = r1, r9' = r9, History!Closed
    PROVE  HandlesKept'
<1>1. /\ History!Unprepared.ident = 0 /\ History!Unprepared.created = FALSE
      /\ History!Unprepared \in [ident : 0 .. Len(r1), created : BOOLEAN]
      /\ Len(r1) \in Nat
  BY FileFacts DEF History!Unprepared
<1> QED
  BY <1>1 DEF History!Closed, HandlesKept, History!OpenedIsOurs, History!Starting, History!Ours

(* prepare_database_path.                                                   *)
LEMMA HistoryPrepare ==
    ASSUME FilesKept, HandlesKept, History!Prepare
    PROVE  FilesKept' /\ HandlesKept'
<1>1. /\ Len(r1) \in Nat /\ DOMAIN r1 = 1 .. Len(r1)
      /\ r4 = "none" /\ r4' = "none" /\ r2' = "preparing" /\ UNCHANGED <<r10, r11, r12>>
  BY FileFacts DEF History!Prepare, HandlesKept, History!OpenedIsOurs
<1>2. ASSUME NEW kind \in {"unversioned", "unsafe"}, r1' = Append(r1, History!Empty(kind)),
             r9' = Len(r1) + 1, r3' = [ident |-> Len(r1) + 1, created |-> TRUE]
      PROVE  FilesKept' /\ HandlesKept'
  <2>0. kind \in History!Kinds
    BY DEF History!Kinds
  <2>1. FilesKept' /\ Len(r1') = Len(r1) + 1 /\ r1'[Len(r1) + 1] = History!Empty(kind)
    BY <1>1, <1>2, <2>0, FilesGrow
  <2>2. History!Empty(kind).kind # "unknown" /\ History!Empty(kind).inserted = {}
    BY DEF History!Empty
  <2>3. r3' \in [ident : 0 .. Len(r1'), created : BOOLEAN] /\ r3'.ident = Len(r1) + 1
    BY <1>1, <1>2, <2>1
  <2>4. r9' \in 0 .. Len(r1') /\ r12' \in 0 .. Len(r1')
    BY <1>1, <1>2, <2>1 DEF HandlesKept
  <2>5. r1'[r3'.ident].kind # "unknown" /\ r1'[r3'.ident].inserted = {} /\ r3'.ident # 0
    BY <1>1, <2>1, <2>2, <2>3
  <2>6. History!OpenedIsOurs'
    BY <1>1, <1>2, <2>3, <2>5 DEF History!OpenedIsOurs, History!Ours, History!Starting
  <2> QED  BY <1>1, <2>1, <2>3, <2>4, <2>6 DEF HandlesKept
<1>3. ASSUME r9 # 0, r3' = [ident |-> r9, created |-> FALSE], UNCHANGED <<r1, r9>>
      PROVE  FilesKept' /\ HandlesKept'
  <2>1. FilesKept'
    BY <1>1, <1>3, FilesStay
  <2>2. r3'.ident = r9 /\ r3'.created = FALSE /\ r3' \in [ident : 0 .. Len(r1'), created : BOOLEAN]
    BY <1>3 DEF HandlesKept
  <2>3. History!OpenedIsOurs'
    BY <1>1, <1>3, <2>2 DEF History!OpenedIsOurs, History!Ours, History!Starting
  <2> QED  BY <1>1, <1>3, <2>1, <2>2, <2>3 DEF HandlesKept
<1> QED  BY <1>2, <1>3 DEF History!Prepare

(* The database is finished and its worker starts.                          *)
LEMMA HistorySpawn ==
    ASSUME FilesKept, HandlesKept, History!Spawn
    PROVE  FilesKept' /\ HandlesKept'
<1>1. /\ Len(r1) \in Nat /\ DOMAIN r1 = 1 .. Len(r1) /\ UNCHANGED <<r9, r10, r11>>
      /\ r2 = "preparing" /\ r4 = "none" /\ r3.ident # 0 /\ r3.ident \in DOMAIN r1
      /\ r3 \in [ident : 0 .. Len(r1), created : BOOLEAN]
      /\ r3.created => r1[r3.ident].inserted = {}
      /\ r9 # 0 => r3.ident <= r9
  BY FileFacts DEF History!Spawn, HandlesKept, History!OpenedIsOurs, History!Ours
<1>2. ASSUME r2' = "opening", r4' = "starting", UNCHANGED <<r3, r12>>,
             r1' = IF r3.created THEN [r1 EXCEPT ![r3.ident].kind = "unversioned"] ELSE r1
      PROVE  FilesKept' /\ HandlesKept'
  <2>1. CASE r3.created
    <3>0. "unversioned" \in History!Kinds
      BY DEF History!Kinds
    <3>1. /\ FilesKept' /\ Len(r1') = Len(r1) /\ r1'[r3.ident].kind = "unversioned"
          /\ r1'[r3.ident].inserted = {}
      BY <1>1, <1>2, <2>1, <3>0, FilesMarked
    <3>2. History!OpenedIsOurs'
      BY <1>1, <1>2, <3>1 DEF History!OpenedIsOurs, History!Ours, History!Starting
    <3> QED  BY <1>1, <1>2, <3>1, <3>2 DEF HandlesKept
  <2>2. CASE ~r3.created
    <3>1. FilesKept'
      BY <1>1, <1>2, <2>2, FilesStay
    <3>2. History!OpenedIsOurs'
      BY <1>1, <1>2, <2>2 DEF History!OpenedIsOurs, History!Ours, History!Starting
    <3> QED  BY <1>1, <1>2, <2>2, <3>1, <3>2 DEF HandlesKept
  <2> QED  BY <2>1, <2>2
<1>3. ASSUME History!Closed, UNCHANGED r1
      PROVE  FilesKept' /\ HandlesKept'
  BY <1>1, <1>3, FilesStay, HandlesClose
<1> QED  BY <1>2, <1>3 DEF History!Spawn

(* The worker's steps before it is ready.                                   *)
LEMMA HistoryInitialize ==
    ASSUME FilesKept, HandlesKept, History!Initialize
    PROVE  FilesKept' /\ HandlesKept'
<1>1. /\ Len(r1) \in Nat /\ DOMAIN r1 = 1 .. Len(r1) /\ UNCHANGED <<r2, r3, r9, r10, r11>>
      /\ r4 # "none" /\ r3.ident # 0 /\ r3.ident \in DOMAIN r1 /\ r12 \in 0 .. Len(r1) /\ r9 \in 0 .. Len(r1)
      /\ r3 \in [ident : 0 .. Len(r1), created : BOOLEAN]
      /\ r3.created => r1[r3.ident].kind # "unknown"
      /\ r4 \in History!Starting /\ (r3.created => r1[r3.ident].inserted = {})
      /\ r2 # "closed" /\ r2 # "preparing"
      /\ r2 \in {"closed", "preparing", "opening", "open", "closing"}
      /\ r9 # 0 => r3.ident <= r9
  BY FileFacts DEF History!Initialize, HandlesKept, History!OpenedIsOurs, History!Ours, History!Starting
<1>2. ASSUME r4' \in {"checked", "connected"}, r1' = r1,
             r12' \in 0 .. Len(r1), r4' = "connected" => r12' = r9 /\ r9 # 0
      PROVE  FilesKept' /\ HandlesKept'
  <2>1. FilesKept'
    BY <1>1, <1>2, FilesStay
  <2>2. History!OpenedIsOurs'
    BY <1>1, <1>2 DEF History!OpenedIsOurs, History!Ours, History!Starting
  <2> QED  BY <1>1, <1>2, <2>1, <2>2 DEF HandlesKept
<1>3. ASSUME r4' = "confirmed", r12 = r3.ident, UNCHANGED <<r1, r12>>
      PROVE  FilesKept' /\ HandlesKept'
  <2>1. FilesKept'
    BY <1>1, <1>3, FilesStay
  <2>2. History!OpenedIsOurs'
    BY <1>1, <1>3 DEF History!OpenedIsOurs, History!Ours, History!Starting
  <2> QED  BY <1>1, <1>3, <2>1, <2>2 DEF HandlesKept
<1>4. ASSUME r4 = "confirmed", r4' = "migrated", r1' = [r1 EXCEPT ![r12].kind = "current"], UNCHANGED r12
      PROVE  FilesKept' /\ HandlesKept'
  <2>0. r12 = r3.ident /\ "current" \in History!Kinds
    BY <1>4 DEF HandlesKept, History!OpenedIsOurs, History!Kinds
  <2>1. /\ FilesKept' /\ Len(r1') = Len(r1) /\ r1'[r3.ident].kind = "current"
        /\ r1'[r3.ident].inserted = r1[r3.ident].inserted
    BY <1>1, <1>4, <2>0, FilesMarked
  <2>2. History!OpenedIsOurs'
    BY <1>1, <1>4, <2>0, <2>1 DEF History!OpenedIsOurs, History!Ours, History!Starting
  <2> QED  BY <1>1, <1>4, <2>1, <2>2 DEF HandlesKept
<1>5. ASSUME r4 = "migrated", r4' = "ready", r1' = [r1 EXCEPT ![r12].rows = History!Prune(@)], UNCHANGED r12
      PROVE  FilesKept' /\ HandlesKept'
  <2>0. r12 = r3.ident /\ r1[r3.ident].kind = "current"
    BY <1>5 DEF HandlesKept, History!OpenedIsOurs, History!Ours
  <2>1. r1' = r1
    BY <1>1, <1>5, <2>0, RetentionAgain
  <2>2. FilesKept'
    BY <1>1, <2>1, FilesStay
  <2>3. History!OpenedIsOurs'
    BY <1>1, <1>5, <2>0, <2>1 DEF History!OpenedIsOurs, History!Ours, History!Starting
  <2> QED  BY <1>1, <1>5, <2>1, <2>2, <2>3 DEF HandlesKept
<1>6. r4 = "connected" /\ History!SameFile => r12 = r3.ident
  BY DEF History!SameFile, HandlesKept, History!OpenedIsOurs
<1> QED
  BY <1>1, <1>2, <1>3, <1>4, <1>5, <1>6 DEF History!Initialize

(* WorkerState::insert.                                                     *)
LEMMA HistoryInsert ==
    ASSUME FilesKept, HandlesKept, r5 \in History!Command, History!ExecuteInsert
    PROVE  FilesKept' /\ HandlesKept'
<1>1. /\ Len(r1) \in Nat /\ DOMAIN r1 = 1 .. Len(r1) /\ UNCHANGED <<r2, r3, r9, r12>>
      /\ r4 = "busy" /\ r4' = "ready" /\ r12 = r3.ident /\ r12 \in DOMAIN r1
  BY FileFacts DEF History!ExecuteInsert, HandlesKept, History!OpenedIsOurs
<1>2. CASE UNCHANGED <<r11, r1, r10>>
  BY <1>1, <1>2, FilesStay, HandlesStay
<1>3. CASE /\ r11' = r11 + 1
           /\ r1' = [r1 EXCEPT ![r12].inserted = @ \cup {History!Row},
                               ![r12].rows = History!Prune(@ \cup {History!Row})]
           /\ r10' = IF History!Heard THEN r10 \cup {History!Row.id} ELSE r10
  <2>1. r10' \in {r10, r10 \cup {History!Row.id}}
    BY <1>3
  <2>2. FilesKept' /\ Len(r1') = Len(r1) /\ \A f \in DOMAIN r1 : r1'[f].kind = r1[f].kind
    BY <1>1, <1>3, <2>1, FilesInserted
  <2> QED  BY <1>1, <2>2, HandlesStay
<1> QED  BY <1>2, <1>3 DEF History!ExecuteInsert

(* Another program at the path.                                             *)
LEMMA HistoryReplace ==
    ASSUME FilesKept, HandlesKept, History!Replace
    PROVE  FilesKept' /\ HandlesKept'
<1>1. /\ Len(r1) \in Nat /\ DOMAIN r1 = 1 .. Len(r1) /\ UNCHANGED <<r2, r3, r4, r10, r11, r12>>
      /\ r3 \in [ident : 0 .. Len(r1), created : BOOLEAN] /\ r12 \in 0 .. Len(r1)
      /\ r3.ident # 0 => r3.ident \in DOMAIN r1
  BY FileFacts DEF History!Replace, HandlesKept
<1>2. CASE r9' = 0 /\ UNCHANGED r1
  <2>1. History!OpenedIsOurs'
    BY <1>1, <1>2 DEF HandlesKept, History!OpenedIsOurs, History!Ours, History!Starting
  <2> QED  BY <1>1, <1>2, <2>1, FilesStay DEF HandlesKept
<1>3. ASSUME NEW kind \in {"unknown", "current"}, r1' = Append(r1, History!Empty(kind)), r9' = Len(r1) + 1
      PROVE  FilesKept' /\ HandlesKept'
  <2>0. kind \in History!Kinds
    BY DEF History!Kinds
  <2>1. FilesKept' /\ Len(r1') = Len(r1) + 1 /\ \A f \in DOMAIN r1 : r1'[f] = r1[f]
    BY <1>1, <1>3, <2>0, FilesGrow
  <2>2. r9' \in 0 .. Len(r1') /\ r12' \in 0 .. Len(r1')
        /\ r3' \in [ident : 0 .. Len(r1'), created : BOOLEAN]
    BY <1>1, <1>3, <2>1
  <2>3. r3.ident # 0 => r1'[r3.ident] = r1[r3.ident]
    BY <1>1, <2>1
  <2>4. r3.ident <= r9' /\ r9' # r3.ident /\ r3' = r3
    BY <1>1, <1>3
  <2>5. History!OpenedIsOurs'
    BY <1>1, <2>3, <2>4 DEF HandlesKept, History!OpenedIsOurs, History!Ours, History!Starting
  <2> QED  BY <1>1, <2>1, <2>2, <2>5 DEF HandlesKept
<1> QED  BY <1>2, <1>3 DEF History!Replace

(* Every step keeps the channel and the command in hand.                    *)
LEMMA ChannelStep ==
    ASSUME HandlesKept, ChannelKept, History!Next
    PROVE  ChannelKept'
<1>0. /\ r7 \in Seq(History!Command) /\ Len(r7) <= Capacity /\ Capacity \in Nat \ {0}
      /\ << >> \in Seq(History!Command) /\ Len(<< >>) <= Capacity /\ r8 \subseteq Callers /\ r6 \in BOOLEAN
      /\ r4 = "busy" => r5 \in History!Command
  BY ServicesAssumption DEF ChannelKept, History!HistoryAssumption
<1>1. CASE History!Prepare \/ History!Cleanup \/ History!CheckCreated \/ History!InitializeFails
           \/ History!Initialize \/ History!Replace
  <2>1. UNCHANGED <<r5, r6, r7, r8>> /\ (r4' = "busy" => r4 = "busy")
    BY <1>1 DEF History!Prepare, History!Cleanup, History!CheckCreated, History!InitializeFails,
       History!Initialize, History!Replace
  <2> QED  BY <1>0, <2>1 DEF ChannelKept, History!Command
<1>2. CASE History!Spawn \/ History!Open \/ History!Shutdown \/ History!WorkerEnd \/ History!Join \/ History!Crash
  <2>1. /\ r6' \in BOOLEAN /\ r7' \in {r7, << >>} /\ r8' \in {r8, {}}
        /\ r4' = "busy" => r4 = "busy" /\ r5' = r5
    BY <1>0, <1>2 DEF History!Spawn, History!Open, History!Shutdown, History!WorkerEnd, History!Join,
       History!Crash, History!Closed
  <2> QED  BY <1>0, <2>1 DEF ChannelKept, History!Command
<1>3. CASE History!Take
  <2>1. /\ Tail(r7) \in Seq(History!Command) /\ Len(Tail(r7)) <= Capacity /\ Head(r7) \in History!Command
    BY <1>0, <1>3, HeadTailProperties, LenProperties DEF History!Take
  <2> QED  BY <1>0, <1>3, <2>1 DEF History!Take, ChannelKept, History!Command
<1>4. CASE History!ExecuteInsert \/ History!ExecuteQuery
  <2>1. r4' = "ready" /\ UNCHANGED <<r6, r7>> /\ r8' \subseteq r8
    BY <1>4 DEF History!ExecuteInsert, History!ExecuteQuery, History!Reply
  <2> QED  BY <1>0, <2>1 DEF ChannelKept, History!Command
<1>5. ASSUME NEW c \in Callers, History!Request(c)
      PROVE  ChannelKept'
  <2>1. PICK cmd \in History!Command : r7' = Append(r7, cmd)
    BY <1>5 DEF History!Request
  <2>2. r7' \in Seq(History!Command) /\ Len(r7') <= Capacity
    BY <2>1, <1>0, <1>5, AppendProperties, LenProperties DEF History!Request
  <2> QED  BY <2>2, <1>0, <1>5 DEF History!Request, ChannelKept, History!Command
<1>6. ASSUME NEW c \in Callers, History!GiveUp(c)
      PROVE  ChannelKept'
  BY <1>0, <1>6 DEF History!GiveUp, ChannelKept, History!Command
<1> QED  BY <1>1, <1>2, <1>3, <1>4, <1>5, <1>6 DEF History!Next

(* So every step keeps the history.                                         *)
LEMMA HistoryStep ==
    ASSUME History!HistoryKept, History!Next
    PROVE  History!HistoryKept'
<1>0. FilesKept /\ HandlesKept /\ ChannelKept
  BY HistoryParts
<1>1. ChannelKept'
  BY <1>0, ChannelStep
<1>2. CASE History!InitializeFails \/ History!CheckCreated \/ History!Cleanup \/ History!Take
           \/ History!ExecuteQuery \/ History!WorkerEnd
  <2>1. /\ UNCHANGED <<r1, r2, r3, r10, r11, r12>> /\ r9' \in {0, r9} /\ r4 # "none"
        /\ r4' \in {"ready", "busy", "failed", "removing", "ended"}
        /\ r4' \in {"ready", "busy"} => r4 \in {"ready", "busy"}
    BY <1>2 DEF History!InitializeFails, History!CheckCreated, History!Cleanup, History!Take,
       History!ExecuteQuery, History!WorkerEnd, History!Starting
  <2>2. r4' \in {"failed", "removing"} => r3.created /\ r4 \in History!Starting \cup {"failed"}
    BY <1>0, <1>2 DEF History!InitializeFails, History!CheckCreated, History!Cleanup, History!Take,
       History!ExecuteQuery, History!WorkerEnd, HandlesKept, History!OpenedIsOurs
  <2> QED  BY <1>0, <1>1, <2>1, <2>2, FilesStay, HandlesStay, HistoryParts
<1>3. CASE History!Open \/ History!Shutdown \/ History!Join \/ History!Crash
           \/ \E c \in Callers : History!Request(c) \/ History!GiveUp(c)
  <2>1. /\ UNCHANGED <<r1, r9, r10, r11>>
        /\ \/ History!Closed
           \/ UNCHANGED <<r3, r4, r12>> /\ (r2' = r2 \/ (r2 \in {"opening", "open"} /\ r2' \in {"open", "closing"}))
    BY <1>3 DEF History!Open, History!Shutdown, History!Join, History!Crash, History!Request, History!GiveUp
  <2>2. FilesKept'
    BY <1>0, <2>1, FilesStay
  <2>3. CASE History!Closed
    BY <1>0, <1>1, <2>1, <2>2, <2>3, HandlesClose, HistoryParts
  <2>4. CASE UNCHANGED <<r3, r4, r12>> /\ (r2' = r2 \/ (r2 \in {"opening", "open"} /\ r2' \in {"open", "closing"}))
    <3>1. HandlesKept'
      BY <1>0, <2>1, <2>4 DEF HandlesKept, History!OpenedIsOurs, History!Ours, History!Starting
    <3> QED  BY <1>1, <2>2, <3>1, HistoryParts
  <2> QED  BY <2>1, <2>3, <2>4
<1>4. CASE History!ExecuteInsert
  <2>1. r5 \in History!Command
    BY <1>0, <1>4 DEF ChannelKept, History!ExecuteInsert
  <2> QED  BY <1>0, <1>1, <1>4, <2>1, HistoryInsert, HistoryParts
<1> QED
  BY <1>0, <1>1, <1>2, <1>3, <1>4, HistoryPrepare, HistorySpawn, HistoryInitialize, HistoryReplace,
     HistoryParts DEF History!Next

(* It holds the newest rows, and receipts are for committed ones.           *)
LEMMA HistoryMeans ==
    ASSUME History!HistoryKept
    PROVE  History!RetainsNewest /\ History!ReceiptsAreCommitted
BY DEF History!HistoryKept

(* What a step of the history never does: write a database that is not its  *)
(* own, remove one it did not create before its last look, or write once it *)
(* is closed.                                                               *)
LEMMA OursMeans ==
    ASSUME History!HistoryKept, History!Next
    PROVE  History!ForeignUntouched /\ History!ClosedIsFinal
<1>0. FilesKept /\ HandlesKept /\ ChannelKept
  BY HistoryParts
<1>1. /\ Len(r1) \in Nat /\ DOMAIN r1 = 1 .. Len(r1) /\ r9 \in 0 .. Len(r1)
      /\ r3 \in [ident : 0 .. Len(r1), created : BOOLEAN]
  BY <1>0, FileFacts DEF HandlesKept
<1>2. History!OpenedIsOurs
  BY <1>0 DEF HandlesKept
<1> DEFINE Safe == \A f \in DOMAIN r1 : r1'[f] # r1[f] =>
                      f = r3.ident /\ r1[f].kind # "unknown" /\ r2 # "closed"
<1>3. ASSUME Safe, r9' = r9 \/ r9 = 0 \/ UNCHANGED <<r2, r4>>
      PROVE  History!ForeignUntouched /\ History!ClosedIsFinal
  BY <1>3 DEF History!ForeignUntouched, History!ClosedIsFinal
<1>4. CASE History!Prepare
  <2>1. \A f \in DOMAIN r1 : r1'[f] = r1[f]
    BY <1>1, <1>4 DEF History!Prepare
  <2> QED  BY <1>3, <1>4, <2>1 DEF History!Prepare
<1>5. CASE History!Spawn
  <2>1. r3.created => r1[r3.ident].kind # "unknown" /\ r2 = "preparing"
    BY <1>2, <1>5 DEF History!Spawn, History!OpenedIsOurs, History!Ours
  <2>2. r1' = r1 \/ (r3.created /\ r1' = [r1 EXCEPT ![r3.ident].kind = "unversioned"])
    BY <1>5 DEF History!Spawn
  <2>3. Safe
    BY <1>1, <2>1, <2>2
  <2> QED  BY <1>3, <1>5, <2>3 DEF History!Spawn
<1>6. CASE History!Initialize
  <2>1. CASE r1' = r1
    BY <1>3, <1>6, <2>1 DEF History!Initialize
  <2>2. CASE r4 = "confirmed" /\ r1[r12].kind \in {"unversioned", "current"}
             /\ r1' = [r1 EXCEPT ![r12].kind = "current"]
    <3>1. r12 = r3.ident /\ r2 # "closed"
      BY <1>2, <2>2 DEF History!OpenedIsOurs
    <3> QED  BY <1>1, <1>3, <1>6, <2>2, <3>1 DEF History!Initialize
  <2>3. CASE r4 = "migrated" /\ r1' = [r1 EXCEPT ![r12].rows = History!Prune(@)]
    <3>1. r12 = r3.ident /\ r2 # "closed" /\ r1[r12].kind = "current"
      BY <1>2, <2>3 DEF History!OpenedIsOurs, History!Ours
    <3> QED  BY <1>1, <1>3, <1>6, <2>3, <3>1 DEF History!Initialize
  <2> QED  BY <1>6, <2>1, <2>2, <2>3 DEF History!Initialize
<1>7. CASE History!ExecuteInsert
  <2>1. r12 = r3.ident /\ r2 # "closed" /\ r1[r12].kind = "current"
    BY <1>2, <1>7 DEF History!OpenedIsOurs, History!Ours, History!ExecuteInsert
  <2>2. Safe
    BY <1>1, <1>7, <2>1 DEF History!ExecuteInsert
  <2> QED  BY <1>3, <1>7, <2>2 DEF History!ExecuteInsert
<1>8. CASE History!Cleanup
  <2>1. r1' = r1 /\ r4 = "removing"
    BY <1>8 DEF History!Cleanup
  <2>2. r3.created /\ History!Ours.inserted = {} /\ (r9 # 0 => r9 = r3.ident \/ r9 > r3.ident)
    <3>1. r3.created /\ History!Ours.inserted = {} /\ (r9 # 0 => r3.ident <= r9)
      BY <1>2, <2>1 DEF History!OpenedIsOurs
    <3> QED  BY <1>1, <3>1
  <2> QED  BY <2>1, <2>2 DEF History!ForeignUntouched, History!ClosedIsFinal
<1>9. CASE History!Replace
  <2>1. Safe
    BY <1>1, <1>9 DEF History!Replace
  <2> QED  BY <1>3, <1>9, <2>1 DEF History!Replace
<1>10. CASE History!InitializeFails \/ History!CheckCreated \/ History!Take \/ History!ExecuteQuery
            \/ History!WorkerEnd \/ History!Open \/ History!Shutdown \/ History!Join \/ History!Crash
            \/ \E c \in Callers : History!Request(c) \/ History!GiveUp(c)
  <2>1. UNCHANGED <<r1, r9>>
    BY <1>10 DEF History!InitializeFails, History!CheckCreated, History!Take, History!ExecuteQuery,
       History!WorkerEnd, History!Open, History!Shutdown, History!Join, History!Crash, History!Request,
       History!GiveUp
  <2> QED  BY <1>3, <2>1
<1> QED
  BY <1>4, <1>5, <1>6, <1>7, <1>8, <1>9, <1>10 DEF History!Next

(****************************************************************************)
(* The Codex commands, alone and two at once: what is proved of them for    *)
(* any processes, ids and people, for the two machines' own.                *)
(****************************************************************************)
One == INSTANCE AccountProofs WITH
    config <- r1, holder <- r2, home <- r3, pc <- r4, draft <- r5, pending <- r6,
    account <- r7, stale <- r8, oldAuth <- r9, before <- r10, commands <- r11,
    renamed <- r12, unsynced <- r13, Procs <- {p1}, Ids <- Accounts1, People <- People1,
    Faults <- Faults1, MaxCommands <- Commands1

Two == INSTANCE AccountProofs WITH
    config <- r1, holder <- r2, home <- r3, pc <- r4, draft <- r5, pending <- r6,
    account <- r7, stale <- r8, oldAuth <- r9, before <- r10, commands <- r11,
    renamed <- r12, unsynced <- r13, Procs <- {p1, p2}, Ids <- Accounts2, People <- People2,
    Faults <- Faults2, MaxCommands <- Commands2

(* The machines are these instances.                                        *)
LEMMA OneLinks ==
    /\ One!AccountsAssumption /\ (Account!Init => One!Init) /\ (Account!Next => One!Next)
    /\ (Account!AccountKept <=> One!AccountKept) /\ (Account!AccountKept' <=> One!AccountKept')
    /\ (One!FailedLoginConfined /\ One!ReauthKeepsAccount
          => Account!FailedLoginConfined /\ Account!ReauthKeepsAccount)
<1>1. One!AccountsAssumption
  <2>1. Account!AccountsAssumption <=> One!AccountsAssumption
    BY Zenon DEF Account!AccountsAssumption, One!AccountsAssumption, Account!FaultKinds,
       One!FaultKinds, Account!NoHome, One!NoHome, Account!NoAuth, One!NoAuth, Account!None,
       One!None, Account!Ambient, One!Ambient
  <2> QED  BY <2>1, ServicesAssumption
<1>2. Account!Init => One!Init
  BY Zenon DEF Account!Init, One!Init, Account!EmptyConfig, One!EmptyConfig, Account!Files,
     One!Files, Account!NoHome, One!NoHome, Account!NoAuth, One!NoAuth, Account!None, One!None,
     Account!Ambient, One!Ambient
<1>3. Account!Next => One!Next
  BY Zenon DEF Account!Next, One!Next, Account!Login, One!Login, Account!LoginInHome,
     One!LoginInHome, Account!Merge, One!Merge, Account!FinishLogin, One!FinishLogin,
     Account!PrepareWrite, One!PrepareWrite, Account!Record, One!Record, Account!ReplaceAuth,
     One!ReplaceAuth, Account!CommitLogin, One!CommitLogin, Account!RollBack, One!RollBack,
     Account!ArchiveDuplicates, One!ArchiveDuplicates, Account!Discard, One!Discard,
     Account!Activate, One!Activate, Account!Remove, One!Remove, Account!WriteConfig,
     One!WriteConfig, Account!ArchiveRemoved, One!ArchiveRemoved, Account!Crash, One!Crash,
     Account!Goto, One!Goto, Account!Begin, One!Begin, Account!Fault, One!Fault, Account!Files,
     One!Files, Account!locals, One!locals, Account!aux, One!aux, Account!Exists, One!Exists,
     Account!Duplicates, One!Duplicates, Account!EmptyConfig, One!EmptyConfig, Account!NoHome,
     One!NoHome, Account!NoAuth, One!NoAuth, Account!None, One!None, Account!Ambient,
     One!Ambient
<1>4. Account!AccountKept <=> One!AccountKept
  BY Zenon DEF Account!AccountKept, One!AccountKept, Account!AccountsTyped, One!AccountsTyped,
     Account!TypeOK, One!TypeOK, Account!Named, One!Named, Account!Configs, One!Configs,
     Account!Auths, One!Auths, Account!Steps, One!Steps, Account!LoginSteps, One!LoginSteps,
     Account!MergedSteps, One!MergedSteps, Account!ActiveIsListed, One!ActiveIsListed,
     Account!NoHome, One!NoHome, Account!NoAuth, One!NoAuth, Account!None, One!None,
     Account!Ambient, One!Ambient, Account!ListedHasHome, One!ListedHasHome,
     Account!ChangedOnly, One!ChangedOnly, Account!Fresh, One!Fresh, Account!LoginInHand,
     One!LoginInHand, Account!MergeInHand, One!MergeInHand, Account!Restorable, One!Restorable,
     Account!WriteInHand, One!WriteInHand, Account!CommandInHand, One!CommandInHand,
     Account!Exists, One!Exists, Account!Duplicates, One!Duplicates
<1>5. Account!AccountKept' <=> One!AccountKept'
  BY Zenon DEF Account!AccountKept, One!AccountKept, Account!AccountsTyped, One!AccountsTyped,
     Account!TypeOK, One!TypeOK, Account!Named, One!Named, Account!Configs, One!Configs,
     Account!Auths, One!Auths, Account!Steps, One!Steps, Account!LoginSteps, One!LoginSteps,
     Account!MergedSteps, One!MergedSteps, Account!ActiveIsListed, One!ActiveIsListed,
     Account!NoHome, One!NoHome, Account!NoAuth, One!NoAuth, Account!None, One!None,
     Account!Ambient, One!Ambient, Account!ListedHasHome, One!ListedHasHome,
     Account!ChangedOnly, One!ChangedOnly, Account!Fresh, One!Fresh, Account!LoginInHand,
     One!LoginInHand, Account!MergeInHand, One!MergeInHand, Account!Restorable, One!Restorable,
     Account!WriteInHand, One!WriteInHand, Account!CommandInHand, One!CommandInHand,
     Account!Exists, One!Exists, Account!Duplicates, One!Duplicates
<1>6. One!FailedLoginConfined /\ One!ReauthKeepsAccount
        => Account!FailedLoginConfined /\ Account!ReauthKeepsAccount
  BY Zenon DEF Account!FailedLoginConfined, One!FailedLoginConfined, Account!ReauthKeepsAccount,
     One!ReauthKeepsAccount, Account!ChangedOnly, One!ChangedOnly, Account!NoHome, One!NoHome,
     Account!NoAuth, One!NoAuth, Account!None, One!None, Account!Ambient, One!Ambient
<1> QED  BY <1>1, <1>2, <1>3, <1>4, <1>5, <1>6

LEMMA TwoLinks ==
    /\ Two!AccountsAssumption /\ (Accounts!Init => Two!Init) /\ (Accounts!Next => Two!Next)
    /\ (Accounts!DraftsKept <=> Two!DraftsKept) /\ (Accounts!DraftsKept' <=> Two!DraftsKept')
<1>1. Two!AccountsAssumption
  <2>1. Accounts!AccountsAssumption <=> Two!AccountsAssumption
    BY Zenon DEF Accounts!AccountsAssumption, Two!AccountsAssumption, Accounts!FaultKinds,
       Two!FaultKinds, Accounts!NoHome, Two!NoHome, Accounts!NoAuth, Two!NoAuth, Accounts!None,
       Two!None, Accounts!Ambient, Two!Ambient
  <2> QED  BY <2>1, ServicesAssumption
<1>2. Accounts!Init => Two!Init
  BY Zenon DEF Accounts!Init, Two!Init, Accounts!EmptyConfig, Two!EmptyConfig, Accounts!Files,
     Two!Files, Accounts!NoHome, Two!NoHome, Accounts!NoAuth, Two!NoAuth, Accounts!None,
     Two!None, Accounts!Ambient, Two!Ambient
<1>3. Accounts!Next => Two!Next
  BY Zenon DEF Accounts!Next, Two!Next, Accounts!Login, Two!Login, Accounts!LoginInHome,
     Two!LoginInHome, Accounts!Merge, Two!Merge, Accounts!FinishLogin, Two!FinishLogin,
     Accounts!PrepareWrite, Two!PrepareWrite, Accounts!Record, Two!Record, Accounts!ReplaceAuth,
     Two!ReplaceAuth, Accounts!CommitLogin, Two!CommitLogin, Accounts!RollBack, Two!RollBack,
     Accounts!ArchiveDuplicates, Two!ArchiveDuplicates, Accounts!Discard, Two!Discard,
     Accounts!Activate, Two!Activate, Accounts!Remove, Two!Remove, Accounts!WriteConfig,
     Two!WriteConfig, Accounts!ArchiveRemoved, Two!ArchiveRemoved, Accounts!Crash, Two!Crash,
     Accounts!Goto, Two!Goto, Accounts!Begin, Two!Begin, Accounts!Fault, Two!Fault,
     Accounts!Files, Two!Files, Accounts!locals, Two!locals, Accounts!aux, Two!aux,
     Accounts!Exists, Two!Exists, Accounts!Duplicates, Two!Duplicates, Accounts!EmptyConfig,
     Two!EmptyConfig, Accounts!NoHome, Two!NoHome, Accounts!NoAuth, Two!NoAuth, Accounts!None,
     Two!None, Accounts!Ambient, Two!Ambient
<1>4. Accounts!DraftsKept <=> Two!DraftsKept
  BY Zenon DEF Accounts!DraftsKept, Two!DraftsKept, Accounts!AccountsTyped, Two!AccountsTyped,
     Accounts!TypeOK, Two!TypeOK, Accounts!Named, Two!Named, Accounts!Configs, Two!Configs,
     Accounts!Auths, Two!Auths, Accounts!Steps, Two!Steps, Accounts!LoginSteps, Two!LoginSteps,
     Accounts!MergedSteps, Two!MergedSteps, Accounts!ActiveIsListed, Two!ActiveIsListed,
     Accounts!NoHome, Two!NoHome, Accounts!NoAuth, Two!NoAuth, Accounts!None, Two!None,
     Accounts!Ambient, Two!Ambient
<1>5. Accounts!DraftsKept' <=> Two!DraftsKept'
  BY Zenon DEF Accounts!DraftsKept, Two!DraftsKept, Accounts!AccountsTyped, Two!AccountsTyped,
     Accounts!TypeOK, Two!TypeOK, Accounts!Named, Two!Named, Accounts!Configs, Two!Configs,
     Accounts!Auths, Two!Auths, Accounts!Steps, Two!Steps, Accounts!LoginSteps, Two!LoginSteps,
     Accounts!MergedSteps, Two!MergedSteps, Accounts!ActiveIsListed, Two!ActiveIsListed,
     Accounts!NoHome, Two!NoHome, Accounts!NoAuth, Two!NoAuth, Accounts!None, Two!None,
     Accounts!Ambient, Two!Ambient
<1> QED  BY <1>1, <1>2, <1>3, <1>4, <1>5

(* A command that runs alone keeps the accounts, and a login confines its   *)
(* failures.                                                                *)
LEMMA AccountStarts == Account!Init => Account!AccountKept
BY OneLinks, One!AccountStarts

LEMMA AccountStep == Account!AccountKept /\ Account!Next => Account!AccountKept'
BY OneLinks, One!AccountStep

LEMMA LoginsConfined ==
    Account!AccountKept /\ Account!Next => Account!FailedLoginConfined /\ Account!ReauthKeepsAccount
BY OneLinks, One!LoginsConfined

(* Two commands that write over each other keep what they can.              *)
LEMMA DraftsStart == Accounts!Init => Accounts!DraftsKept
BY TwoLinks, Two!DraftsStart

LEMMA DraftsStep == Accounts!DraftsKept /\ Accounts!Next => Accounts!DraftsKept'
BY TwoLinks, Two!DraftsStep

(****************************************************************************)
(* What is stored, of every machine.                                        *)
(****************************************************************************)
(* The private files start with what survives in place.                     *)
LEMMA StoredStarts == File!Init => File!FileStored /\ File!SecretStored
<1> SUFFICES ASSUME File!Init PROVE File!FileStored /\ File!SecretStored
  OBVIOUS
<1>0. File!FileKept
  BY FileStarts
<1> DEFINE d == [n \in File!Names |-> 0]
<1>1. r2 = <<d>> /\ r4 = [w \in Writers |-> File!Idle]
      /\ r6 = [writes |-> MaxWrites, failures |-> MaxFailures, crashes |-> MaxCrashes, edits |-> MaxEdits]
  BY DEF File!Init
<1>2. DOMAIN r2 = {1} /\ r2[1] = d /\ File!dir = d
  BY <1>1 DEF File!dir, File!Last
<1>3. \A w \in Writers : r4[w].pc = "idle"
  BY <1>1 DEF File!Idle
<1>4. File!BudgetKept
  BY <1>1, ServicesAssumption DEF File!BudgetKept, File!FileAssumption
<1>5. File!OnlyRenamesUnsynced
  BY <1>2 DEF File!OnlyRenamesUnsynced
<1>6. \A w \in Writers : File!PredecessorInHand(w)
  BY <1>3 DEF File!PredecessorInHand
<1>7. File!SingleNames(d)
  BY NamesDiffer DEF File!SingleNames
<1> QED  BY <1>0, <1>2, <1>3, <1>4, <1>5, <1>6, <1>7 DEF File!FileStored, File!SecretStored

(* The inductive invariant of what is stored, of each machine.              *)
Stored ==
    /\ machine = "file" => File!FileStored
    /\ machine = "secret" => File!SecretStored
    /\ machine = "history" => History!HistoryKept
    /\ machine = "account" => Account!AccountKept
    /\ machine = "accounts" => Accounts!DraftsKept
    /\ machine = "config" => Config!ConfigKept

(* Every machine starts with it.                                            *)
LEMMA StoredInitially == ServicesInit => Stored
<1> SUFFICES ASSUME ServicesInit PROVE Stored
  OBVIOUS
<1>1. /\ machine = "file" => File!Init
      /\ machine = "secret" => Secret!Init
      /\ machine = "history" => History!Init
      /\ machine = "account" => Account!Init
      /\ machine = "accounts" => Accounts!Init
      /\ machine = "config" => Config!Init
  BY DEF ServicesInit, Starts
<1> QED
  BY <1>1, StoredStarts, SecretStarts, HistoryStarts, AccountStarts, DraftsStart, ConfigStarts
     DEF Stored

(* Every step of an ordinary write keeps it.                                *)
LEMMA FileStoredStep ==
    ASSUME File!FileStored, File!Next
    PROVE  File!FileStored'
<1>1. File!FileKept'
  BY FileStep DEF File!FileStored
<1>2. \/ \E w \in Writers : Ordinary(w) \/ File!Pin(w)
      \/ File!Crash \/ File!Edit
  BY OrdinarySteps
<1>3. File!FileKept /\ File!FileTypes /\ File!BudgetKept /\ File!OnlyRenamesUnsynced
      /\ \A w \in Writers : File!PredecessorInHand(w)
  BY DEF File!FileStored, File!FileKept
<1>4. File!BudgetKept'
  BY <1>2, <1>3, BudgetStep
<1>5. File!OnlyRenamesUnsynced'
  BY <1>2, <1>3, UnsyncedStep
<1>6. \A w \in Writers : File!PredecessorInHand(w)'
  BY <1>2, <1>3, PredecessorStep
<1> QED  BY <1>1, <1>4, <1>5, <1>6 DEF File!FileStored

(* And every step of a secret's write.                                      *)
LEMMA SecretStoredStep ==
    ASSUME File!SecretStored, Secret!Next
    PROVE  File!SecretStored'
<1>2. \/ \E w \in Writers : Ordinary(w) \/ Secret!PinPrivate(w)
      \/ File!Crash \/ File!Edit
  BY SecretSteps
<1>3. File!FileKept /\ File!FileTypes /\ File!BudgetKept /\ File!OnlyRenamesUnsynced
  BY DEF File!SecretStored, File!FileKept
<1>1. File!FileKept'
  <2>1. \A w \in Writers : Ordinary(w) => File!Step(w)
    BY DEF Ordinary, File!Step
  <2> QED  BY <1>2, <1>3, <2>1, FileStep DEF File!Next
<1>4. File!BudgetKept'
  BY <1>2, <1>3, BudgetStep
<1>5. File!OnlyRenamesUnsynced'
  BY <1>2, <1>3, UnsyncedStep
<1>6. /\ \A k \in DOMAIN r2' : File!SingleNames(r2'[k])
      /\ \A w \in Writers : r4'[w].pc \notin {"pinned", "linked", "published"}
  BY <1>2, SecretStep
<1>7. (\A k \in DOMAIN r2 : File!SingleNames(r2[k]))'
  BY <1>6 DEF File!SingleNames, File!Names, File!Previous, File!Current
<1> QED  BY <1>1, <1>4, <1>5, <1>6, <1>7 DEF File!SecretStored

(* A step that changes no variable changes nothing that is stored.          *)
LEMMA StoredStutters ==
    ASSUME Stored, UNCHANGED all
    PROVE  Stored'
<1>1. /\ machine' = machine
      /\ UNCHANGED <<r1, r2, r3, r4, r5, r6, r7, r8, r9, r10, r11, r12, r13>>
  BY DEF all, registers
<1>2. File!FileKept => File!FileKept'
  BY <1>1 DEF File!FileKept, File!FileTypes, File!StagedApart, File!Apart, File!At,
     File!WholeDocuments, File!dir, File!Last
<1>3. File!FileStored => File!FileStored'
  BY <1>1, <1>2 DEF File!FileStored, File!BudgetKept, File!OnlyRenamesUnsynced, File!PredecessorInHand,
     File!At, File!dir, File!Last
<1>4. File!SecretStored => File!SecretStored'
  BY <1>1, <1>2 DEF File!SecretStored, File!BudgetKept, File!OnlyRenamesUnsynced, File!SingleNames,
     File!At, File!dir, File!Last
<1>5. History!HistoryKept => History!HistoryKept'
  <2>1. FilesKept => FilesKept'
    BY <1>1, FilesStay
  <2>2. HandlesKept => HandlesKept'
    BY <1>1 DEF HandlesKept, History!OpenedIsOurs, History!Ours, History!Starting
  <2>3. ChannelKept => ChannelKept'
    BY <1>1 DEF ChannelKept, History!Command
  <2> QED  BY <2>1, <2>2, <2>3, HistoryParts
<1>6. Account!AccountKept => Account!AccountKept'
  <2>1. Account!AccountsTyped => Account!AccountsTyped'
    BY <1>1 DEF Account!AccountsTyped, Account!TypeOK, Account!Named
  <2>2. Account!ActiveIsListed /\ Account!ListedHasHome => (Account!ActiveIsListed /\ Account!ListedHasHome)'
    BY <1>1 DEF Account!ActiveIsListed, Account!ListedHasHome, Account!Exists
  <2>3. ASSUME NEW p \in {p1}, Account!CommandInHand(p)  PROVE Account!CommandInHand(p)'
    <3>1. /\ Account!ChangedOnly(p)' <=> Account!ChangedOnly(p)
          /\ Account!Fresh(p)' <=> Account!Fresh(p)
          /\ Account!LoginInHand(p)' <=> Account!LoginInHand(p)
          /\ Account!Restorable(p)' <=> Account!Restorable(p)
      BY <1>1 DEF Account!ChangedOnly, Account!Fresh, Account!LoginInHand, Account!Restorable, Account!Exists
    <3>2. Account!MergeInHand(p)' <=> Account!MergeInHand(p)
      BY <1>1 DEF Account!MergeInHand, Account!Duplicates, Account!Exists
    <3>3. Account!WriteInHand(p)' <=> Account!WriteInHand(p)
      BY <1>1, <3>1 DEF Account!WriteInHand
    <3> QED  BY <1>1, <2>3, <3>1, <3>2, <3>3 DEF Account!CommandInHand
  <2> QED  BY <1>1, <2>1, <2>2, <2>3 DEF Account!AccountKept
<1>7. Accounts!DraftsKept => Accounts!DraftsKept'
  BY <1>1, Zenon DEF Accounts!DraftsKept, Accounts!AccountsTyped, Accounts!TypeOK, Accounts!Named,
     Accounts!ActiveIsListed
<1>8. Config!ConfigKept => Config!ConfigKept'
  BY <1>1, Zenon DEF Config!ConfigKept, Config!TypeOK, Config!WrittenLoads, Config!DraftsKept,
     Config!ReaderKept, Config!Encodes
<1> QED  BY <1>1, <1>3, <1>4, <1>5, <1>6, <1>7, <1>8 DEF Stored

(* Every step of the services keeps it.                                     *)
LEMMA StoredStep ==
    ASSUME Stored, [ServicesNext]_all
    PROVE  Stored'
<1>1. CASE UNCHANGED all
  BY <1>1, StoredStutters
<1>2. CASE ServicesNext
  <2>1. /\ machine' = machine
        /\ machine = "file" => File!Next
        /\ machine = "secret" => Secret!Next
        /\ machine = "history" => History!Next
        /\ machine = "account" => Account!Next
        /\ machine = "accounts" => Accounts!Next
        /\ machine = "config" => Config!Next
    BY <1>2 DEF ServicesNext, Runs
  <2> QED
    BY <2>1, FileStoredStep, SecretStoredStep, HistoryStep, AccountStep, DraftsStep, ConfigStep
       DEF Stored
<1> QED  BY <1>1, <1>2

(* From it, what must survive does.                                         *)
LEMMA StoredSurvives == Stored => StoredStateSurvives
<1>1. Account!AccountKept => Account!ListedHasHome /\ Account!ActiveIsListed
  BY DEF Account!AccountKept
<1>2. Accounts!DraftsKept => Accounts!ActiveIsListed
  BY DEF Accounts!DraftsKept
<1> QED
  BY <1>1, <1>2, StoredMeans, HistoryMeans, ConfigMeans DEF Stored, StoredStateSurvives

(* The stored state survives, whatever crashes or fails in between, the     *)
(* sync after a rename and the rollback of a login included: files are      *)
(* durable with a predecessor, or a secret with none; the history's tables  *)
(* hold the newest rows; the active account is listed and a listed one has  *)
(* its home, unless the rename that listed it was not synced; what a        *)
(* command made of a configuration is valid and loads, but for the limits   *)
(* that command does not check.                                             *)
THEOREM StoredStateSurvivesHolds == ServicesSpec => []StoredStateSurvives
<1>1. Stored /\ [ServicesNext]_all => Stored'
  BY StoredStep
<1> QED
  BY <1>1, StoredInitially, StoredSurvives, PTL DEF ServicesSpec

(****************************************************************************)
(* What no step of any machine does.                                        *)
(****************************************************************************)
(* An undisturbed socket promises what one that is meddled with does.       *)
LEMMA UndisturbedPromises ==
    /\ Meddled!LiveSocketKept => Socket!LiveSocketKept
    /\ Meddled!LoneStartRecovers => Socket!LoneStartRecovers
BY DEF Meddled!LiveSocketKept, Socket!LiveSocketKept, Meddled!LoneStartRecovers, Socket!LoneStartRecovers,
       Meddled!Dirs, Socket!Dirs, Meddled!None, Socket!None, Meddled!Off, Socket!Off

(* The invariant, of each machine, that lets none of its steps do what it   *)
(* must not.                                                                *)
Guarded ==
    /\ machine \in {"socket", "meddled"} => Meddled!StartKept
    /\ machine = "transport" => Request!WithinPolicy
    /\ machine = "rpc" => Rpc!ChildInHand /\ Rpc!FailureIsFinal
    /\ machine = "config" => Config!DraftsAreChanges

(* Every machine starts guarded.                                            *)
LEMMA GuardedInitially == ServicesInit => Guarded
<1> SUFFICES ASSUME ServicesInit PROVE Guarded
  OBVIOUS
<1>1. /\ machine = "socket" => Socket!Init
      /\ machine = "meddled" => Meddled!Init
      /\ machine = "transport" => Request!Init
      /\ machine = "rpc" => Rpc!Init
      /\ machine = "config" => Config!Init
  BY DEF ServicesInit, Starts
<1> QED
  BY <1>1, UndisturbedSteps, StartStarts, TransportStarts, ChildStarts, FinalStarts,
     ChangesStart DEF Guarded

(* A step that changes no variable changes none of it.                      *)
LEMMA GuardedStutters ==
    ASSUME Guarded, UNCHANGED all
    PROVE  Guarded'
<1>1. machine' = machine /\ UNCHANGED registers
  BY DEF all
<1>2. Meddled!StartKept => Meddled!StartKept'
  <2>1. UNCHANGED <<r1, r2, r3, r4, r5, r6, r7, r8, r9, r10, r11, r12, r13, r14, r15>>
    BY <1>1 DEF registers
  <2>2. Meddled!EndpointOwned => Meddled!EndpointOwned'
    BY <2>1 DEF Meddled!EndpointOwned, Meddled!TypeOK, Meddled!LockIsExclusive, Meddled!InodesAreFresh,
       Meddled!BoundOwnsName, Meddled!Here
  <2>3. Meddled!NamesLeadBack => Meddled!NamesLeadBack'
    BY <2>1 DEF Meddled!NamesLeadBack
  <2>4. Meddled!AloneRecovers => Meddled!AloneRecovers'
    BY <2>1 DEF Meddled!AloneRecovers, Meddled!Here
  <2> QED  BY <2>2, <2>3, <2>4 DEF Meddled!StartKept
<1>4. Request!WithinPolicy => Request!WithinPolicy'
  BY <1>1 DEF registers, Request!WithinPolicy, Request!TypeOK, Request!TimeAccounted,
     Request!OnlyGetRepeats, Request!CredentialsStayApproved, Request!RetriesUsedUp,
     Request!Attempting, Request!Rounds
<1>5. Rpc!ChildInHand /\ Rpc!FailureIsFinal => (Rpc!ChildInHand /\ Rpc!FailureIsFinal)'
  BY <1>1 DEF registers, Rpc!ChildInHand, Rpc!TypeOK, Rpc!GroupInHand, Rpc!ResultsAreAnswers,
     Rpc!AnswersItsRequest, Rpc!FailureIsFinal
<1>6. Config!DraftsAreChanges => Config!DraftsAreChanges'
  BY <1>1 DEF registers, Config!DraftsAreChanges
<1> QED  BY <1>1, <1>2, <1>4, <1>5, <1>6 DEF Guarded

(* A step of the services is one of the machine that was chosen.            *)
LEMMA StepOfMachine ==
    ASSUME ServicesNext
    PROVE  /\ machine' = machine
           /\ machine = "socket" => Socket!Next
           /\ machine = "meddled" => Meddled!Next
           /\ machine = "account" => Account!Next
           /\ machine = "history" => History!Next
           /\ machine = "transport" => Request!Next
           /\ machine = "rpc" => Rpc!Next
           /\ machine = "config" => Config!Next
BY DEF ServicesNext, Runs

(* Every step leaves its machine guarded.                                   *)
LEMMA GuardedStep ==
    ASSUME Stored, Guarded, [ServicesNext]_all
    PROVE  Guarded'
<1>1. CASE UNCHANGED all
  BY <1>1, GuardedStutters
<1>2. CASE ServicesNext
  BY <1>2, StepOfMachine, UndisturbedSteps, StartStep, TransportStep, ChildStep, FinalStep,
     ChangesStep DEF Guarded, Stored
<1> QED  BY <1>1, <1>2

(* A step of a guarded machine does nothing it must not.                    *)
LEMMA GuardedAllows ==
    ASSUME Stored, Guarded, ServicesNext
    PROVE  /\ machine = "account" => Account!FailedLoginConfined /\ Account!ReauthKeepsAccount
           /\ machine = "socket" => Socket!LiveSocketKept /\ Socket!LoneStartRecovers
           /\ machine = "meddled" => Meddled!LiveSocketKept /\ Meddled!ServesAtPublicPath
           /\ machine = "history" => History!ForeignUntouched /\ History!ClosedIsFinal
           /\ machine = "transport" => Request!RetriedOnlyTransient
           /\ machine = "config" => Config!OthersKept
           /\ machine = "rpc" => Rpc!NothingAfterFailure /\ Rpc!DrainFailureReported
<1>1. machine = "account" => Account!FailedLoginConfined /\ Account!ReauthKeepsAccount
  BY StepOfMachine, LoginsConfined DEF Stored
<1>2. machine = "socket" => Socket!LiveSocketKept /\ Socket!LoneStartRecovers
  BY StepOfMachine, UndisturbedSteps, UndisturbedPromises, LiveSocketStep, ServesAndRecovers DEF Guarded
<1>3. machine = "meddled" => Meddled!LiveSocketKept /\ Meddled!ServesAtPublicPath
  BY StepOfMachine, LiveSocketStep, ServesAndRecovers DEF Guarded
<1>4. machine = "history" => History!ForeignUntouched /\ History!ClosedIsFinal
  BY StepOfMachine, OursMeans DEF Guarded, Stored
<1>5. machine = "transport" => Request!RetriedOnlyTransient
  BY StepOfMachine, RetriesAreTransient DEF Guarded
<1>6. machine = "config" => Config!OthersKept
  BY StepOfMachine, ChangesMean DEF Guarded, Stored
<1>7. machine = "rpc" => Rpc!NothingAfterFailure /\ Rpc!DrainFailureReported
  BY StepOfMachine, FinalStep DEF Guarded
<1> QED  BY <1>1, <1>2, <1>3, <1>4, <1>5, <1>6, <1>7

(* No step of any machine does what it must not: a failed login leaves      *)
(* behind only what it had renamed before it failed, also when a rollback   *)
(* or a sync fails, and a login unlists nobody; a start or a cleanup takes  *)
(* no live socket's name away, goes on to serve only with its own socket at *)
(* the path and does not fail for what a crash left; the history writes no  *)
(* foreign database, removes only what it created, or what came to the path *)
(* between its last look and the removal, and writes nothing once closed;   *)
(* no permanent failure is retried; no child that failed is spoken to       *)
(* again, nor its failing drain reported as the closed pipe it caused; no   *)
(* configuration command changes a provider it does not name in what it     *)
(* read.                                                                    *)
THEOREM NoForbiddenStepHolds == ServicesSpec => NoForbiddenStep
<1> DEFINE A ==
       /\ machine = "account" => Account!FailedLoginConfined /\ Account!ReauthKeepsAccount
       /\ machine = "socket" => Socket!LiveSocketKept /\ Socket!LoneStartRecovers
       /\ machine = "meddled" => Meddled!LiveSocketKept /\ Meddled!ServesAtPublicPath
       /\ machine = "history" => History!ForeignUntouched /\ History!ClosedIsFinal
       /\ machine = "transport" => Request!RetriedOnlyTransient
       /\ machine = "config" => Config!OthersKept
       /\ machine = "rpc" => Rpc!NothingAfterFailure /\ Rpc!DrainFailureReported
<1>1. Stored /\ [ServicesNext]_all => Stored'
  BY StoredStep
<1>2. Stored /\ Guarded /\ [ServicesNext]_all => Guarded'
  BY GuardedStep
<1>3. Stored /\ Guarded /\ [ServicesNext]_all => [A]_all
  BY GuardedAllows
<1> QED
  BY <1>1, <1>2, <1>3, StoredInitially, GuardedInitially, PTL DEF ServicesSpec, NoForbiddenStep

(****************************************************************************)
(* The shape of every machine.                                              *)
(****************************************************************************)
(* The declared length, as far as the m-th digit.                           *)
Counted(s, f, m) ==
    f = [n \in 0 .. m |-> IF n = 0 THEN 0 ELSE 10 * f[n - 1] + Credential!Value[s[n]]]

(* It can be counted as far as one likes: a shortest prefix that cannot be  *)
(* has a shorter one that can.                                              *)
LEMMA CountedExists ==
    ASSUME NEW s, NEW m \in Nat
    PROVE  \E f : Counted(s, f, m)
<1> DEFINE Bad == {k \in Nat : ~\E f : Counted(s, f, k)}
<1> SUFFICES ASSUME Bad # {}  PROVE FALSE
  OBVIOUS
<1>1. PICK k \in Bad : \A j \in Bad : k <= j
  <2> HIDE DEF Bad
  <2>1. Bad \subseteq Nat
    BY DEF Bad
  <2> QED  BY <2>1, LeastNatural
<1>2. CASE k = 0
  <2>1. Counted(s, [n \in 0 .. 0 |-> 0], 0)
    BY DEF Counted
  <2> QED  BY <1>2, <2>1
<1>3. CASE k # 0
  <2>1. k - 1 \in Nat /\ k - 1 \notin Bad
    BY <1>1, <1>3
  <2>2. PICK f : Counted(s, f, k - 1)
    BY <2>1
  <2> DEFINE last == 10 * f[k - 1] + Credential!Value[s[k]]
             g == [n \in 0 .. k |-> IF n = k THEN last ELSE f[n]]
  <2>3. \A n \in 0 .. (k - 1) : f[n] = IF n = 0 THEN 0 ELSE 10 * f[n - 1] + Credential!Value[s[n]]
    BY <2>2 DEF Counted
  <2> HIDE DEF last
  <2>4. \A n \in 0 .. k : g[n] = IF n = k THEN last ELSE f[n]
    OBVIOUS
  <2>5. k \in Nat \ {0}
    BY <1>3
  <2>6. \A n \in 0 .. k : g[n] = IF n = 0 THEN 0 ELSE 10 * g[n - 1] + Credential!Value[s[n]]
    <3> SUFFICES ASSUME NEW n \in 0 .. k
                 PROVE  g[n] = IF n = 0 THEN 0 ELSE 10 * g[n - 1] + Credential!Value[s[n]]
      OBVIOUS
    <3> HIDE DEF g
    <3>1. CASE n = 0
      BY <3>1, <2>3, <2>4, <2>5
    <3>2. CASE n # 0
      <4>1. n - 1 \in 0 .. k /\ n - 1 # k /\ n - 1 \in 0 .. (k - 1)
        BY <3>2, <2>5
      <4>2. g[n - 1] = f[n - 1]
        BY <4>1, <2>4
      <4>3. CASE n = k
        BY <4>3, <4>2, <2>4, <3>2 DEF last
      <4>4. CASE n # k
        <5>1. n \in 0 .. (k - 1)
          BY <4>4, <2>5
        <5> QED  BY <5>1, <4>2, <4>4, <2>3, <2>4, <3>2
      <4> QED  BY <4>3, <4>4
    <3> QED  BY <3>1, <3>2
  <2>7. Counted(s, g, k)
    BY <2>6 DEF Counted
  <2> QED  BY <2>7
<1> QED  BY <1>2, <1>3

(* Digits declare a natural number.                                         *)
LEMMA DeclaredIsNatural ==
    ASSUME NEW s \in Seq(Credential!Digits)
    PROVE  Credential!LengthOf(s) \in Nat
<1> DEFINE value == CHOOSE f : Counted(s, f, Len(s))
<1>1. Credential!LengthOf(s) = value[Len(s)]
  BY Zenon DEF Credential!LengthOf, Counted
<1>2. Counted(s, value, Len(s))
  BY CountedExists, LenProperties
<1> HIDE DEF value
<1>3. \A n \in 0 .. Len(s) : value[n] = IF n = 0 THEN 0 ELSE 10 * value[n - 1] + Credential!Value[s[n]]
  BY <1>2 DEF Counted
<1> DEFINE Bad == {n \in 0 .. Len(s) : value[n] \notin Nat}
<1>4. Bad = {}
  <2> SUFFICES ASSUME Bad # {}  PROVE FALSE
    OBVIOUS
  <2>1. Bad \subseteq Nat /\ Len(s) \in Nat
    BY LenProperties
  <2>2. PICK k \in Bad : \A j \in Bad : k <= j
    <3> HIDE DEF Bad
    <3> QED  BY <2>1, LeastNatural
  <2>3. k # 0
    BY <1>3, <2>1, <2>2
  <2>4. k - 1 \in 0 .. Len(s) /\ k - 1 \notin Bad /\ k \in 1 .. Len(s)
    BY <2>1, <2>2, <2>3
  <2>5. value[k - 1] \in Nat /\ s[k] \in Credential!Digits
    BY <2>4, ElementOfSeq
  <2>6. Credential!Value[s[k]] \in Nat
    BY <2>5 DEF Credential!Value, Credential!Digits
  <2>7. value[k] = 10 * value[k - 1] + Credential!Value[s[k]]
    BY <1>3, <2>3, <2>2
  <2>8. value[k] \in Nat
    BY <2>5, <2>6, <2>7
  <2> QED  BY <2>2, <2>8
<1>5. Len(s) \in 0 .. Len(s)
  BY LenProperties
<1> QED  BY <1>1, <1>4, <1>5

(* The receiver starts with nothing buffered.                               *)
LEMMA BuffersStart == Credential!Init => Credential!BuffersKept
<1> SUFFICES ASSUME Credential!Init PROVE Credential!BuffersKept
  OBVIOUS
<1>1. /\ MaxBytes \in Nat /\ MaxDigits \in Nat /\ Deadline \in Nat
  BY ServicesAssumption DEF Credential!ReceiverAssumption
<1>2. /\ r1 = 0 /\ r2 = "listening" /\ r3 = TRUE /\ r5 = Credential!NoClient
      /\ r9 = << >> /\ r10 = << >>
  BY DEF Credential!Init
<1>3. << >> \in Seq(Credential!Digits) /\ Len(<< >>) = 0
  OBVIOUS
<1> QED  BY <1>1, <1>2, <1>3 DEF Credential!BuffersKept, Credential!TypeOK

(* No step buffers more than the limits: a digit is taken below the limit   *)
(* of digits, a byte of the value below the declared length.                *)
LEMMA BuffersStep ==
    ASSUME Credential!FrameKept, Credential!BuffersKept, Credential!Next
    PROVE  Credential!BuffersKept'
<1>1. /\ MaxBytes \in Nat /\ MaxDigits \in Nat /\ Deadline \in Nat
      /\ Peers \subseteq Clients
  BY ServicesAssumption DEF Credential!ReceiverAssumption
<1>2. /\ r1 \in 0..Deadline /\ r3 \in BOOLEAN
      /\ r2 \in Credential!Reading \cup {"listening", "accepted", "done"}
      /\ Len(r9) <= MaxDigits /\ Len(r10) <= MaxBytes
      /\ r5 \in Clients \cup {Credential!NoClient}
      /\ r9 \in Seq(Credential!Digits)
      /\ r2 = "payload" => Len(r10) < Credential!LengthOf(r9)
  BY DEF Credential!BuffersKept, Credential!TypeOK, Credential!DeclaredLength
<1>3. /\ r4 \in Seq(Clients) /\ r10 \in Seq(Credential!Symbols) /\ r6 \in [Clients -> Seq(Credential!Symbols)]
      /\ r8 \in Nat
      /\ r2 \in {"listening", "accepted", "length"} => r10 = << >>
      /\ r2 \in Credential!Reading => r5 \in Peers
      /\ r2 \in {"payload", "terminator", "end"} =>
           Credential!LengthOf(r9) # 0 /\ ~(Credential!LengthOf(r9) > MaxBytes)
  BY DEF Credential!FrameKept, Credential!ReceiverTypes, Credential!ReadIsPrefix, Credential!Reading,
         Credential!DeclaredLength
<1>4. Credential!LengthOf(r9) \in Nat /\ Len(r9) \in Nat /\ Len(r10) \in Nat
  BY <1>2, <1>3, DeclaredIsNatural, LenProperties
<1> USE DEF Credential!BuffersKept, Credential!TypeOK, Credential!DeclaredLength, Credential!Reading
<1>5. CASE Credential!Tick
  BY <1>1, <1>2, <1>5 DEF Credential!Tick, Credential!stream
<1>6. ASSUME NEW c \in Clients, Credential!Connect(c) \/ Credential!Send(c) \/ Credential!Close(c)
      PROVE  Credential!BuffersKept'
  BY <1>1, <1>2, <1>6 DEF Credential!Connect, Credential!Send, Credential!Close, Credential!stream
<1>7. CASE Credential!Elapse \/ Credential!ReadEnd
  BY <1>1, <1>2, <1>7 DEF Credential!Elapse, Credential!ReadEnd, Credential!Finish, Credential!stream
<1>8. CASE Credential!Accept \/ Credential!Unlink \/ Credential!Rename
  <2>1. r4 # << >> => Head(r4) \in Clients
    BY <1>3, HeadTailProperties
  <2>2. /\ r1' = r1 /\ r3' \in {r3, FALSE} /\ r2' \in {"accepted", "length", "done", r2} /\ r9' = r9 /\ r10' = r10
        /\ r5' = r5 \/ (r4 # << >> /\ r5' = Head(r4))
        /\ r2' = "payload" => r2 = "payload"
    BY <1>8 DEF Credential!Accept, Credential!Unlink, Credential!Rename, Credential!Finish, Credential!stream
  <2> QED  BY <1>1, <1>2, <2>1, <2>2
<1>9. CASE Credential!ReadByte
  <2> DEFINE x == r6[r5][r8 + 1]
  <2>1. x \in Credential!Symbols /\ r1' = r1 /\ r5' = r5
    <3>1. r6[r5] \in Seq(Credential!Symbols) /\ r8 < Len(r6[r5])
      BY <1>1, <1>3, <1>9 DEF Credential!ReadByte, Credential!Available
    <3>2. r8 + 1 \in 1 .. Len(r6[r5])
      BY <1>3, <3>1, LenProperties
    <3> QED  BY <3>1, <3>2, <1>9, ElementOfSeq DEF Credential!ReadByte
  <2>2. \/ r2 = "length" /\ Credential!LengthRead(x) /\ UNCHANGED r10
        \/ r2 = "payload" /\ Credential!PayloadRead(x)
        \/ /\ r2 = "terminator" /\ UNCHANGED <<r9, r10>>
           /\ IF x = "," THEN r2' = "end" /\ UNCHANGED <<r11, r3>>
              ELSE Credential!Finish("MissingTerminator")
        \/ r2 = "end" /\ Credential!Finish("TrailingData") /\ UNCHANGED <<r9, r10>>
    BY <1>9 DEF Credential!ReadByte
  <2> HIDE DEF x
  <2>3. CASE r2 = "length"
    <3>1. r10 = << >> /\ r10' = << >> /\ Len(<< >>) = 0
      BY <1>3, <2>2, <2>3
    <3>2. CASE r9' = Append(r9, x) /\ x \in Credential!Digits /\ Len(r9) < MaxDigits /\ UNCHANGED <<r2, r3>>
      <4>1. Append(r9, x) \in Seq(Credential!Digits) /\ Len(Append(r9, x)) = Len(r9) + 1
        BY <1>2, <3>2, AppendProperties
      <4> QED  BY <1>1, <1>2, <1>4, <2>1, <2>3, <3>1, <3>2, <4>1
    <3>3. CASE r9' = r9 /\ r2' = "payload" /\ UNCHANGED r3 /\ Credential!LengthOf(r9) # 0
      BY <1>1, <1>2, <1>4, <2>1, <3>1, <3>3
    <3>4. CASE r9' = r9 /\ r2' = "done" /\ r3' = FALSE
      BY <1>1, <1>2, <2>1, <3>1, <3>4
    <3> QED  BY <2>2, <2>3, <3>2, <3>3, <3>4 DEF Credential!LengthRead, Credential!Finish
  <2>4. CASE r2 = "payload"
    <3>1. /\ r9' = r9 /\ r3' = r3 /\ r10' = Append(r10, x)
          /\ r2' = IF Len(Append(r10, x)) = Credential!LengthOf(r9) THEN "terminator" ELSE "payload"
      BY <2>2, <2>4 DEF Credential!PayloadRead
    <3>2. Len(Append(r10, x)) = Len(r10) + 1
      BY <1>3, <2>1, AppendProperties
    <3>3. Len(r10) + 1 <= Credential!LengthOf(r9) /\ Credential!LengthOf(r9) <= MaxBytes
      BY <1>1, <1>2, <1>3, <1>4, <2>4
    <3> QED  BY <1>1, <1>2, <1>4, <2>1, <3>1, <3>2, <3>3
  <2>5. CASE r2 \in {"terminator", "end"}
    <3>1. r9' = r9 /\ r10' = r10 /\ r2' \in {"end", "done"} /\ r3' \in {r3, FALSE}
      BY <2>2, <2>5 DEF Credential!Finish
    <3> QED  BY <1>1, <1>2, <2>1, <3>1
  <2> QED  BY <2>2, <2>3, <2>4, <2>5
<1> QED  BY <1>5, <1>6, <1>7, <1>8, <1>9 DEF Credential!Next, Credential!Receiver

(* The drain cuts nobody off inside its grace: before the timeout only      *)
(* tasks that were superseded are aborted, and those that are counted as    *)
(* cancelled have left the join set.                                        *)
GraceKept ==
    ~report.timedOut =>
        /\ aborted = superseded
        /\ report.cancelled + Cardinality(superseded \cap joinSet) <= Cardinality(superseded)

(* At first nobody has been joined.                                         *)
LEMMA GraceStarts == Init => DrainTypeOK /\ GraceKept
<1> SUFFICES ASSUME Init PROVE DrainTypeOK /\ GraceKept
  OBVIOUS
<1>1. DrainTypeOK
  BY DrainAssumption DEF Init, DrainTypeOK, Outcome, ShutdownReport
<1>2. superseded \cap joinSet = superseded /\ aborted = superseded /\ report.cancelled = 0
  BY DEF Init
<1>3. Cardinality(superseded) \in Nat
  BY <1>1, DrainAssumption, FS_Subset, FS_CardinalityType DEF DrainTypeOK
<1> QED  BY <1>1, <1>2, <1>3 DEF GraceKept

(* Every step of the drain keeps its state in shape.                        *)
LEMMA DrainTypeStep == ASSUME DrainTypeOK, Next PROVE DrainTypeOK'
<1> USE DrainAssumption DEF DrainTypeOK
<1>1. CASE Tick
  BY <1>1 DEF Tick
<1>2. ASSUME NEW t \in Tasks, Finish(t) \/ DropAborted(t) PROVE DrainTypeOK'
  BY <1>2 DEF Finish, DropAborted, Outcome
<1>3. ASSUME NEW t \in Tasks, Join(t) PROVE DrainTypeOK'
  <2>1. ended[t] \in Outcome
    BY <1>3 DEF Join, Ready
  <2>2. report' \in ShutdownReport
    BY <1>3, <2>1 DEF Join, Record, ShutdownReport, Outcome
  <2> QED  BY <1>3, <2>2 DEF Join
<1>4. CASE GraceElapsed
  BY <1>4 DEF GraceElapsed, ShutdownReport
<1>5. CASE Return \/ Done
  BY <1>5 DEF Return, Done, vars
<1> QED  BY <1>1, <1>2, <1>3, <1>4, <1>5 DEF Next

(* A task that is joined as cancelled was superseded, or the grace is over. *)
LEMMA GraceStep == ASSUME DrainTypeOK, GraceKept, Next PROVE GraceKept'
<1>1. CASE UNCHANGED <<report, superseded, aborted, joinSet>>
  BY <1>1 DEF GraceKept
<1>2. CASE GraceElapsed
  <2>1. report'.timedOut
    BY <1>2 DEF GraceElapsed, DrainTypeOK, ShutdownReport
  <2> QED  BY <2>1 DEF GraceKept
<1>3. ASSUME NEW t \in Tasks, Join(t) PROVE GraceKept'
  <2> SUFFICES ASSUME ~report'.timedOut PROVE GraceKept'
    BY DEF GraceKept
  <2>1. /\ t \in joinSet /\ joinSet' = joinSet \ {t} /\ ended[t] \in Outcome
        /\ report' = [report EXCEPT ![ended[t]] = @ + 1] /\ report \in ShutdownReport
        /\ UNCHANGED <<superseded, aborted>> /\ superseded \subseteq Tasks
        /\ ended[t] = "cancelled" => t \in aborted
    BY <1>3 DEF Join, Ready, Record, DrainTypeOK
  <2>2. ~report.timedOut
    BY <2>1 DEF ShutdownReport, Outcome
  <2> DEFINE left == superseded \cap joinSet
  <2>3. left' = left \ {t} /\ IsFiniteSet(left)
    BY <2>1, DrainAssumption, FS_Subset
  <2>4. Cardinality(left) \in Nat /\ Cardinality(superseded) \in Nat
    BY <2>1, <2>3, DrainAssumption, FS_Subset, FS_CardinalityType
  <2>5. /\ aborted = superseded /\ report.cancelled \in Nat
        /\ report.cancelled + Cardinality(left) <= Cardinality(superseded)
    BY <2>1, <2>2 DEF GraceKept, ShutdownReport
  <2>6. CASE ended[t] = "cancelled"
    <3>1. t \in left
      BY <2>1, <2>5, <2>6
    <3> HIDE DEF left
    <3>2. Cardinality(left') = Cardinality(left) - 1
      BY <2>3, <3>1, FS_RemoveElement
    <3>3. report'.cancelled = report.cancelled + 1
      BY <2>1, <2>6 DEF ShutdownReport
    <3>4. report'.cancelled + Cardinality(left') <= Cardinality(superseded')
      BY <2>1, <2>4, <2>5, <3>2, <3>3
    <3> QED  BY <2>1, <2>5, <3>4 DEF GraceKept, left
  <2>7. CASE ended[t] # "cancelled"
    <3>1. report'.cancelled = report.cancelled
      BY <2>1, <2>7 DEF ShutdownReport, Outcome
    <3> HIDE DEF left
    <3>2. Cardinality(left') \in Nat /\ Cardinality(left') <= Cardinality(left)
      <4>1. left' \subseteq left
        BY <2>3
      <4> QED  BY <2>3, <2>4, <4>1, FS_Subset, FS_CardinalityType
    <3>3. report'.cancelled + Cardinality(left') <= Cardinality(superseded')
      BY <2>1, <2>4, <2>5, <3>1, <3>2
    <3> QED  BY <2>1, <2>5, <3>3 DEF GraceKept, left
  <2> QED  BY <2>6, <2>7
<1> QED  BY <1>1, <1>2, <1>3 DEF Next, Tick, Finish, DropAborted, Return, Done, vars

(* So what is counted as cancelled in time was superseded.                  *)
LEMMA GraceMeans == ASSUME DrainTypeOK, GraceKept PROVE GraceIsGranted
<1>1. /\ report \in ShutdownReport /\ superseded \subseteq Tasks
  BY DEF DrainTypeOK
<1>2. /\ Cardinality(superseded \cap joinSet) \in Nat /\ Cardinality(superseded) \in Nat
  BY <1>1, DrainAssumption, FS_Subset, FS_CardinalityType
<1> QED  BY <1>1, <1>2 DEF GraceKept, GraceIsGranted, ShutdownReport

(* Who holds the lock of a private file is inside a transaction.            *)
HeldInside == \A w \in Writers : r3 = w => r4[w].pc # "idle"

(* At first nobody holds it.                                                *)
LEMMA HeldStarts == File!Init => HeldInside
BY FileParameters DEF File!Init, HeldInside, File!NoWriter

(* Whoever ends its transaction gives the lock back.                        *)
LEMMA HeldStep ==
    ASSUME File!FileTypes, HeldInside,
           \/ \E w \in Writers : Ordinary(w) \/ File!Pin(w) \/ Secret!PinPrivate(w)
           \/ File!Crash \/ File!Edit
    PROVE  HeldInside'
<1>1. /\ r4 \in [Writers -> File!Transaction] /\ File!NoWriter \notin Writers
  BY FileParameters DEF File!FileTypes, File!NoWriter
<1>2. CASE r3' = File!NoWriter
  BY <1>1, <1>2 DEF HeldInside
<1>3. CASE File!Edit
  BY <1>3 DEF File!Edit, HeldInside
<1>4. ASSUME NEW w \in Writers, File!Acquire(w) PROVE HeldInside'
  <2>1. PICK v \in Values : r3' = w /\ r4' = [r4 EXCEPT ![w] = [File!Idle EXCEPT !.pc = "locked", !.value = v]]
    BY <1>4 DEF File!Acquire
  <2>2. r4'[w].pc = "locked"
    BY <1>1, <2>1 DEF File!Idle
  <2> QED  BY <2>1, <2>2 DEF HeldInside
<1>5. ASSUME NEW w \in Writers, r3' = r3, \A v \in Writers : v # w => r4'[v] = r4[v], r4'[w].pc # "idle"
      PROVE  HeldInside'
  BY <1>5 DEF HeldInside
<1>6. ASSUME NEW w \in Writers,
             Ordinary(w) \/ File!Pin(w) \/ Secret!PinPrivate(w), ~File!Acquire(w), r3' # File!NoWriter
      PROVE  HeldInside'
  <2>1. CASE File!Read(w)
    BY <2>1 DEF File!Read, HeldInside
  <2>2. CASE ~File!Read(w)
    <3>1. r3' = r3
      BY <1>6, <2>2 DEF Ordinary, File!CreateTemporary, File!WriteTemporary, File!Link,
         File!PublishPredecessor, File!SyncPredecessor, File!Validate, File!Rename, File!Finish, File!Fail,
         File!Pin, Secret!PinPrivate, File!Drop, Secret!Drop, Secret!NoWriter, File!NoWriter
    <3>2. r4[w] \in File!Transaction
      BY <1>1
    <3>3. /\ \A v \in Writers : v # w => r4'[v] = r4[v]
          /\ r4'[w].pc # "idle"
      <4>1. CASE File!CreateTemporary(w)
        BY <1>1, <3>2, <4>1 DEF File!CreateTemporary, File!Transaction
      <4>2. CASE File!WriteTemporary(w) \/ File!PublishPredecessor(w) \/ File!SyncPredecessor(w) \/ File!Rename(w)
        BY <1>1, <3>2, <4>2 DEF File!WriteTemporary, File!PublishPredecessor, File!SyncPredecessor,
           File!Rename, File!Goto, File!Transaction
      <4>3. CASE File!Link(w)
        BY <1>1, <1>6, <3>2, <4>3 DEF File!Link, File!Drop, File!Goto, File!Transaction
      <4>4. CASE File!Validate(w)
        BY <1>1, <1>6, <3>2, <4>4 DEF File!Validate, File!Drop, File!Transaction
      <4>5. CASE File!Pin(w)
        BY <1>1, <3>2, <4>5 DEF File!Pin, File!Transaction
      <4>6. CASE Secret!PinPrivate(w)
        BY <1>1, <1>6, <3>2, <4>6
           DEF Secret!PinPrivate, Secret!Drop, Secret!NoWriter, File!NoWriter, File!Transaction
      <4> QED  BY <1>6, <2>2, <4>1, <4>2, <4>3, <4>4, <4>5, <4>6
                  DEF Ordinary, File!Finish, File!Fail, File!Drop
    <3> QED  BY <3>1, <3>3, <1>5
  <2> QED  BY <2>1, <2>2
<1>7. File!Crash => r3' = File!NoWriter
  BY DEF File!Crash
<1> QED  BY <1>2, <1>3, <1>4, <1>6, <1>7

(* How a program may have ended.                                            *)
LEMMA ResultsTyped ==
    ASSUME Command!TypeOK, Command!OutputsEnd, Command!Next
    PROVE  Command!TypeOK'
<1>1. Command!OutputsEnd'
  BY CommandStep
<1>2. r2' \in {"none", "Ok", "NonZero", "Cancelled", "Timeout", "Wait", "Dropped"} \cup Command!Streams
  BY DEF Command!TypeOK, Command!Next, Command!WriteOut, Command!Fork, Command!Exit, Command!Cancel,
     Command!Tick, Command!Run, Command!Interrupted, Command!Read, Command!ReadEnd, Command!Wait,
     Command!Finish, Command!TerminateGroup, Command!Drop, Command!Terminate
<1> QED  BY <1>1, <1>2 DEF Command!OutputsEnd, Command!TypeOK

(* What, besides, keeps the state of every machine in shape.                *)
Shaped ==
    /\ machine = "drain" => DrainTypeOK /\ GraceKept
    /\ machine \in {"file", "secret"} => HeldInside
    /\ machine = "presence" => Presence!PresenceKept
    /\ machine = "credential" => Credential!FrameKept /\ Credential!BuffersKept
    /\ machine = "command" => Command!OutputsEnd /\ Command!TypeOK
    /\ machine = "reaper" => Reaper!Supervised

(* Every machine starts in shape.                                           *)
LEMMA ShapedInitially == ServicesInit => Shaped
<1> SUFFICES ASSUME ServicesInit PROVE Shaped
  OBVIOUS
<1>1. /\ machine = "drain" => Init
      /\ machine = "file" => File!Init
      /\ machine = "secret" => Secret!Init
      /\ machine = "presence" => Presence!Init
      /\ machine = "credential" => Credential!Init
      /\ machine = "command" => Command!Init
      /\ machine = "reaper" => Reaper!Init
  BY DEF ServicesInit, Starts
<1>2. Command!Init => Command!TypeOK
  <2>1. Command!Init => r2 = "none" /\ Command!OutputsEnd
    BY CommandStarts DEF Command!Init
  <2> QED  BY <2>1 DEF Command!OutputsEnd, Command!TypeOK
<1> QED
  BY <1>1, <1>2, GraceStarts, SecretStarts, HeldStarts, PresenceStarts, ReceiverStarts, BuffersStart,
     CommandStarts, ReaperStarts DEF Shaped

(* Every step leaves its machine in shape.                                  *)
LEMMA ShapedStep ==
    ASSUME Stored, Shaped, [ServicesNext]_all
    PROVE  Shaped'
<1>1. CASE UNCHANGED all
  <2>1. machine' = machine /\ UNCHANGED registers /\ UNCHANGED vars
    BY <1>1 DEF all
  <2>2. DrainTypeOK /\ GraceKept => (DrainTypeOK /\ GraceKept)'
    BY <2>1 DEF vars, DrainTypeOK, GraceKept
  <2>3. HeldInside => HeldInside'
    BY <2>1 DEF registers, HeldInside
  <2>4. Presence!PresenceKept => Presence!PresenceKept'
    BY <2>1 DEF registers, Presence!PresenceKept, Presence!TypeOK, Presence!SuppressedIffPresent,
       Presence!ActiveOnlyAfterGrace, Presence!DeadlineKept, Presence!Decided
  <2>5. Credential!FrameKept => Credential!FrameKept'
    BY <2>1 DEF registers, Credential!FrameKept, Credential!ReceiverTypes, Credential!ReadIsPrefix,
       Credential!FrameSoFar, Credential!DeclaredLength, Credential!DeliveredExactly, Credential!OneShot
  <2>6. Credential!BuffersKept => Credential!BuffersKept'
    BY <2>1 DEF registers, Credential!BuffersKept, Credential!TypeOK, Credential!DeclaredLength
  <2>7. Command!OutputsEnd /\ Command!TypeOK => (Command!OutputsEnd /\ Command!TypeOK)'
    BY <2>1 DEF registers, Command!OutputsEnd, Command!NoOrphans, Command!TypeOK
  <2>8. Reaper!Supervised => Reaper!Supervised'
    BY <2>1 DEF registers, Reaper!Supervised, Reaper!TypeOK, Reaper!SlotsCountGuards,
       Reaper!QueueIsGuards, Reaper!Queued, Reaper!Armed, Reaper!ScansAreFinal, Reaper!Holder,
       Reaper!NothingLost, Reaper!CleanMeansGone
  <2> QED  BY <2>1, <2>2, <2>3, <2>4, <2>5, <2>6, <2>7, <2>8 DEF Shaped
<1>2. CASE ServicesNext
  <2>1. /\ machine' = machine
        /\ machine = "drain" => Next
        /\ machine = "file" => File!Next
        /\ machine = "secret" => Secret!Next
        /\ machine = "presence" => Presence!Next
        /\ machine = "credential" => Credential!Next
        /\ machine = "command" => Command!Next
        /\ machine = "reaper" => Reaper!Next
    BY <1>2 DEF ServicesNext, Runs
  <2>2. machine = "file" => HeldInside'
    BY <2>1, OrdinarySteps, HeldStep DEF Stored, Shaped, File!FileStored, File!FileKept
  <2>3. machine = "secret" => HeldInside'
    BY <2>1, SecretSteps, HeldStep DEF Stored, Shaped, File!SecretStored, File!FileKept
  <2> QED
    BY <2>1, <2>2, <2>3, DrainTypeStep, GraceStep, PresenceStep, ReceiverStep, BuffersStep, CommandStep,
       ResultsTyped, ReaperStep DEF Shaped
<1> QED  BY <1>1, <1>2

(* From these invariants, the shape of every machine.                       *)
LEMMA ShapedMeans == Stored /\ Guarded /\ Shaped => ServicesTypeOK
<1> SUFFICES ASSUME Stored, Guarded, Shaped PROVE ServicesTypeOK
  OBVIOUS
<1>1. machine \in {"file", "secret"} => File!TypeOK
  <2> SUFFICES ASSUME machine \in {"file", "secret"} PROVE File!TypeOK
    OBVIOUS
  <2>1. File!FileTypes /\ HeldInside
    BY DEF Stored, Shaped, File!FileStored, File!SecretStored, File!FileKept
  <2>2. \A k \in DOMAIN r2 : r2[k] \in File!Directory
    BY <2>1 DEF File!FileTypes
  <2> QED  BY <2>1, <2>2 DEF File!FileTypes, File!TypeOK, File!Directory, File!At, HeldInside
<1>2. machine \in {"socket", "meddled"} => Socket!TypeOK
  <2>1. Meddled!TypeOK => Socket!TypeOK
    BY DEF Meddled!TypeOK, Socket!TypeOK, Meddled!Dirs, Socket!Dirs, Meddled!Inodes, Socket!Inodes,
       Meddled!None, Socket!None, Meddled!Steps, Socket!Steps, Meddled!Off, Socket!Off
  <2> QED  BY <2>1 DEF Guarded, Meddled!StartKept, Meddled!EndpointOwned
<1>3. /\ machine = "presence" => Presence!TypeOK
      /\ machine = "credential" => Credential!TypeOK
      /\ machine = "command" => Command!TypeOK
      /\ machine = "drain" => DrainTypeOK /\ GraceIsGranted
      /\ machine = "reaper" => Reaper!TypeOK
  BY GraceMeans DEF Shaped, Presence!PresenceKept, Credential!BuffersKept, Reaper!Supervised
<1>4. /\ machine = "account" => Account!TypeOK
      /\ machine = "accounts" => Accounts!TypeOK
      /\ machine = "history" => History!TypeOK
      /\ machine = "config" => Config!TypeOK
  BY DEF Stored, Config!ConfigKept, Account!AccountKept, Account!AccountsTyped, Accounts!DraftsKept,
     Accounts!AccountsTyped, History!HistoryKept
<1>5. /\ machine = "transport" => Request!TypeOK
      /\ machine = "rpc" => Rpc!TypeOK
  BY DEF Guarded, Request!WithinPolicy, Rpc!ChildInHand
<1> QED  BY <1>1, <1>2, <1>3, <1>4, <1>5 DEF ServicesTypeOK

(* The state of every machine but the display, which DisplayProofs covers,  *)
(* keeps its shape for every value of the parameters, with what is          *)
(* buffered, counted or queued within its limit: the credential's digits    *)
(* and bytes (read_one_frame), a program's output (read_bounded), the       *)
(* history's queue, the attempts of a start, the retries and redirects of a *)
(* request; a private file's lock is held exactly inside a transaction, the *)
(* accounts' exactly while a login replaces and commits; a configuration    *)
(* command has a draft exactly between its read and its write; the reaper's *)
(* queue holds commands; and the drain cuts nobody off inside its grace     *)
(* period (cancel_and_drain).                                               *)
THEOREM ServicesTypeCorrect == ServicesSpec => []ServicesTypeOK
<1>1. Stored /\ [ServicesNext]_all => Stored'
  BY StoredStep
<1>2. Stored /\ Guarded /\ [ServicesNext]_all => Guarded'
  BY GuardedStep
<1>3. Stored /\ Shaped /\ [ServicesNext]_all => Shaped'
  BY ShapedStep
<1> QED
  BY <1>1, <1>2, <1>3, StoredInitially, GuardedInitially, ShapedInitially, ShapedMeans, PTL
     DEF ServicesSpec
================================================================================
