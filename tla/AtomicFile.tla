------------------------------- MODULE AtomicFile -------------------------------
(****************************************************************************)
(* storage/atomic_file.rs and lock.rs: writers that stage a synced          *)
(* temporary file beside the target, publish the old file as a hard link    *)
(* named previous (or, for secrets, refuse to), and rename the new file     *)
(* over the target, under one advisory lock. A file is a directory entry    *)
(* naming an inode. Faults: every operation may fail, the machine may crash *)
(* and lose directory changes that were not synced, and an editor that      *)
(* takes no lock may replace the target at any point.                       *)
(****************************************************************************)
EXTENDS Naturals, FiniteSets, Sequences, SequencesExt

CONSTANTS
    Writers,      \* concurrent callers of the storage layer
    Values,       \* documents
    Inodes,       \* inode numbers the file system hands out
    Private,      \* TRUE: atomic_write_without_predecessor, FALSE: atomic_write
    MaxWrites,    \* transactions begun
    MaxFailures,  \* failing operations
    MaxCrashes,   \* power losses
    MaxEdits,     \* replacements by a program that takes no lock
    Absent        \* no document

FileAssumption ==
    /\ Inodes \subseteq Nat \ {0} /\ IsFiniteSet(Inodes) /\ IsFiniteSet(Writers)
    /\ Private \in BOOLEAN /\ Absent \notin Values \cup Writers
    /\ {MaxWrites, MaxFailures, MaxCrashes, MaxEdits} \subseteq Nat

VARIABLES
    inode,     \* the document of every inode; Absent while it is incomplete
    dirs,      \* the directory as last synced, then after every change since
    lock,      \* the writer holding the advisory lock
    writer,    \* the transaction of every writer
    reads,     \* what the last read returned
    budget

vars == <<inode, dirs, lock, writer, reads, budget>>

NoWriter == Absent
Current == <<"current", NoWriter>>
Previous == <<"previous", NoWriter>>
Names == {Current, Previous} \cup ({"new", "link"} \X Writers)
Idle == [pc |-> "idle", value |-> Absent, expected |-> 0, file |-> 0, replaced |-> Absent]
dir == Last(dirs)
Links(d, i) == Cardinality({n \in Names : d[n] = i})
Document(d) == IF d[Current] = 0 THEN Absent ELSE inode[d[Current]]

(* An inode no directory a crash may leave still names, and no writer has   *)
(* open.                                                                    *)
FreeInodes ==
    {i \in Inodes : /\ \A k \in DOMAIN dirs : \A n \in Names : dirs[k][n] # i
                    /\ \A w \in Writers : writer[w].file # i /\ writer[w].expected # i}
(* The file system hands out any of them.                                   *)
NewInode == CHOOSE i \in FreeInodes : TRUE

Init ==
    /\ inode = [i \in Inodes |-> Absent]
    /\ dirs = <<[n \in Names |-> 0]>>
    /\ lock = NoWriter
    /\ writer = [w \in Writers |-> Idle]
    /\ reads = Absent
    /\ budget = [writes |-> MaxWrites, failures |-> MaxFailures, crashes |-> MaxCrashes, edits |-> MaxEdits]

ChangeDir(d) == dirs' = Append(dirs, d)
SyncDir == dirs' = <<dir>>
At(w, pc) == writer[w].pc = pc
Goto(w, pc) == writer' = [writer EXCEPT ![w].pc = pc]

(* Dropping WriteState: the temporary entries go, then the lock.            *)
Drop(w) ==
    /\ writer' = [writer EXCEPT ![w] = Idle]
    /\ lock' = NoWriter
    /\ LET d == [dir EXCEPT ![<<"new", w>>] = 0, ![<<"link", w>>] = 0]
       IN  dirs' = IF d = dir THEN dirs ELSE Append(dirs, d)

(****************************************************************************)
(* stage_write.                                                             *)
(****************************************************************************)
Acquire(w) ==
    /\ At(w, "idle") /\ lock = NoWriter
    /\ lock' = w
    /\ budget.writes > 0 /\ budget' = [budget EXCEPT !.writes = @ - 1]
    /\ \E v \in Values : writer' = [writer EXCEPT ![w] = [Idle EXCEPT !.pc = "locked", !.value = v]]
    /\ UNCHANGED <<inode, dirs, reads>>

(* An exclusive, randomly named entry; its contents are not there yet.      *)
CreateTemporary(w) ==
    /\ At(w, "locked")
    /\ FreeInodes # {}
    /\ LET i == NewInode IN
           /\ inode' = [inode EXCEPT ![i] = Absent]
           /\ ChangeDir([dir EXCEPT ![<<"new", w>>] = i])
           /\ writer' = [writer EXCEPT ![w].pc = "created", ![w].file = i]
    /\ UNCHANGED <<lock, reads, budget>>

\* Mutant: the staged file is renamed before its contents are written.
WriteTemporaryLater(w) ==
    /\ At(w, "created")
    /\ Goto(w, "staged")
    /\ UNCHANGED <<inode, dirs, lock, reads, budget>>

(* write_all and sync_all: from here the contents survive a crash.          *)
WriteTemporary(w) ==
    /\ At(w, "created")
    /\ inode' = [inode EXCEPT ![writer[w].file] = writer[w].value]
    /\ Goto(w, "staged")
    /\ UNCHANGED <<dirs, lock, reads, budget>>

(****************************************************************************)
(* StagedWrite::prepare, publish_predecessor.                               *)
(****************************************************************************)
(* The current file is pinned by its identity. One that is already linked   *)
(* as previous only needs the directory synced.                             *)
Pin(w) ==
    /\ At(w, "staged") /\ ~Private
    /\ writer' = [writer EXCEPT ![w].expected = dir[Current],
           ![w].pc = IF dir[Current] \in {0, dir[Previous]} THEN "prepared" ELSE "pinned"]
    /\ IF dir[Current] # 0 /\ dir[Current] = dir[Previous] THEN SyncDir ELSE UNCHANGED dirs
    /\ UNCHANGED <<inode, lock, reads, budget>>

(* create_predecessor_link, with its check that the name still is the       *)
(* pinned file.                                                             *)
Link(w) ==
    /\ At(w, "pinned")
    /\ \/ /\ dir[Current] = writer[w].expected
          /\ ChangeDir([dir EXCEPT ![<<"link", w>>] = dir[Current]])
          /\ Goto(w, "linked")
          /\ UNCHANGED lock
       \/ dir[Current] # writer[w].expected /\ Drop(w)
    /\ UNCHANGED <<inode, reads, budget>>

PublishPredecessor(w) ==
    /\ At(w, "linked")
    /\ ChangeDir([dir EXCEPT ![Previous] = dir[<<"link", w>>], ![<<"link", w>>] = 0])
    /\ Goto(w, "published")
    /\ UNCHANGED <<inode, lock, reads, budget>>

SyncPredecessor(w) ==
    /\ At(w, "published")
    /\ SyncDir
    /\ Goto(w, "prepared")
    /\ UNCHANGED <<inode, lock, reads, budget>>

(* StagedWrite::commit_without_predecessor and pin_private_current: an      *)
(* existing previous entry, or a second link, refuses the write.            *)
PinPrivate(w) ==
    /\ At(w, "staged") /\ Private
    /\ LET i == dir[Current]
       IN  \/ /\ dir[Previous] = 0 /\ (i = 0 \/ Links(dir, i) = 1)
              /\ writer' = [writer EXCEPT ![w].pc = "prepared", ![w].expected = i]
              /\ UNCHANGED <<dirs, lock>>
           \/ /\ dir[Previous] # 0 \/ (i # 0 /\ Links(dir, i) # 1)
              /\ Drop(w)
    /\ UNCHANGED <<inode, reads, budget>>

(****************************************************************************)
(* PreparedWrite::commit.                                                   *)
(****************************************************************************)
Validate(w) ==
    /\ At(w, "prepared")
    /\ \/ /\ dir[Current] = writer[w].expected
          /\ writer' = [writer EXCEPT ![w].pc = "validated", ![w].replaced = Document(dir)]
          /\ UNCHANGED <<dirs, lock>>
       \/ dir[Current] # writer[w].expected /\ Drop(w)
    /\ UNCHANGED <<inode, reads, budget>>

Rename(w) ==
    /\ At(w, "validated")
    /\ ChangeDir([dir EXCEPT ![Current] = dir[<<"new", w>>], ![<<"new", w>>] = 0])
    /\ Goto(w, "renamed")
    /\ UNCHANGED <<inode, lock, reads, budget>>

\* Mutant: the write returns before the directory is on disk.
FinishUnsynced(w) ==
    /\ At(w, "renamed")
    /\ writer' = [writer EXCEPT ![w] = Idle] /\ lock' = NoWriter
    /\ UNCHANGED <<inode, dirs, reads, budget>>

(* The directory sync, and the end of the transaction.                      *)
Finish(w) ==
    /\ At(w, "renamed")
    /\ SyncDir
    /\ writer' = [writer EXCEPT ![w] = Idle] /\ lock' = NoWriter
    /\ UNCHANGED <<inode, reads, budget>>

(* Any operation of the transaction fails.                                  *)
Fail(w) ==
    /\ ~At(w, "idle") /\ budget.failures > 0
    /\ budget' = [budget EXCEPT !.failures = @ - 1]
    /\ Drop(w)
    /\ UNCHANGED <<inode, reads>>

(****************************************************************************)
(* read_private_file, and the world outside.                                *)
(****************************************************************************)
(* Readable: one link, and one only.                                        *)
Readable(d) == d[Current] = 0 \/ Links(d, d[Current]) = 1

Read(w) ==
    /\ At(w, "idle") /\ lock = NoWriter
    /\ reads' = IF Readable(dir) THEN Document(dir) ELSE "refused"
    /\ UNCHANGED <<inode, dirs, lock, writer, budget>>

(* A crash keeps a prefix of the directory changes; locks and writers go.   *)
Crash ==
    /\ budget.crashes > 0
    /\ budget' = [budget EXCEPT !.crashes = @ - 1]
    /\ \E k \in DOMAIN dirs : dirs' = <<dirs[k]>>
    /\ writer' = [w \in Writers |-> Idle] /\ lock' = NoWriter
    /\ UNCHANGED <<inode, reads>>

Edit ==
    /\ budget.edits > 0
    /\ budget' = [budget EXCEPT !.edits = @ - 1]
    /\ FreeInodes # {}
    /\ \E v \in Values : LET i == NewInode IN
           /\ inode' = [inode EXCEPT ![i] = v]
           /\ ChangeDir([dir EXCEPT ![Current] = i])
    /\ UNCHANGED <<lock, writer, reads>>

Step(w) ==
    \/ Acquire(w) \/ CreateTemporary(w) \/ WriteTemporary(w) \/ Pin(w) \/ Link(w)
    \/ PublishPredecessor(w) \/ SyncPredecessor(w) \/ PinPrivate(w)
    \/ Validate(w) \/ Rename(w) \/ Finish(w) \/ Fail(w) \/ Read(w)

Next == (\E w \in Writers : Step(w)) \/ Crash \/ Edit

Spec == Init /\ [][Next]_vars

(****************************************************************************)
(* Properties.                                                              *)
(****************************************************************************)
(* Type correctness: directories name known inodes, one writer at a time is *)
(* inside a transaction and it is the one that holds the lock.              *)
TypeOK ==
    /\ inode \in [Inodes -> Values \cup {Absent}]
    /\ \A k \in DOMAIN dirs : dirs[k] \in [Names -> Inodes \cup {0}]
    /\ \A w \in Writers : ~At(w, "idle") <=> lock = w

(* The refinement: the document under the path, and those a crash may leave.*)
Abstract == INSTANCE PrivateFile WITH
    current <- Document(dir),
    possible <- {Document(dirs[k]) : k \in DOMAIN dirs}

(* Every behaviour of the transactions is one of the promised file: only    *)
(* whole documents appear, one step replaces one, a crash leaves one that   *)
(* was current since the last sync, never a torn or a missing file.         *)
ImplementsPrivateFile == Abstract!Spec

(* A write that has returned is durable: without a transaction under way, a *)
(* failure or an edit, no crash takes the current document back.            *)
DurableWhenIdle ==
    lock = NoWriter /\ budget.edits = MaxEdits
        /\ budget.failures = MaxFailures
        => \A k \in DOMAIN dirs : Document(dirs[k]) = Document(dir)

(* atomic_write keeps one recoverable predecessor: at the moment the new    *)
(* document replaces an old one that was pinned, the old one is durable     *)
(* under the name previous.                                                 *)
PredecessorKept ==
    \A w \in Writers : At(w, "renamed") /\ ~Private /\ writer[w].replaced # Absent
        => \A k \in DOMAIN dirs :
               dirs[k][Previous] # 0 /\ inode[dirs[k][Previous]] = writer[w].replaced

(* atomic_write_without_predecessor leaves no second name for a document    *)
(* that has been current: a replaced secret is gone with the rename.        *)
NoSecondCopy ==
    Private => \A k \in DOMAIN dirs : Readable(dirs[k]) /\ dirs[k][Previous] = 0

(****************************************************************************)
(* The inductive invariant of the refinement.                               *)
(****************************************************************************)
Written == {"staged", "pinned", "linked", "published", "prepared", "validated"}
Steps == {"idle", "locked", "created", "renamed"} \cup Written
Directory == [Names -> Inodes \cup {0}]
Transaction ==
    [pc : Steps, value : Values \cup {Absent}, expected : Inodes \cup {0},
     file : Inodes \cup {0}, replaced : Values \cup {Absent}]

FileTypes ==
    /\ inode \in [Inodes -> Values \cup {Absent}]
    /\ dirs \in Seq(Directory) /\ dirs # <<>>
    /\ lock \in Writers \cup {NoWriter} /\ writer \in [Writers -> Transaction]
    /\ \A w \in Writers : ~At(w, "idle") => lock = w /\ writer[w].value \in Values

(* What a writer stages is its own until it is renamed: no directory a      *)
(* crash may leave names it as the document, and once it was written it is  *)
(* whole.                                                                   *)
Apart(w) ==
    writer[w].pc \in Written \cup {"created"} =>
        /\ writer[w].file # 0 /\ dir[<<"new", w>>] = writer[w].file
        /\ \A k \in DOMAIN dirs : dirs[k][Current] # writer[w].file
        /\ ~At(w, "created") => inode[writer[w].file] \in Values
StagedApart == \A w \in Writers : Apart(w)

(* Every directory a crash may leave names a whole document or none.        *)
WholeDocuments ==
    \A k \in DOMAIN dirs : dirs[k][Current] # 0 => inode[dirs[k][Current]] \in Values

FileKept == FileTypes /\ StagedApart /\ WholeDocuments

(****************************************************************************)
(* The inductive invariants of what survives: DurableWhenIdle,              *)
(* PredecessorKept and NoSecondCopy.                                        *)
(****************************************************************************)
BudgetKept ==
    budget \in [writes : Nat, failures : 0..MaxFailures, crashes : Nat, edits : 0..MaxEdits]

(* Without an edit or a failure only a rename leaves a current entry that   *)
(* is not synced.                                                           *)
OnlyRenamesUnsynced ==
    (/\ budget.edits = MaxEdits /\ budget.failures = MaxFailures
     /\ \A w \in Writers : ~At(w, "renamed"))
        => \A k \in DOMAIN dirs : dirs[k][Current] = dir[Current]

(* The pinned file on its way to the name previous, and there once the      *)
(* write is prepared, in every directory a crash may leave.                 *)
PredecessorInHand(w) ==
    LET t == writer[w] IN
    /\ t.pc \in {"pinned", "linked", "published"} => t.expected # 0
    /\ t.pc = "linked" => dir[<<"link", w>>] = t.expected
    /\ t.pc = "published" => dir[Previous] = t.expected
    /\ t.pc \in {"prepared", "validated"} /\ t.expected # 0
           => \A k \in DOMAIN dirs : dirs[k][Previous] = t.expected
    /\ t.pc = "validated" => t.replaced = IF t.expected = 0 THEN Absent ELSE inode[t.expected]
    /\ t.pc = "renamed" /\ t.replaced # Absent
           => \A k \in DOMAIN dirs :
                  dirs[k][Previous] # 0 /\ inode[dirs[k][Previous]] = t.replaced

FileStored ==
    /\ FileKept /\ BudgetKept /\ OnlyRenamesUnsynced
    /\ \A w \in Writers : PredecessorInHand(w)

(* No name but a temporary one beside the current one, and none twice.      *)
SingleNames(d) ==
    /\ d[Previous] = 0 /\ \A w \in Writers : d[<<"link", w>>] = 0
    /\ \A n, m \in Names : n # m /\ d[n] = d[m] => d[n] = 0

SecretStored ==
    /\ FileKept /\ BudgetKept /\ OnlyRenamesUnsynced
    /\ \A k \in DOMAIN dirs : SingleNames(dirs[k])
    /\ \A w \in Writers : writer[w].pc \notin {"pinned", "linked", "published"}

================================================================================
