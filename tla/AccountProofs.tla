----------------------------- MODULE AccountProofs -----------------------------
(****************************************************************************)
(* The Codex commands, for every set of processes, ids and people: what     *)
(* commands that write over each other keep, and what a command that runs   *)
(* alone keeps whatever of it fails or crashes.                             *)
(****************************************************************************)
EXTENDS CodexAccounts, TLAPS

(* What a home may hold.                                                    *)
LEMMA AuthFacts ==
    ASSUME AccountsAssumption
    PROVE  /\ MaxCommands \in Nat /\ None \notin Procs
           /\ NoHome \in Auths /\ NoAuth \in Auths /\ NoHome # NoAuth
           /\ NoHome.who \notin People /\ NoAuth.who \notin People
           /\ \A a \in Auths : a.who \in People <=> a \notin {NoHome, NoAuth}
           /\ \A who \in People, n \in 1 .. MaxCommands :
                [who |-> who, token |-> n] \in Auths
<1>1. NoHome.who # NoAuth.who
  BY DEF NoHome, NoAuth, None
<1>2. NoHome.who \notin People /\ NoAuth.who \notin People
  BY DEF AccountsAssumption
<1>3. ASSUME NEW a \in Auths PROVE a.who \in People <=> a \notin {NoHome, NoAuth}
  <2>1. CASE a \in [who : People, token : 1 .. MaxCommands]
    <3>1. a.who \in People
      BY <2>1
    <3> QED  BY <3>1, <1>2
  <2>2. CASE a \in {NoHome, NoAuth}
    BY <2>2, <1>2
  <2> QED  BY <2>1, <2>2 DEF Auths
<1> QED  BY <1>1, <1>2, <1>3 DEF AccountsAssumption, Auths

(****************************************************************************)
(* Types, and the active account, whoever writes over whom.                 *)
(****************************************************************************)
LEMMA TypedStarts == ASSUME AccountsAssumption, Init PROVE AccountsTyped
<1> USE AuthFacts DEF Init, Files
<1>1. EmptyConfig \in Configs
  BY DEF EmptyConfig, Configs
<1>2. TypeOK
  BY <1>1 DEF TypeOK, Steps
<1>3. \A p \in Procs : Named(p)
  BY DEF Named, LoginSteps, MergedSteps, Steps
<1> QED  BY <1>2, <1>3 DEF AccountsTyped

(* A login: up to its commit.                                               *)
LEMMA TypedLogin ==
    ASSUME AccountsAssumption, AccountsTyped, NEW p \in Procs,
           \/ Login(p) \/ LoginInHome(p) \/ FinishLogin(p) \/ PrepareWrite(p) \/ ReplaceAuth(p)
    PROVE  AccountsTyped'
<1> USE DEF AccountsTyped, TypeOK, Named, Goto, locals, aux
<1>0. pc \in [Procs -> Steps] /\ MaxCommands \in Nat
  BY AuthFacts
<1>1. CASE Login(p)
  <2>1. commands' \in 0 .. MaxCommands /\ commands' # 0
    BY <1>1, <1>0 DEF Login, Begin
  <2>2. before' \in [Procs -> [config : Configs, home : [Ids -> Auths]]]
    BY <1>1 DEF Login, Files
  <2>3. /\ home' \in [Ids -> Auths] /\ pending' \in [Procs -> Ids \cup {None}] /\ pending'[p] \in Ids
    BY <1>1, AuthFacts DEF Login
  <2>4. pc' \in [Procs -> Steps] /\ pc' = [pc EXCEPT ![p] = "login"] /\ pc[p] \in {"idle", "failed"}
    BY <1>1 DEF Login, Begin, Steps
  <2>5. TypeOK'
    BY <2>1, <2>2, <2>3, <2>4, <1>1 DEF Login
  <2>6. \A q \in Procs : Named(q)'
    BY <2>1, <2>3, <2>4, <1>1 DEF Login, LoginSteps, MergedSteps, Steps
  <2> QED  BY <2>5, <2>6
<1>2. CASE LoginInHome(p)
  <2>1. pc[p] = "login" /\ pending[p] \in Ids /\ commands \in 1 .. MaxCommands
    <3>1. pc[p] = "login"
      BY <1>2 DEF LoginInHome
    <3>2. pending[p] \in Ids /\ commands # 0
      BY <3>1 DEF LoginSteps, Steps
    <3> QED  BY <3>1, <3>2, <1>0
  <2>2. home' \in [Ids -> Auths]
    <3>1. \A who \in People : [who |-> who, token |-> commands] \in Auths
      BY <2>1, AuthFacts
    <3>2. \/ home' = home
          \/ \E who \in People : home' = [home EXCEPT ![pending[p]] = [who |-> who, token |-> commands]]
      BY <1>2 DEF LoginInHome
    <3> QED  BY <3>1, <3>2, <2>1
  <2>3. \E step \in {"merge", "discard"} : pc' = [pc EXCEPT ![p] = step]
    BY <1>2 DEF LoginInHome
  <2>4. TypeOK'
    BY <2>1, <2>2, <2>3, <1>2 DEF LoginInHome, Steps
  <2>5. \A q \in Procs : Named(q)'
    BY <2>1, <2>3, <1>2 DEF LoginInHome, LoginSteps, MergedSteps, Steps
  <2> QED  BY <2>4, <2>5
<1>3. CASE FinishLogin(p)
  <2>1. pc[p] = "merge" /\ pending[p] \in Ids
    BY <1>3 DEF FinishLogin, LoginSteps, Steps
  <2>2. PICK kept, dup : Merge(p, kept, dup) /\ kept \in Ids /\ dup \subseteq Ids
    BY <1>3, <2>1 DEF FinishLogin, Duplicates, Configs
  <2>3. /\ account' \in [Procs -> Ids \cup {None}] /\ account'[p] \in Ids
        /\ stale' \in [Procs -> SUBSET Ids] /\ draft' \in [Procs -> Configs]
    BY <2>2 DEF Merge, Configs
  <2>4. pc' = [pc EXCEPT ![p] = "prepare"]
    BY <1>3 DEF FinishLogin
  <2>5. TypeOK'
    BY <2>1, <2>3, <2>4, <1>3 DEF FinishLogin, Steps
  <2>6. \A q \in Procs : Named(q)'
    BY <2>1, <2>2, <2>3, <2>4, <1>3 DEF FinishLogin, Merge, LoginSteps, MergedSteps, Steps
  <2> QED  BY <2>5, <2>6
<1>4. CASE PrepareWrite(p)
  <2>1. pc[p] = "prepare" /\ pending[p] \in Ids /\ account[p] \in Ids /\ commands # 0
    BY <1>4 DEF PrepareWrite, LoginSteps, MergedSteps, Steps
  <2>2. TypeOK'
    BY <2>1, <1>4, AuthFacts DEF PrepareWrite, Steps
  <2>3. \A q \in Procs : Named(q)'
    BY <2>1, <1>4 DEF PrepareWrite, LoginSteps, MergedSteps, Steps
  <2> QED  BY <2>2, <2>3
<1>5. CASE ReplaceAuth(p)
  <2>1. pc[p] = "replace" /\ pending[p] \in Ids /\ account[p] \in Ids /\ commands # 0 /\ holder = p
    BY <1>5 DEF ReplaceAuth, LoginSteps, MergedSteps, Steps
  <2>2. \/ pc' = [pc EXCEPT ![p] = "commit"] /\ holder' = holder
        \/ pc' = [pc EXCEPT ![p] = "discard"] /\ holder' = None
    BY <1>5 DEF ReplaceAuth
  <2>3. /\ home' \in [Ids -> Auths] /\ oldAuth' \in [Procs -> Auths]
        /\ renamed' \in [Procs -> SUBSET {"auth", "config"}]
    <3>1. \/ UNCHANGED <<home, oldAuth, renamed>>
          \/ /\ oldAuth' = [oldAuth EXCEPT ![p] = home[account[p]]]
             /\ home' = [home EXCEPT ![account[p]] = home[pending[p]]]
             /\ renamed' = [renamed EXCEPT ![p] = renamed[p] \cup {"auth"}]
      BY <1>5 DEF ReplaceAuth, Record
    <3>2. home[account[p]] \in Auths /\ home[pending[p]] \in Auths
      BY <2>1
    <3>3. renamed[p] \cup {"auth"} \in SUBSET {"auth", "config"}
      OBVIOUS
    <3>4. CASE UNCHANGED <<home, oldAuth, renamed>>
      BY <3>4
    <3>5. CASE ~UNCHANGED <<home, oldAuth, renamed>>
      <4>1. home' \in [Ids -> Auths] /\ oldAuth' \in [Procs -> Auths]
        BY <3>1, <3>2, <3>5, <2>1
      <4>2. renamed' \in [Procs -> SUBSET {"auth", "config"}]
        <5>1. renamed' = [renamed EXCEPT ![p] = renamed[p] \cup {"auth"}]
          BY <3>1, <3>5
        <5> QED  BY <5>1, <3>3
      <4> QED  BY <4>1, <4>2
    <3> QED  BY <3>4, <3>5
  <2>4. TypeOK'
    BY <2>1, <2>2, <2>3, <1>5, AuthFacts DEF ReplaceAuth, Steps
  <2>5. \A q \in Procs : Named(q)'
    BY <2>1, <2>2, <1>5 DEF ReplaceAuth, LoginSteps, MergedSteps, Steps
  <2> QED  BY <2>4, <2>5
<1> QED  BY <1>1, <1>2, <1>3, <1>4, <1>5

(* A login from its commit on.                                              *)
LEMMA TypedCommit ==
    ASSUME AccountsAssumption, AccountsTyped, NEW p \in Procs,
           CommitLogin(p) \/ RollBack(p) \/ ArchiveDuplicates(p) \/ Discard(p)
    PROVE  AccountsTyped'
<1> USE DEF AccountsTyped, TypeOK, Named, Goto, locals, aux
<1>1. CASE CommitLogin(p)
  <2>1. pc[p] = "commit" /\ pending[p] \in Ids /\ account[p] \in Ids /\ commands # 0 /\ holder = p
    BY <1>1 DEF CommitLogin, LoginSteps, MergedSteps, Steps
  <2>2. \E step \in {"archive", "rollback"} : pc' = [pc EXCEPT ![p] = step]
    BY <1>1 DEF CommitLogin
  <2>3. renamed' \in [Procs -> SUBSET {"auth", "config"}] /\ unsynced' \subseteq Ids
        /\ config' \in Configs
    BY <1>1, <2>1 DEF CommitLogin, Record
  <2>4. TypeOK'
    BY <2>1, <2>2, <2>3, <1>1, AuthFacts DEF CommitLogin, Steps
  <2>5. \A q \in Procs : Named(q)'
    BY <2>1, <2>2, <1>1 DEF CommitLogin, LoginSteps, MergedSteps, Steps
  <2> QED  BY <2>4, <2>5
<1>2. CASE RollBack(p)
  <2>1. pc[p] = "rollback" /\ pending[p] \in Ids /\ account[p] \in Ids /\ commands # 0
    BY <1>2 DEF RollBack, LoginSteps, MergedSteps, Steps
  <2>2. pc' = [pc EXCEPT ![p] = "discard"]
    BY <1>2 DEF RollBack
  <2>3. renamed' \in [Procs -> SUBSET {"auth", "config"}] /\ home' \in [Ids -> Auths]
    <3>1. \/ UNCHANGED <<home, renamed>>
          \/ /\ home' = [home EXCEPT ![account[p]] = oldAuth[p]]
             /\ renamed' = [renamed EXCEPT ![p] = renamed[p] \ {"auth"}]
      BY <1>2 DEF RollBack
    <3>2. oldAuth[p] \in Auths /\ renamed[p] \ {"auth"} \in SUBSET {"auth", "config"}
      OBVIOUS
    <3>3. CASE UNCHANGED <<home, renamed>>
      BY <3>3
    <3>4. CASE ~UNCHANGED <<home, renamed>>
      <4>1. home' \in [Ids -> Auths]
        BY <3>1, <3>2, <3>4, <2>1
      <4>2. renamed' \in [Procs -> SUBSET {"auth", "config"}]
        BY <3>1, <3>2, <3>4
      <4> QED  BY <4>1, <4>2
    <3> QED  BY <3>3, <3>4
  <2>4. TypeOK'
    BY <2>1, <2>2, <2>3, <1>2 DEF RollBack, Steps
  <2>5. \A q \in Procs : Named(q)'
    BY <2>1, <2>2, <1>2 DEF RollBack, LoginSteps, MergedSteps, Steps
  <2> QED  BY <2>4, <2>5
<1>3. CASE ArchiveDuplicates(p)
  <2>1. pc[p] = "archive" /\ pending[p] \in Ids /\ account[p] \in Ids /\ commands # 0
    BY <1>3 DEF ArchiveDuplicates, LoginSteps, MergedSteps, Steps
  <2>2. \E step \in {"idle", "tidy", "discard"} : pc' = [pc EXCEPT ![p] = step]
    BY <1>3 DEF ArchiveDuplicates
  <2>3. home' \in [Ids -> Auths]
    BY <1>3, AuthFacts DEF ArchiveDuplicates
  <2>4. TypeOK'
    BY <2>1, <2>2, <2>3, <1>3 DEF ArchiveDuplicates, Steps
  <2>5. \A q \in Procs : Named(q)'
    BY <2>1, <2>2, <1>3 DEF ArchiveDuplicates, LoginSteps, MergedSteps, Steps
  <2> QED  BY <2>4, <2>5
<1>4. CASE Discard(p)
  <2>1. pc[p] \in {"discard", "tidy"} /\ pending[p] \in Ids
    BY <1>4 DEF Discard, LoginSteps, Steps
  <2>2. \E step \in {"idle", "failed"} : pc' = [pc EXCEPT ![p] = step]
    BY <1>4 DEF Discard
  <2>3. home' \in [Ids -> Auths]
    BY <1>4, AuthFacts DEF Discard
  <2>4. TypeOK'
    BY <2>1, <2>2, <2>3, <1>4 DEF Discard, Steps
  <2>5. \A q \in Procs : Named(q)'
    BY <2>1, <2>2, <1>4 DEF Discard, LoginSteps, MergedSteps, Steps
  <2> QED  BY <2>4, <2>5
<1> QED  BY <1>1, <1>2, <1>3, <1>4

(* The other commands.                                                      *)
LEMMA TypedChange ==
    ASSUME AccountsAssumption, AccountsTyped, NEW p \in Procs,
           Activate(p) \/ Remove(p) \/ WriteConfig(p) \/ ArchiveRemoved(p) \/ Crash(p)
    PROVE  AccountsTyped'
<1> USE DEF AccountsTyped, TypeOK, Named, Goto, locals, aux
<1>0. MaxCommands \in Nat
  BY AuthFacts
<1>1. CASE Activate(p)
  <2>1. commands' \in 0 .. MaxCommands /\ commands' # 0 /\ pc[p] \in {"idle", "failed"}
    BY <1>1, <1>0 DEF Activate, Begin
  <2>2. pc' = [pc EXCEPT ![p] = "write"] /\ draft' \in [Procs -> Configs]
    BY <1>1 DEF Activate, Configs
  <2>3. TypeOK'
    BY <2>1, <2>2, <1>1 DEF Activate, Steps
  <2>4. \A q \in Procs : Named(q)'
    BY <2>1, <2>2, <1>1 DEF Activate, LoginSteps, MergedSteps, Steps
  <2> QED  BY <2>3, <2>4
<1>2. CASE Remove(p)
  <2>1. commands' \in 0 .. MaxCommands /\ commands' # 0 /\ pc[p] \in {"idle", "failed"}
    BY <1>2, <1>0 DEF Remove, Begin
  <2>2. pc' = [pc EXCEPT ![p] = "writeRemoval"] /\ draft' \in [Procs -> Configs]
    BY <1>2 DEF Remove, Configs
  <2>3. account' \in [Procs -> Ids \cup {None}] /\ account'[p] \in Ids
        /\ \A q \in Procs \ {p} : account'[q] = account[q]
    BY <1>2 DEF Remove, Configs
  <2>4. TypeOK'
    BY <2>1, <2>2, <2>3, <1>2 DEF Remove, Steps
  <2>5. \A q \in Procs : Named(q)'
    BY <2>1, <2>2, <2>3, <1>2 DEF Remove, LoginSteps, MergedSteps, Steps
  <2> QED  BY <2>4, <2>5
<1>3. CASE WriteConfig(p)
  <2>1. pc[p] \in {"write", "writeRemoval"} /\ config' \in Configs
    BY <1>3 DEF WriteConfig
  <2>2. \E step \in {"idle", "failed", "remove"} :
          pc' = [pc EXCEPT ![p] = step] /\ (step = "remove" => pc[p] = "writeRemoval")
    BY <1>3 DEF WriteConfig
  <2>3. TypeOK'
    BY <2>1, <2>2, <1>3 DEF WriteConfig, Steps
  <2>4. \A q \in Procs : Named(q)'
    BY <2>1, <2>2, <1>3 DEF WriteConfig, LoginSteps, MergedSteps, Steps
  <2> QED  BY <2>3, <2>4
<1>4. CASE ArchiveRemoved(p)
  <2>1. pc[p] = "remove" /\ account[p] \in Ids /\ pc' = [pc EXCEPT ![p] = "idle"]
    BY <1>4 DEF ArchiveRemoved
  <2>2. home' \in [Ids -> Auths]
    BY <1>4, AuthFacts DEF ArchiveRemoved
  <2>3. TypeOK'
    BY <2>1, <2>2, <1>4 DEF ArchiveRemoved, Steps
  <2>4. \A q \in Procs : Named(q)'
    BY <2>1, <1>4 DEF ArchiveRemoved, LoginSteps, MergedSteps, Steps
  <2> QED  BY <2>3, <2>4
<1>5. CASE Crash(p)
  <2>1. pc' = [pc EXCEPT ![p] = "idle"] /\ holder' = IF holder = p THEN None ELSE holder
    BY <1>5 DEF Crash
  <2>2. TypeOK'
    BY <2>1, <1>5, AuthFacts DEF Crash, Steps
  <2>3. \A q \in Procs : Named(q)'
    BY <2>1, <1>5 DEF Crash, LoginSteps, MergedSteps, Steps
  <2> QED  BY <2>2, <2>3
<1> QED  BY <1>1, <1>2, <1>3, <1>4, <1>5

LEMMA TypedStep ==
    ASSUME AccountsAssumption, AccountsTyped, Next PROVE AccountsTyped'
BY TypedLogin, TypedCommit, TypedChange DEF Next

(* The active account is listed whoever writes over whom: each draft says   *)
(* so of itself.                                                            *)
LEMMA DraftsStart == ASSUME AccountsAssumption, Init PROVE DraftsKept
<1>1. ActiveIsListed /\ \A p \in Procs : draft[p].active \in draft[p].listed \cup {Ambient}
  BY DEF Init, EmptyConfig, ActiveIsListed
<1> QED  BY <1>1, TypedStarts DEF DraftsKept

LEMMA DraftsStep == ASSUME AccountsAssumption, DraftsKept, Next PROVE DraftsKept'
<1> DEFINE Sound(c) == c.active \in c.listed \cup {Ambient}
<1>0. AccountsTyped /\ AccountsTyped' /\ Sound(config) /\ \A p \in Procs : Sound(draft[p])
  BY TypedStep DEF DraftsKept, ActiveIsListed
<1>1. PICK p \in Procs :
        \/ Login(p) \/ LoginInHome(p) \/ FinishLogin(p) \/ PrepareWrite(p)
        \/ ReplaceAuth(p) \/ CommitLogin(p) \/ RollBack(p) \/ ArchiveDuplicates(p) \/ Discard(p)
        \/ Activate(p) \/ Remove(p) \/ WriteConfig(p) \/ ArchiveRemoved(p) \/ Crash(p)
  BY DEF Next
<1>2. \/ draft' = draft
      \/ \E d : draft' = [draft EXCEPT ![p] = d] /\ Sound(d)
  <2>1. CASE FinishLogin(p)
    <3>1. PICK kept, dup : Merge(p, kept, dup)
      BY <2>1 DEF FinishLogin
    <3>2. Sound([listed |-> (config.listed \ dup) \cup {kept}, active |-> kept])
      OBVIOUS
    <3> QED  BY <3>1, <3>2 DEF Merge
  <2>2. CASE Activate(p)
    <3>1. PICK a \in config.listed \cup {Ambient} :
            draft' = [draft EXCEPT ![p] = [listed |-> config.listed, active |-> a]]
      BY <2>2 DEF Activate
    <3>2. Sound([listed |-> config.listed, active |-> a])
      OBVIOUS
    <3> QED  BY <3>1, <3>2
  <2>3. CASE Remove(p)
    <3>1. PICK a \in config.listed :
            draft' = [draft EXCEPT ![p] =
              [listed |-> config.listed \ {a},
               active |-> IF config.active = a THEN Ambient ELSE config.active]]
      BY <2>3 DEF Remove
    <3>2. Sound([listed |-> config.listed \ {a},
                 active |-> IF config.active = a THEN Ambient ELSE config.active])
      BY <1>0
    <3> QED  BY <3>1, <3>2
  <2> QED
    BY <1>1, <2>1, <2>2, <2>3
       DEF Login, LoginInHome, PrepareWrite, ReplaceAuth, CommitLogin, RollBack, ArchiveDuplicates,
           Discard, WriteConfig, ArchiveRemoved, Crash, locals
<1>3. \A q \in Procs : Sound(draft'[q])
  BY <1>0, <1>2 DEF AccountsTyped, TypeOK
<1>4. config' = config \/ config' = draft[p]
  BY <1>1 DEF Login, LoginInHome, FinishLogin, PrepareWrite, ReplaceAuth, CommitLogin, RollBack,
              ArchiveDuplicates, Discard, Activate, Remove, WriteConfig, ArchiveRemoved, Crash
<1>5. Sound(config')
  BY <1>0, <1>4
<1> QED  BY <1>0, <1>3, <1>5 DEF DraftsKept, ActiveIsListed

(****************************************************************************)
(* A command alone.                                                         *)
(****************************************************************************)
(* What a step of a command keeps while no other runs.                      *)
Alone(p) == ListedHasHome /\ CommandInHand(p)

LEMMA LoginAlone ==
    ASSUME AccountsAssumption, AccountsTyped, NEW p \in Procs, Alone(p), Login(p)
    PROVE  Alone(p)'
<1> USE DEF AccountsTyped, TypeOK
<1>1. PICK i \in Ids : /\ home[i] = NoHome /\ home' = [home EXCEPT ![i] = NoAuth]
                       /\ pending' = [pending EXCEPT ![p] = i]
  BY DEF Login, Exists
<1>2. /\ pc'[p] = "login" /\ pending'[p] = i /\ renamed'[p] = {} /\ UNCHANGED <<config, unsynced>>
      /\ before'[p].config = config /\ before'[p].home = home
  BY <1>1 DEF Login, Goto, Files
<1>3. home'[i] = NoAuth /\ \A j \in Ids \ {i} : home'[j] = home[j]
  BY <1>1
<1>4. ListedHasHome'
  BY <1>2, <1>3, AuthFacts DEF Alone, ListedHasHome, Exists, Configs
<1>5. ChangedOnly(p)'
  BY <1>1, <1>2, <1>3 DEF ChangedOnly
<1>6. Fresh(p)' /\ LoginInHand(p)'
  BY <1>1, <1>2, <1>3, AuthFacts DEF Alone, ListedHasHome, Exists, Fresh, LoginInHand
<1>7. CommandInHand(p)'
  BY <1>2, <1>5, <1>6 DEF CommandInHand, WriteInHand
<1> QED  BY <1>4, <1>7 DEF Alone

LEMMA LoginInHomeAlone ==
    ASSUME AccountsAssumption, AccountsTyped, NEW p \in Procs, Alone(p), LoginInHome(p)
    PROVE  Alone(p)'
<1> USE DEF AccountsTyped, TypeOK
<1>1. pc[p] = "login" /\ UNCHANGED <<config, pending, before, renamed, unsynced, account, stale, draft>>
  BY DEF LoginInHome, locals, aux
<1>2. pending[p] \in Ids /\ commands \in 1 .. MaxCommands
  <2>1. pending[p] \in Ids /\ commands # 0
    BY <1>1 DEF Named, LoginSteps, Steps
  <2> QED  BY <2>1, AuthFacts
<1>3. /\ ChangedOnly(p) /\ Fresh(p) /\ Exists(pending[p]) /\ renamed[p] = {}
  BY <1>1 DEF Alone, CommandInHand, LoginInHand, LoginSteps, Steps
<1>4. \/ pc'[p] = "discard" /\ home' = home
      \/ /\ pc'[p] = "merge"
         /\ \E who \in People : home' = [home EXCEPT ![pending[p]] = [who |-> who, token |-> commands]]
  BY DEF LoginInHome, Goto
<1>5. /\ home'[pending[p]] # NoHome /\ \A i \in Ids \ {pending[p]} : home'[i] = home[i]
      /\ pc'[p] = "merge" => home'[pending[p]].who \in People
  <2>1. CASE pc'[p] = "discard" /\ home' = home
    BY <2>1, <1>3 DEF Exists
  <2>2. CASE pc'[p] = "merge"
    <3>1. PICK who \in People : home' = [home EXCEPT ![pending[p]] = [who |-> who, token |-> commands]]
      BY <1>4, <2>2
    <3>2. home'[pending[p]] = [who |-> who, token |-> commands] /\ home'[pending[p]].who \in People
      BY <3>1, <1>2
    <3>3. home'[pending[p]] # NoHome
      BY <3>2, AuthFacts, Zenon
    <3> QED  BY <3>1, <3>2, <3>3
  <2> QED  BY <2>1, <2>2, <1>4
<1>6. ListedHasHome'
  BY <1>1, <1>2, <1>5 DEF Alone, ListedHasHome, Exists, Configs
<1>7. ChangedOnly(p)'
  BY <1>1, <1>2, <1>3, <1>5 DEF ChangedOnly
<1>8. Fresh(p)' /\ LoginInHand(p)'
  BY <1>1, <1>3, <1>5 DEF Fresh, LoginInHand, Exists
<1>9. CommandInHand(p)'
  BY <1>1, <1>4, <1>5, <1>7, <1>8 DEF CommandInHand, WriteInHand
<1> QED  BY <1>6, <1>9 DEF Alone

LEMMA FinishLoginAlone ==
    ASSUME AccountsAssumption, AccountsTyped, NEW p \in Procs, Alone(p), FinishLogin(p)
    PROVE  Alone(p)'
<1> USE DEF AccountsTyped, TypeOK
<1> DEFINE dup == Duplicates(home[pending[p]].who)
<1>1. /\ pc[p] = "merge" /\ pc'[p] = "prepare"
      /\ UNCHANGED <<config, home, pending, before, renamed, unsynced>>
  BY DEF FinishLogin, Goto, aux
<1>2. /\ ChangedOnly(p) /\ Fresh(p) /\ LoginInHand(p) /\ renamed[p] = {}
      /\ home[pending[p]].who \in People
  BY <1>1 DEF Alone, CommandInHand, LoginInHand, LoginSteps, Steps
<1>3. PICK kept \in IF dup = {} THEN {pending[p]} ELSE dup : Merge(p, kept, dup)
  BY DEF FinishLogin
<1>4. /\ account'[p] = kept /\ stale'[p] = dup \ {kept}
      /\ draft'[p] = [listed |-> (config.listed \ dup) \cup {kept}, active |-> kept]
  BY <1>3 DEF Merge
<1>5. ListedHasHome'
  BY <1>1 DEF Alone, ListedHasHome, Exists
<1>6. ChangedOnly(p)'
  BY <1>1, <1>2 DEF ChangedOnly
<1>7. MergeInHand(p)'
  BY <1>1, <1>2, <1>3, <1>4 DEF MergeInHand, Duplicates
<1>8. Fresh(p)' /\ LoginInHand(p)'
  BY <1>1, <1>2 DEF Fresh, LoginInHand, Exists
<1>9. CommandInHand(p)'
  BY <1>1, <1>6, <1>7, <1>8 DEF CommandInHand, WriteInHand
<1> QED  BY <1>5, <1>9 DEF Alone

LEMMA PrepareWriteAlone ==
    ASSUME AccountsAssumption, AccountsTyped, NEW p \in Procs, Alone(p), PrepareWrite(p)
    PROVE  Alone(p)'
<1> USE DEF AccountsTyped, TypeOK
<1>1. /\ pc[p] = "prepare" /\ pc'[p] \in {"replace", "discard"}
      /\ UNCHANGED <<config, home, pending, before, renamed, unsynced, account, stale, draft>>
  BY DEF PrepareWrite, Goto, aux, locals
<1>2. ChangedOnly(p) /\ Fresh(p) /\ LoginInHand(p) /\ MergeInHand(p)
  BY <1>1 DEF Alone, CommandInHand, LoginSteps, Steps
<1>3. ListedHasHome'
  BY <1>1 DEF Alone, ListedHasHome, Exists
<1>4. ChangedOnly(p)'
  BY <1>1, <1>2 DEF ChangedOnly
<1>5. Fresh(p)' /\ LoginInHand(p)'
  BY <1>1, <1>2 DEF Fresh, LoginInHand, Exists
<1>6. MergeInHand(p)'
  BY <1>1, <1>2 DEF MergeInHand, Duplicates
<1>7. CommandInHand(p)'
  BY <1>1, <1>4, <1>5, <1>6 DEF CommandInHand, WriteInHand
<1> QED  BY <1>3, <1>7 DEF Alone

LEMMA ReplaceAuthAlone ==
    ASSUME AccountsAssumption, AccountsTyped, NEW p \in Procs, Alone(p), ReplaceAuth(p)
    PROVE  Alone(p)'
<1> USE DEF AccountsTyped, TypeOK
<1> DEFINE a == account[p]
           i == pending[p]
           dup == Duplicates(home[i].who)
<1>1. /\ pc[p] = "replace" /\ pc'[p] \in {"commit", "discard"}
      /\ UNCHANGED <<config, pending, before, unsynced, account, stale, draft>>
  BY DEF ReplaceAuth, Goto
<1>2. a \in Ids /\ i \in Ids
  BY <1>1 DEF Named, LoginSteps, MergedSteps, Steps
<1>3. /\ ChangedOnly(p) /\ Fresh(p) /\ LoginInHand(p) /\ MergeInHand(p)
      /\ home[i] # NoHome /\ renamed[p] = {}
  BY <1>1 DEF Alone, CommandInHand, LoginInHand, LoginSteps, Steps, Exists
<1>4. \/ a = i /\ pc'[p] = "commit" /\ UNCHANGED <<home, oldAuth, renamed>>
      \/ /\ a # i /\ home[a] \notin {NoHome, NoAuth}
         /\ oldAuth' = [oldAuth EXCEPT ![p] = home[a]]
         /\ home' = [home EXCEPT ![a] = home[i]]
         /\ renamed' = [renamed EXCEPT ![p] = @ \cup {"auth"}]
      \/ pc'[p] = "discard" /\ UNCHANGED <<home, oldAuth, renamed>>
  BY DEF ReplaceAuth, Goto, Record
<1>5. CASE pc'[p] = "commit" /\ a = i /\ UNCHANGED <<home, oldAuth, renamed>>
  <2>1. ListedHasHome'
    BY <1>1, <1>5 DEF Alone, ListedHasHome, Exists
  <2>2. ChangedOnly(p)'
    BY <1>1, <1>3, <1>5 DEF ChangedOnly
  <2>3. Fresh(p)' /\ LoginInHand(p)' /\ Restorable(p)'
    BY <1>1, <1>3, <1>5 DEF Fresh, LoginInHand, Restorable, Exists
  <2>4. MergeInHand(p)'
    BY <1>1, <1>3, <1>5 DEF MergeInHand, Duplicates, Exists
  <2>5. CommandInHand(p)'
    BY <1>5, <2>2, <2>3, <2>4 DEF CommandInHand, WriteInHand
  <2> QED  BY <2>1, <2>5 DEF Alone
<1>6. CASE pc'[p] = "discard" /\ UNCHANGED <<home, oldAuth, renamed>>
  <2>1. ListedHasHome'
    BY <1>1, <1>6 DEF Alone, ListedHasHome, Exists
  <2>2. ChangedOnly(p)' /\ Fresh(p)'
    BY <1>1, <1>3, <1>6 DEF ChangedOnly, Fresh
  <2>3. CommandInHand(p)'
    BY <1>6, <2>2 DEF CommandInHand, WriteInHand
  <2> QED  BY <2>1, <2>3 DEF Alone
<1>7. CASE /\ a # i /\ home[a] \notin {NoHome, NoAuth}
           /\ oldAuth' = [oldAuth EXCEPT ![p] = home[a]]
           /\ home' = [home EXCEPT ![a] = home[i]]
           /\ renamed' = [renamed EXCEPT ![p] = @ \cup {"auth"}]
  <2>1. /\ home'[a] = home[i] /\ \A j \in Ids \ {a} : home'[j] = home[j]
        /\ oldAuth'[p] = home[a] /\ renamed'[p] = {"auth"}
    BY <1>2, <1>3, <1>7
  <2>2. a \in dup /\ home[a].who = home[i].who
    BY <1>3, <1>7 DEF MergeInHand, Duplicates
  <2>3. \A j \in Ids : home'[j].who = home[j].who
    BY <2>1, <2>2, <1>2
  <2>4. \A j \in Ids \ {i} : home[j] = before[p].home[j]
    BY <1>3 DEF ChangedOnly
  <2>5. ListedHasHome'
    BY <1>1, <1>3, <2>1 DEF Alone, ListedHasHome, Exists, Configs
  <2>6. ChangedOnly(p)'
    BY <1>1, <1>2, <1>3, <1>7, <2>1, <2>3, <2>4 DEF ChangedOnly
  <2>7. Fresh(p)' /\ Restorable(p)'
    BY <1>1, <1>2, <1>3, <1>7, <2>1, <2>4 DEF Fresh, Restorable
  <2>8. ASSUME pc'[p] = "commit" PROVE LoginInHand(p)'
    BY <1>1, <1>2, <1>3, <1>7, <2>1, <2>8 DEF LoginInHand, Exists
  <2>9. MergeInHand(p)'
    <3>1. Duplicates(home[i].who)' = dup
      BY <1>1, <1>2, <2>3 DEF Duplicates, Configs
    <3>2. home'[i] = home[i] /\ home'[a] # NoHome
      BY <1>2, <1>3, <1>7, <2>1
    <3> QED  BY <1>1, <1>3, <3>1, <3>2 DEF MergeInHand, Exists
  <2>10. CommandInHand(p)'
    BY <1>1, <2>6, <2>7, <2>8, <2>9 DEF CommandInHand, WriteInHand
  <2> QED  BY <2>5, <2>10 DEF Alone
<1> QED  BY <1>4, <1>5, <1>6, <1>7

LEMMA CommitLoginAlone ==
    ASSUME AccountsAssumption, AccountsTyped, NEW p \in Procs, Alone(p), CommitLogin(p)
    PROVE  Alone(p)'
<1> USE DEF AccountsTyped, TypeOK
<1> DEFINE dup == Duplicates(home[pending[p]].who)
<1>1. /\ pc[p] = "commit" /\ pc'[p] \in {"archive", "rollback"}
      /\ UNCHANGED <<home, pending, before, account, stale, draft, oldAuth>>
  BY DEF CommitLogin, Goto, locals
<1>2. account[p] \in Ids /\ pending[p] \in Ids
  BY <1>1 DEF Named, LoginSteps, MergedSteps, Steps
<1>3. ChangedOnly(p) /\ Fresh(p) /\ LoginInHand(p) /\ MergeInHand(p) /\ Restorable(p)
  BY <1>1 DEF Alone, CommandInHand, LoginSteps, Steps
<1>4. /\ account[p] \in IF dup = {} THEN {pending[p]} ELSE dup
      /\ stale[p] = dup \ {account[p]} /\ Exists(account[p])
      /\ draft[p].listed = (config.listed \ dup) \cup {account[p]}
      /\ dup \subseteq config.listed
  BY <1>1, <1>3 DEF MergeInHand, Duplicates
<1>5. \/ /\ config' = draft[p] /\ renamed'[p] = renamed[p] \cup {"config"}
         /\ unsynced' = unsynced /\ pc'[p] = "archive"
      \/ config' = config /\ renamed' = renamed /\ unsynced' = unsynced /\ pc'[p] = "rollback"
      \/ /\ config' = draft[p] /\ renamed'[p] = renamed[p] \cup {"config"}
         /\ unsynced' = unsynced \cup {account[p]} /\ pc'[p] = "rollback"
  BY DEF CommitLogin, Goto, Record, aux
<1>6. ListedHasHome'
  BY <1>1, <1>4, <1>5 DEF Alone, ListedHasHome, Exists
<1>7. ChangedOnly(p)'
  BY <1>1, <1>3, <1>5 DEF ChangedOnly
<1>8. Restorable(p)'
  BY <1>1, <1>3 DEF Restorable
<1>9. /\ pc'[p] = "rollback" => Fresh(p)'
      /\ account[p] # pending[p] \/ stale[p] # {} => Fresh(p)'
  BY <1>1, <1>3, <1>4, <1>5 DEF Fresh
<1>10. pc'[p] = "archive" => stale[p] \cap config'.listed = {} /\ "config" \in renamed'[p]
  BY <1>4, <1>5
<1>11. CommandInHand(p)'
  BY <1>1, <1>7, <1>8, <1>9, <1>10 DEF CommandInHand, WriteInHand
<1> QED  BY <1>6, <1>11 DEF Alone

LEMMA RollBackAlone ==
    ASSUME AccountsAssumption, AccountsTyped, NEW p \in Procs, Alone(p), RollBack(p)
    PROVE  Alone(p)'
<1> USE DEF AccountsTyped, TypeOK
<1>1. /\ pc[p] = "rollback" /\ pc'[p] = "discard"
      /\ UNCHANGED <<config, pending, before, account, stale, draft, oldAuth, unsynced>>
  BY DEF RollBack, Goto, locals
<1>2. account[p] \in Ids /\ pending[p] \in Ids
  BY <1>1 DEF Named, LoginSteps, MergedSteps, Steps
<1>3. ChangedOnly(p) /\ Fresh(p) /\ Restorable(p)
  BY <1>1 DEF Alone, CommandInHand, LoginSteps, Steps
<1>4. \/ UNCHANGED <<home, renamed>>
      \/ /\ account[p] # pending[p] /\ home' = [home EXCEPT ![account[p]] = oldAuth[p]]
         /\ renamed'[p] = renamed[p] \ {"auth"}
  BY DEF RollBack
<1>5. /\ \A j \in Ids : home'[j] = home[j] \/ (j = account[p] /\ account[p] # pending[p]
                                               /\ home'[j] = oldAuth[p])
      /\ "config" \in renamed'[p] <=> "config" \in renamed[p]
      /\ "auth" \in renamed'[p] => home' = home /\ renamed' = renamed
  BY <1>2, <1>4
<1>6. ListedHasHome'
  BY <1>1, <1>3, <1>5 DEF Alone, ListedHasHome, Exists, Restorable, Configs
<1>7. ChangedOnly(p)'
  <2>1. CASE UNCHANGED <<home, renamed>>
    BY <2>1, <1>1, <1>3 DEF ChangedOnly
  <2>2. CASE /\ account[p] # pending[p] /\ home' = [home EXCEPT ![account[p]] = oldAuth[p]]
             /\ renamed'[p] = renamed[p] \ {"auth"}
    <3>1. home'[account[p]] = before[p].home[account[p]]
      BY <2>2, <1>2, <1>3 DEF Restorable
    <3>2. \A j \in Ids \ {account[p]} : home'[j] = home[j]
      BY <2>2
    <3> QED  BY <3>1, <3>2, <2>2, <1>1, <1>2, <1>3 DEF ChangedOnly
  <2> QED  BY <2>1, <2>2, <1>4
<1>8. CommandInHand(p)'
  BY <1>1, <1>3, <1>7 DEF CommandInHand, WriteInHand, Fresh
<1> QED  BY <1>6, <1>8 DEF Alone

LEMMA ArchiveAlone ==
    ASSUME AccountsAssumption, AccountsTyped, NEW p \in Procs, Alone(p), ArchiveDuplicates(p)
    PROVE  Alone(p)'
<1> USE DEF AccountsTyped, TypeOK
<1>1. /\ pc[p] = "archive"
      /\ UNCHANGED <<config, pending, before, account, stale, draft, oldAuth, renamed, unsynced>>
  BY DEF ArchiveDuplicates, locals, aux
<1>2. /\ ChangedOnly(p) /\ stale[p] \cap config.listed = {} /\ "config" \in renamed[p]
      /\ account[p] # pending[p] \/ stale[p] # {} => Fresh(p)
  BY <1>1 DEF Alone, CommandInHand, WriteInHand, LoginSteps, Steps
<1>3. PICK gone \in SUBSET stale[p] :
        /\ home' = [j \in Ids |-> IF j \in gone THEN NoHome ELSE home[j]]
        /\ \/ pc'[p] = "idle"
           \/ pc'[p] = "tidy" /\ account[p] # pending[p]
           \/ pc'[p] = "discard" /\ gone # stale[p]
  BY DEF ArchiveDuplicates, Goto
<1>4. ListedHasHome'
  BY <1>1, <1>2, <1>3 DEF Alone, ListedHasHome, Exists, Configs
<1>5. ChangedOnly(p)'
  BY <1>1, <1>2, <1>3 DEF ChangedOnly
<1>6. pc'[p] # "idle" => Fresh(p)'
  BY <1>1, <1>2, <1>3 DEF Fresh
<1>7. CommandInHand(p)'
  BY <1>3, <1>5, <1>6 DEF CommandInHand, WriteInHand, LoginSteps, Steps
<1> QED  BY <1>4, <1>7 DEF Alone

LEMMA DiscardAlone ==
    ASSUME AccountsAssumption, AccountsTyped, NEW p \in Procs, Alone(p), Discard(p)
    PROVE  Alone(p)' /\ ChangedOnly(p)'
<1> USE DEF AccountsTyped, TypeOK
<1>1. /\ pc[p] \in {"discard", "tidy"} /\ pc'[p] \in {"idle", "failed"}
      /\ UNCHANGED <<config, pending, before, account, stale, draft, oldAuth, renamed, unsynced>>
      /\ home' = home \/ home' = [home EXCEPT ![pending[p]] = NoHome]
  BY DEF Discard, locals, aux, Goto
<1>2. ChangedOnly(p) /\ Fresh(p)
  BY <1>1 DEF Alone, CommandInHand, LoginSteps, Steps
<1>3. \A j \in Ids \ {pending[p]} : home'[j] = home[j]
  BY <1>1
<1>4. ListedHasHome'
  BY <1>1, <1>2, <1>3 DEF Alone, ListedHasHome, Exists, Fresh, Configs
<1>5. ChangedOnly(p)'
  BY <1>1, <1>2, <1>3 DEF ChangedOnly
<1>6. CommandInHand(p)'
  BY <1>1 DEF CommandInHand, WriteInHand, LoginSteps, Steps
<1> QED  BY <1>4, <1>5, <1>6 DEF Alone

(* activate, remove, their write and archive, and a crash.                  *)
LEMMA ChangesAlone ==
    ASSUME AccountsAssumption, AccountsTyped, NEW p \in Procs, Alone(p),
           Activate(p) \/ Remove(p) \/ WriteConfig(p) \/ ArchiveRemoved(p) \/ Crash(p)
    PROVE  Alone(p)'
<1> USE DEF AccountsTyped, TypeOK, Goto, locals, aux
<1>1. CASE Activate(p)
  <2>1. pc'[p] = "write" /\ draft'[p].listed = config.listed /\ UNCHANGED <<config, home, unsynced>>
    BY <1>1 DEF Activate
  <2>2. ListedHasHome'
    BY <2>1 DEF Alone, ListedHasHome, Exists
  <2>3. CommandInHand(p)'
    BY <2>1 DEF CommandInHand, WriteInHand, LoginSteps, Steps
  <2> QED  BY <2>2, <2>3 DEF Alone
<1>2. CASE Remove(p)
  <2>1. /\ pc'[p] = "writeRemoval" /\ draft'[p].listed = config.listed \ {account'[p]}
        /\ UNCHANGED <<config, home, unsynced>>
    BY <1>2 DEF Remove
  <2>2. ListedHasHome'
    BY <2>1 DEF Alone, ListedHasHome, Exists
  <2>3. CommandInHand(p)'
    BY <2>1 DEF CommandInHand, WriteInHand, LoginSteps, Steps
  <2> QED  BY <2>2, <2>3 DEF Alone
<1>3. CASE WriteConfig(p)
  <2>1. /\ UNCHANGED <<home, account, draft, unsynced>>
        /\ pc'[p] \in {"idle", "failed"} \/ (pc'[p] = "remove" /\ pc[p] = "writeRemoval")
        /\ config' = config \/ config' = draft[p]
        /\ pc'[p] = "remove" => config' = draft[p]
        /\ pc[p] \in {"write", "writeRemoval"}
    BY <1>3 DEF WriteConfig
  <2>2. config'.listed \subseteq config.listed /\ (pc'[p] = "remove" => account[p] \notin config'.listed)
    BY <2>1 DEF Alone, CommandInHand, WriteInHand
  <2>3. ListedHasHome'
    BY <2>1, <2>2 DEF Alone, ListedHasHome, Exists
  <2>4. CommandInHand(p)'
    BY <2>1, <2>2 DEF CommandInHand, WriteInHand, LoginSteps, Steps
  <2> QED  BY <2>3, <2>4 DEF Alone
<1>4. CASE ArchiveRemoved(p)
  <2>1. /\ pc[p] = "remove" /\ pc'[p] = "idle" /\ UNCHANGED <<config, unsynced>>
        /\ home' = home \/ home' = [home EXCEPT ![account[p]] = NoHome]
    BY <1>4 DEF ArchiveRemoved
  <2>2. account[p] \notin config.listed
    BY <2>1 DEF Alone, CommandInHand, WriteInHand
  <2>3. ListedHasHome'
    BY <2>1, <2>2 DEF Alone, ListedHasHome, Exists, Configs
  <2>4. CommandInHand(p)'
    BY <2>1 DEF CommandInHand, WriteInHand, LoginSteps, Steps
  <2> QED  BY <2>3, <2>4 DEF Alone
<1>5. CASE Crash(p)
  <2>1. pc'[p] = "idle" /\ UNCHANGED <<config, unsynced, home>>
    BY <1>5 DEF Crash
  <2>2. ListedHasHome'
    BY <2>1 DEF Alone, ListedHasHome, Exists
  <2>3. CommandInHand(p)'
    BY <2>1 DEF CommandInHand, WriteInHand, LoginSteps, Steps
  <2> QED  BY <2>2, <2>3 DEF Alone
<1> QED  BY <1>1, <1>2, <1>3, <1>4, <1>5

(* The invariant of a single process is the one of all of them and its own. *)
LEMMA AccountKeptIs ==
    ASSUME NEW p, Procs = {p}
    PROVE  AccountKept <=> DraftsKept /\ Alone(p)
BY DEF AccountKept, DraftsKept, Alone

LEMMA AccountStarts ==
    ASSUME AccountsAssumption, NEW p, Procs = {p}, Init PROVE AccountKept
<1>1. Alone(p)
  BY DEF Init, Alone, ListedHasHome, EmptyConfig, CommandInHand, WriteInHand, LoginSteps, Steps
<1> QED  BY <1>1, DraftsStart DEF AccountKept, DraftsKept, Alone

LEMMA AccountStep ==
    ASSUME AccountsAssumption, NEW p, Procs = {p}, AccountKept, Next PROVE AccountKept'
<1>1. AccountsTyped /\ Alone(p) /\ DraftsKept /\ p \in Procs
  BY DEF AccountKept, DraftsKept, Alone
<1>2. DraftsKept'
  BY <1>1, DraftsStep
<1>3. Alone(p)'
  BY <1>1, LoginAlone, LoginInHomeAlone, FinishLoginAlone, PrepareWriteAlone, ReplaceAuthAlone,
     CommitLoginAlone, RollBackAlone, ArchiveAlone, DiscardAlone, ChangesAlone DEF Next
<1> QED  BY <1>2, <1>3 DEF AccountKept, DraftsKept, Alone

(* What a step of a login may not do.                                       *)
LEMMA LoginsConfined ==
    ASSUME AccountsAssumption, NEW p, Procs = {p}, AccountKept, Next
    PROVE  FailedLoginConfined /\ ReauthKeepsAccount
<1>1. AccountsTyped /\ Alone(p) /\ p \in Procs
  BY DEF AccountKept, Alone
<1>2. ASSUME pc[p] = "discard", pc'[p] = "failed" PROVE ChangedOnly(p)'
  <2>1. Discard(p)
    BY <1>1, <1>2
       DEF Next, Login, LoginInHome, FinishLogin, PrepareWrite, ReplaceAuth, CommitLogin, RollBack,
           ArchiveDuplicates, Activate, Remove, WriteConfig, ArchiveRemoved, Crash, Begin, Goto,
           AccountsTyped, TypeOK
  <2> QED  BY <2>1, <1>1, DiscardAlone
<1>3. ASSUME pc[p] = "commit", config' # config,
             NEW j \in config.listed \cap {k \in Ids : home[k].who \in People}
      PROVE  \E k \in config.listed \cap config'.listed : home[k].who = home[j].who
  <2>1. config' = draft[p]
    BY <1>1, <1>3
       DEF Next, Login, LoginInHome, FinishLogin, PrepareWrite, ReplaceAuth, CommitLogin, RollBack,
           ArchiveDuplicates, Discard, Activate, Remove, WriteConfig, ArchiveRemoved, Crash
  <2>2. MergeInHand(p)
    BY <1>1, <1>3 DEF Alone, CommandInHand
  <2> DEFINE dup == Duplicates(home[pending[p]].who)
  <2>3. /\ account[p] \in IF dup = {} THEN {pending[p]} ELSE dup
        /\ draft[p].listed = (config.listed \ dup) \cup {account[p]}
    BY <2>2 DEF MergeInHand
  <2>4. CASE j \in dup
    <3>1. account[p] \in dup
      BY <2>3, <2>4
    <3> QED  BY <3>1, <2>1, <2>3, <2>4 DEF Duplicates
  <2>5. CASE j \notin dup
    BY <2>5, <2>1, <2>3
  <2> QED  BY <2>4, <2>5
<1> QED  BY <1>2, <1>3 DEF FailedLoginConfined, ReauthKeepsAccount

=============================================================================
