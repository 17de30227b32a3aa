--------------------------- MODULE AtomicInstall ---------------------------
(***************************************************************************)
(* install.rs: Dir::install and the free function install, which write the *)
(* receipts, overlays and reports of emit and issue.  Several invocations  *)
(* may be told to write the same destination while other programs work in  *)
(* the same directory; every system call is a step.                        *)
(*                                                                         *)
(* The content installer i writes is i itself; "partial" stands for a      *)
(* prefix of it.                                                           *)
(***************************************************************************)
EXTENDS Integers, FiniteSets

CONSTANTS
  Installers,  \* invocations writing to the destination
  Forcing,     \* the sets of them that may be run with --force (Force::Yes)
  NoFile,      \* absence of a directory entry
  MaxForeign   \* how often another program creates or removes the destination

ASSUME ForcingAssumption == Forcing \subseteq SUBSET Installers
ASSUME ContentsApart ==
  /\ {"partial", "foreign", "dest", NoFile} \cap Installers = {}
  /\ NoFile \notin {"partial", "foreign", "dest"}
ASSUME MaxForeignAssumption == MaxForeign \in Nat

VARIABLES
  forced,   \* the installers run with --force
  dir,      \* what each name of the directory holds
  fs,       \* the no-replace primitive the filesystem offers
  pc,       \* where each installer is
  foreign,  \* foreign writes so far
  removed   \* has another program removed the destination?

vars == <<forced, dir, fs, pc, foreign, removed>>

Contents == Installers \cup {"partial", "foreign"}
Names    == Installers \cup {"dest"}   \* i also names i's temporary
Over     == {"ok", "failed", "crashed"}
Labels   == Over \cup {"create", "write", "unlink", "rename", "link",
                       "unlink_temp", "clean"}

TypeOK ==
  /\ forced \in SUBSET Installers
  /\ dir \in [Names -> Contents \cup {NoFile}]
  /\ fs \in {"rename", "link", "neither"}
  /\ pc \in [Installers -> Labels]
  /\ foreign \in 0..MaxForeign
  /\ removed \in BOOLEAN

Goto(i, l) == pc' = [pc EXCEPT ![i] = l]
Set(n, c)  == dir' = [dir EXCEPT ![n] = c]

\* Mutation: without O_EXCL a file planted under the name is opened as it is.
CreateTempReuse(i) ==
  /\ pc[i] = "create"
  /\ Set(i, "planted")
  /\ Goto(i, "write")
  /\ UNCHANGED <<forced, fs, foreign, removed>>

\* openat(O_CREAT | O_EXCL) under a fresh name.
CreateTemp(i) ==
  /\ pc[i] = "create"
  /\ \/ Set(i, "partial") /\ Goto(i, "write")
     \/ Goto(i, "failed") /\ UNCHANGED dir
  /\ UNCHANGED <<forced, fs, foreign, removed>>

\* Mutation: the result of the write is not looked at.
WriteTempUnchecked(i) ==
  /\ pc[i] = "write"
  /\ Set(i, i) \/ UNCHANGED dir
  /\ Goto(i, IF i \in forced THEN "unlink" ELSE "rename")
  /\ UNCHANGED <<forced, fs, foreign, removed>>

\* write_all and sync_all, both before the name is used for anything.
WriteTemp(i) ==
  /\ pc[i] = "write"
  /\ \/ Set(i, i) /\ Goto(i, IF i \in forced THEN "unlink" ELSE "rename")
     \/ Goto(i, "clean") /\ UNCHANGED dir
  /\ UNCHANGED <<forced, fs, foreign, removed>>

\* --force: unlink, best effort, an absent destination being the usual case.
UnlinkDest(i) ==
  /\ pc[i] = "unlink"
  /\ Set("dest", NoFile)
  /\ Goto(i, "rename")
  /\ UNCHANGED <<forced, fs, foreign, removed>>

\* Mutation: where no no-replace rename exists, an ordinary one is used.
RenameDegraded(i) ==
  /\ pc[i] = "rename"
  /\ IF fs = "rename" /\ dir["dest"] # NoFile
       THEN Goto(i, "clean") /\ UNCHANGED dir
       ELSE dir' = [dir EXCEPT !["dest"] = dir[i], ![i] = NoFile] /\ Goto(i, "ok")
  /\ UNCHANGED <<forced, fs, foreign, removed>>

\* Mutation: a taken destination is waited for.
RenameWaiting(i) ==
  /\ pc[i] = "rename"
  /\ dir["dest"] = NoFile
  /\ dir' = [dir EXCEPT !["dest"] = dir[i], ![i] = NoFile]
  /\ Goto(i, "ok")
  /\ UNCHANGED <<forced, fs, foreign, removed>>

\* renameat2(RENAME_NOREPLACE); without it, linkat.
Rename(i) ==
  /\ pc[i] = "rename"
  /\ \/ /\ fs = "rename" /\ dir["dest"] = NoFile
        /\ dir' = [dir EXCEPT !["dest"] = dir[i], ![i] = NoFile]
        /\ Goto(i, "ok")
     \/ Goto(i, "clean") /\ UNCHANGED dir
     \/ fs # "rename" /\ Goto(i, "link") /\ UNCHANGED dir
  /\ UNCHANGED <<forced, fs, foreign, removed>>

\* Mutation: an existing destination is taken for one's own.
LinkCareless(i) ==
  /\ pc[i] = "link"
  /\ \/ /\ fs = "link"
        /\ IF dir["dest"] = NoFile THEN Set("dest", dir[i]) ELSE UNCHANGED dir
        /\ Goto(i, "unlink_temp")
     \/ Goto(i, "clean") /\ UNCHANGED dir
  /\ UNCHANGED <<forced, fs, foreign, removed>>

\* linkat is as unwilling to replace; with neither, the install fails closed.
Link(i) ==
  /\ pc[i] = "link"
  /\ \/ /\ fs = "link" /\ dir["dest"] = NoFile
        /\ Set("dest", dir[i])
        /\ Goto(i, "unlink_temp")
     \/ Goto(i, "clean") /\ UNCHANGED dir
  /\ UNCHANGED <<forced, fs, foreign, removed>>

UnlinkTemp(i) ==
  /\ pc[i] = "unlink_temp"
  /\ Set(i, NoFile)
  /\ Goto(i, "ok")
  /\ UNCHANGED <<forced, fs, foreign, removed>>

\* Mutation: a refused install leaves its temporary.
CleanNothing(i) ==
  /\ pc[i] = "clean"
  /\ Goto(i, "failed")
  /\ UNCHANGED <<forced, dir, fs, foreign, removed>>

\* Every refusal unlinks the temporary before it is reported.
Clean(i) ==
  /\ pc[i] = "clean"
  /\ Set(i, NoFile)
  /\ Goto(i, "failed")
  /\ UNCHANGED <<forced, fs, foreign, removed>>

Crash(i) ==
  /\ pc[i] \notin Over
  /\ Goto(i, "crashed")
  /\ UNCHANGED <<forced, dir, fs, foreign, removed>>

\* Another program writes, replaces or removes the destination.
Foreign ==
  /\ foreign < MaxForeign
  /\ foreign' = foreign + 1
  /\ \/ Set("dest", "foreign") /\ removed' = (removed \/ dir["dest"] # NoFile)
     \/ Set("dest", NoFile) /\ removed' = TRUE
  /\ UNCHANGED <<forced, fs, pc>>

Step(i) ==
  \/ CreateTemp(i) \/ WriteTemp(i) \/ UnlinkDest(i) \/ Rename(i)
  \/ Link(i) \/ UnlinkTemp(i) \/ Clean(i)

Init ==
  /\ forced \in Forcing
  /\ dir \in [Names -> {NoFile, "foreign"}]
  /\ \A i \in Installers : dir[i] = NoFile
  /\ fs \in {"rename", "link", "neither"}
  /\ pc = [i \in Installers |-> "create"]
  /\ foreign = 0
  /\ removed = FALSE

Next == \/ \E i \in Installers : Step(i) \/ Crash(i)
        \/ Foreign

Spec == Init /\ [][Next]_vars

\* An invocation that is not killed keeps making its system calls.
FairSpec == Spec /\ \A i \in Installers : WF_vars(Step(i))

-----------------------------------------------------------------------------
\* The destination never holds part of a file: whatever is there was
\* complete and synced before it got the name.
NeverTorn == dir["dest"] # "partial"

\* A file at the destination is never overwritten in place, not even by
\* --force, and it is removed only by the unlink of a forced install: a file
\* that appears between any two steps survives them.
ReplacesOnlyByForce ==
  [][foreign' = foreign /\ dir["dest"] # NoFile /\ dir'["dest"] # dir["dest"]
       => /\ dir'["dest"] = NoFile
          /\ \E i \in forced : pc[i] = "unlink"]_vars

\* Of several unforced installs of one destination at most one succeeds,
\* and its bytes are what is there, unless another program removed them.
OneWinner ==
  forced = {} /\ ~removed =>
    \A i \in Installers : pc[i] = "ok" => dir["dest"] = i

\* A temporary outlives its install only in a crash.
NoLitter == \A i \in Installers : pc[i] \in {"ok", "failed"} => dir[i] = NoFile

\* Every install that is not killed is reported one way or the other.
InstallsEnd == \A i \in Installers : <>(pc[i] \in Over)
=============================================================================
