------------------------ MODULE AtomicInstall_proofs ------------------------
(***************************************************************************)
(* Proofs about AtomicInstall: its type invariant, that the destination is *)
(* never torn, and that unforced installs have at most one winner.         *)
(***************************************************************************)
EXTENDS AtomicInstall, TLAPS

\* A temporary is complete once its installer is past the write, and an
\* installer that has linked or renamed it owns the destination.
Past == {"unlink", "rename", "link"}
Won  == {"unlink_temp", "ok"}
\* An installer that has no temporary: none yet, or none any more.
Bare == {"create", "ok", "failed"}

IInv ==
  /\ TypeOK
  /\ dir["dest"] # "partial"
  /\ \A i \in Installers :
       /\ pc[i] \in Past => dir[i] = i
       /\ pc[i] = "unlink" => i \in forced
       /\ pc[i] \in Bare => dir[i] = NoFile
       /\ pc[i] \in Won /\ forced = {} /\ ~removed => dir["dest"] = i

USE DEF TypeOK, Names, Contents, Labels, Over, Past, Won, Bare, Goto, Set

LEMMA IInvInit == Init => IInv
  <1> SUFFICES ASSUME Init PROVE IInv
    OBVIOUS
  <1>1. dir \in [Names -> Contents \cup {NoFile}] /\ dir["dest"] # "partial"
    BY ContentsApart DEF Init
  <1>2. foreign \in 0..MaxForeign
    BY MaxForeignAssumption DEF Init
  <1>3. forced \in SUBSET Installers
    BY ForcingAssumption DEF Init
  <1>4. /\ pc \in [Installers -> Labels]
        /\ \A i \in Installers : pc[i] = "create"
        /\ \A i \in Installers : dir[i] = NoFile
        /\ fs \in {"rename", "link", "neither"}
        /\ removed = FALSE
    BY DEF Init
  <1> QED BY <1>1, <1>2, <1>3, <1>4 DEF IInv

LEMMA IInvStep ==
  ASSUME IInv, NEW i \in Installers, Step(i)
  PROVE  IInv'
  <1> USE ContentsApart DEF IInv
  <1>1. CASE CreateTemp(i) BY <1>1 DEF CreateTemp
  <1>2. CASE WriteTemp(i) BY <1>2 DEF WriteTemp
  <1>3. CASE UnlinkDest(i) BY <1>3 DEF UnlinkDest
  <1>4. CASE Rename(i) BY <1>4 DEF Rename
  <1>5. CASE Link(i) BY <1>5 DEF Link
  <1>6. CASE UnlinkTemp(i) BY <1>6 DEF UnlinkTemp
  <1>7. CASE Clean(i) BY <1>7 DEF Clean
  <1> QED BY <1>1, <1>2, <1>3, <1>4, <1>5, <1>6, <1>7 DEF Step

LEMMA IInvNext == IInv /\ [Next]_vars => IInv'
  <1> SUFFICES ASSUME IInv, [Next]_vars PROVE IInv'
    OBVIOUS
  <1>1. ASSUME NEW i \in Installers, Step(i) PROVE IInv'
    BY <1>1, IInvStep
  <1>2. ASSUME NEW i \in Installers, Crash(i) PROVE IInv'
    BY <1>2 DEF Crash, IInv
  <1>3. CASE Foreign
    <2> USE DEF IInv
    <2>1. foreign' \in 0..MaxForeign /\ UNCHANGED <<forced, fs, pc>>
      BY <1>3, MaxForeignAssumption DEF Foreign
    <2>2. /\ dir' \in [Names -> Contents \cup {NoFile}] /\ dir'["dest"] # "partial"
          /\ \A i \in Installers : dir'[i] = dir[i]
      BY <1>3, ContentsApart DEF Foreign
    <2>3. removed' \in BOOLEAN
      BY <1>3 DEF Foreign
    <2>4. ~removed' => ~removed /\ dir["dest"] = NoFile
      BY <1>3 DEF Foreign
    <2>5. \A i \in Installers : pc[i] \in Won /\ forced = {} => removed'
      BY <2>4, ContentsApart
    <2> QED BY <2>1, <2>2, <2>3, <2>5
  <1>4. CASE UNCHANGED vars
    BY <1>4 DEF vars, IInv
  <1> QED BY <1>1, <1>2, <1>3, <1>4 DEF Next

\* Every variable of the install protocol keeps its type (install.rs).
THEOREM InstallTypeCorrect == Spec => []TypeOK
  <1>1. IInv => TypeOK BY DEF IInv
  <1> QED BY <1>1, IInvInit, IInvNext, PTL DEF Spec

\* However many invocations install, and whoever else writes there, the
\* destination never holds part of a file (Dir::install writes and syncs
\* before it names).
THEOREM InstallNeverTorn == Spec => []NeverTorn
  <1>1. IInv => NeverTorn BY DEF IInv, NeverTorn
  <1> QED BY <1>1, IInvInit, IInvNext, PTL DEF Spec

\* Without --force at most one install of a destination reports success, and
\* its bytes stay there (Dir::no_replace and Dir::link_install).
THEOREM InstallOneWinner == Spec => []OneWinner
  <1>1. IInv => OneWinner BY DEF IInv, OneWinner
  <1> QED BY <1>1, IInvInit, IInvNext, PTL DEF Spec

\* An install that was not killed leaves no temporary, whether it succeeded or
\* was refused at any of its steps (Dir::install unlinks on every error path).
THEOREM InstallLeavesNothing == Spec => []NoLitter
  <1>1. IInv => NoLitter BY DEF IInv, NoLitter
  <1> QED BY <1>1, IInvInit, IInvNext, PTL DEF Spec

\* A file at the destination is only ever removed by a forced install that
\* announced it, and never overwritten (Dir::install under Force::Yes).
THEOREM InstallReplacesOnlyByForce == Spec => ReplacesOnlyByForce
  <1> DEFINE A == foreign' = foreign /\ dir["dest"] # NoFile /\ dir'["dest"] # dir["dest"]
                    => /\ dir'["dest"] = NoFile
                       /\ \E i \in forced : pc[i] = "unlink"
  <1>1. IInv /\ [Next]_vars => [A]_vars
    <2> SUFFICES ASSUME IInv, [Next]_vars PROVE A \/ UNCHANGED vars
      OBVIOUS
    <2> USE ContentsApart DEF IInv
    <2>1. ASSUME NEW i \in Installers, Step(i) PROVE A
      BY <2>1 DEF Step, CreateTemp, WriteTemp, UnlinkDest, Rename, Link,
                  UnlinkTemp, Clean
    <2>2. ASSUME NEW i \in Installers, Crash(i) PROVE A
      BY <2>2 DEF Crash
    <2>3. CASE Foreign BY <2>3 DEF Foreign
    <2> QED BY <2>1, <2>2, <2>3 DEF Next
  <1> QED BY <1>1, IInvInit, IInvNext, PTL DEF Spec, ReplacesOnlyByForce
=============================================================================
