------------------------------- MODULE Issue -------------------------------
(***************************************************************************)
(* Issuing receipts: commands/issue.rs (run, submit, rotation_proofs,      *)
(* continued_history, publish_existing) over the requests of producer.rs.  *)
(*                                                                         *)
(* A run is one invocation of `issue`.  It keeps nothing on disk but the   *)
(* receipt; everything else is in a log, a mirror and witnesses that other *)
(* runs use at the same time.  Each of their answers is a step of its own. *)
(*                                                                         *)
(* A tree is the sequence of its entries and stands for its own root, an   *)
(* envelope for its own entry id.  A checkpoint is a size, a root and a    *)
(* time; the log signs the ones in minted, and time 0 marks one it never   *)
(* signed.  Entry index i is element i + 1 of a sequence.                  *)
(***************************************************************************)
EXTENDS Integers, Sequences, FiniteSets

CONSTANTS
  Runs,        \* invocations
  Manifest,    \* envelopes that carry a manifest
  Statement,   \* envelopes that carry any other statement
  Endpoints,   \* Endpoints.witnesses, in the order they are asked
  Declared,    \* the witnesses a manifest version declares
  L3,          \* the manifest versions of level L3
  Histories,   \* logs a deployment may have when the first run starts
  Mirrors,     \* subset of {"honest", "lying"}
  MaxStarts,   \* how many runs are started, for each kind of mirror
  MaxCrashes,  \* how many of them are killed
  None

Envelope  == Manifest \cup Statement
Trees     == Seq(Envelope)
Witnesses == {Endpoints[i] : i \in 1..Len(Endpoints)}

ASSUME EnvelopesApart == Manifest \cap Statement = {}
ASSUME SomeWitness == Len(Endpoints) > 0
ASSUME DeclaredAssumption == /\ Declared \in [Manifest -> SUBSET Witnesses]
                             /\ L3 \subseteq Manifest
ASSUME MirrorsAssumption == Mirrors \subseteq {"honest", "lying"}
ASSUME HistoriesAssumption ==
  \A h \in Histories : h \in Trees /\ h # <<>> /\ h[1] \in Manifest
ASSUME EndpointsAssumption == Endpoints \in Seq(Witnesses)
ASSUME IssueBounds == MaxStarts \in [{"honest", "lying"} -> Nat] /\ MaxCrashes \in Nat

VARIABLES
  log,        \* the entries the log holds
  minted,     \* the checkpoints the log has signed
  staged,     \* envelopes staged at the mirror
  held,       \* entry indexes the mirror holds an entry for
  series,     \* checkpoints the mirror was given
  seen,       \* the checkpoints each witness has cosigned
  mirror,     \* "honest" or "lying"
  run,        \* what each run has in hand
  receipts,   \* the receipts installed so far
  starts, crashes,
  overlapped  \* has a run ever been started while another was under way?

servers == <<log, minted, staged, held, series, seen, mirror>>
ghosts  == <<starts, crashes, overlapped>>
vars    == <<servers, run, receipts, ghosts>>

Checkpoint == [size : Nat, root : Trees, time : Nat]

ASSUME NoneApart == None \notin Checkpoint /\ None \notin Nat

(***************************************************************************)
(* Governance read out of an enumerated prefix (producer.rs Governance).   *)
(***************************************************************************)
ManifestIndices(tree) == {i \in 0..(Len(tree) - 1) : tree[i + 1] \in Manifest}

Below(tree, size) == {i \in ManifestIndices(tree) : i < size}

\* active_for_checkpoint
IsActive(tree, size, i) ==
  /\ i \in Below(tree, size)
  /\ \A j \in Below(tree, size) : j <= i

DeclaredAt(tree, i) == Declared[tree[i + 1]]

\* rotations(carried_indices(size)), the log's own key set being constant
Rotations(tree, size) ==
  {i \in Below(tree, size) :
     \E out \in 0..i : /\ IsActive(tree, i, out)
                       /\ DeclaredAt(tree, out) # DeclaredAt(tree, i)}

\* authenticate_prefix
Authentic(c, entries) == Len(entries) = c.size /\ entries = c.root

\* Variant: any version the tree carries accounts for a cosignature.
AccountedByAny(cosignatures, tree, size) ==
  {s \in cosignatures : \E i \in Below(tree, size) : s.by \in DeclaredAt(tree, i)}

\* accounted_cosignatures
Accounted(cosignatures, tree, size) ==
  {s \in cosignatures :
     \E i \in 0..(Len(tree) - 1) :
        IsActive(tree, size, i) /\ s.by \in DeclaredAt(tree, i)}

(***************************************************************************)
(* The servers, as the code relies on them.                                *)
(***************************************************************************)
Prefix(n) == SubSeq(log, 1, n)

Extends(big, small) ==
  /\ big.size >= small.size
  /\ SubSeq(big.root, 1, small.size) = small.root

\* A mirror calls a member series_usable when the entries it holds recompute
\* its root (checkpoint.rs).
Usable == {c \in series : 0..(c.size - 1) \subseteq held}

\* The answers a lying mirror gives for a tree of n entries: the tree, the
\* tree one entry short, and the tree with one entry substituted.
Windows(n) == {Prefix(n), Prefix(n - 1)} \cup
              {[Prefix(n) EXCEPT ![i] = e] : i \in 1..n, e \in Envelope}

Unsigned == UNION {{[size |-> n, root |-> w, time |-> 0] : w \in Windows(n)} :
                     n \in 1..Len(log)}

\* GET /v1/entries/{id}
Places(e) ==
  IF mirror = "lying" THEN 0..Len(log) \cup {None}
  ELSE LET at == {i \in held : log[i + 1] = e}
       IN  IF at = {} THEN {None} ELSE at

\* GET /v1/checkpoints, filtered as series_usable filters it
Published ==
  IF mirror = "lying"
  THEN {shown \cup forged : shown \in SUBSET series,
                           forged \in {{}} \cup {{c} : c \in Unsigned}}
  ELSE {Usable}

\* POST /v1/range
Ranges(n) ==
  IF mirror = "lying" THEN IF n \in 1..Len(log) THEN Windows(n) ELSE {}
  ELSE IF 0..(n - 1) \subseteq held THEN {Prefix(n)} ELSE {}

Before(c, d) == c.size < d.size \/ (c.size = d.size /\ c.time < d.time)

\* Both servers anchor a rotation at the earliest qualifying checkpoint.
Anchors(known, i) ==
  {c \in known : /\ c.size > i
                 /\ \A d \in known : d.size > i => ~Before(d, c)}

\* GET /v1/rotation-proofs/{i}
RotationProofs(i) ==
  IF mirror = "lying" THEN series \cup {None}
  ELSE IF Anchors(Usable, i) = {} THEN {None} ELSE Anchors(Usable, i)

\* GET /v1/logs/{log_id}/rotation-cosignatures/{i}; only a witness of the
\* outgoing version attests a handover
RotationCosignatures(w, i) ==
  IF \E out \in 0..i : IsActive(log, i, out) /\ w \in DeclaredAt(log, out)
  THEN Anchors(seen[w], i) ELSE {}

\* POST /v1/logs/{log_id}/witness: what the witness may answer to a
\* checkpoint shown with a prefix.  Nothing relies on its checking that the
\* log signed it.
Answers(w, c, entries) ==
  IF c \notin minted \/ ~Authentic(c, entries) THEN {"unusable", "cosigned"}
  ELSE IF \/ c \in seen[w]
          \/ \E d \in seen[w] : d.size > c.size \/ ~Extends(c, d)
  THEN {"refused"}
  ELSE {"cosigned"}

(***************************************************************************)
(* A run.                                                                  *)
(***************************************************************************)
Ended == {"issued", "failed", "crashed"}
Labels == Ended \cup
  {"idle", "look", "place", "submit", "retrieve", "stage", "ingest",
   "enumerate", "history", "cosign", "proof", "attest", "series", "window",
   "later_history", "later_cosign", "assemble"}

NewRun == [pc |-> "idle", env |-> None, wants |-> FALSE, index |-> None,
           placed |-> FALSE, cp |-> None, prefix |-> <<>>, cos |-> {},
           todo |-> <<>>, owed |-> {}, element |-> None, served |-> {},
           proofs |-> {}, published |-> {}, horizon |-> None, later |-> None,
           window |-> <<>>, lcos |-> {}]

InFlight(r) == run[r].pc \notin Ended \cup {"idle"}

At(r, label) == run[r].pc = label

Go(r, new) == run' = [run EXCEPT ![r] = new]

Learn(r, new) == Go(r, new) /\ UNCHANGED <<servers, receipts, ghosts>>

End(r, label) == Go(r, [NewRun EXCEPT !.pc = label])

Fail(r) == End(r, "failed") /\ UNCHANGED <<servers, receipts, ghosts>>

\* run, with the envelope it was given; an enumerated claim and
\* --no-continued-history want no continuation
Start(r) ==
  /\ ~InFlight(r)
  /\ starts < MaxStarts[mirror]
  /\ starts' = starts + 1
  /\ overlapped' = (overlapped \/ \E q \in Runs : InFlight(q))
  /\ \E e \in Envelope, wants \in BOOLEAN :
       Go(r, [NewRun EXCEPT !.pc = "look", !.env = e, !.wants = wants])
  /\ UNCHANGED <<servers, receipts, crashes>>

\* Variant: the mirror is not asked.
LookUpNot(r) == At(r, "look") /\ Learn(r, [run[r] EXCEPT !.pc = "submit"])

\* published_index
LookUp(r) ==
  /\ At(r, "look")
  /\ \E at \in Places(run[r].env) :
       IF at = None THEN Learn(r, [run[r] EXCEPT !.pc = "submit"])
       ELSE Learn(r, [run[r] EXCEPT !.pc = "place", !.index = at, !.placed = TRUE])

\* Variant: the newest.
CoversNewest(published, index) ==
  {c \in published : /\ c.size > index
                     /\ \A d \in published : d.size > index => d.size <= c.size}

\* The earliest published checkpoint that commits the entry.  The list is
\* sorted by size alone: among equals the mirror's own order decides.
Covers(published, index) ==
  {c \in published : /\ c.size > index
                     /\ \A d \in published : d.size > index => c.size <= d.size}

\* publish_existing
Place(r) ==
  /\ At(r, "place")
  /\ \E published \in Published :
       LET covers == Covers(published, run[r].index)
       IN  \/ covers = {} /\ Fail(r)
           \/ \E c \in covers : Learn(r, [run[r] EXCEPT !.pc = "enumerate", !.cp = c])

\* Variant: leaves counted from 1.
SubmitFromOne(r) ==
  /\ At(r, "submit")
  /\ log' = Append(log, run[r].env)
  /\ Go(r, [run[r] EXCEPT !.pc = "retrieve", !.index = Len(log) + 1])
  /\ UNCHANGED <<minted, staged, held, series, seen, mirror, receipts, ghosts>>

\* POST /v1/anchor
Submit(r) ==
  /\ At(r, "submit")
  /\ log' = Append(log, run[r].env)
  /\ Go(r, [run[r] EXCEPT !.pc = "retrieve", !.index = Len(log)])
  /\ UNCHANGED <<minted, staged, held, series, seen, mirror, receipts, ghosts>>

\* GET /v1/anchor/{id}: the log signs a fresh checkpoint for every request,
\* over the tree as it stands
Retrieve(r) ==
  /\ At(r, "retrieve")
  /\ LET same == {c \in minted : c.size = Len(log)}
         c    == [size |-> Len(log), root |-> log, time |-> Cardinality(same) + 1]
     IN  /\ minted' = minted \cup {c}
         /\ Go(r, [run[r] EXCEPT !.pc = "stage", !.cp = c])
  /\ UNCHANGED <<log, staged, held, series, seen, mirror, receipts, ghosts>>

\* POST /v1/entries/stage
Stage(r) ==
  /\ At(r, "stage")
  /\ staged' = staged \cup {run[r].env}
  /\ Go(r, [run[r] EXCEPT !.pc = "ingest"])
  /\ UNCHANGED <<log, minted, held, series, seen, mirror, receipts, ghosts>>

\* POST /v1/checkpoints, promoting the entry
Ingest(r) ==
  /\ At(r, "ingest") /\ run[r].env \in staged
  /\ held' = held \cup {run[r].index}
  /\ series' = series \cup {run[r].cp}
  /\ Go(r, [run[r] EXCEPT !.pc = "enumerate"])
  /\ UNCHANGED <<log, minted, staged, seen, mirror, receipts, ghosts>>

\* What a run does next, by the witnesses it has still to ask, the rotations
\* it has still to prove, and whether it wants a continuation.  The rotation
\* anchors it offers the mirror in between are checkpoints the mirror holds.
Onward(todo, owed, wants) ==
  IF todo # <<>> THEN "history"
  ELSE IF owed # {} THEN "proof"
  ELSE IF wants THEN "series" ELSE "assemble"

\* The prefix is read before anything authenticates it.
Enumerate(r) ==
  /\ At(r, "enumerate")
  /\ LET size == run[r].cp.size IN
     \/ Ranges(size) = {} /\ Fail(r)
     \/ \E entries \in Ranges(size) :
          IF Below(entries, size) = {} THEN Fail(r)
          ELSE Learn(r, [run[r] EXCEPT !.pc = "history",
                                       !.prefix = entries,
                                       !.todo = Endpoints,
                                       !.owed = Rotations(entries, size)])

\* Variants: the tree size is compared; the history is not read.
CosignatureOverSize(history, c) == {rec \in history : rec.size = c.size}
CosignatureAsked(history, c) == {}

\* cosignature_over: the whole checkpoint is compared
CosignatureOver(history, c) == {rec \in history : rec = c}

\* cosigned_history: a cosignature over exactly this checkpoint is taken from
\* the witness's history rather than asked for again
History(r) ==
  /\ At(r, "history")
  /\ LET w    == Head(run[r].todo)
         rest == Tail(run[r].todo)
         over == CosignatureOver(seen[w], run[r].cp)
     IN  \/ over = {} /\ Learn(r, [run[r] EXCEPT !.pc = "cosign"])
         \/ \E rec \in over :
              Learn(r, [run[r] EXCEPT
                          !.pc   = Onward(rest, run[r].owed, run[r].wants),
                          !.cos  = @ \cup {[by |-> w, over |-> rec]},
                          !.todo = rest])

\* cosign; a refusal ends the run
Cosign(r) ==
  /\ At(r, "cosign")
  /\ LET w    == Head(run[r].todo)
         rest == Tail(run[r].todo)
         c    == run[r].cp
         answers == Answers(w, c, run[r].prefix)
     IN  \/ answers # {"cosigned"} /\ Fail(r)
         \/ /\ "cosigned" \in answers
            /\ seen' = [seen EXCEPT ![w] = @ \cup {c}]
            /\ Go(r, [run[r] EXCEPT
                        !.pc   = Onward(rest, run[r].owed, run[r].wants),
                        !.cos  = @ \cup {[by |-> w, over |-> c]},
                        !.todo = rest])
            /\ UNCHANGED <<log, minted, staged, held, series, mirror,
                           receipts, ghosts>>

\* rotation_proof, for the rotations in ascending order
Proof(r) ==
  /\ At(r, "proof")
  /\ \E i \in run[r].owed :
       /\ \A j \in run[r].owed : i <= j
       /\ \E c \in RotationProofs(i) :
            IF c = None THEN Fail(r)
            ELSE Learn(r, [run[r] EXCEPT !.pc = "attest", !.element = c,
                                         !.todo = Endpoints, !.served = {}])

\* Variant: the halves are joined without comparing their checkpoints.
PairedAnyhow(served, c) == served # {}

\* compose_rotation_proof: some witness cosigned, and all the same checkpoint
Paired(served, c) == served # {} /\ \A s \in served : s.over = c

\* rotation_cosignatures of the next witness, and the element composed once
\* the last one has answered
Attest(r) ==
  /\ At(r, "attest")
  /\ \E i \in run[r].owed :
       LET w      == Head(run[r].todo)
           todo   == Tail(run[r].todo)
           c      == run[r].element
           rest   == run[r].owed \ {i}
           served == run[r].served \cup
                       {[by |-> w, over |-> d] : d \in RotationCosignatures(w, i)}
       IN  /\ \A j \in run[r].owed : i <= j
           /\ \/ /\ todo # <<>>
                 /\ Learn(r, [run[r] EXCEPT !.todo = todo, !.served = served])
              \/ /\ todo = <<>> /\ ~Paired(served, c)
                 /\ Fail(r)
              \/ /\ todo = <<>> /\ Paired(served, c)
                 /\ Learn(r, [run[r] EXCEPT
                                !.pc     = Onward(<<>>, rest, run[r].wants),
                                !.todo   = <<>>,
                                !.owed   = rest,
                                !.served = {},
                                !.element = None,
                                !.proofs = @ \cup {[index |-> i, over |-> c,
                                                    by |-> {s.by : s \in served}]}])

(***************************************************************************)
(* continued_history.                                                      *)
(***************************************************************************)
Latest(checkpoints) ==
  {c \in checkpoints : \A d \in checkpoints : d.size <= c.size}

Series(r) ==
  /\ At(r, "series")
  /\ \E published \in Published :
       LET beyond == {c \in published : c.size > run[r].cp.size}
       IN  \/ beyond = {} /\ Learn(r, [run[r] EXCEPT !.pc = "assemble"])
           \/ \E furthest \in Latest(beyond) :
                Learn(r, [run[r] EXCEPT !.pc = "window",
                                        !.published = beyond,
                                        !.horizon = furthest])

\* No manifest of entries is anchored from size on and before at.
WithinCeiling(entries, size, at) ==
  \A i \in ManifestIndices(entries) : i >= size => at <= i

\* Variant: the horizon checkpoint alone binds the window.
BoundToHorizon(later, entries) == TRUE

\* The window is the tree of the checkpoint the receipt will carry.
BoundToLater(later, entries) ==
  Authentic(later, SubSeq(entries, 1, later.size))

\* The version in force at both checkpoints is one, and the later extends
\* the earlier.
Continues(later, entries, c, prefix) ==
  /\ \E i \in Below(prefix, c.size) : /\ IsActive(prefix, c.size, i)
                                      /\ IsActive(entries, later.size, i)
  /\ Extends(later, c)

Window(r) ==
  /\ At(r, "window")
  /\ LET horizon == run[r].horizon
         c       == run[r].cp
     IN  \/ (mirror = "lying" \/ Ranges(horizon.size) = {}) /\ Fail(r)
         \/ \E entries \in Ranges(horizon.size) :
              LET reach == Latest({d \in run[r].published :
                                     WithinCeiling(entries, c.size, d.size)})
              IN  \/ ~Authentic(horizon, entries) /\ Fail(r)
                  \/ /\ Authentic(horizon, entries)
                     /\ reach = {}
                     /\ Learn(r, [run[r] EXCEPT !.pc = "assemble"])
                  \/ /\ Authentic(horizon, entries)
                     /\ \E later \in reach :
                          IF /\ BoundToLater(later, entries)
                             /\ Continues(later, entries, c, run[r].prefix)
                          THEN Learn(r, [run[r] EXCEPT
                                           !.pc        = "later_history",
                                           !.later     = later,
                                           !.window    = SubSeq(entries, 1, later.size),
                                           !.todo      = Endpoints,
                                           !.published = {},
                                           !.horizon   = None])
                          ELSE Fail(r)

OnwardLater(todo) == IF todo # <<>> THEN "later_history" ELSE "assemble"

LaterHistory(r) ==
  /\ At(r, "later_history")
  /\ LET w    == Head(run[r].todo)
         rest == Tail(run[r].todo)
         over == CosignatureOver(seen[w], run[r].later)
     IN  \/ over = {} /\ Learn(r, [run[r] EXCEPT !.pc = "later_cosign"])
         \/ \E rec \in over :
              Learn(r, [run[r] EXCEPT !.pc   = OnwardLater(rest),
                                      !.lcos = @ \cup {[by |-> w, over |-> rec]},
                                      !.todo = rest])

\* cosign_later; a refusal is passed over
LaterCosign(r) ==
  /\ At(r, "later_cosign")
  /\ LET w      == Head(run[r].todo)
         rest   == Tail(run[r].todo)
         later  == run[r].later
         answers == Answers(w, later, run[r].window)
     IN  \/ "unusable" \in answers /\ Fail(r)
         \/ /\ "refused" \in answers
            /\ Learn(r, [run[r] EXCEPT !.pc = OnwardLater(rest), !.todo = rest])
         \/ /\ "cosigned" \in answers
            /\ seen' = [seen EXCEPT ![w] = @ \cup {later}]
            /\ Go(r, [run[r] EXCEPT !.pc   = OnwardLater(rest),
                                    !.lcos = @ \cup {[by |-> w, over |-> later]},
                                    !.todo = rest])
            /\ UNCHANGED <<log, minted, staged, held, series, mirror,
                           receipts, ghosts>>

(***************************************************************************)
(* Assembly.                                                               *)
(***************************************************************************)
LaterWitnesses(r) ==
  IF run[r].later = None THEN {}
  ELSE Accounted(run[r].lcos, run[r].window, run[r].later.size)

\* At L3 a continuation needs a witness that saw it.
LaterSupported(r) ==
  \/ run[r].later = None
  \/ LaterWitnesses(r) # {}
  \/ ~\E i \in ManifestIndices(run[r].window) :
         /\ IsActive(run[r].window, run[r].later.size, i)
         /\ run[r].window[i + 1] \in L3

\* Variant: the mirror's index is taken as it is.
SubjectIsAnything(entries, index, e) == index < Len(entries)

\* require_subject
SubjectIs(entries, index, e) == index < Len(entries) /\ entries[index + 1] = e

\* Assembly::new, require_subject, assemble, install
Assemble(r) ==
  /\ At(r, "assemble")
  /\ IF /\ LaterSupported(r)
        /\ Authentic(run[r].cp, run[r].prefix)
        /\ SubjectIs(run[r].prefix, run[r].index, run[r].env)
     THEN /\ receipts' = receipts \cup
               {[env    |-> run[r].env,   index |-> run[r].index,
                 placed |-> run[r].placed, cp   |-> run[r].cp,
                 cos    |-> Accounted(run[r].cos, run[r].prefix, run[r].cp.size),
                 proofs |-> run[r].proofs, later |-> run[r].later,
                 lcos   |-> LaterWitnesses(r)]}
          /\ End(r, "issued")
          /\ UNCHANGED <<servers, ghosts>>
     ELSE Fail(r)

Crash(r) ==
  /\ InFlight(r)
  /\ crashes < MaxCrashes
  /\ crashes' = crashes + 1
  /\ End(r, "crashed")
  /\ UNCHANGED <<servers, receipts, starts, overlapped>>

Signed(tree) == {[size |-> n, root |-> SubSeq(tree, 1, n), time |-> 1] :
                   n \in 1..Len(tree)}

\* A deployment in which every entry so far was issued by itself.
Init ==
  /\ mirror \in Mirrors
  /\ log \in Histories
  /\ minted = Signed(log) /\ series = minted
  /\ staged = {} /\ held = 0..(Len(log) - 1)
  /\ seen = [w \in Witnesses |-> minted]
  /\ run = [r \in Runs |-> NewRun] /\ receipts = {}
  /\ starts = 0 /\ crashes = 0 /\ overlapped = FALSE

Step(r) ==
  \/ LookUp(r) \/ Place(r) \/ Submit(r) \/ Retrieve(r) \/ Stage(r) \/ Ingest(r)
  \/ Enumerate(r) \/ History(r) \/ Cosign(r) \/ Proof(r) \/ Attest(r)
  \/ Series(r) \/ Window(r) \/ LaterHistory(r) \/ LaterCosign(r) \/ Assemble(r)

Next == \E r \in Runs : Start(r) \/ Step(r) \/ Crash(r)

Spec == Init /\ [][Next]_vars

(***************************************************************************)
(* Properties.                                                             *)
(***************************************************************************)
RunState ==
  [pc : Labels, env : Envelope \cup {None}, wants : BOOLEAN,
   index : Nat \cup {None}, placed : BOOLEAN, cp : Checkpoint \cup {None},
   prefix : Trees, cos : SUBSET [by : Witnesses, over : Checkpoint],
   todo : Seq(Witnesses),
   owed : SUBSET Nat, element : Checkpoint \cup {None},
   served : SUBSET [by : Witnesses, over : Checkpoint],
   proofs : SUBSET [index : Nat, over : Checkpoint, by : SUBSET Witnesses],
   published : SUBSET Checkpoint, horizon : Checkpoint \cup {None},
   later : Checkpoint \cup {None}, window : Trees,
   lcos : SUBSET [by : Witnesses, over : Checkpoint]]

Receipt ==
  [env : Envelope, index : Nat, placed : BOOLEAN, cp : Checkpoint,
   cos : SUBSET [by : Witnesses, over : Checkpoint],
   proofs : SUBSET [index : Nat, over : Checkpoint, by : SUBSET Witnesses],
   later : Checkpoint \cup {None},
   lcos : SUBSET [by : Witnesses, over : Checkpoint]]

\* Every variable stays in its range.
TypeOK ==
  /\ log \in Trees /\ minted \in SUBSET Checkpoint
  /\ staged \in SUBSET Envelope /\ held \in SUBSET (0..(Len(log) - 1))
  /\ series \in SUBSET Checkpoint
  /\ seen \in [Witnesses -> SUBSET Checkpoint]
  /\ mirror \in Mirrors
  /\ run \in [Runs -> RunState]
  /\ receipts \in SUBSET Receipt
  /\ starts \in Nat /\ crashes \in Nat /\ overlapped \in BOOLEAN

\* A reader accepts a receipt only under a checkpoint the log signed.
Readable(c) == c.cp \in minted

\* A receipt is about the envelope that was handed over, at the index it
\* names, whatever index the mirror claimed (require_subject).
SubjectIsSubmitted ==
  \A c \in receipts : Readable(c) =>
     c.index < c.cp.size /\ log[c.index + 1] = c.env

\* Every cosignature a receipt carries is over exactly the checkpoint it is
\* carried for, though a log republishes at one size (cosignature_over).
CosignedAsCarried ==
  \A c \in receipts :
     /\ \A s \in c.cos  : s.over = c.cp /\ c.cp \in seen[s.by]
     /\ \A s \in c.lcos : s.over = c.later /\ c.later \in seen[s.by]

\* A receipt carries a cosignature only of a witness that the version the log
\* has in force for its checkpoint declares, though the prefix it was judged
\* by came from the mirror unauthenticated.
AccountedByTheLog ==
  \A c \in receipts : Readable(c) =>
     \A s \in c.cos \cup c.lcos :
        \E i \in Below(log, c.cp.size) :
           IsActive(log, c.cp.size, i) /\ s.by \in DeclaredAt(log, i)

\* No manifest was anchored between a receipt's checkpoint and the later one
\* it carries, though the mirror publishes the series and the window that say
\* so (continued_history).
ContinuationGrounded ==
  \A c \in receipts : (Readable(c) /\ c.later \in minted) =>
     \A i \in ManifestIndices(log) : ~(c.cp.size <= i /\ i < c.later.size)

\* A receipt proves every rotation of the chain it carries and no other, each
\* attested by a witness the outgoing version declares.
RotationsProved ==
  \A c \in receipts : Readable(c) =>
     /\ {p.index : p \in c.proofs} = Rotations(log, c.cp.size)
     /\ \A p \in c.proofs :
          \E w \in p.by, out \in Below(log, p.index) :
             /\ IsActive(log, p.index, out) /\ w \in DeclaredAt(log, out)
             /\ p.over \in seen[w] /\ p.over.size > p.index

\* However the log grows, an entry issued again is anchored at the tree size
\* it was issued at before (publish_existing: issuance is deterministic).
AnchorStable ==
  mirror = "honest" =>
     \A b, c \in receipts :
        b.placed /\ c.placed /\ b.index = c.index => b.cp.size = c.cp.size

\* An entry is in the log once.
Once(tree) == \A i, j \in 1..Len(tree) : tree[i] = tree[j] => i = j

\* No log holds an entry twice to begin with, and every version declares a
\* witness: a rotation out of one that declares none is attested by nobody
\* (an L1 or L2 corpus declares none, governance.rs:969).
Provisioned ==
  /\ \A m \in Manifest : Declared[m] # {}
  /\ \A h \in Histories : Once(h)

\* Where runs neither overlap nor are killed, no run fails, for what one run
\* shows a witness never makes the witness refuse another's checkpoint; and an
\* envelope issued any number of times is one entry of the log (the
\* idempotence README.md claims).
InTurn == Provisioned /\ mirror = "honest" /\ ~overlapped /\ crashes = 0

RunsInTurn == InTurn => Once(log) /\ \A r \in Runs : ~At(r, "failed")

\* The mirror and a witness that both anchor a rotation anchor it at the same
\* checkpoint ("they agree in a healthy deployment", compose_rotation_proof).
RotationHalvesAgree ==
  mirror = "honest" =>
     \A i \in ManifestIndices(log), w \in Witnesses :
        \A c \in RotationProofs(i) \ {None}, d \in RotationCosignatures(w, i) : c = d
=============================================================================
