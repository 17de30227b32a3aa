---------------------------- MODULE StatementView ----------------------------
(***************************************************************************)
(* What a log says, read off the tree a checkpoint commits: the governance *)
(* chain, the verified statement view of anchored.rs, and the answers the  *)
(* commands draw from it (closure.rs, the second half of reconstruct.rs).  *)
(*                                                                         *)
(* A tree is the sequence of its envelopes and is its own root; the entry  *)
(* index counts from 0, so entry i of a tree is tree[i + 1].  A record     *)
(* stands for a (dataset, record) pair.                                    *)
(***************************************************************************)
EXTENDS GovernanceRules, Sequences, FiniteSets

CONSTANTS
  Records,   \* records, each of its dataset
  Times,     \* the points of valid time
  LogIds,    \* origins of logs
  Batches,   \* roots of committed output and affected trees
  Says       \* what each statement says, beyond its part in governance

\* type       the type of a statement that is no governance statement
\* ins, outs  records a derivation consumes, records a statement introduces
\* batch      the root a batched derivation commits its outputs under
\* record, covers, scoped, replacement: of a trigger
\* logId, witnessKeys, authority: of a manifest; authority has <<r, k>> where
\*   the authority of r's dataset lists k
Sayings ==
  [type : {"ingestion", "derivation", "retraction", "correction", "propagation"},
   ins : SUBSET Records, outs : SUBSET Records, batch : Batches \cup {None},
   record : Records, covers : SUBSET Times, scoped : BOOLEAN,
   replacement : Records \cup {None}, logId : LogIds,
   witnessKeys : SUBSET (Keys \X Indexes), authority : SUBSET (Records \X Keys)]

ASSUME SaysAssumption == Says \in [Stmts -> Sayings]

Trees == {t \in Seq(Envelopes) : Len(t) \in 1..(MaxIndex + 1)}

Saying(e) == Says[StmtOf[e]]
Type(e)   == IF Payload(e).kind = "other" THEN Saying(e).type ELSE Payload(e).kind

IsTrigger(e) == Type(e) \in {"retraction", "correction"}

\* The outputs of a batched derivation are in no entry, and introduce nothing.
Introduces(e, r) ==
  /\ r \in Saying(e).outs
  /\ Type(e) = "ingestion" \/ (Type(e) = "derivation" /\ Saying(e).batch = None)

-----------------------------------------------------------------------------
\* The chain resolve builds from the entries of a tree, in their order.
ChainOf(tree) ==
  LET grown[n \in 0..Len(tree)] ==
        IF n = 0 THEN [m \in {} |-> None]
        ELSE IF Admits(grown[n - 1], n - 1, tree[n]) THEN Extend(grown[n - 1], n - 1, tree[n])
             ELSE grown[n - 1]
  IN grown[Len(tree)]

Resolves(tree) == Manifests(ChainOf(tree)) # {}

LogIdFor(c, size) == {Saying(c[m]).logId : m \in ActiveFor(c, size)}

WitnessKeysFor(c, size) ==
  {k \in Keys : \E m \in ActiveFor(c, size), v \in Indexes :
                  <<k, v>> \in Saying(c[m]).witnessKeys /\ v < size}

DatasetAuthority(c, i, r) ==
  {k \in Keys : \E m \in SnapshotManifest(c, i) : <<r, k>> \in Saying(c[m]).authority}

-----------------------------------------------------------------------------
(***************************************************************************)
(* Statements::build over a whole tree.                                    *)
(***************************************************************************)

Verifies(c, tree, i) ==
  Payload(tree[i + 1]).kind # "broken" /\ EnvelopeVerifiesAt(c, tree[i + 1], i)

\* The indexes that are statements, and each statement's first copy.
Statements(c, tree) ==
  {i \in 0..(Len(tree) - 1) :
     /\ Verifies(c, tree, i)
     /\ \A j \in 0..(i - 1) : Verifies(c, tree, j) => StmtOf[tree[j + 1]] # StmtOf[tree[i + 1]]}

\* "never skipped, never inert": a statement no rule of this build covers.
Unreadable(c, tree) ==
  \E i \in 0..(Len(tree) - 1) : Verifies(c, tree, i) /\ Payload(tree[i + 1]).kind \in {"untyped", "unknown"}

\* An established view: a tree, its chain and the positions that count.
ViewOf(tree) ==
  LET c == ChainOf(tree) IN [tree |-> tree, chain |-> c, stmts |-> Statements(c, tree)]

At(v, i) == v.tree[i + 1]

-----------------------------------------------------------------------------
(***************************************************************************)
(* governing_trigger: which trigger governs a record.                      *)
(***************************************************************************)
IntroductionIndex(v, r) == Least({i \in v.stmts : Introduces(At(v, i), r)})

\* The dataset's authority, or for a derived record the producers at the
\* trigger's own index.
AuthorityFor(v, intro, r, i) ==
  IF Type(At(v, intro)) = "ingestion" THEN DatasetAuthority(v.chain, i, r)
                                      ELSE ProducerKeysAt(v.chain, i)

Triggers(v, r) == {i \in v.stmts : IsTrigger(At(v, i)) /\ Saying(At(v, i)).record = r}

\* Mutation: every trigger after the introduction is effective.
EffectiveByAnyone(v, r) ==
  {i \in Triggers(v, r) : \E intro \in IntroductionIndex(v, r) : intro <= i}

\* After the introduction, by the record's authority; the rest are challenges.
Effective(v, r) ==
  {i \in Triggers(v, r) : \E intro \in IntroductionIndex(v, r) :
     intro <= i /\ Signers[At(v, i)] \cap AuthorityFor(v, intro, r, i) # {}}

GoverningTrigger(v, r) == Greatest(Effective(v, r))

-----------------------------------------------------------------------------
(***************************************************************************)
(* closure: the affected set of a trigger.                                 *)
(***************************************************************************)

\* The records introduced by the derivations that consume one of S.
DerivedFrom(v, S) ==
  UNION {Saying(At(v, i)).outs : i \in
    {j \in v.stmts : Type(At(v, j)) = "derivation" /\ Saying(At(v, j)).ins \cap S # {}}}

\* ahl_core's affected_set: the record and everything derived from it.
Affected(v, r) ==
  {s \in Records : \A S \in SUBSET Records : r \in S /\ DerivedFrom(v, S) \subseteq S => s \in S}

\* Trees the traversal reads its outputs from.
RequiredTreeRoots(v, S) ==
  {Saying(At(v, i)).batch : i \in
     {j \in v.stmts : Type(At(v, j)) = "derivation" /\ Saying(At(v, j)).ins \cap S # {}}} \ {None}

Missing == [outcome |-> "unverifiable", says |-> "nothing", set |-> {}]

\* How a trigger is named: by its entry index or by its statement id.
ByIndex(n) == [by |-> "index", index |-> n]
ById(s)    == [by |-> "id", stmt |-> s]

\* TriggerRef::resolve: what is no statement of the view cannot be named.
ResolveTrigger(v, ref) ==
  {i \in v.stmts : IF ref.by = "index" THEN i = ref.index ELSE StmtOf[At(v, i)] = ref.stmt}

\* trigger_record: it is a trigger, and of all it is the one that governs.
GovernsItsRecord(v, i) ==
  /\ IsTrigger(At(v, i))
  /\ i \in GoverningTrigger(v, Saying(At(v, i)).record)

\* authenticated
Authenticated(v, ref, material) ==
  LET named == {i \in ResolveTrigger(v, ref) : GovernsItsRecord(v, i)}
      affected == UNION {Affected(v, Saying(At(v, i)).record) : i \in named}
  IN IF named # {} /\ RequiredTreeRoots(v, affected) \subseteq material
       THEN [outcome |-> "valid", says |-> "affected", set |-> affected]
       ELSE Missing

-----------------------------------------------------------------------------
(***************************************************************************)
(* assemble: what is asserted of a record, about a valid time.             *)
(***************************************************************************)

\* Triggers of the record whose scope covers t, whoever signed them.
Covering(v, r, t) ==
  {i \in Triggers(v, r) : Saying(At(v, i)).scoped /\ t \in Saying(At(v, i)).covers}

\* The newest that covers t governs if it is the newest that is effective.
GoverningAt(v, r, t) == Greatest(Covering(v, r, t)) \cap GoverningTrigger(v, r)

StatusAt(v, r, t) ==
  LET asserts(i) == IF Type(At(v, i)) = "retraction" THEN "retracted" ELSE "corrected"
  IN IF GoverningAt(v, r, t) = {} THEN "as-asserted"
     ELSE CHOOSE s \in {"retracted", "corrected"} : \E i \in GoverningAt(v, r, t) : s = asserts(i)

Consumers(v, r) == {i \in v.stmts : Type(At(v, i)) = "derivation" /\ r \in Saying(At(v, i)).ins}

Replacement(v, r, t) ==
  {Saying(At(v, i)).replacement : i \in
     {j \in GoverningAt(v, r, t) : Type(At(v, j)) = "correction"}} \ {None}

Reconstruction(v, r, t) ==
  IF IntroductionIndex(v, r) = {} THEN Missing
  ELSE [outcome |-> "valid", says |-> StatusAt(v, r, t),
        set |-> Replacement(v, r, t)]
==============================================================================
