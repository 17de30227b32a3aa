------------------------------- MODULE Claims -------------------------------
(***************************************************************************)
(* What issue is asked for and what it makes of it (cli.rs, issue.rs and   *)
(* producer.rs from claim_shape on), in the order a run can be refused.    *)
(* The exchanges with the log, the mirror and the witnesses are Issue's:   *)
(* here a deployment answers, or fails at one of four points.              *)
(*                                                                         *)
(* A log is a sequence of statements, each its own entry; the root of a    *)
(* committed tree is a name for its leaves.                                *)
(***************************************************************************)
EXTENDS Transport, Functions

\* names     it declares the manifest version it is under
\* pins      a manifest's: its log object pins an adaptor profile
\* outputs, affected: the root of a tree it commits, or "none"
\* declares  the tree size of the corpus checkpoint it names, where it does
IsSubject(s) ==
  /\ s.type \in {"ingestion", "derivation", "retraction", "propagation", "manifest", "key"}
  /\ {s.names, s.pins} \subseteq BOOLEAN
  /\ s.declares \subseteq Nat /\ AtMostOne(s.declares)

\* log       as the witness endpoints given with it, by scheme; names: what a
\*           plain one resolves to, which --allow-insecure-loopback allows
\* dataset, record, canonicalization: "none" where not given
\* bytes, trees, target: of one element where given
\* embeds    the receipts to embed, in the order they are read
\* leaves    of the trees a file holds, by their root, in order
\* continued without --no-continued-history
IsRequest(r) ==
  /\ {r.log} \cup r.witnesses \subseteq Schemes \ {"none"}
  /\ {r.allowed, r.continued, r.canonical, r.out.force} \subseteq BOOLEAN
  /\ r.names \subseteq Loopback \cup Remotes /\ r.out.at \in Targets
  /\ r.envelope \in Files /\ IsSubject(r.entry)
  /\ r.embeds \in Seq([file : Files, json : BOOLEAN])
  /\ r.bytes \subseteq Files /\ AtMostOne(r.bytes) /\ AtMostOne(r.trees)
  /\ \A t \in r.trees : \A root \in DOMAIN t.leaves : DOMAIN t.leaves[root] = 1..Len(t.leaves[root])
  /\ r.target \subseteq Nat /\ AtMostOne(r.target)

\* sizes: of the series-usable checkpoints the mirror publishes
\* fails: the log takes nothing, the mirror does not take what the log did, or
\* something asked for after that is not answered
IsDeployment(d) ==
  /\ d = [tree |-> d.tree, sizes |-> d.sizes, fails |-> d.fails]
  /\ d.tree \in Seq(Range(d.tree))
  /\ \A n \in DOMAIN d.tree : IsSubject(d.tree[n])
  /\ d.sizes \subseteq 1..Len(d.tree)
  /\ d.fails \in {"never", "log", "mirror", "after"}

-----------------------------------------------------------------------------
\* claim_shape: what each type asks of the receipt.
ClaimShape ==
  LET shape(types, governance, competing, subject) ==
        [t \in types |-> [governance |-> governance, competing |-> competing, subject |-> subject]]
      all == <<shape({"statement-anchored"}, "declared", "not-checked", FALSE),
               shape({"record-ingested", "record-derived", "trigger-declared", "disposition-declared"},
                     "declared", "not-checked", TRUE),
               shape({"trigger-effective"}, "enumerated", "enumerated", TRUE),
               shape({"disposition-effective"}, "enumerated", "not-checked", TRUE),
               shape({"propagation-complete", "governance-state"}, "enumerated", "not-checked", FALSE)>>
  IN [t \in UNION {DOMAIN all[n] : n \in DOMAIN all} |->
        LET n == CHOOSE m \in DOMAIN all : t \in DOMAIN all[m] IN all[n][t]]

\* check_endpoint: nothing but the literal plain scheme is looked at.
CheckPlain(url, r) ==
  Unless(url = "http" => r.allowed /\ r.names # {} /\ r.names \subseteq Loopback, "usage")

\* check_endpoints; the mirror and the first witness are the policy's.
CheckEndpoints(r, mirror, witness) ==
  LET witnesses == r.witnesses \cup ({witness} \ {"none"}) IN
  First(<<CheckPlain(r.log, r), CheckPlain(mirror, r),
          Unless(\A w \in witnesses : CheckPlain(w, r) = "ok", "usage"),
          Unless(witnesses # {}, "usage")>>)

\* read_envelope: the anchored entry is the canonical bytes.
ReadEnvelope(r) == First(<<ReadFile(r.envelope, "artifact"), Unless(r.canonical, "usage")>>)

-----------------------------------------------------------------------------
(***************************************************************************)
(* Where the subject is.                                                   *)
(***************************************************************************)
LeastOf(S) == CHOOSE n \in S : \A m \in S : n <= m

Placed(d, error, index, size) == [d |-> d, error |-> error, index |-> index, size |-> size]

\* published_index: where the mirror holds the entry, once a checkpoint it
\* publishes commits it.
HeldAt(r, d) ==
  {n \in 0..(Len(d.tree) - 1) : d.tree[n + 1] = r.entry /\ \E size \in d.sizes : size > n}

\* publish_existing: the earliest checkpoint that commits the subject and the
\* index a target names.
PublishExisting(r, d) ==
  LET index == LeastOf(HeldAt(r, d))
      covering == {size \in d.sizes : \A n \in {index} \cup r.target : size > n}
  IN IF covering = {} THEN Placed(d, "missing", index, 0) ELSE Placed(d, "ok", index, LeastOf(covering))

\* anchor, then stage and ingest_checkpoint.
Submitted(r, d) ==
  LET index == Len(d.tree)
      appended == [d EXCEPT !.tree = Append(@, r.entry)]
  IN IF r.log = "odd" THEN Placed(d, "refused-target", index, 0)
     ELSE CASE d.fails = "log"    -> Placed(d, "missing", index, 0)
            [] d.fails = "mirror" -> Placed(appended, "missing", index, 0)
            [] OTHER -> Placed([appended EXCEPT !.sizes = @ \cup {index + 1}], "ok", index, index + 1)

\* Mutation: the mirror is not asked for the entry.
PositionAnew(r, d) == Submitted(r, d)

Position(r, d) == IF HeldAt(r, d) # {} THEN PublishExisting(r, d) ELSE Submitted(r, d)

-----------------------------------------------------------------------------
(***************************************************************************)
(* What the producer supplies.                                             *)
(***************************************************************************)

\* content_binding: the bytes and their descriptor, or neither.
ContentBinding(r) ==
  First(<<Unless((r.bytes = {}) <=> (r.canonicalization = "none"), "usage"),
          IF r.bytes = {} THEN "ok" ELSE ReadFile(Given(r.bytes), "artifact")>>)

\* record_subject
RecordSubject(r) == IF r.dataset = "none" \/ r.record = "none" THEN {} ELSE {<<r.dataset, r.record>>}
SubjectStated(r) == Unless((r.dataset = "none") <=> (r.record = "none"), "usage")

\* embedded: a file that is JSON.
Embedded(e) == First(<<ReadFile(e.file, "artifact"), Unless(e.json, "usage")>>)

\* material: the receipts, then the tree material.
Material(r) ==
  First([n \in DOMAIN r.embeds |-> Embedded(r.embeds[n])]
        \o (IF r.trees = {} THEN <<>> ELSE <<Embedded(Given(r.trees))>>))

Dispositions == {"disposition-declared", "disposition-effective"}

\* The tree a claim opens, of those its statement commits.
Root(claim, s) ==
  CASE claim = "record-derived"  -> s.outputs
    [] claim \in Dispositions -> s.affected
    [] OTHER                     -> "none"

\* leaf_position: the first leaf that names the record.  Its dataset is not
\* looked at.
LeafPosition(leaves, record) == {n \in DOMAIN leaves : leaves[n].record = record}

Opened(leaf, members) == [error |-> "ok", leaf |-> leaf, members |-> members]
Unopened(error) == [error |-> error, leaf |-> {}, members |-> {}]

\* leaf_material, tree_leaves
LeafMaterial(claim, s, trees, record) ==
  LET root == Root(claim, s)
      named == LeafPosition(trees[root], record)
      leaf == trees[root][LeastOf(named)]
      inputs == IF claim = "record-derived" THEN leaf.inputs ELSE "none"
  IN IF root = "none" THEN Unopened(Unless(claim \notin Dispositions, "usage"))
     ELSE IF root \notin DOMAIN trees \/ named = {} \/ inputs \notin {"none"} \cup DOMAIN trees
       THEN Unopened("usage")
       ELSE Opened({leaf}, IF inputs = "none" THEN {} ELSE Range(trees[inputs]))

\* complete_material: the leaf, where both trees and a record are given.
Leaf(r) ==
  IF r.trees = {} \/ RecordSubject(r) = {} THEN Unopened("ok")
  ELSE LeafMaterial(r.claim, r.entry, Given(r.trees).leaves, r.record)

\* complete_material: the checkpoint the subject declares, and the prefix
\* below it, under the checkpoint of the receipt.
DeclaredPrefix(r, at) ==
  IF r.claim # "propagation-complete" THEN "ok"
  ELSE First(<<Unless(r.entry.declares # {}, "usage"),
               Unless(\A size \in r.entry.declares : size \in at.d.sizes /\ size <= at.size, "missing")>>)

Ranges(r, at) ==
  CASE r.claim = "trigger-effective"    -> {at.size}
    [] r.claim = "propagation-complete" -> r.entry.declares
    [] OTHER                            -> {}

-----------------------------------------------------------------------------
(***************************************************************************)
(* assemble                                                                *)
(***************************************************************************)
ManifestsBelow(d, size) == {n \in 1..size : d.tree[n].type = "manifest"}

\* Only a manifest declares no version of its own.
SubjectBlock(r) == Unless(r.entry.type = "manifest" \/ r.entry.names, "missing")

\* The adaptor is the one the version in force at the checkpoint pins.
AdaptorPin(at) ==
  LET below == ManifestsBelow(at.d, at.size) IN
  Unless(below # {} /\ at.d.tree[CHOOSE n \in below : \A m \in below : m <= n].pins, "missing")

\* Mutation: a record subject is required where it must be, and allowed anywhere.
ClaimBlockWide(r) == Unless(ClaimShape[r.claim].subject => RecordSubject(r) # {}, "usage")

ClaimBlock(r) == Unless(ClaimShape[r.claim].subject <=> RecordSubject(r) # {}, "usage")

\* serve, continued_history: a later checkpoint no manifest comes before.
Continued(r, at) ==
  /\ r.continued
  /\ ClaimShape[r.claim].governance = "declared"
  /\ \E later \in at.d.sizes : later > at.size /\ ManifestsBelow(at.d, later) = ManifestsBelow(at.d, at.size)

Receipt(r, at) ==
  [claim |-> r.claim, index |-> at.index, size |-> at.size,
   governance |-> ClaimShape[r.claim].governance, competing |-> ClaimShape[r.claim].competing,
   continued |-> Continued(r, at), bound |-> r.bytes # {}, private |-> r.canonicalization = "x-",
   subject |-> RecordSubject(r), leaf |-> Leaf(r).leaf, members |-> Leaf(r).members,
   target |-> r.target, ranges |-> Ranges(r, at)]

\* run, from the position on, in its order.
Refused(r, at, witness) ==
  First(<<at.error, Unless(ManifestsBelow(at.d, at.size) # {}, "missing"),
          Unless("odd" \notin r.witnesses \cup {witness}, "refused-target"),
          Unless(at.d.fails # "after", "missing"),
          ContentBinding(r), SubjectStated(r), Material(r), Leaf(r).error, DeclaredPrefix(r, at),
          SubjectBlock(r), AdaptorPin(at), ClaimBlock(r), Install(r.out.at, r.out.force)>>)

\* run: what it answers, what it leaves of the deployment, what it installs.
Ended(r, at, error) ==
  [error |-> error, d |-> at.d, receipt |-> IF error = "ok" THEN {Receipt(r, at)} ELSE {}]

PositionedRun(r, at, witness) == Ended(r, at, Refused(r, at, witness))

IssueRun(r, d, mirror, witness) ==
  LET early == First(<<Unless(r.claim \in DOMAIN ClaimShape, "usage"),
                       CheckEndpoints(r, mirror, witness), ReadEnvelope(r),
                       Unless(mirror # "odd", "refused-target")>>)
  IN IF early = "ok" THEN PositionedRun(r, Position(r, d), witness)
     ELSE Ended(r, Placed(d, early, 0, 0), early)

-----------------------------------------------------------------------------
(***************************************************************************)
(* What a receipt and a refusal may be relied on for.                      *)
(***************************************************************************)

\* A receipt is about the entry handed over, narrowed to a record exactly
\* where its claim is about one; the leaf it opens names that record, in the
\* tree its own statement commits, with every input of it and no other; what
\* was enumerated for it the checkpoint commits, and so does the index a target
\* names, where the entry was there before.
IsAnAnswer(c, r, d, after) ==
  LET trees == Given(r.trees).leaves IN
  /\ c.index < c.size /\ after.tree[c.index + 1] = r.entry
  /\ c.subject # {} <=> c.claim \notin {"statement-anchored", "propagation-complete", "governance-state"}
  /\ c.leaf # {} => Cardinality(c.subject) = 1
  /\ \A l \in c.leaf : \A s \in c.subject :
       /\ l.record = s[2]
       /\ l \in Range(trees[Root(c.claim, r.entry)])
       /\ c.claim = "record-derived" /\ l.inputs # "none" => c.members = Range(trees[l.inputs])
  /\ c.continued => c.governance = "declared"
  /\ c.ranges \subseteq 1..c.size
  /\ HeldAt(r, d) # {} => c.target \subseteq 0..(c.size - 1)

AnswersItsClaim(r, d, ran) == \A c \in ran.receipt : IsAnAnswer(c, r, d, ran.d)

\* A run that is refused, even after the log has taken its entry, is never held
\* against the request put right: that one issues the very receipt it would
\* have issued at once, and the log holds the entry no more often.  Only what
\* the log has and the mirror has not is beyond this, and a target past the end
\* of the log.
Mended(d) == [d EXCEPT !.fails = "never"]

ComesToTheSame(atOnce, after) ==
  atOnce.error = "ok" => after.receipt = atOnce.receipt /\ after.d = atOnce.d

RefusalIsRepaired(r, right, d, ran, mirror, witness) ==
  (/\ ran.error # "ok"
   /\ ran.d = d \/ d.fails # "mirror"
   /\ HeldAt(r, d) = {n \in 0..(Len(d.tree) - 1) : d.tree[n + 1] = r.entry}
   /\ right.entry = r.entry
   /\ right.target \subseteq 0..Len(d.tree)) =>
     ComesToTheSame(IssueRun(right, Mended(d), mirror, witness), IssueRun(right, Mended(ran.d), mirror, witness))
=============================================================================
