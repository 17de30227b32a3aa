-------------------------- MODULE GovernanceRules --------------------------
(***************************************************************************)
(* governance.rs: Governance::resolve reads an enumerated log entry by     *)
(* entry and grows a chain of governance statements (manifests and key     *)
(* transitions) from the genesis manifest local policy pins.  Nobody       *)
(* controls what a log anchors: copies, forgeries, and statements in the   *)
(* wrong order are all there, and none of them may be taken for governance.*)
(*                                                                         *)
(* An envelope is its own entry id; a key is its own key id (bind_key      *)
(* refuses any other pairing, see "usable" and "sound" below).             *)
(***************************************************************************)
EXTENDS Integers

CONSTANTS
  Keys,           \* public keys
  NoKey,          \* signer of a signature that verifies under no key
  Stmts,          \* statements: what a statement id is the digest of
  Envelopes,      \* signed statements: what an entry id is the digest of
  None,           \* an absent predecessor
  Body,           \* payload of a statement
  StmtOf,         \* the statement in an envelope
  Signers,        \* who signed an envelope
  Corpus,         \* the keys of the corpus; everyone else is an outsider
  PolicyGenesis,  \* TrustPolicy.genesis_entry_id
  PolicyKeys,     \* TrustPolicy.genesis_key_ids
  MaxIndex        \* bound on entry indexes

Indexes == 0..MaxIndex

\* kind     "broken": no payload object; "untyped": no type; "other": one of
\*          the five types that are not governance; "unknown": none of the seven
\* usable   read_key_event reads the key transition
\* sound    validate_manifest_schema accepts the manifest
\* keys     producer key objects; logKeys: log (or witness) key objects
Bodies ==
  [kind : {"broken", "untyped", "manifest", "key", "other", "unknown"},
   pred : Envelopes \cup {None}, keys : SUBSET Keys,
   logKeys : SUBSET (Keys \X Indexes), epoch : Int, sound : BOOLEAN,
   action : {"add", "retire"}, key : Keys, usable : BOOLEAN]

ASSUME KeysAssumption == NoKey \notin Keys
ASSUME EnvelopesAssumption ==
  /\ None \notin Envelopes
  /\ Body \in [Stmts -> Bodies]
  /\ StmtOf \in [Envelopes -> Stmts]
  /\ Signers \in [Envelopes -> (SUBSET (Keys \cup {NoKey})) \ {{}}]
ASSUME MaxIndexAssumption == MaxIndex \in Nat

Payload(e) == Body[StmtOf[e]]
Kind(c, n) == Payload(c[n]).kind

\* What the corpus signs names keys of the corpus only.
ASSUME CorpusAssumption ==
  /\ Corpus \subseteq Keys
  /\ PolicyGenesis \in Envelopes
  /\ Signers[PolicyGenesis] \subseteq Corpus
  /\ \A e \in Envelopes : Signers[e] \subseteq Corpus =>
       /\ Payload(e).keys \subseteq Corpus
       /\ \A k \in Keys, v \in Indexes : <<k, v>> \in Payload(e).logKeys => k \in Corpus
       /\ Payload(e).key \in Corpus

\* Anybody may anchor an entry; these are signed by others, wholly or in part.
ByOutsider(e) == ~(Signers[e] \subseteq Corpus)

-----------------------------------------------------------------------------
(***************************************************************************)
(* What a chain says.                                                      *)
(***************************************************************************)
Manifests(c) == {n \in DOMAIN c : Kind(c, n) = "manifest"}

Greatest(S) == {n \in S : \A m \in S : m <= n}
Least(S)    == {n \in S : \A m \in S : n <= m}

\* Mutation: the newest version governs every checkpoint.
ActiveForNewest(c, size) ==
  IF {n \in Manifests(c) : n < size} = {} THEN {} ELSE Greatest(Manifests(c))

\* The manifest governing a checkpoint is chosen by its tree size.
ActiveFor(c, size) == Greatest({n \in Manifests(c) : n < size})

\* A log or witness key counts once the size reaches past its activation.
LogKeysFor(c, size) ==
  {k \in Keys : \E m \in ActiveFor(c, size), v \in Indexes :
                  <<k, v>> \in Payload(c[m]).logKeys /\ v < size}

\* The manifest in force at an index; the genesis is under its own.
SnapshotManifest(c, i) ==
  LET before == {n \in Manifests(c) : n < i} IN
  IF before = {} THEN Least(Manifests(c)) ELSE Greatest(before)

\* Mutation: key statements are replayed without regard to the index asked about.
EventsLate(c, k, m, i) ==
  {n \in DOMAIN c : Kind(c, n) = "key" /\ Payload(c[n]).key = k /\ m < n}

Events(c, k, m, i) ==
  {n \in DOMAIN c : Kind(c, n) = "key" /\ Payload(c[n]).key = k /\ m < n /\ n <= i}

\* The snapshot, and the key statements since in entry order.
InForce(c, k, m, i) ==
  LET since == Events(c, k, m, i) IN
  IF since = {} THEN k \in Payload(c[m]).keys
                ELSE \E n \in Greatest(since) : Payload(c[n]).action = "add"

ProducerKeysAt(c, i) == {k \in Keys : \E m \in SnapshotManifest(c, i) : InForce(c, k, m, i)}

\* Every signature resolves to a key in force, or the envelope is nothing.
EnvelopeVerifiesAt(c, e, i) == Signers[e] \subseteq ProducerKeysAt(c, i)

-----------------------------------------------------------------------------
(***************************************************************************)
(* What a chain admits next.                                               *)
(***************************************************************************)

\* accept_genesis: the pinned manifest, at index 0, signed by its own keys.
Pinned(e) == e = PolicyGenesis /\ Payload(e).keys = PolicyKeys

WellAnchored(i, e) ==
  /\ i = 0
  /\ Payload(e).pred = None

SelfSigned(e) == Signers[e] \subseteq Payload(e).keys /\ Payload(e).sound

\* Mutation: a manifest is checked against the keys it declares itself.
AuthorizedBySelf(c, i, e) ==
  \/ EnvelopeVerifiesAt(c, e, i)
  \/ Payload(e).kind = "manifest" /\ Signers[e] \subseteq Payload(e).keys

\* Mutation: one verifying signature is enough.
AuthorizedByAny(c, i, e) == Signers[e] \cap ProducerKeysAt(c, i) # {}

\* Verified under the key set the chain before it established.
Authorized(c, i, e) == EnvelopeVerifiesAt(c, e, i)

\* duplicate_refusal: the statement has taken effect before.
DuplicateRefusal(c, e) == \E n \in DOMAIN c : StmtOf[c[n]] = StmtOf[e]

\* The predecessor is the version active immediately before, by entry id.
Linked(c, e) == Payload(e).pred \in {c[m] : m \in Greatest(Manifests(c))}

\* cadence_epoch repeats the genesis, and the schema holds.
Conforms(c, e) ==
  /\ \A m \in Least(Manifests(c)) : Payload(e).epoch = Payload(c[m]).epoch
  /\ Payload(e).sound

Fits(c, e) == IF Payload(e).kind = "manifest" THEN Linked(c, e) /\ Conforms(c, e)
                                              ELSE Payload(e).usable

\* All of it: the entry e at index i joins the chain c.
Admits(c, i, e) ==
  /\ Payload(e).kind \in {"manifest", "key"}
  /\ IF Manifests(c) = {}
       THEN Payload(e).kind = "manifest" /\ WellAnchored(i, e) /\ Pinned(e) /\ SelfSigned(e)
       ELSE Authorized(c, i, e) /\ ~DuplicateRefusal(c, e) /\ Fits(c, e)

\* Mutation: a statement is filed under the index after its own.
ExtendNext(c, i, e) == [n \in DOMAIN c \cup {i + 1} |-> IF n = i + 1 THEN e ELSE c[n]]

\* What joins the chain is filed under its own entry index.
Extend(c, i, e) == [n \in DOMAIN c \cup {i} |-> IF n = i THEN e ELSE c[n]]

-----------------------------------------------------------------------------
(***************************************************************************)
(* Governance::structural_only: no signatures, no anchor, no duplicates.   *)
(***************************************************************************)

\* Mutation: every version is compared with the first.
StructurallyLinkedToFirst(w, e) ==
  IF Manifests(w) = {} THEN Payload(e).pred = None
                       ELSE Payload(e).pred \in {w[m] : m \in Least(Manifests(w))}

StructurallyLinked(w, e) ==
  IF Manifests(w) = {} THEN Payload(e).pred = None ELSE Linked(w, e)

WalkAdmits(w, e) ==
  \/ Payload(e).kind = "manifest" /\ StructurallyLinked(w, e)
  \/ Payload(e).kind = "key" /\ Payload(e).usable
=============================================================================
