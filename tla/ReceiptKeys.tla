---------------------------- MODULE ReceiptKeys ----------------------------
(***************************************************************************)
(* producer.rs: the governance view a receipt is assembled from.  It reads *)
(* every manifest and key statement of an enumerated prefix c and          *)
(* authorizes none of them: which of them count is for whoever verifies    *)
(* the receipt.  What it puts in the receipt is the chain, the keys, each  *)
(* bound to the statement that put it in force, and the rotations.         *)
(*                                                                         *)
(* A key statement no governance would use is taken at its word here: that *)
(* a key id is its key's own is not looked at.                             *)
(***************************************************************************)
EXTENDS GovernanceRules

\* Governance::read
GovernanceRead(c) ==
  [n \in {m \in DOMAIN c : Kind(c, m) \in {"manifest", "key"}} |-> c[n]]

-----------------------------------------------------------------------------
(***************************************************************************)
(* keys.producer                                                           *)
(***************************************************************************)

\* Mutation: a manifest's snapshot is in force at its own index.
SnapshotAtOwn(c, i) ==
  LET upto == {n \in Manifests(c) : n <= i} IN
  IF upto = {} THEN Least(Manifests(c)) ELSE Greatest(upto)

\* snapshot_at
SnapshotAt(c, i) ==
  LET before == {n \in Manifests(c) : n < i} IN
  IF before = {} THEN Least(Manifests(c)) ELSE Greatest(before)

\* producer_keys_at: a key and the statement that put it in force at i, which
\* is the last key statement to add it since the snapshot, or the snapshot.
BoundKeys(c, i, enumerated) ==
  {bound \in Keys \X Indexes :
     \E m \in SnapshotAt(c, i) :
       LET since == IF enumerated THEN Events(c, bound[1], m, i) ELSE {} IN
       IF since = {} THEN bound[2] = m /\ bound[1] \in Payload(c[m]).keys
                     ELSE bound[2] \in Greatest(since) /\ Payload(c[bound[2]]).action = "add"}

-----------------------------------------------------------------------------
(***************************************************************************)
(* governance.chain, its rotations, and keys.log (or .witness)             *)
(***************************************************************************)

\* carried_indices
Carried(c, size) == {n \in Manifests(c) : n < size}

\* The version immediately before, carried or not.
OutgoingOf(c, i) == Greatest({m \in Manifests(c) : m < i})

\* rotations: key objects are compared as a set, those of the witnesses alike.
RotationsIn(c, size) ==
  {i \in Carried(c, size) :
     \E m \in OutgoingOf(c, i) : Payload(c[m]).logKeys # Payload(c[i]).logKeys}

\* manifest_key_entries: whatever the index a key is valid from.
KeyEntries(c, m) ==
  {bound \in Keys \X {m} : \E v \in Indexes : <<bound[1], v>> \in Payload(c[m]).logKeys}

\* Mutation: the keys of the version in force are all a receipt carries.
LogKeysOfActive(c, size) == UNION {KeyEntries(c, m) : m \in ActiveFor(c, size)}

\* assemble: the version in force, and the outgoing one of every rotation.
LogKeysCarried(c, size) ==
  UNION {KeyEntries(c, m) : m \in ActiveFor(c, size)
                                  \cup UNION {OutgoingOf(c, i) : i \in RotationsIn(c, size)}}

\* Rotation::anchored_by: a key of the retiring set.
AnchoredBy(c, i, signer) ==
  \E m \in OutgoingOf(c, i) : \E v \in Indexes : <<signer, v>> \in Payload(c[m]).logKeys

\* anchored_rotations, by a checkpoint of that size
AnchoredRotations(c, size, signer) == {i \in RotationsIn(c, size) : AnchoredBy(c, i, signer)}
=============================================================================
