------------------------- MODULE ReceiptKeys_proofs -------------------------
(***************************************************************************)
(* What the keys a receipt carries have to do with the keys that govern,   *)
(* for every log whose governance statements all do.                       *)
(*                                                                         *)
(* That a chain of versions hands every log key on to the receipts under   *)
(* later checkpoints is an induction along the chain.  It is made along    *)
(* the behaviour, where resolve adds one version after the others.         *)
(***************************************************************************)
EXTENDS GovernedLog_proofs

\* Every checkpoint past a version has one in force.
Ranked(c) == \A size \in Int : Carried(c, size) # {} => ActiveFor(c, size) # {}

KeyNames(entries) == {b[1] : b \in entries}

\* The keys of every version below a size are carried under it.
Covered(c) ==
  \A size \in Int : \A m \in Carried(c, size) :
    KeyNames(KeyEntries(c, m)) \subseteq KeyNames(LogKeysCarried(c, size))

CarryInv == IInv /\ Ranked(chain) /\ Covered(chain)

-----------------------------------------------------------------------------
\* What is neither manifest nor key statement changes nothing of the reading.
LEMMA ReadAlike ==
  ASSUME NEW c
  PROVE  /\ Manifests(GovernanceRead(c)) = Manifests(c)
         /\ \A n \in DOMAIN GovernanceRead(c) : GovernanceRead(c)[n] = c[n]
         /\ \A k, m, i : Events(GovernanceRead(c), k, m, i) = Events(c, k, m, i)
<1> DEFINE r == GovernanceRead(c)
<1>1. DOMAIN r = {m \in DOMAIN c : Kind(c, m) \in {"manifest", "key"}}
  BY DEF GovernanceRead
<1>2. \A n \in DOMAIN r : r[n] = c[n]
  BY <1>1 DEF GovernanceRead
<1>3. \A n \in DOMAIN r : Kind(r, n) = Kind(c, n)
  BY <1>2 DEF Kind
<1>4. Manifests(r) = Manifests(c)
  BY <1>1, <1>3 DEF Manifests
<1>5. \A k, m, i : Events(r, k, m, i) = Events(c, k, m, i)
  BY <1>1, <1>2, <1>3 DEF Events
<1> QED BY <1>2, <1>4, <1>5

LEMMA ReadCarriesAlike ==
  ASSUME NEW c
  PROVE  /\ \A i : BoundKeys(GovernanceRead(c), i, TRUE) = BoundKeys(c, i, TRUE)
         /\ \A size : LogKeysCarried(GovernanceRead(c), size) = LogKeysCarried(c, size)
         /\ \A size, k : AnchoredRotations(GovernanceRead(c), size, k) = AnchoredRotations(c, size, k)
<1> DEFINE r == GovernanceRead(c)
<1>1. /\ Manifests(r) = Manifests(c)
      /\ \A n \in DOMAIN r : r[n] = c[n]
      /\ \A k, m, i : Events(r, k, m, i) = Events(c, k, m, i)
  BY ReadAlike
<1>2. /\ \A n \in Manifests(c) : n \in DOMAIN r /\ r[n] = c[n]
      /\ \A k, m, i : \A n \in Events(c, k, m, i) : r[n] = c[n]
  BY <1>1 DEF Manifests, Events
<1>3. \A i : SnapshotAt(r, i) = SnapshotAt(c, i) /\ SnapshotAt(c, i) \subseteq Manifests(c)
  BY <1>1 DEF SnapshotAt, Greatest, Least
<1>4. ASSUME NEW i PROVE BoundKeys(r, i, TRUE) = BoundKeys(c, i, TRUE)
  <2>1. ASSUME NEW bound \in Keys \X Indexes, NEW m \in SnapshotAt(c, i)
        PROVE  /\ Payload(r[m]) = Payload(c[m])
               /\ bound[2] \in Greatest(Events(c, bound[1], m, i)) =>
                    Payload(r[bound[2]]) = Payload(c[bound[2]])
    BY <1>2, <1>3 DEF Greatest
  <2> QED BY <1>1, <1>3, <2>1 DEF BoundKeys
<1>5. \A size, i : /\ Carried(r, size) = Carried(c, size)
                   /\ ActiveFor(r, size) = ActiveFor(c, size)
                   /\ OutgoingOf(r, i) = OutgoingOf(c, i)
  BY <1>1 DEF Carried, ActiveFor, OutgoingOf
<1>6. \A size, i : /\ Carried(c, size) \subseteq Manifests(c)
                   /\ ActiveFor(c, size) \subseteq Manifests(c)
                   /\ OutgoingOf(c, i) \subseteq Manifests(c)
  BY DEF Carried, ActiveFor, OutgoingOf, Greatest
<1>7. \A size : RotationsIn(r, size) = RotationsIn(c, size)
  BY <1>2, <1>5, <1>6 DEF RotationsIn
<1>8. \A m \in Manifests(c) : KeyEntries(r, m) = KeyEntries(c, m)
  BY <1>2 DEF KeyEntries
<1>9. \A size : LogKeysCarried(r, size) = LogKeysCarried(c, size)
  <2> TAKE size
  <2> DEFINE from == ActiveFor(c, size) \cup UNION {OutgoingOf(c, i) : i \in RotationsIn(c, size)}
  <2>1. from \subseteq Manifests(c)
    BY <1>6
  <2>2. {KeyEntries(r, m) : m \in from} = {KeyEntries(c, m) : m \in from}
    BY <1>8, <2>1
  <2>3. LogKeysCarried(r, size) = UNION {KeyEntries(r, m) : m \in from}
    BY <1>5, <1>7 DEF LogKeysCarried
  <2> QED BY <2>2, <2>3 DEF LogKeysCarried
<1>10. \A size, k : AnchoredRotations(r, size, k) = AnchoredRotations(c, size, k)
  <2>1. \A i, k : AnchoredBy(r, i, k) = AnchoredBy(c, i, k)
    <3> TAKE i, k
    <3>1. OutgoingOf(r, i) = OutgoingOf(c, i) /\ OutgoingOf(c, i) \subseteq Manifests(c)
      BY <1>5, <1>6
    <3>2. \A m \in OutgoingOf(c, i) : Payload(r[m]) = Payload(c[m])
      BY <1>2, <3>1
    <3> HIDE DEF r
    <3>3. ASSUME NEW m \in OutgoingOf(c, i)
          PROVE  (\E v \in Indexes : <<k, v>> \in Payload(r[m]).logKeys)
                   <=> (\E v \in Indexes : <<k, v>> \in Payload(c[m]).logKeys)
      BY <3>2
    <3>4. AnchoredBy(r, i, k) <=> AnchoredBy(c, i, k)
      BY <3>1, <3>3, Zenon DEF AnchoredBy
    <3> QED BY <3>4 DEF AnchoredBy
  <2> QED BY <1>7, <2>1 DEF AnchoredRotations
<1> QED BY <1>4, <1>9, <1>10

-----------------------------------------------------------------------------
\* The key statement or snapshot a key is bound to had put it in force, and it
\* has been in force since.
LEMMA BoundInForce ==
  ASSUME NEW c, DOMAIN c \subseteq Indexes, NEW i \in Nat,
         NEW b \in BoundKeys(c, i, TRUE), NEW j \in (b[2] + 1)..i
  PROVE  b[1] \in ProducerKeysAt(c, j)
<1> DEFINE k == b[1]
<1>1. /\ b \in Keys \X Indexes
      /\ Indexes \subseteq Int /\ Manifests(c) \subseteq Int
  BY MaxIndexAssumption DEF BoundKeys, Indexes, Manifests
<1>2. PICK m \in SnapshotAt(c, i) :
        IF Events(c, k, m, i) = {} THEN b[2] = m /\ k \in Payload(c[m]).keys
          ELSE b[2] \in Greatest(Events(c, k, m, i)) /\ Payload(c[b[2]]).action = "add"
  BY DEF BoundKeys
<1>3. m \in Manifests(c) /\ m <= b[2] /\ b[2] \in Int
  <2>1. m \in Manifests(c)
    BY <1>2 DEF SnapshotAt, Greatest, Least
  <2>2. \A n \in Events(c, k, m, i) : m < n
    BY DEF Events
  <2>3. b[2] \in Int /\ m \in Int
    BY <1>1, <2>1
  <2> QED BY <1>2, <2>1, <2>2, <2>3 DEF Greatest
<1>4. m \in SnapshotManifest(c, j)
  <2>1. m < j /\ j <= i /\ m \in Int /\ j \in Int
    BY <1>1, <1>3
  <2>2. m \in {n \in Manifests(c) : n < i}
    BY <1>3, <2>1
  <2>3. \A n \in Manifests(c) : n < i => n <= m
    BY <1>2, <2>2 DEF SnapshotAt, Greatest
  <2>4. m \in Greatest({n \in Manifests(c) : n < j})
    BY <1>1, <1>3, <2>1, <2>3 DEF Greatest
  <2> QED BY <1>3, <2>1, <2>4 DEF SnapshotManifest
<1>5. Events(c, k, m, j) = {n \in Events(c, k, m, i) : n <= j}
  <2>1. \A n \in DOMAIN c : n \in Int
    BY <1>1
  <2> QED BY <2>1 DEF Events
<1>6. InForce(c, k, m, j)
  <2>1. CASE Events(c, k, m, i) = {}
    BY <1>2, <1>5, <2>1 DEF InForce
  <2>2. CASE Events(c, k, m, i) # {}
    <3>1. b[2] \in Greatest(Events(c, k, m, j))
      BY <1>2, <1>3, <1>5, <2>2 DEF Greatest
    <3> QED BY <1>2, <2>2, <3>1 DEF InForce, Greatest
  <2> QED BY <2>1, <2>2
<1> QED BY <1>1, <1>4, <1>6 DEF ProducerKeysAt

\* The producer enumerates the keys in force and no others.
LEMMA BoundAreKeys ==
  ASSUME NEW c, DOMAIN c \subseteq Indexes, NEW i
  PROVE  {b[1] : b \in BoundKeys(c, i, TRUE)} = ProducerKeysAt(c, i)
<1>1. SnapshotAt(c, i) = SnapshotManifest(c, i)
  BY DEF SnapshotAt, SnapshotManifest
<1>2. ASSUME NEW b \in BoundKeys(c, i, TRUE) PROVE b[1] \in ProducerKeysAt(c, i)
  <2>1. PICK m \in SnapshotAt(c, i) :
          IF Events(c, b[1], m, i) = {} THEN b[2] = m /\ b[1] \in Payload(c[m]).keys
            ELSE b[2] \in Greatest(Events(c, b[1], m, i)) /\ Payload(c[b[2]]).action = "add"
    BY DEF BoundKeys
  <2>2. InForce(c, b[1], m, i)
    BY <2>1 DEF InForce
  <2>3. b[1] \in Keys
    BY DEF BoundKeys
  <2> QED BY <1>1, <2>1, <2>2, <2>3 DEF ProducerKeysAt
<1>3. ASSUME NEW k \in ProducerKeysAt(c, i) PROVE \E b \in BoundKeys(c, i, TRUE) : b[1] = k
  <2>1. PICK m \in SnapshotAt(c, i) : k \in Keys /\ InForce(c, k, m, i)
    BY <1>1, <1>3 DEF ProducerKeysAt
  <2>2. m \in Indexes
    BY <2>1 DEF SnapshotAt, Greatest, Least, Manifests
  <2>3. CASE Events(c, k, m, i) = {}
    <3>1. <<k, m>> \in BoundKeys(c, i, TRUE)
      BY <2>1, <2>2, <2>3 DEF BoundKeys, InForce
    <3> QED BY <3>1
  <2>4. CASE Events(c, k, m, i) # {}
    <3>1. PICK n \in Greatest(Events(c, k, m, i)) : Payload(c[n]).action = "add"
      BY <2>1, <2>4 DEF InForce
    <3>2. n \in Indexes
      BY <3>1 DEF Greatest, Events
    <3>3. <<k, n>> \in BoundKeys(c, i, TRUE)
      BY <2>1, <2>4, <3>1, <3>2 DEF BoundKeys
    <3> QED BY <3>3
  <2> QED BY <2>3, <2>4
<1> QED BY <1>2, <1>3

-----------------------------------------------------------------------------
\* A statement filed after all others leaves what is below it as it was.
LEMMA BelowKept ==
  ASSUME NEW c, DOMAIN c \subseteq Indexes, NEW i \in Indexes, \A n \in DOMAIN c : n < i, NEW e,
         NEW d, d = Extend(c, i, e), NEW size \in Int, size <= i
  PROVE  /\ {n \in Manifests(d) : n < size} = {n \in Manifests(c) : n < size}
         /\ Carried(d, size) = Carried(c, size)
         /\ ActiveFor(d, size) = ActiveFor(c, size)
         /\ OutgoingOf(d, size) = OutgoingOf(c, size)
<1>1. Indexes \subseteq Int
  BY MaxIndexAssumption DEF Indexes
<1>2. /\ DOMAIN d = DOMAIN c \cup {i}
      /\ \A n \in DOMAIN c : d[n] = c[n]
  <2>1. \A n \in DOMAIN c : n # i
    BY <1>1
  <2> QED BY <2>1 DEF Extend
<1>3. \A n \in Manifests(c) : n \in Manifests(d)
  BY <1>2 DEF Manifests, Kind
<1>4. \A n \in Manifests(d) : n \in Int /\ (n # i => n \in Manifests(c))
  BY <1>1, <1>2 DEF Manifests, Kind
<1>5. {n \in Manifests(d) : n < size} = {n \in Manifests(c) : n < size}
  BY <1>1, <1>3, <1>4
<1> QED BY <1>5 DEF Carried, ActiveFor, OutgoingOf

\* The keys and rotations below it are kept with them.
LEMMA EntriesKept ==
  ASSUME NEW c, DOMAIN c \subseteq Indexes, NEW i \in Indexes, \A n \in DOMAIN c : n < i, NEW e,
         NEW d, d = Extend(c, i, e)
  PROVE  /\ \A m \in Manifests(c) : m < i /\ d[m] = c[m] /\ KeyEntries(d, m) = KeyEntries(c, m)
         /\ \A size \in Int : RotationsIn(c, size) \subseteq RotationsIn(d, size)
         /\ \A size \in Int : size <= i => LogKeysCarried(d, size) = LogKeysCarried(c, size)
         /\ \A r \in Manifests(c) : OutgoingOf(d, r) = OutgoingOf(c, r)
<1>1. Indexes \subseteq Int
  BY MaxIndexAssumption DEF Indexes
<1>2. /\ DOMAIN d = DOMAIN c \cup {i}
      /\ \A n \in DOMAIN c : d[n] = c[n] /\ n < i /\ n \in Int
  <2>1. \A n \in DOMAIN c : n \in Int
    BY <1>1
  <2>2. \A n \in DOMAIN c : n < i /\ n # i
    BY <1>1, <2>1
  <2> QED BY <2>1, <2>2 DEF Extend
<1>3. \A m \in Manifests(c) : m < i /\ m \in Int /\ d[m] = c[m] /\ KeyEntries(d, m) = KeyEntries(c, m)
  BY <1>2 DEF Manifests, KeyEntries
<1>4. \A r \in Manifests(c) : OutgoingOf(d, r) = OutgoingOf(c, r)
  BY <1>1, <1>3, BelowKept
<1>5. \A r : OutgoingOf(c, r) \subseteq Manifests(c)
  BY DEF OutgoingOf, Greatest
<1>6. \A n \in Manifests(c) : n \in Manifests(d)
  BY <1>2 DEF Manifests, Kind
<1>7. ASSUME NEW size \in Int PROVE RotationsIn(c, size) \subseteq RotationsIn(d, size)
  <2>1. \A r \in Carried(c, size) : r \in Manifests(c) /\ r \in Carried(d, size)
    BY <1>6 DEF Carried
  <2> QED BY <1>3, <1>4, <1>5, <2>1 DEF RotationsIn
<1>8. ASSUME NEW size \in Int, size <= i PROVE LogKeysCarried(d, size) = LogKeysCarried(c, size)
  <2>1. Carried(d, size) = Carried(c, size) /\ ActiveFor(d, size) = ActiveFor(c, size)
    BY <1>8, BelowKept
  <2>2. Carried(c, size) \subseteq Manifests(c) /\ ActiveFor(c, size) \subseteq Manifests(c)
    BY DEF Carried, ActiveFor, Greatest
  <2>3. RotationsIn(d, size) = RotationsIn(c, size)
    BY <1>3, <1>4, <1>5, <2>1, <2>2 DEF RotationsIn
  <2> DEFINE from(x) == ActiveFor(c, size) \cup UNION {OutgoingOf(x, r) : r \in RotationsIn(c, size)}
  <2>4. RotationsIn(c, size) \subseteq Manifests(c)
    BY <2>2 DEF RotationsIn
  <2>5. {OutgoingOf(d, r) : r \in RotationsIn(c, size)} = {OutgoingOf(c, r) : r \in RotationsIn(c, size)}
    BY <1>4, <2>4
  <2>6. from(d) = from(c)
    BY <2>5
  <2>7. from(c) \subseteq Manifests(c)
    BY <1>5, <2>2
  <2>8. {KeyEntries(d, m) : m \in from(c)} = {KeyEntries(c, m) : m \in from(c)}
    BY <1>3, <2>7
  <2>9. LogKeysCarried(d, size) = UNION {KeyEntries(d, m) : m \in from(d)}
    BY <2>1, <2>3 DEF LogKeysCarried
  <2>10. LogKeysCarried(c, size) = UNION {KeyEntries(c, m) : m \in from(c)}
    BY DEF LogKeysCarried
  <2> QED BY <2>6, <2>8, <2>9, <2>10
<1> QED BY <1>3, <1>4, <1>7, <1>8

-----------------------------------------------------------------------------
\* Past a statement filed after all others, the version in force is its own or
\* the one that was.
LEMMA ActivePast ==
  ASSUME NEW c, DOMAIN c \subseteq Indexes, NEW i \in Indexes, \A n \in DOMAIN c : n < i, NEW e,
         NEW d, d = Extend(c, i, e), NEW size \in Int, i < size
  PROVE  /\ i \in Manifests(d) => ActiveFor(d, size) = {i} /\ OutgoingOf(d, i) = ActiveFor(c, i)
         /\ i \notin Manifests(d) => ActiveFor(d, size) = ActiveFor(c, i)
         /\ Carried(d, size) = Manifests(d) /\ Manifests(c) = Carried(c, i)
         /\ \A m \in Manifests(d) : m = i \/ m \in Manifests(c)
<1>1. Indexes \subseteq Int
  BY MaxIndexAssumption DEF Indexes
<1>2. DOMAIN d = DOMAIN c \cup {i} /\ \A n \in DOMAIN c : d[n] = c[n]
  <2>1. \A n \in DOMAIN c : n # i
    BY <1>1
  <2> QED BY <2>1 DEF Extend
<1>3. /\ \A n \in Manifests(c) : n \in Manifests(d) /\ n \in Int /\ n < i
      /\ \A n \in Manifests(d) : n = i \/ n \in Manifests(c)
  BY <1>1, <1>2 DEF Manifests, Kind
<1>4. {n \in Manifests(d) : n < size} = Manifests(d)
  BY <1>1, <1>3
<1>5. {n \in Manifests(c) : n < i} = Manifests(c)
  BY <1>3
<1>6. CASE i \in Manifests(d)
  <2>1. Greatest(Manifests(d)) = {i}
    <3>1. \A n \in Manifests(d) : n = i \/ (n \in Int /\ n < i)
      BY <1>3
    <3>2. \A n \in Manifests(d) : n <= i /\ (i <= n => n = i)
      BY <1>1, <3>1
    <3> QED BY <1>6, <3>2 DEF Greatest
  <2>2. {n \in Manifests(d) : n < i} = Manifests(c)
    BY <1>1, <1>3
  <2> QED BY <1>3, <1>4, <1>5, <1>6, <2>1, <2>2 DEF ActiveFor, OutgoingOf, Carried
<1>7. CASE i \notin Manifests(d)
  <2>1. Manifests(d) = Manifests(c)
    BY <1>3, <1>7
  <2> QED BY <1>3, <1>4, <1>5, <1>7, <2>1 DEF ActiveFor, Carried
<1> QED BY <1>6, <1>7

\* A statement filed after all others leaves every key covered: a version that
\* replaces the keys in force makes a rotation, which carries them.
LEMMA CoverGrows ==
  ASSUME NEW c, DOMAIN c \subseteq Indexes, NEW i \in Indexes, \A n \in DOMAIN c : n < i, NEW e,
         NEW d, d = Extend(c, i, e), Ranked(c), Covered(c)
  PROVE  Ranked(d) /\ Covered(d)
<1>1. i \in Int
  BY MaxIndexAssumption DEF Indexes
<1>2. /\ \A m \in Manifests(c) : m < i /\ d[m] = c[m] /\ KeyEntries(d, m) = KeyEntries(c, m)
      /\ \A size \in Int : RotationsIn(c, size) \subseteq RotationsIn(d, size)
      /\ \A size \in Int : size <= i => LogKeysCarried(d, size) = LogKeysCarried(c, size)
      /\ \A r \in Manifests(c) : OutgoingOf(d, r) = OutgoingOf(c, r)
  BY EntriesKept
<1>3. ASSUME NEW size \in Int, Carried(d, size) # {}
      PROVE  /\ ActiveFor(d, size) # {}
             /\ \A m \in Carried(d, size) :
                  KeyNames(KeyEntries(d, m)) \subseteq KeyNames(LogKeysCarried(d, size))
  <2>1. CASE size <= i
    <3>1. Carried(d, size) = Carried(c, size) /\ ActiveFor(d, size) = ActiveFor(c, size)
      BY <2>1, BelowKept
    <3>2. Carried(c, size) \subseteq Manifests(c)
      BY DEF Carried
    <3> QED BY <1>2, <1>3, <2>1, <3>1, <3>2 DEF Ranked, Covered
  <2>2. CASE i < size
    <3>1. /\ i \in Manifests(d) => ActiveFor(d, size) = {i} /\ OutgoingOf(d, i) = ActiveFor(c, i)
          /\ i \notin Manifests(d) => ActiveFor(d, size) = ActiveFor(c, i)
          /\ Carried(d, size) = Manifests(d) /\ Manifests(c) = Carried(c, i)
          /\ \A m \in Manifests(d) : m = i \/ m \in Manifests(c)
      BY <2>2, ActivePast
    <3>2. ActiveFor(d, size) # {}
      BY <1>1, <1>3, <3>1 DEF Ranked
    <3>3. ActiveFor(c, i) \subseteq Manifests(c)
      BY DEF ActiveFor, Greatest
    <3>4. \A m \in ActiveFor(d, size) : KeyEntries(d, m) \subseteq LogKeysCarried(d, size)
      BY DEF LogKeysCarried
    <3>5. \A r \in RotationsIn(d, size) : \A m \in OutgoingOf(d, r) :
            KeyEntries(d, m) \subseteq LogKeysCarried(d, size)
      BY DEF LogKeysCarried
    <3>6. \A m \in ActiveFor(c, i) :
            KeyNames(KeyEntries(c, m)) \subseteq KeyNames(LogKeysCarried(d, size))
      <4> TAKE m \in ActiveFor(c, i)
      <4>1. KeyEntries(d, m) = KeyEntries(c, m) /\ d[m] = c[m]
        BY <1>2, <3>3
      <4>2. CASE i \notin Manifests(d)
        BY <3>1, <3>4, <4>1, <4>2 DEF KeyNames
      <4>3. CASE i \in Manifests(d) /\ Payload(d[m]).logKeys = Payload(d[i]).logKeys
        <5>1. KeyNames(KeyEntries(d, m)) = KeyNames(KeyEntries(d, i))
          <6>1. ASSUME NEW a \in {m, i}, NEW b \in {m, i}, NEW x \in KeyEntries(d, a)
                PROVE  \E y \in KeyEntries(d, b) : y[1] = x[1]
            <7>1. x \in Keys \X {a} /\ \E v \in Indexes : <<x[1], v>> \in Payload(d[a]).logKeys
              BY <6>1 DEF KeyEntries
            <7>2. <<x[1], b>> \in KeyEntries(d, b)
              BY <4>3, <7>1 DEF KeyEntries
            <7> QED BY <7>2
          <6>2. \A x \in KeyEntries(d, m) : \E y \in KeyEntries(d, i) : y[1] = x[1]
            BY <6>1
          <6>3. \A x \in KeyEntries(d, i) : \E y \in KeyEntries(d, m) : y[1] = x[1]
            BY <6>1
          <6> QED BY <6>2, <6>3 DEF KeyNames
        <5>2. KeyEntries(d, i) \subseteq LogKeysCarried(d, size)
          BY <3>1, <3>4, <4>3
        <5> QED BY <4>1, <5>1, <5>2 DEF KeyNames
      <4>4. CASE i \in Manifests(d) /\ Payload(d[m]).logKeys # Payload(d[i]).logKeys
        <5>1. i \in RotationsIn(d, size) /\ m \in OutgoingOf(d, i)
          BY <3>1, <4>4 DEF RotationsIn
        <5> QED BY <3>5, <4>1, <5>1 DEF KeyNames
      <4> QED BY <4>2, <4>3, <4>4
    <3>7. KeyNames(LogKeysCarried(c, i)) \subseteq KeyNames(LogKeysCarried(d, size))
      <4>1. ASSUME NEW x \in LogKeysCarried(c, i)
            PROVE  \E y \in LogKeysCarried(d, size) : y[1] = x[1]
        <5>1. PICK m \in ActiveFor(c, i) \cup UNION {OutgoingOf(c, r) : r \in RotationsIn(c, i)} :
                x \in KeyEntries(c, m)
          BY <4>1 DEF LogKeysCarried
        <5>2. CASE m \in ActiveFor(c, i)
          BY <3>6, <5>1, <5>2 DEF KeyNames
        <5>3. CASE \E r \in RotationsIn(c, i) : m \in OutgoingOf(c, r)
          <6>1. PICK r \in RotationsIn(c, i) : m \in OutgoingOf(c, r)
            BY <5>3
          <6>2. r \in Manifests(c) /\ m \in Manifests(c)
            BY <6>1 DEF RotationsIn, Carried, OutgoingOf, Greatest
          <6>3. r \in RotationsIn(d, size)
            <7>1. r \in RotationsIn(d, i)
              BY <1>1, <1>2
            <7>2. r \in Carried(d, size)
              BY <1>1, <2>2, <3>1, <7>1 DEF RotationsIn, Carried
            <7> QED BY <7>1, <7>2 DEF RotationsIn
          <6>4. x \in KeyEntries(d, m) /\ m \in OutgoingOf(d, r)
            BY <1>2, <5>1, <6>1, <6>2
          <6> QED BY <3>5, <6>3, <6>4
        <5> QED BY <5>1, <5>2, <5>3
      <4> QED BY <4>1 DEF KeyNames
    <3>8. ASSUME NEW m \in Manifests(c)
          PROVE  KeyNames(KeyEntries(d, m)) \subseteq KeyNames(LogKeysCarried(d, size))
      <4>1. KeyNames(KeyEntries(c, m)) \subseteq KeyNames(LogKeysCarried(c, i))
        BY <1>1, <3>1 DEF Covered
      <4> QED BY <1>2, <3>7, <4>1
    <3>9. i \in Manifests(d) =>
            KeyNames(KeyEntries(d, i)) \subseteq KeyNames(LogKeysCarried(d, size))
      BY <3>1, <3>4 DEF KeyNames
    <3> QED BY <3>1, <3>2, <3>8, <3>9
  <2> QED BY <1>1, <2>1, <2>2
<1> QED BY <1>3 DEF Ranked, Covered

-----------------------------------------------------------------------------
LEMMA CarryInvariance == Spec => []CarryInv
<1>1. Init => Ranked(chain) /\ Covered(chain)
  <2> SUFFICES ASSUME Init PROVE Ranked(chain) /\ Covered(chain)
    OBVIOUS
  <2>1. Manifests(chain) = {}
    BY DEF Init, GovInit, Manifests
  <2>2. \A size : Carried(chain, size) = {}
    BY <2>1 DEF Carried
  <2> QED BY <2>2 DEF Ranked, Covered
<1>2. IInv /\ Ranked(chain) /\ Covered(chain) /\ [Next]_vars => (Ranked(chain) /\ Covered(chain))'
  <2> SUFFICES ASSUME IInv, Ranked(chain), Covered(chain), [Next]_vars
               PROVE  Ranked(chain') /\ Covered(chain')
    BY DEF Ranked, Covered, Carried, Manifests, Kind, ActiveFor, KeyNames, KeyEntries, LogKeysCarried
  <2>1. ASSUME NEW i \in Indexes, NEW e \in Envelopes, Enumerated(i, e)
        PROVE  Ranked(chain') /\ Covered(chain')
    <3>1. chain' = chain \/ chain' = Extend(chain, i, e)
      BY <2>1, StepGrows DEF Grows
    <3>2. DOMAIN chain \subseteq Indexes /\ \A n \in DOMAIN chain : n < i
      <4>1. i > last /\ last \in Indexes \cup {-1} /\ \A n \in DOMAIN chain : n <= last
        BY <2>1 DEF Enumerated, IInv, TypeOK, GovTypeOK
      <4>2. Indexes \subseteq Int
        BY MaxIndexAssumption DEF Indexes
      <4>3. DOMAIN chain \subseteq Indexes
        BY DEF IInv, TypeOK, GovTypeOK
      <4>4. i \in Int /\ last \in Int
        BY <4>1, <4>2
      <4>5. \A n \in DOMAIN chain : n \in Int /\ n <= last
        BY <4>1, <4>2, <4>3
      <4> QED BY <4>1, <4>3, <4>4, <4>5
    <3> QED BY <3>1, <3>2, CoverGrows
  <2>2. CASE (\E i \in Indexes : Disordered(i)) \/ End \/ UNCHANGED vars
    BY <2>2, ClosingKeeps
  <2> QED BY <2>1, <2>2 DEF Next
<1> QED BY <1>1, <1>2, Invariance, PTL DEF Spec, CarryInv

\* In a log whose governance statements all govern, for every checkpoint and
\* every subject, the receipt assembled carries the keys its verifier resolves.
THEOREM CarriesWhatResolves == Spec => []CarriedAsResolved
<1>1. CarryInv => CarriedAsResolved
  <2> SUFFICES ASSUME CarryInv, GovernanceRead(log) = chain, NEW size \in 1..(last + 1)
               PROVE
      LET logKeys == LogKeysCarried(log, size) IN
      /\ \A i \in 0..(size - 1) :
           LET bound == BoundKeys(log, i, TRUE) IN
           /\ {b[1] : b \in bound} = ProducerKeysAt(chain, i)
           /\ \A b \in bound : \A j \in (b[2] + 1)..i : b[1] \in ProducerKeysAt(chain, j)
      /\ \A s \in 1..size : LogKeysFor(chain, s) \subseteq {b[1] : b \in logKeys}
      /\ \A k \in Keys : \A i \in AnchoredRotations(log, size, k) :
           \A m \in OutgoingOf(chain, i) : <<k, m>> \in logKeys
    BY DEF CarriedAsResolved
  <2>1. /\ \A i : BoundKeys(log, i, TRUE) = BoundKeys(chain, i, TRUE)
        /\ LogKeysCarried(log, size) = LogKeysCarried(chain, size)
        /\ \A k : AnchoredRotations(log, size, k) = AnchoredRotations(chain, size, k)
    BY ReadCarriesAlike
  <2>2. DOMAIN chain \subseteq Indexes /\ last \in Int /\ size \in Int
    BY MaxIndexAssumption DEF CarryInv, IInv, TypeOK, GovTypeOK, Indexes
  <2>3. ASSUME NEW i \in 0..(size - 1)
        PROVE  /\ {b[1] : b \in BoundKeys(log, i, TRUE)} = ProducerKeysAt(chain, i)
               /\ \A b \in BoundKeys(log, i, TRUE) : \A j \in (b[2] + 1)..i :
                    b[1] \in ProducerKeysAt(chain, j)
    <3>1. i \in Nat
      BY <2>2
    <3>2. {b[1] : b \in BoundKeys(chain, i, TRUE)} = ProducerKeysAt(chain, i)
      BY <2>2, BoundAreKeys
    <3>3. \A b \in BoundKeys(chain, i, TRUE) : \A j \in (b[2] + 1)..i : b[1] \in ProducerKeysAt(chain, j)
      BY <2>2, <3>1, BoundInForce
    <3> QED BY <2>1, <3>2, <3>3
  <2>4. ASSUME NEW s \in 1..size, NEW k \in LogKeysFor(chain, s)
        PROVE  \E b \in LogKeysCarried(log, size) : b[1] = k
    <3>1. k \in Keys /\ \E m \in ActiveFor(chain, s), v \in Indexes :
            <<k, v>> \in Payload(chain[m]).logKeys
      BY <2>4 DEF LogKeysFor
    <3>2. PICK m \in ActiveFor(chain, s) : \E v \in Indexes : <<k, v>> \in Payload(chain[m]).logKeys
      BY <3>1
    <3>3. m \in Manifests(chain) /\ m < s
      BY DEF ActiveFor, Greatest
    <3>4. m \in Int /\ s \in Int /\ s <= size
      BY <2>2, <3>3, MaxIndexAssumption DEF Manifests, Indexes
    <3>5. m \in Carried(chain, size)
      BY <2>2, <3>3, <3>4 DEF Carried
    <3>6. <<k, m>> \in KeyEntries(chain, m)
      BY <3>1, <3>2 DEF KeyEntries
    <3>7. k \in KeyNames(LogKeysCarried(chain, size))
      <4>1. k \in KeyNames(KeyEntries(chain, m))
        BY <3>6 DEF KeyNames
      <4> QED BY <2>2, <3>5, <4>1 DEF CarryInv, Covered
    <3> QED BY <2>1, <3>7 DEF KeyNames
  <2>5. ASSUME NEW k \in Keys, NEW i \in AnchoredRotations(log, size, k), NEW m \in OutgoingOf(chain, i)
        PROVE  <<k, m>> \in LogKeysCarried(log, size)
    <3>1. /\ i \in RotationsIn(chain, size)
          /\ \E n \in OutgoingOf(chain, i) : \E v \in Indexes : <<k, v>> \in Payload(chain[n]).logKeys
      <4>1. i \in AnchoredRotations(chain, size, k)
        BY <2>1, <2>5
      <4> QED BY <4>1, Zenon DEF AnchoredRotations, AnchoredBy
    <3>2. PICK n \in OutgoingOf(chain, i) : \E v \in Indexes : <<k, v>> \in Payload(chain[n]).logKeys
      BY <3>1
    <3>3. n = m
      <4>1. n <= m /\ m <= n
        BY DEF OutgoingOf, Greatest
      <4>2. n \in Int /\ m \in Int
        BY <2>2, MaxIndexAssumption DEF OutgoingOf, Greatest, Manifests, Indexes
      <4> QED BY <4>1, <4>2
    <3>4. <<k, m>> \in KeyEntries(chain, m)
      BY <3>2, <3>3 DEF KeyEntries
    <3>5. KeyEntries(chain, m) \subseteq LogKeysCarried(chain, size)
      BY <3>1 DEF LogKeysCarried
    <3> QED BY <2>1, <3>4, <3>5
  <2> QED BY <2>3, <2>4, <2>5
<1> QED BY <1>1, CarryInvariance, PTL
=============================================================================
