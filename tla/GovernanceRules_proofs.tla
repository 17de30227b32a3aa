----------------------- MODULE GovernanceRules_proofs -----------------------
(***************************************************************************)
(* What the rules of governance give for every chain they may have built.  *)
(***************************************************************************)
EXTENDS GovernanceRules, WellFoundedInduction, TLAPS

\* Every set of naturals that has a member has a least one.
LEMMA NatHasLeast ==
  ASSUME NEW S \in SUBSET Nat, S # {}
  PROVE  \E n \in S : \A m \in S : n <= m
<1> DEFINE R == OpToRel(<, Nat)
<1>1. IsWellFoundedOn(R, Nat)
  BY NatLessThanWellFounded
<1>2. \A x, y \in Nat : <<y, x>> \in R <=> y < x
  BY DEF OpToRel
<1> HIDE DEF R
<1>3. PICK x \in S : \A y \in S : ~ (<<y, x>> \in R)
  BY <1>1, WFMin
<1>4. \A y \in S : ~ (y < x)
  BY <1>2, <1>3
<1> QED BY <1>4

\* A chain the corpus alone has built.
OfCorpus(c) == \A n \in DOMAIN c : c[n] \in Envelopes /\ Signers[c[n]] \subseteq Corpus

-----------------------------------------------------------------------------
\* The keys such a chain puts in force are keys of the corpus.
LEMMA CorpusKeys ==
  ASSUME NEW c, OfCorpus(c), NEW i \in Int
  PROVE  ProducerKeysAt(c, i) \subseteq Corpus /\ LogKeysFor(c, i) \subseteq Corpus
<1>1. ASSUME NEW k \in ProducerKeysAt(c, i) PROVE k \in Corpus
  <2>1. PICK m \in SnapshotManifest(c, i) : InForce(c, k, m, i)
    BY <1>1 DEF ProducerKeysAt
  <2>2. m \in DOMAIN c
    BY <2>1 DEF SnapshotManifest, Greatest, Least, Manifests
  <2>3. CASE Events(c, k, m, i) = {}
    BY <2>1, <2>2, <2>3, CorpusAssumption DEF InForce, OfCorpus
  <2>4. CASE Events(c, k, m, i) # {}
    <3>1. PICK n \in Greatest(Events(c, k, m, i)) : TRUE
      BY <2>1, <2>4 DEF InForce
    <3>2. n \in DOMAIN c /\ Payload(c[n]).key = k
      BY <3>1 DEF Greatest, Events
    <3> QED BY <3>2, CorpusAssumption DEF OfCorpus
  <2> QED BY <2>3, <2>4
<1>2. ASSUME NEW k \in LogKeysFor(c, i) PROVE k \in Corpus
  <2>1. PICK m \in ActiveFor(c, i), v \in Indexes : <<k, v>> \in Payload(c[m]).logKeys
    BY <1>2 DEF LogKeysFor
  <2>2. m \in DOMAIN c
    BY <2>1 DEF ActiveFor, Greatest, Manifests
  <2>3. k \in Keys
    BY <1>2 DEF LogKeysFor
  <2> QED BY <2>1, <2>2, <2>3, CorpusAssumption DEF OfCorpus
<1> QED BY <1>1, <1>2

\* Such a chain admits nothing an outsider signed.
LEMMA OutsidersRefused ==
  ASSUME NEW c, OfCorpus(c), NEW i \in Indexes, NEW e \in Envelopes, Admits(c, i, e)
  PROVE  ~ByOutsider(e)
<1>1. CASE Manifests(c) = {}
  BY <1>1, CorpusAssumption DEF Admits, Pinned, ByOutsider
<1>2. CASE Manifests(c) # {}
  <2>1. ProducerKeysAt(c, i) \subseteq Corpus
    BY CorpusKeys DEF Indexes
  <2> QED BY <1>2, <2>1 DEF Admits, Authorized, EnvelopeVerifiesAt, ByOutsider
<1> QED BY <1>1, <1>2

LEMMA ExtendDomain ==
  ASSUME NEW c, NEW i, NEW e
  PROVE  /\ DOMAIN Extend(c, i, e) = DOMAIN c \cup {i}
         /\ Extend(c, i, e)[i] = e
         /\ \A n \in DOMAIN c : n # i => Extend(c, i, e)[n] = c[n]
BY DEF Extend

=============================================================================
