------------------------ MODULE AnchoredView_proofs ------------------------
(***************************************************************************)
(* What holds of an established view, for every log, mirror and policy.    *)
(***************************************************************************)
EXTENDS AnchoredView, SequenceTheorems, GovernanceRules_proofs

NoChain == [m \in {} |-> None]
Grown(c, i, e) == IF Admits(c, i, e) THEN Extend(c, i, e) ELSE c

\* f is the chain of tree as it stands before each entry, up to the n-th.
GrowsAlong(f, tree, n) == f[0] = NoChain /\ \A k \in 1..n : f[k] = Grown(f[k - 1], k - 1, tree[k])

\* resolve gives every enumeration a chain, entry by entry.
LEMMA ChainGrows ==
  ASSUME NEW tree, NEW n \in Nat
  PROVE  \E f : DOMAIN f = 0..n /\ GrowsAlong(f, tree, n)
<1> DEFINE Fails == {k \in Nat : ~\E f : DOMAIN f = 0..k /\ GrowsAlong(f, tree, k)}
<1>1. SUFFICES ASSUME Fails # {} PROVE FALSE
  OBVIOUS
<1>2. PICK k \in Fails : \A m \in Fails : k <= m
  <2>1. Fails \in SUBSET Nat
    OBVIOUS
  <2> HIDE DEF Fails
  <2> QED BY <1>1, <2>1, NatHasLeast
<1>3. CASE k = 0
  <2> DEFINE f == [m \in 0..0 |-> NoChain]
  <2>1. DOMAIN f = 0..0 /\ GrowsAlong(f, tree, 0)
    BY DEF GrowsAlong
  <2> HIDE DEF f
  <2> QED BY <1>3, <2>1
<1>4. CASE k # 0
  <2>1. k \in Nat /\ k - 1 \in Nat /\ k - 1 \notin Fails
    BY <1>2, <1>4
  <2>2. PICK f : DOMAIN f = 0..(k - 1) /\ GrowsAlong(f, tree, k - 1)
    BY <2>1
  <2> DEFINE g == [m \in 0..k |-> IF m = k THEN Grown(f[k - 1], k - 1, tree[k]) ELSE f[m]]
  <2>3. g[0] = NoChain
    BY <1>4, <2>1, <2>2 DEF GrowsAlong
  <2>4. ASSUME NEW m \in 1..k PROVE g[m] = Grown(g[m - 1], m - 1, tree[m])
    <3>1. g[m - 1] = f[m - 1] /\ m - 1 \in 0..k
      BY <2>1
    <3>2. CASE m = k
      BY <2>1, <3>1, <3>2
    <3>3. CASE m # k
      BY <2>1, <2>2, <3>1, <3>3 DEF GrowsAlong
    <3> QED BY <3>2, <3>3
  <2>5. DOMAIN g = 0..k /\ GrowsAlong(g, tree, k)
    BY <2>3, <2>4 DEF GrowsAlong
  <2> HIDE DEF g
  <2> QED BY <1>2, <2>5
<1> QED BY <1>3, <1>4

\* ChainOf is where it ends.
LEMMA ChainOfGrows ==
  ASSUME NEW tree, Len(tree) \in Nat
  PROVE  \E f : GrowsAlong(f, tree, Len(tree)) /\ ChainOf(tree) = f[Len(tree)]
<1> DEFINE L == Len(tree)
<1> DEFINE Is(g) == g = [n \in 0..L |->
                          IF n = 0 THEN [m \in {} |-> None]
                          ELSE IF Admits(g[n - 1], n - 1, tree[n]) THEN Extend(g[n - 1], n - 1, tree[n])
                               ELSE g[n - 1]]
<1> DEFINE grown == CHOOSE g : Is(g)
<1>1. PICK f : DOMAIN f = 0..L /\ GrowsAlong(f, tree, L)
  BY ChainGrows
<1> DEFINE fun == [n \in 0..L |-> f[n]]
<1>2. Is(fun)
  <2>1. ASSUME NEW n \in 0..L
        PROVE  fun[n] = IF n = 0 THEN [m \in {} |-> None]
                        ELSE IF Admits(fun[n - 1], n - 1, tree[n]) THEN Extend(fun[n - 1], n - 1, tree[n])
                             ELSE fun[n - 1]
    <3>1. CASE n = 0
      BY <1>1, <3>1 DEF GrowsAlong, NoChain
    <3>2. CASE n # 0
      <4>1. n \in 1..L /\ n - 1 \in 0..L /\ fun[n - 1] = f[n - 1]
        BY <3>2
      <4> QED BY <1>1, <3>2, <4>1 DEF GrowsAlong, Grown
    <3> QED BY <3>1, <3>2
  <2> QED BY <2>1
<1> HIDE DEF fun
<1>3. Is(grown)
  <2> HIDE DEF Is
  <2> QED BY <1>2
<1>4. ChainOf(tree) = grown[L]
  BY DEF ChainOf
<1> HIDE DEF grown
<1>5. \A n \in 0..L : grown[n] = IF n = 0 THEN [m \in {} |-> None]
                                 ELSE IF Admits(grown[n - 1], n - 1, tree[n]) THEN Extend(grown[n - 1], n - 1, tree[n])
                                      ELSE grown[n - 1]
  <2> QED BY <1>3
<1>6. GrowsAlong(grown, tree, L)
  BY <1>5 DEF GrowsAlong, Grown, NoChain
<1> QED BY <1>4, <1>6

\* Whoever else writes to the log, the keys its chain puts in force are the
\* corpus's, from one entry to the next.
LEMMA GrownOfCorpus ==
  ASSUME NEW tree \in Trees, NEW f, GrowsAlong(f, tree, Len(tree)), NEW j \in 0..Len(tree)
  PROVE  OfCorpus(f[j])
<1>1. tree \in Seq(Envelopes) /\ Len(tree) \in Nat /\ Len(tree) <= MaxIndex + 1
  BY MaxIndexAssumption DEF Trees
<1> DEFINE Fails == {k \in 0..Len(tree) : ~OfCorpus(f[k])}
<1>2. SUFFICES ASSUME Fails # {} PROVE FALSE
  OBVIOUS
<1>3. PICK k \in Fails : \A m \in Fails : k <= m
  <2>1. Fails \in SUBSET Nat
    BY <1>1
  <2> HIDE DEF Fails
  <2> QED BY <1>2, <2>1, NatHasLeast
<1>4. OfCorpus(NoChain)
  BY DEF OfCorpus, NoChain
<1>5. k \in 1..Len(tree) /\ k - 1 \in 0..Len(tree) /\ k - 1 \in Indexes
  BY <1>1, <1>3, <1>4, MaxIndexAssumption DEF GrowsAlong, Indexes
<1>6. OfCorpus(f[k - 1])
  BY <1>3, <1>5
<1>7. tree[k] \in Envelopes
  BY <1>1, <1>5
<1>8. OfCorpus(Grown(f[k - 1], k - 1, tree[k]))
  <2>1. CASE Admits(f[k - 1], k - 1, tree[k])
    <3>1. Signers[tree[k]] \subseteq Corpus
      BY <1>5, <1>6, <1>7, <2>1, OutsidersRefused DEF ByOutsider
    <3> QED BY <1>6, <1>7, <2>1, <3>1 DEF Grown, OfCorpus, Extend
  <2>2. CASE ~Admits(f[k - 1], k - 1, tree[k])
    BY <1>6, <2>2 DEF Grown
  <2> QED BY <2>1, <2>2
<1> QED BY <1>3, <1>5, <1>8 DEF GrowsAlong

LEMMA ChainOfCorpus ==
  ASSUME NEW tree \in Trees
  PROVE  OfCorpus(ChainOf(tree))
<1>1. Len(tree) \in Nat
  BY DEF Trees
<1>2. PICK f : GrowsAlong(f, tree, Len(tree)) /\ ChainOf(tree) = f[Len(tree)]
  BY <1>1, ChainOfGrows
<1> QED BY <1>1, <1>2, GrownOfCorpus

\* A chain is no other than its entries make it.
LEMMA GrowsOneWay ==
  ASSUME NEW L \in Nat, NEW f, NEW g, NEW s, NEW t,
         GrowsAlong(f, s, L), \A k \in 1..L : s[k] = t[k], GrowsAlong(g, t, L)
  PROVE  f[L] = g[L]
<1> DEFINE Fails == {k \in 0..L : f[k] # g[k]}
<1>1. SUFFICES ASSUME Fails # {} PROVE FALSE
  OBVIOUS
<1>2. PICK k \in Fails : \A m \in Fails : k <= m
  <2>1. Fails \in SUBSET Nat
    OBVIOUS
  <2> HIDE DEF Fails
  <2> QED BY <1>1, <2>1, NatHasLeast
<1>3. k # 0
  BY <1>2 DEF GrowsAlong
<1>4. k \in 1..L /\ f[k - 1] = g[k - 1]
  BY <1>2, <1>3
<1>5. f[k] = Grown(f[k - 1], k - 1, s[k]) /\ g[k] = Grown(g[k - 1], k - 1, t[k])
  BY <1>4 DEF GrowsAlong
<1> QED BY <1>2, <1>4, <1>5

\* What anybody else signs, and what is no governance statement, can be gone
\* from a log without its chain being another.
NoGovernance(e) == ByOutsider(e) \/ Payload(e).kind \notin {"manifest", "key"}
SameGovernance(tree, other) ==
  /\ Len(other) = Len(tree)
  /\ \A n \in 1..Len(tree) :
       other[n] = tree[n] \/ (NoGovernance(tree[n]) /\ Payload(other[n]).kind = "broken")

LEMMA SameChain ==
  ASSUME NEW tree \in Trees, NEW other \in Trees, SameGovernance(tree, other)
  PROVE  ChainOf(other) = ChainOf(tree)
<1> DEFINE L == Len(tree)
<1>1. L \in Nat /\ Len(other) = L /\ tree \in Seq(Envelopes) /\ L <= MaxIndex + 1
  BY MaxIndexAssumption DEF Trees, SameGovernance
<1>2. PICK f : GrowsAlong(f, tree, L) /\ ChainOf(tree) = f[L]
  BY <1>1, ChainOfGrows
<1>3. PICK g : GrowsAlong(g, other, L) /\ ChainOf(other) = g[L]
  BY <1>1, ChainOfGrows
<1>4. ASSUME NEW k \in 1..L PROVE f[k] = Grown(f[k - 1], k - 1, other[k])
  <2>1. f[k] = Grown(f[k - 1], k - 1, tree[k])
    BY <1>2 DEF GrowsAlong
  <2>2. CASE other[k] = tree[k]
    BY <2>1, <2>2
  <2>3. CASE NoGovernance(tree[k]) /\ Payload(other[k]).kind = "broken"
    <3>1. OfCorpus(f[k - 1]) /\ k - 1 \in Indexes /\ tree[k] \in Envelopes
      BY <1>1, <1>2, MaxIndexAssumption, GrownOfCorpus DEF Indexes
    <3>2. ~Admits(f[k - 1], k - 1, tree[k])
      BY <2>3, <3>1, OutsidersRefused DEF NoGovernance, Admits
    <3>3. ~Admits(f[k - 1], k - 1, other[k])
      BY <2>3 DEF Admits
    <3> QED BY <2>1, <3>2, <3>3 DEF Grown
  <2> QED BY <2>2, <2>3 DEF SameGovernance
<1>5. GrowsAlong(f, other, L)
  BY <1>2, <1>4 DEF GrowsAlong
<1> HIDE DEF L
<1>6. f[L] = g[L]
  BY <1>1, <1>3, <1>5, GrowsOneWay
<1> QED BY <1>2, <1>3, <1>6

-----------------------------------------------------------------------------
\* What Ground leaves to the neighbours.
Weighed ==
  /\ got = cp.root
  /\ SignatureVerifies(cp, LogKeysFor(ChainOf(got), target))
  /\ authentic = AuthenticMembers(ChainOf(got))
  /\ AtOrBeyond(EquivocationFloor(authentic)) = {}
  /\ AtOrBeyond(UnresolvedDivergences(series, authentic)) = {}
  /\ notes = EquivocationFloor(authentic) \cup UnresolvedDivergences(series, authentic)

\* What a run holds was offered to it, and an established view was weighed.
ViewInv ==
  /\ ViewTypeOK
  /\ series \subseteq Offered
  /\ step = "series" => cp = NoCheckpoint /\ authentic = {}
  /\ (step \in {"precede", "succeed"} \/ Established) => Weighed /\ cp \in series /\ Size(cp) = target
  /\ AccusedSignedTwoRoots

\* A signature of the corpus's own keys is on nothing the log did not sign.
LEMMA SignedIsPublished ==
  ASSUME world \in Worlds, NEW m \in Offered, m.signer \in Corpus
  PROVE  m \in Published
BY WorldsAssumption DEF Offered

LEMMA OfferedAreCheckpoints ==
  ASSUME world \in Worlds, upto \in 0..Len(world.history)
  PROVE  Offered \subseteq Checkpoints
BY WorldsAssumption DEF Offered, Published

LEMMA CheckpointSizes ==
  ASSUME NEW m \in Checkpoints
  PROVE  m.root \in Trees /\ Size(m) \in Nat \ {0}
BY MaxIndexAssumption DEF Checkpoints, Trees, Size

LEMMA DivergentAreSizes ==
  ASSUME NEW S \in SUBSET Checkpoints
  PROVE  Divergent(S) \subseteq Nat
BY CheckpointSizes DEF Divergent

\* The checkpoints whose signature verifies are the log's.
LEMMA AuthenticIsPublished ==
  ASSUME world \in Worlds, NEW tree \in Trees, NEW m \in Offered, NEW n \in Int,
         SignatureVerifies(m, LogKeysFor(ChainOf(tree), n))
  PROVE  m \in Published
BY SignedIsPublished, ChainOfCorpus, CorpusKeys DEF SignatureVerifies

-----------------------------------------------------------------------------
\* Below an index two chains say the same.
AgreeBelow(c, d, n) ==
  /\ {m \in DOMAIN c : m < n} = {m \in DOMAIN d : m < n}
  /\ \A m \in DOMAIN c : m < n => c[m] = d[m]

\* What joins at an index or beyond it changes nothing below.
LEMMA GrownAgrees ==
  ASSUME NEW n \in Nat, NEW i \in Nat, n <= i, NEW c, NEW e
  PROVE  AgreeBelow(c, Grown(c, i, e), n)
<1>1. CASE Admits(c, i, e)
  <2>1. Grown(c, i, e) = Extend(c, i, e)
    BY <1>1 DEF Grown
  <2> DEFINE d == Extend(c, i, e)
  <2>2. DOMAIN d = DOMAIN c \cup {i} /\ \A m \in DOMAIN c : m # i => d[m] = c[m]
    BY DEF Extend
  <2> HIDE DEF d
  <2>3. ~(i < n)
    OBVIOUS
  <2>4. {m \in DOMAIN c : m < n} = {m \in DOMAIN d : m < n}
    BY <2>2, <2>3
  <2>5. \A m \in DOMAIN c : m < n => c[m] = d[m]
    BY <2>2, <2>3
  <2> QED BY <2>1, <2>4, <2>5 DEF AgreeBelow, d
<1>2. CASE ~Admits(c, i, e)
  BY <1>2 DEF Grown, AgreeBelow
<1> QED BY <1>1, <1>2

\* A log that goes on keeps the chain it has: of a tree and one that extends
\* it, the chains agree below the size of the first.
LEMMA ChainOfPrefix ==
  ASSUME NEW s \in Trees, NEW t \in Trees, Len(s) <= Len(t), s = SubSeq(t, 1, Len(s))
  PROVE  AgreeBelow(ChainOf(s), ChainOf(t), Len(s))
<1> DEFINE L == Len(s)
<1> DEFINE M == Len(t)
<1>1. L \in Nat /\ M \in Nat /\ L <= M /\ s \in Seq(Envelopes) /\ t \in Seq(Envelopes)
  BY DEF Trees
<1>2. PICK f : GrowsAlong(f, s, L) /\ ChainOf(s) = f[L]
  BY <1>1, ChainOfGrows
<1>3. PICK g : GrowsAlong(g, t, M) /\ ChainOf(t) = g[M]
  BY <1>1, ChainOfGrows
<1>4. \A k \in 1..L : s[k] = t[k]
  BY <1>1, SubSeqProperties
<1>5. f[L] = g[L]
  <2>1. GrowsAlong(g, t, L)
    BY <1>1, <1>3 DEF GrowsAlong
  <2> HIDE DEF L, M
  <2> QED BY <1>1, <1>2, <1>4, <2>1, GrowsOneWay
<1>6. AgreeBelow(g[L], g[M], L)
  <2> DEFINE Fails == {k \in L..M : ~AgreeBelow(g[L], g[k], L)}
  <2>1. SUFFICES ASSUME Fails # {} PROVE FALSE
    BY <1>1
  <2>2. PICK k \in Fails : \A m \in Fails : k <= m
    <3>1. Fails \in SUBSET Nat
      BY <1>1
    <3> HIDE DEF Fails
    <3> QED BY <2>1, <3>1, NatHasLeast
  <2>3. k \in L..M /\ k # L
    <3>1. AgreeBelow(g[L], g[L], L)
      BY DEF AgreeBelow
    <3> QED BY <2>2, <3>1
  <2> HIDE DEF Fails
  <2>4. k \in 1..M /\ k - 1 \in L..M /\ k - 1 \in Nat /\ L <= k - 1
    <3>1. L \in Nat /\ M \in Nat
      BY <1>1
    <3> HIDE DEF L, M
    <3> QED BY <2>3, <3>1
  <2>5. AgreeBelow(g[L], g[k - 1], L)
    BY <1>1, <2>2, <2>4 DEF Fails
  <2>6. g[k] = Grown(g[k - 1], k - 1, t[k])
    BY <1>3, <2>4 DEF GrowsAlong
  <2>7. AgreeBelow(g[k - 1], g[k], L)
    BY <1>1, <2>4, <2>6, GrownAgrees
  <2>8. AgreeBelow(g[L], g[k], L)
    BY <2>5, <2>7 DEF AgreeBelow
  <2> QED BY <2>2, <2>8 DEF Fails
<1> QED BY <1>2, <1>3, <1>5, <1>6

\* So a smaller checkpoint is under the same keys in both.
LEMMA AgreeingKeys ==
  ASSUME NEW c, NEW d, NEW n \in Nat, AgreeBelow(c, d, n)
  PROVE  LogKeysFor(c, n) = LogKeysFor(d, n) /\ WitnessKeysFor(c, n) = WitnessKeysFor(d, n)
         /\ LogIdFor(c, n) = LogIdFor(d, n)
<1>1. ActiveFor(c, n) = ActiveFor(d, n)
  <2>1. {m \in Manifests(c) : m < n} = {m \in Manifests(d) : m < n}
    BY DEF AgreeBelow, Manifests, Kind
  <2> QED BY <2>1 DEF ActiveFor
<1>2. \A m \in ActiveFor(c, n) : c[m] = d[m]
  BY DEF ActiveFor, Greatest, Manifests, AgreeBelow
<1> QED BY <1>1, <1>2 DEF LogKeysFor, WitnessKeysFor, LogIdFor

-----------------------------------------------------------------------------
\* Of members published one after the other some are the latest.
LEMMA SomeAreLatest ==
  ASSUME NEW h \in Seq(Checkpoints), NEW n \in 0..Len(h),
         NEW S \in SUBSET {h[k] : k \in 1..n}, S # {}
  PROVE  Latest(S) # {}
<1> DEFINE Lacks(k) == \E Q \in SUBSET {h[j] : j \in 1..k} : Q # {} /\ Latest(Q) = {}
<1> DEFINE Fails == {k \in 0..Len(h) : Lacks(k)}
<1>1. Len(h) \in Nat /\ \A k \in 1..Len(h) : h[k] \in Checkpoints
  OBVIOUS
<1>2. SUFFICES ASSUME Fails # {} PROVE FALSE
  OBVIOUS
<1>3. PICK k \in Fails : \A m \in Fails : k <= m
  <2>1. Fails \in SUBSET Nat
    BY <1>1
  <2> HIDE DEF Fails
  <2> QED BY <1>2, <2>1, NatHasLeast
<1>4. PICK Q \in SUBSET {h[j] : j \in 1..k} : Q # {} /\ Latest(Q) = {}
  BY <1>3
<1>5. k \in 1..Len(h) /\ k - 1 \in 0..Len(h) /\ k - 1 < k
  <2>1. k \in 0..Len(h)
    BY <1>3
  <2>2. k # 0
    <3>1. SUFFICES ASSUME k = 0 PROVE FALSE
      OBVIOUS
    <3>2. ~\E j \in 1..k : TRUE
      BY <3>1
    <3> QED BY <1>4, <3>2
  <2> QED BY <1>1, <2>1, <2>2
<1>6. \A R \in SUBSET {h[j] : j \in 1..(k - 1)} : R # {} => Latest(R) # {}
  <2>1. ~Lacks(k - 1)
    <3>1. \A m \in 0..Len(h) : Lacks(m) => k <= m
      BY <1>3
    <3> HIDE DEF Lacks, Fails
    <3> QED BY <1>1, <1>5, <3>1
  <2> QED BY <2>1
<1> DEFINE R == Q \ {h[k]}
<1>7. R \in SUBSET {h[j] : j \in 1..(k - 1)}
  BY <1>4, <1>5
<1>8. \A m \in Q : m \in Checkpoints /\ Size(m) \in Nat /\ m.time \in Nat
  <2>1. \A m \in Q : \E j \in 1..k : m = h[j]
    BY <1>4
  <2>2. 1..k \subseteq 1..Len(h)
    BY <1>1, <1>5
  <2>3. Q \subseteq Checkpoints
    BY <1>1, <2>1, <2>2
  <2> QED BY <2>3, CheckpointSizes DEF Checkpoints
<1>9. \A a, b, c \in Q : ~Before(a, a) /\ (Before(a, b) /\ Before(b, c) => Before(a, c))
  BY <1>8 DEF Before
<1>10. CASE h[k] \notin Q
  BY <1>4, <1>6, <1>7, <1>10
<1>11. CASE h[k] \in Q /\ R = {}
  <2>1. h[k] \in Latest(Q)
    BY <1>9, <1>11 DEF Latest
  <2> QED BY <1>4, <2>1
<1>12. CASE h[k] \in Q /\ R # {}
  <2>1. PICK m \in Latest(R) : TRUE
    BY <1>6, <1>7, <1>12
  <2>2. m \in Q /\ \A r \in R : ~Before(m, r)
    BY <2>1 DEF Latest
  <2>3. CASE Before(m, h[k])
    <3>1. \A r \in Q : ~Before(h[k], r)
      BY <1>9, <1>12, <2>2, <2>3
    <3>2. h[k] \in Latest(Q)
      BY <1>12, <3>1 DEF Latest
    <3> QED BY <1>4, <3>2
  <2>4. CASE ~Before(m, h[k])
    <3>1. m \in Latest(Q)
      BY <2>2, <2>4 DEF Latest
    <3> QED BY <1>4, <3>1
  <2> QED BY <2>3, <2>4
<1> QED BY <1>10, <1>11, <1>12

\* And of the members of one size some are the earliest.
LEMMA SomeAreEarliest ==
  ASSUME NEW S \in SUBSET Checkpoints, NEW n, \A m \in S : Size(m) = n, S # {}
  PROVE  Earliest(S) # {}
<1> DEFINE T == {m.time : m \in S}
<1>1. T \in SUBSET Nat /\ T # {}
  BY DEF Checkpoints
<1>2. PICK x \in T : \A y \in T : x <= y
  <2> HIDE DEF T
  <2> QED BY <1>1, NatHasLeast
<1>3. PICK m \in S : x = m.time
  BY <1>2
<1>4. \A k \in S : Size(k) = n /\ n \in Nat /\ k.time \in Nat /\ m.time <= k.time
  BY <1>1, <1>2, <1>3, CheckpointSizes DEF Checkpoints
<1>5. m \in Earliest(S)
  BY <1>3, <1>4 DEF Earliest, Before
<1> QED BY <1>5

-----------------------------------------------------------------------------
\* Both weighings, and the one beyond the target that is reported.
LEMMA WeighedDivergence ==
  ASSUME series \subseteq Checkpoints, target \in Nat, Weighed
  PROVE  /\ \A n \in Divergent(series) : n > target
         /\ Least(Divergent(series)) \subseteq notes
<1>1. authentic \subseteq series
  BY DEF Weighed, AuthenticMembers
<1>2. Divergent(authentic) \subseteq Divergent(series) /\ Divergent(series) \subseteq Nat
  BY <1>1, DivergentAreSizes DEF Divergent
<1>3. ASSUME NEW n \in Divergent(series) PROVE n > target
  <2>1. CASE n \in Divergent(authentic)
    <3>1. PICK m \in Divergent(authentic) : \A k \in Divergent(authentic) : m <= k
      BY <1>2, <2>1, NatHasLeast
    <3>2. m \in EquivocationFloor(authentic)
      BY <3>1 DEF EquivocationFloor, Least
    <3>3. ~(m <= target)
      BY <3>2 DEF Weighed, AtOrBeyond
    <3> QED BY <1>2, <2>1, <3>1, <3>3
  <2>2. CASE n \notin Divergent(authentic)
    <3>1. n \in UnresolvedDivergences(series, authentic)
      BY <2>2 DEF UnresolvedDivergences
    <3>2. ~(n <= target)
      BY <3>1 DEF Weighed, AtOrBeyond
    <3> QED BY <1>2, <3>2
  <2> QED BY <2>1, <2>2
<1>4. ASSUME NEW n \in Least(Divergent(series)) PROVE n \in notes
  BY <1>2, <1>4 DEF Least, EquivocationFloor, UnresolvedDivergences, Weighed
<1> QED BY <1>3, <1>4

-----------------------------------------------------------------------------
\* A step of the environment.
LEMMA PublishKeepsView ==
  ASSUME world \in Worlds, ViewInv, Publish
  PROVE  ViewInv'
<1> USE DEF Publish, estVars, viewVars
<1>1. ViewTypeOK'
  BY WorldsAssumption DEF ViewInv, ViewTypeOK, Size
<1>2. upto' \in 0..Len(world.history) /\ upto \in Nat /\ upto' = upto + 1 /\ world' = world
  BY DEF ViewInv, ViewTypeOK
<1>3. Offered \subseteq Offered'
  BY <1>2 DEF Offered, Published
<1>4. Weighed => Weighed'
  BY DEF Weighed, AuthenticMembers, AtOrBeyond, EquivocationFloor, UnresolvedDivergences, SignatureVerifies, Size
<1>5. AccusedSignedTwoRoots'
  <2>1. {world.history[n] : n \in 1..upto} \subseteq {world.history[n] : n \in 1..upto'}
    BY <1>2
  <2>2. Divergent({world.history[n] : n \in 1..upto}) \subseteq Divergent({world.history[n] : n \in 1..upto'})
    BY <2>1 DEF Divergent
  <2>3. verdict' = verdict /\ (verdict = "equivocation" => Divergent({world.history[n] : n \in 1..upto}) # {})
    BY DEF ViewInv, AccusedSignedTwoRoots
  <2>4. Divergent({world.history[n] : n \in 1..upto'}) = (Divergent({world.history[n] : n \in 1..upto}))'
    BY <1>2 DEF Divergent, Size
  <2> QED BY <2>2, <2>3, <2>4 DEF AccusedSignedTwoRoots
<1> QED BY <1>1, <1>3, <1>4, <1>5 DEF ViewInv, Established, Size

\* A run that begins, over a log that has published what it has.
LEMMA BeginsView ==
  ASSUME upto' \in 0..Len(world'.history), NEW n \in Nat, Begin(n),
         limit' \in Nat, sent' \in 0..limit'
  PROVE  ViewInv'
BY LimitsAssumption DEF Begin, ViewInv, ViewTypeOK, Steps, Verdicts, Established, AccusedSignedTwoRoots, Size

\* What is sent is within the limit.
LEMMA SendsView ==
  ASSUME ViewInv, NEW n \in Nat, Sends(n)
  PROVE  sent' \in 0..limit
BY DEF Sends, ViewInv, ViewTypeOK

LEMMA EndsView ==
  ASSUME ViewInv, UNCHANGED envVars, sent' \in 0..limit, NEW v \in {"missing", "limit", "rule"}, Ends(v)
  PROVE  ViewInv'
<1> USE DEF envVars, Ends
<1>1. ViewTypeOK'
  BY DEF ViewInv, ViewTypeOK, Steps, Verdicts, Size
<1>2. ~Established' /\ AccusedSignedTwoRoots' /\ step' = "done"
  BY DEF Established, AccusedSignedTwoRoots
<1>3. (series \subseteq Offered)'
  BY DEF ViewInv, Offered, Published
<1> QED BY <1>1, <1>2, <1>3 DEF ViewInv

LEMMA ReadSeriesView ==
  ASSUME world \in Worlds, ViewInv, NEW S \in SeriesAnswers, ReadSeries(S)
  PROVE  ViewInv'
<1> USE DEF envVars, ReadSeries
<1>1. S \subseteq Offered /\ Offered \subseteq Checkpoints
  BY OfferedAreCheckpoints DEF SeriesAnswers, Offered, ViewInv, ViewTypeOK
<1>2. cp' \in series' \cup {NoCheckpoint} /\ (step' = "range" => cp' \in series' /\ Size(cp') = target)
  BY DEF GoverningMember, Earliest, AtSize, ViewInv, ViewTypeOK
<1>3. step' \in {"done", "range"} /\ verdict' \in {"none", "missing", "limit"} /\ (verdict' = "none" <=> step' # "done")
  BY DEF ViewInv, ViewTypeOK
<1>4. authentic' = {} /\ upto' = upto /\ world' = world /\ limit' = limit /\ sent' \in 0..limit
  BY SendsView DEF ViewInv
<1>5. ViewTypeOK'
  BY <1>1, <1>2, <1>3, <1>4 DEF ViewInv, ViewTypeOK, Steps, Verdicts, Size
<1>6. (series \subseteq Offered)' /\ ~Established' /\ AccusedSignedTwoRoots'
  BY <1>1, <1>3, <1>4 DEF Offered, Published, Established, AccusedSignedTwoRoots
<1> QED BY <1>3, <1>4, <1>5, <1>6 DEF ViewInv

LEMMA ReadRangeView ==
  ASSUME world \in Worlds, ViewInv, NEW declared, NEW tree, NEW cost \in Nat, ReadRange(declared, tree, cost)
  PROVE  ViewInv'
<1> USE DEF envVars
<1>1. CASE ~RangeVerifies(declared, Slice(tree))
  BY <1>1, SendsView, EndsView DEF ReadRange
<1>2. CASE RangeVerifies(declared, Slice(tree))
  <2>1. /\ step = "range" /\ requests < limit /\ sent' \in 0..limit
        /\ got' = got \o Slice(cp.root) /\ requests' = requests + 1
        /\ step' = (IF Until = target THEN "ground" ELSE step)
        /\ UNCHANGED <<target, series, cp, authentic, notes, verdict, world, upto, limit>>
    BY <1>2, SendsView DEF ReadRange, RangeVerifies
  <2>2. cp \in Checkpoints /\ cp.root \in Seq(Envelopes) /\ got \in Seq(Envelopes) /\ Until \in Nat
    BY <2>1, LimitsAssumption DEF ViewInv, ViewTypeOK, Checkpoints, Trees, Until
  <2>3. Slice(cp.root) \in Seq(Envelopes)
    BY <2>2, SubSeqProperties DEF Slice
  <2>4. ViewTypeOK'
    BY <2>1, <2>2, <2>3, LimitsAssumption DEF ViewInv, ViewTypeOK, Steps, Verdicts, Size
  <2>5. (series \subseteq Offered)' /\ ~Established' /\ AccusedSignedTwoRoots'
    BY <2>1 DEF ViewInv, ViewTypeOK, Offered, Published, Established, AccusedSignedTwoRoots
  <2> QED BY <2>1, <2>4, <2>5 DEF ViewInv
<1> QED BY <1>1, <1>2

\* The weighing: the keys that authenticate members are the corpus's own.
LEMMA GroundView ==
  ASSUME world \in Worlds, ViewInv, Ground
  PROVE  ViewInv'
<1> USE DEF envVars
<1> DEFINE known == AuthenticMembers(ChainOf(got))
<1> DEFINE floor == EquivocationFloor(known)
<1> DEFINE open == UnresolvedDivergences(series, known)
<1>1. step = "ground" /\ UNCHANGED envVars /\ sent' = sent /\ sent' \in 0..limit
  BY DEF Ground, ViewInv, ViewTypeOK
<1>2. CASE ~Grounded(ChainOf(got))
  BY <1>1, <1>2, EndsView DEF Ground
<1>3. CASE Grounded(ChainOf(got)) /\ AtOrBeyond(floor) # {}
  <2>1. Ends("equivocation")
    BY <1>3 DEF Ground
  <2>2. ViewTypeOK' /\ (series \subseteq Offered)' /\ ~Established' /\ step' = "done"
    BY <1>1, <2>1 DEF Ends, ViewInv, ViewTypeOK, Steps, Verdicts, Size, Offered, Published, Established
  <2>3. got \in Trees
    BY <1>1, <1>3 DEF Grounded, ViewInv, ViewTypeOK, Checkpoints, NoCheckpoint
  <2>4. known \subseteq Published
    <3>1. known \subseteq Offered /\ known \subseteq Checkpoints
      BY DEF ViewInv, ViewTypeOK, AuthenticMembers
    <3>2. \A m \in known : SignatureVerifies(m, LogKeysFor(ChainOf(got), Size(m))) /\ Size(m) \in Int
      BY <3>1, CheckpointSizes DEF AuthenticMembers
    <3> QED BY <2>3, <3>1, <3>2, AuthenticIsPublished
  <2>5. Divergent(Published) # {}
    BY <1>3, <2>4 DEF Divergent, EquivocationFloor, Least, AtOrBeyond
  <2> QED BY <1>1, <2>2, <2>5 DEF ViewInv, AccusedSignedTwoRoots, Published, Divergent, Size
<1>4. CASE Grounded(ChainOf(got)) /\ AtOrBeyond(floor) = {} /\ AtOrBeyond(open) # {}
  BY <1>1, <1>4, EndsView DEF Ground
<1>5. CASE Grounded(ChainOf(got)) /\ AtOrBeyond(floor) = {} /\ AtOrBeyond(open) = {}
  <2>1. step' = "precede" /\ authentic' = known /\ notes' = floor \cup open
        /\ UNCHANGED <<target, series, cp, got, requests, verdict, world, upto, limit>>
    BY <1>5 DEF Ground
  <2>2. known \subseteq series /\ series \subseteq Checkpoints
    BY DEF AuthenticMembers, ViewInv, ViewTypeOK
  <2>3. floor \subseteq Nat /\ open \subseteq Nat
    BY <2>2, DivergentAreSizes DEF EquivocationFloor, UnresolvedDivergences, Least
  <2>4. ViewTypeOK'
    BY <1>1, <2>1, <2>2, <2>3 DEF ViewInv, ViewTypeOK, Steps, Verdicts, Size
  <2>5. (series \subseteq Offered)' /\ ~Established' /\ AccusedSignedTwoRoots'
    BY <1>1, <2>1 DEF ViewInv, ViewTypeOK, Offered, Published, Established, AccusedSignedTwoRoots
  <2>6. cp' \in series' /\ Size(cp') = target'
    BY <1>1, <2>1 DEF ViewInv, ViewTypeOK, Size
  <2>7. Weighed'
    <3>1. got' = cp'.root /\ SignatureVerifies(cp', LogKeysFor(ChainOf(got'), target'))
      BY <1>5, <2>1 DEF Grounded
    <3>2. authentic' = AuthenticMembers(ChainOf(got))'
      BY <2>1 DEF AuthenticMembers, SignatureVerifies, Size
    <3>3. (AtOrBeyond(EquivocationFloor(authentic)) = {})'
      BY <1>5, <2>1 DEF AtOrBeyond, EquivocationFloor, Divergent, Size
    <3>4. (AtOrBeyond(UnresolvedDivergences(series, authentic)) = {})'
      BY <1>5, <2>1 DEF AtOrBeyond, UnresolvedDivergences, Divergent, Size
    <3>5. (notes = EquivocationFloor(authentic) \cup UnresolvedDivergences(series, authentic))'
      BY <2>1 DEF EquivocationFloor, UnresolvedDivergences, Divergent, Size
    <3> QED BY <3>1, <3>2, <3>3, <3>4, <3>5 DEF Weighed, SignatureVerifies
  <2> QED BY <2>1, <2>4, <2>5, <2>6, <2>7 DEF ViewInv
<1> QED BY <1>2, <1>3, <1>4, <1>5

\* The neighbours: what is established was weighed before.
LEMMA EstablishesView ==
  ASSUME ViewInv, step \in {"precede", "succeed"}, UNCHANGED envVars, sent' \in 0..limit,
         UNCHANGED <<target, series, cp, got, requests, authentic, notes>>,
         \/ step' = "succeed" /\ verdict' = "none"
         \/ step' = "done" /\ verdict' = "established"
  PROVE  ViewInv'
<1> USE DEF envVars
<1>1. ViewTypeOK'
  BY DEF ViewInv, ViewTypeOK, Steps, Verdicts, Size
<1>2. (series \subseteq Offered)' /\ AccusedSignedTwoRoots'
  BY DEF ViewInv, Offered, Published, AccusedSignedTwoRoots
<1>3. Weighed /\ cp \in series /\ Size(cp) = target
  BY DEF ViewInv
<1>4. Weighed'
  BY <1>3 DEF Weighed, AuthenticMembers, AtOrBeyond, EquivocationFloor, UnresolvedDivergences, SignatureVerifies, Divergent, Size
<1> QED BY <1>1, <1>2, <1>3, <1>4 DEF ViewInv, Size

LEMMA CostsAreNumbers ==
  ASSUME NEW cached
  PROVE  RangeCosts(cached) \subseteq Nat /\ Costs(cached) \subseteq Nat /\ \A S : ProofCost(S) \in Nat
BY DEF RangeCosts, Costs, ProofCost

LEMMA EstablishView ==
  ASSUME world \in Worlds, ViewInv, NEW cached, EstablishStep(cached)
  PROVE  ViewInv'
<1>1. CASE \E S \in SeriesAnswers : ReadSeries(S)
  BY <1>1, ReadSeriesView
<1>2. CASE Limited(cached)
  BY <1>2, EndsView DEF Limited, ViewInv, ViewTypeOK
<1>3. CASE \E a \in RangeAnswers, cost \in RangeCosts(cached) : ReadRange(a[1], a[2].root, cost)
  BY <1>3, CostsAreNumbers, ReadRangeView
<1>4. CASE Ground
  BY <1>4, GroundView
<1>5. CASE \E given \in ProofAnswers : Precede(given)
  BY <1>5, CostsAreNumbers, SendsView, EndsView, EstablishesView DEF Precede, ViewInv, ViewTypeOK
<1>6. CASE \E given \in ProofAnswers : Succeed(given)
  BY <1>6, CostsAreNumbers, SendsView, EndsView, EstablishesView DEF Succeed, Ends
<1>7. CASE Unanswered(cached)
  BY <1>7, CostsAreNumbers, SendsView, EndsView DEF Unanswered
<1> QED BY <1>1, <1>2, <1>3, <1>4, <1>5, <1>6, <1>7 DEF EstablishStep

\* Nothing of a view changes, but for what else is sent.
LEMMA ViewStays ==
  ASSUME ViewInv, UNCHANGED <<envVars, viewVars>>, sent' \in 0..limit
  PROVE  ViewInv'
<1> USE DEF envVars, viewVars
<1>1. ViewTypeOK' /\ (series \subseteq Offered)' /\ (Established' => Established)
  BY DEF ViewInv, ViewTypeOK, Offered, Published, Established, Size
<1>2. AccusedSignedTwoRoots'
  <2>1. {world.history[n] : n \in 1..upto}' = {world.history[n] : n \in 1..upto}
    OBVIOUS
  <2>2. (Divergent({world.history[n] : n \in 1..upto}))' = Divergent({world.history[n] : n \in 1..upto})
    BY <2>1 DEF Divergent, Size
  <2> QED BY <2>2 DEF ViewInv, AccusedSignedTwoRoots
<1>3. Weighed => Weighed'
  BY DEF Weighed, AuthenticMembers, AtOrBeyond, EquivocationFloor, UnresolvedDivergences, SignatureVerifies,
         Divergent, Size
<1> QED BY <1>1, <1>2, <1>3 DEF ViewInv, Size

-----------------------------------------------------------------------------
\* What the weighing and the pinned genesis give together.
LEMMA ViewIsGrounded ==
  ASSUME world \in Worlds, ViewInv
  PROVE  GroundedInTheLog /\ NothingBeyondDivergence
<1> SUFFICES ASSUME Established PROVE GroundedInTheLog /\ NothingBeyondDivergence
  BY DEF GroundedInTheLog, NothingBeyondDivergence
<1>1. Weighed /\ cp \in Offered /\ cp \in Checkpoints /\ Size(cp) = target /\ target \in Nat /\ series \subseteq Checkpoints
  BY DEF ViewInv, ViewTypeOK
<1>2. got = cp.root /\ got \in Trees
  BY <1>1, CheckpointSizes DEF Weighed
<1>3. cp \in Published
  BY <1>1, <1>2, AuthenticIsPublished DEF Weighed
<1>4. GroundedInTheLog
  BY <1>2, <1>3 DEF GroundedInTheLog, Published, SameIdentity
<1>5. NothingBeyondDivergence
  BY <1>1, WeighedDivergence DEF NothingBeyondDivergence
<1> QED BY <1>4, <1>5
=============================================================================
