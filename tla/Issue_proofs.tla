---------------------------- MODULE Issue_proofs ----------------------------
(***************************************************************************)
(* What holds of every receipt, for any number of runs, of witnesses and   *)
(* of manifest versions, against an honest mirror and a lying one.         *)
(*                                                                         *)
(* Each fact about a run or a receipt is a predicate of the value and of   *)
(* the servers it is judged against (l for log, m for minted, s for seen), *)
(* so that one lemma says what a step of somebody else leaves true of it.  *)
(***************************************************************************)
EXTENDS Issue, FiniteSetTheorems, NaturalsInduction, WellFoundedInduction, TLAPS

\* A checkpoint a run met: the log signed it, or it never will.
Known(c, l, m) == c \in Checkpoint /\ c.size <= Len(l) /\ (c \in m \/ c.time = 0)

\* Some witness w of the version before index i holds a checkpoint past it.
Attested(i, w, over, l, s) ==
  \E out \in Below(l, i) : /\ IsActive(l, i, out)
                           /\ w \in DeclaredAt(l, out)
                           /\ over \in s[w] /\ over.size > i

ProvedAt(p, l, s) == \E w \in p.by : Attested(p.index, w, p.over, l, s)

CosignedOver(cosignatures, c, s) == \A x \in cosignatures : x.over = c /\ c \in s[x.by]

\* The checkpoint of a receipt and the later one it carries.
Continued(x, l, m) ==
  /\ Known(x.later, l, m)
  /\ Authentic(x.later, x.window)
  /\ Extends(x.later, x.cp)
  /\ \A i \in ManifestIndices(x.window) : i < x.cp.size
  /\ \E i \in Below(x.prefix, x.cp.size) : /\ IsActive(x.prefix, x.cp.size, i)
                                           /\ IsActive(x.window, x.later.size, i)

Later   == {"later_history", "later_cosign", "assemble"}
Judging == {"history", "cosign", "proof", "attest", "series", "window"} \cup Later
Placed  == {"stage", "ingest", "enumerate"} \cup Judging
Asking  == {"history", "cosign", "attest", "later_history", "later_cosign"}

HasWhatItNeeds(x, l, m) ==
  /\ x.pc \notin Ended \cup {"idle"} => x.env \in Envelope
  /\ x.pc \in {"place", "retrieve"} \cup Placed => x.index \in Nat
  /\ x.pc \in {"retrieve", "stage", "ingest"} => x.index < Len(l)
  /\ x.pc \in {"stage", "ingest"} => x.cp \in m
  /\ x.pc \in Placed => Known(x.cp, l, m)
  /\ x.pc \in Asking => x.todo # <<>>
  /\ x.pc = "attest" => x.element \in Checkpoint
  /\ x.pc = "window" => /\ Known(x.horizon, l, m)
                        /\ \A d \in x.published :
                             /\ Known(d, l, m)
                             /\ x.cp.size < d.size /\ d.size <= x.horizon.size
  /\ x.pc \in {"later_history", "later_cosign"} => x.later # None

Cosigned(x, s) ==
  /\ x.pc \notin Judging => x.cos = {}
  /\ x.pc \notin Later => x.lcos = {} /\ x.later = None
  /\ CosignedOver(x.cos, x.cp, s)
  /\ CosignedOver(x.lcos, x.later, s)
  /\ x.later = None => x.lcos = {}

Proving(x, l, s) ==
  /\ x.pc \in Judging =>
       {p.index : p \in x.proofs} \cup x.owed = Rotations(x.prefix, x.cp.size)
  /\ x.pc \in {"series", "window"} \cup Later => x.owed = {}
  /\ x.pc \notin Judging => x.proofs = {}
  /\ \A p \in x.proofs : ProvedAt(p, l, s)
  /\ x.pc = "attest" =>
       \A i \in x.owed, y \in x.served :
          (\A j \in x.owed : i <= j) => Attested(i, y.by, y.over, l, s)

RunOK(x, l, m, s) ==
  /\ HasWhatItNeeds(x, l, m)
  /\ Cosigned(x, s)
  /\ Proving(x, l, s)
  /\ x.later # None => Continued(x, l, m)

AccountedIn(cosignatures, l, size) ==
  \A x \in cosignatures :
     \E i \in Below(l, size) : IsActive(l, size, i) /\ x.by \in DeclaredAt(l, i)

ReceiptOK(c, l, m, s) ==
  /\ Known(c.cp, l, m)
  /\ c.later # None => Known(c.later, l, m)
  /\ CosignedOver(c.cos, c.cp, s) /\ CosignedOver(c.lcos, c.later, s)
  /\ \A p \in c.proofs : ProvedAt(p, l, s)
  /\ c.cp \in m =>
       /\ c.index < c.cp.size /\ l[c.index + 1] = c.env
       /\ AccountedIn(c.cos \cup c.lcos, l, c.cp.size)
       /\ {p.index : p \in c.proofs} = Rotations(l, c.cp.size)
       /\ c.later \in m =>
            \A i \in ManifestIndices(l) : ~(c.cp.size <= i /\ i < c.later.size)

ServersOK ==
  /\ IsFiniteSet(minted)
  /\ \A c \in minted : /\ c.size <= Len(log) /\ c.time # 0
                       /\ c.root = SubSeq(log, 1, c.size)
  /\ series \subseteq minted
  /\ \A w \in Witnesses : \A c \in seen[w] : c.size <= Len(log)

IInv ==
  /\ TypeOK
  /\ ServersOK
  /\ \A r \in Runs : RunOK(run[r], log, minted, seen)
  /\ \A c \in receipts : ReceiptOK(c, log, minted, seen)

-----------------------------------------------------------------------------
\* A tree decides the governance of every prefix of it.
LEMMA SamePrefix ==
  ASSUME NEW a \in Trees, NEW b \in Trees, NEW n \in Nat,
         n <= Len(a), n <= Len(b), \A k \in 1..n : a[k] = b[k]
  PROVE  /\ Below(a, n) = Below(b, n)
         /\ \A i : IsActive(a, n, i) <=> IsActive(b, n, i)
         /\ \A i \in Below(a, n) : DeclaredAt(a, i) = DeclaredAt(b, i)
<1>1. Below(a, n) = Below(b, n)
  BY DEF Below, ManifestIndices, Trees
<1>2. \A i \in Below(a, n) : DeclaredAt(a, i) = DeclaredAt(b, i)
  BY DEF Below, ManifestIndices, DeclaredAt, Trees
<1> QED BY <1>1, <1>2 DEF IsActive

LEMMA SameRotations ==
  ASSUME NEW a \in Trees, NEW b \in Trees, NEW n \in Nat,
         n <= Len(a), n <= Len(b), \A k \in 1..n : a[k] = b[k]
  PROVE  Rotations(a, n) = Rotations(b, n)
<1>1. Below(a, n) = Below(b, n)
  BY SamePrefix
<1>2. ASSUME NEW i \in Below(a, n), NEW out \in 0..i
      PROVE  (IsActive(a, i, out) /\ DeclaredAt(a, out) # DeclaredAt(a, i))
               <=> (IsActive(b, i, out) /\ DeclaredAt(b, out) # DeclaredAt(b, i))
  <2>1. i \in Nat /\ i < n
    BY DEF Below, ManifestIndices, Trees
  <2>2. IsActive(a, i, out) <=> IsActive(b, i, out)
    BY <2>1, SamePrefix
  <2>3. DeclaredAt(a, i) = DeclaredAt(b, i)
    BY SamePrefix
  <2>4. IsActive(a, i, out) => DeclaredAt(a, out) = DeclaredAt(b, out)
    BY <2>1, SamePrefix DEF IsActive
  <2> QED BY <2>2, <2>3, <2>4
<1> QED BY <1>1, <1>2 DEF Rotations

\* What the servers of a later state know, of those of an earlier one.
Grows(l, m, s, l2, m2, s2) ==
  /\ Len(l) <= Len(l2) /\ \A k \in 1..Len(l) : l2[k] = l[k]
  /\ m \subseteq m2 /\ \A c \in m2 \ m : c.time # 0
  /\ \A w \in Witnesses : /\ s[w] \subseteq s2[w]
                          /\ \A c \in s[w] : c.size <= Len(l)

ServerTypes(l, m, s) ==
  l \in Trees /\ m \in SUBSET Checkpoint /\ s \in [Witnesses -> SUBSET Checkpoint]

LEMMA KnownGrows ==
  ASSUME NEW l, NEW m, NEW s, NEW l2, NEW m2, NEW s2,
         ServerTypes(l, m, s), ServerTypes(l2, m2, s2), Grows(l, m, s, l2, m2, s2),
         NEW c, Known(c, l, m)
  PROVE  Known(c, l2, m2) /\ (c \in m2 => c \in m)
BY DEF ServerTypes, Grows, Known, Checkpoint, Trees

LEMMA AttestedGrows ==
  ASSUME NEW l, NEW m, NEW s, NEW l2, NEW m2, NEW s2,
         ServerTypes(l, m, s), ServerTypes(l2, m2, s2), Grows(l, m, s, l2, m2, s2),
         NEW i \in Nat, NEW w \in Witnesses, NEW c, Attested(i, w, c, l, s)
  PROVE  Attested(i, w, c, l2, s2)
<1>1. PICK out \in Below(l, i) : /\ IsActive(l, i, out) /\ w \in DeclaredAt(l, out)
                                 /\ c \in s[w] /\ c.size > i
  BY DEF Attested
<1>2. c \in s2[w] /\ i <= Len(l) /\ l \in Trees /\ l2 \in Trees /\ i <= Len(l2)
  BY <1>1 DEF Grows, ServerTypes, Checkpoint, Trees
<1>3. \A k \in 1..i : l[k] = l2[k]
  BY <1>2 DEF Grows, Trees
<1>4. out \in Below(l2, i) /\ IsActive(l2, i, out) /\ DeclaredAt(l2, out) = DeclaredAt(l, out)
  BY <1>1, <1>2, <1>3, SamePrefix
<1> QED BY <1>1, <1>2, <1>4 DEF Attested

\* Nothing a run or a receipt rests on is taken back as the servers grow.
LEMMA EvidenceGrows ==
  ASSUME NEW l, NEW m, NEW s, NEW l2, NEW m2, NEW s2,
         ServerTypes(l, m, s), ServerTypes(l2, m2, s2), Grows(l, m, s, l2, m2, s2)
  PROVE  /\ \A X \in SUBSET [by : Witnesses, over : Checkpoint] : \A c :
              CosignedOver(X, c, s) => CosignedOver(X, c, s2)
         /\ \A p \in [index : Nat, over : Checkpoint, by : SUBSET Witnesses] :
              ProvedAt(p, l, s) => ProvedAt(p, l2, s2)
<1>1. ASSUME NEW X \in SUBSET [by : Witnesses, over : Checkpoint], NEW c,
             CosignedOver(X, c, s)
      PROVE  CosignedOver(X, c, s2)
  BY <1>1 DEF CosignedOver, Grows
<1>2. ASSUME NEW p \in [index : Nat, over : Checkpoint, by : SUBSET Witnesses],
             ProvedAt(p, l, s)
      PROVE  ProvedAt(p, l2, s2)
  <2>1. PICK w \in p.by : Attested(p.index, w, p.over, l, s)
    BY <1>2 DEF ProvedAt
  <2>2. p.index \in Nat /\ w \in Witnesses
    BY <2>1
  <2>3. Attested(p.index, w, p.over, l2, s2)
    BY <2>1, <2>2, AttestedGrows
  <2> QED BY <2>1, <2>3 DEF ProvedAt
<1> QED BY <1>1, <1>2

LEMMA RunGrows ==
  ASSUME NEW l, NEW m, NEW s, NEW l2, NEW m2, NEW s2,
         ServerTypes(l, m, s), ServerTypes(l2, m2, s2), Grows(l, m, s, l2, m2, s2),
         NEW x \in RunState, RunOK(x, l, m, s)
  PROVE  RunOK(x, l2, m2, s2)
<1>1. \A c : Known(c, l, m) => Known(c, l2, m2)
  BY KnownGrows
<1>2. HasWhatItNeeds(x, l2, m2)
  <2>1. x.index < Len(l) /\ x.index \in Nat => x.index < Len(l2)
    BY DEF Grows, ServerTypes, Trees
  <2>2. x.cp \in m => x.cp \in m2
    BY DEF Grows
  <2>3. HasWhatItNeeds(x, l, m)
    BY DEF RunOK
  <2> QED BY <1>1, <2>1, <2>2, <2>3 DEF HasWhatItNeeds, Placed
<1>3. Cosigned(x, s2)
  BY EvidenceGrows DEF RunOK, Cosigned, RunState
<1>4. Proving(x, l2, s2)
  <2>1. \A p \in x.proofs : ProvedAt(p, l2, s2)
    BY EvidenceGrows DEF RunOK, Proving, RunState
  <2>2. ASSUME x.pc = "attest", NEW i \in x.owed, NEW y \in x.served,
               \A j \in x.owed : i <= j
        PROVE  Attested(i, y.by, y.over, l2, s2)
    <3>1. Attested(i, y.by, y.over, l, s)
      BY <2>2 DEF RunOK, Proving
    <3>2. i \in Nat /\ y.by \in Witnesses
      BY DEF RunState
    <3> QED BY <3>1, <3>2, AttestedGrows
  <2> QED BY <2>1, <2>2 DEF RunOK, Proving
<1>5. x.later # None => Continued(x, l2, m2)
  BY <1>1 DEF RunOK, Continued
<1> QED BY <1>2, <1>3, <1>4, <1>5 DEF RunOK

LEMMA ReceiptGrows ==
  ASSUME NEW l, NEW m, NEW s, NEW l2, NEW m2, NEW s2,
         ServerTypes(l, m, s), ServerTypes(l2, m2, s2), Grows(l, m, s, l2, m2, s2),
         NEW c \in Receipt, ReceiptOK(c, l, m, s)
  PROVE  ReceiptOK(c, l2, m2, s2)
<1>1. Known(c.cp, l2, m2) /\ (c.cp \in m2 => c.cp \in m)
  BY KnownGrows DEF ReceiptOK
<1>2. c.later # None => Known(c.later, l2, m2) /\ (c.later \in m2 => c.later \in m)
  BY KnownGrows DEF ReceiptOK
<1>3. CosignedOver(c.cos, c.cp, s2) /\ CosignedOver(c.lcos, c.later, s2)
  BY EvidenceGrows DEF ReceiptOK, Receipt
<1>4. \A p \in c.proofs : ProvedAt(p, l2, s2)
  BY EvidenceGrows DEF ReceiptOK, Receipt
<1>5. ASSUME c.cp \in m2
      PROVE  /\ c.index < c.cp.size /\ l2[c.index + 1] = c.env
             /\ AccountedIn(c.cos \cup c.lcos, l2, c.cp.size)
             /\ {p.index : p \in c.proofs} = Rotations(l2, c.cp.size)
             /\ c.later \in m2 =>
                  \A i \in ManifestIndices(l2) : ~(c.cp.size <= i /\ i < c.later.size)
  <2> DEFINE n == c.cp.size
  <2>1. /\ c.cp \in m /\ n \in Nat /\ n <= Len(l) /\ n <= Len(l2)
        /\ l \in Trees /\ l2 \in Trees /\ c.index \in Nat
    BY <1>1, <1>5 DEF ReceiptOK, Known, Checkpoint, Receipt, ServerTypes
  <2>2. \A k \in 1..n : l[k] = l2[k]
    BY <2>1 DEF Grows, Trees
  <2>3. /\ c.index < n /\ l[c.index + 1] = c.env
        /\ AccountedIn(c.cos \cup c.lcos, l, n)
        /\ {p.index : p \in c.proofs} = Rotations(l, n)
    BY <2>1 DEF ReceiptOK
  <2>4. /\ Below(l, n) = Below(l2, n)
        /\ \A i : IsActive(l, n, i) <=> IsActive(l2, n, i)
        /\ \A i \in Below(l, n) : DeclaredAt(l, i) = DeclaredAt(l2, i)
        /\ Rotations(l, n) = Rotations(l2, n)
    BY <2>1, <2>2, SamePrefix, SameRotations
  <2>5. l2[c.index + 1] = c.env
    BY <2>1, <2>2, <2>3
  <2>6. AccountedIn(c.cos \cup c.lcos, l2, n)
    BY <2>3, <2>4 DEF AccountedIn
  <2>7. ASSUME c.later \in m2, NEW i \in ManifestIndices(l2), n <= i, i < c.later.size
        PROVE  FALSE
    <3>1. c.later \in Checkpoint /\ c.later # None
      BY <2>7, NoneApart DEF ServerTypes
    <3>2. c.later \in m /\ c.later.size \in Nat /\ c.later.size <= Len(l) /\ i \in Nat
      BY <1>2, <2>7, <3>1 DEF ReceiptOK, Known, Checkpoint, ManifestIndices, ServerTypes, Trees
    <3>3. i \in ManifestIndices(l)
      BY <2>1, <2>7, <3>2 DEF Grows, ManifestIndices, Trees
    <3> QED BY <2>1, <2>7, <3>2, <3>3 DEF ReceiptOK
  <2> QED BY <2>3, <2>4, <2>5, <2>6, <2>7 DEF ManifestIndices
<1> QED BY <1>1, <1>2, <1>3, <1>4, <1>5 DEF ReceiptOK

-----------------------------------------------------------------------------
ServersTyped ==
  /\ log \in Trees /\ minted \in SUBSET Checkpoint
  /\ staged \in SUBSET Envelope /\ held \in SUBSET (0..(Len(log) - 1))
  /\ series \in SUBSET Checkpoint
  /\ seen \in [Witnesses -> SUBSET Checkpoint]
  /\ mirror \in Mirrors
  /\ starts \in Nat /\ crashes \in Nat /\ overlapped \in BOOLEAN

\* A step of one run that installs nothing, in servers that only grow.
LEMMA RunStep ==
  ASSUME IInv, ServersTyped', ServersOK', UNCHANGED receipts,
         Grows(log, minted, seen, log', minted', seen')
  PROVE  \A r \in Runs, x \in RunState :
           Go(r, x) /\ RunOK(x, log', minted', seen') => IInv'
<1> SUFFICES ASSUME NEW r \in Runs, NEW x \in RunState,
                    Go(r, x), RunOK(x, log', minted', seen')
             PROVE  IInv'
  OBVIOUS
<1>1. ServerTypes(log, minted, seen) /\ ServerTypes(log', minted', seen')
  BY DEF IInv, TypeOK, ServersTyped, ServerTypes
<1>2. run \in [Runs -> RunState] /\ receipts \in SUBSET Receipt
  BY DEF IInv, TypeOK
<1>3. run' \in [Runs -> RunState] /\ run'[r] = x /\ \A q \in Runs \ {r} : run'[q] = run[q]
  BY <1>2 DEF Go
<1>4. TypeOK'
  BY <1>2, <1>3 DEF TypeOK, ServersTyped
<1>5. ASSUME NEW q \in Runs PROVE RunOK(run'[q], log', minted', seen')
  <2>1. CASE q = r
    BY <1>3, <2>1
  <2>2. CASE q # r
    <3>1. run[q] \in RunState /\ RunOK(run[q], log, minted, seen)
      BY <1>2 DEF IInv
    <3>2. RunOK(run[q], log', minted', seen')
      BY <1>1, <3>1, RunGrows
    <3> QED BY <1>3, <2>2, <3>2
  <2> QED BY <2>1, <2>2
<1>6. ASSUME NEW c \in receipts' PROVE ReceiptOK(c, log', minted', seen')
  <2>1. c \in Receipt /\ ReceiptOK(c, log, minted, seen)
    BY <1>2 DEF IInv
  <2> QED BY <1>1, <2>1, ReceiptGrows
<1> QED BY <1>4, <1>5, <1>6 DEF IInv

\* Servers that stay as they are grow.
LEMMA StayStill ==
  ASSUME IInv, UNCHANGED servers
  PROVE  ServersOK' /\ Grows(log, minted, seen, log', minted', seen')
<1>1. log' = log /\ minted' = minted /\ seen' = seen /\ series' = series
  BY DEF servers
<1>2. ServersOK'
  BY <1>1 DEF IInv, ServersOK
<1>3. Grows(log, minted, seen, log, minted, seen)
  BY DEF Grows, IInv, ServersOK, TypeOK, Trees
<1> QED BY <1>1, <1>2, <1>3

LEMMA LearnStep ==
  ASSUME IInv
  PROVE  \A r \in Runs, x \in RunState :
           Learn(r, x) /\ RunOK(x, log, minted, seen) => IInv'
<1> SUFFICES ASSUME NEW r \in Runs, NEW x \in RunState,
                    Learn(r, x), RunOK(x, log, minted, seen)
             PROVE  IInv'
  OBVIOUS
<1>1. Go(r, x) /\ UNCHANGED servers /\ UNCHANGED receipts /\ UNCHANGED ghosts
  BY DEF Learn
<1>2. log' = log /\ minted' = minted /\ seen' = seen
  BY <1>1 DEF servers
<1>3. ServersTyped'
  BY <1>1 DEF servers, ghosts, IInv, TypeOK, ServersTyped
<1> QED BY <1>1, <1>2, <1>3, StayStill, RunStep

LEMMA FreshRun == NewRun \in RunState
<1>1. <<>> \in Trees /\ <<>> \in Seq(Witnesses)
  BY DEF Trees
<1>2. "idle" \in Labels
  BY DEF Labels
<1> QED BY <1>1, <1>2 DEF NewRun, RunState

\* A run that has nothing in hand is in order, whatever the servers hold.
LEMMA NothingInHand ==
  ASSUME NEW l, NEW m, NEW s, NEW label \in Ended \cup {"idle"}
  PROVE  LET x == [NewRun EXCEPT !.pc = label]
         IN  x \in RunState /\ RunOK(x, l, m, s)
<1> DEFINE x == [NewRun EXCEPT !.pc = label]
<1>1. x \in RunState
  <2>1. label \in Labels
    BY DEF Labels
  <2> QED BY <2>1, FreshRun DEF RunState
<1>2. x.pc = label /\ x.cos = {} /\ x.lcos = {} /\ x.proofs = {} /\ x.later = None
  BY DEF NewRun
<1>3. x.pc \notin {"place", "retrieve", "window"} \cup Placed
  BY <1>2 DEF Ended, Placed, Judging, Later
<1> QED BY <1>1, <1>2, <1>3
     DEF RunOK, HasWhatItNeeds, Cosigned, CosignedOver, Proving, Placed, Judging, Later, Asking

LEMMA FailStep ==
  ASSUME IInv, NEW r \in Runs, Fail(r)
  PROVE  IInv'
<1> DEFINE x == [NewRun EXCEPT !.pc = "failed"]
<1>1. Learn(r, x)
  BY DEF Fail, End, Learn
<1>2. x \in RunState /\ RunOK(x, log, minted, seen)
  BY NothingInHand DEF Ended
<1> QED BY <1>1, <1>2, LearnStep

-----------------------------------------------------------------------------
LEMMA SubSeqTree ==
  ASSUME NEW tree \in Trees, NEW n \in 0..Len(tree)
  PROVE  /\ SubSeq(tree, 1, n) \in Trees
         /\ Len(SubSeq(tree, 1, n)) = n
         /\ \A k \in 1..n : SubSeq(tree, 1, n)[k] = tree[k]
BY DEF Trees

\* Whatever a mirror answers for a tree is a sequence of envelopes.
LEMMA WindowsAreTrees ==
  ASSUME IInv, NEW n \in 1..Len(log)
  PROVE  Windows(n) \subseteq Trees
<1>1. log \in Trees /\ Len(log) \in Nat
  BY DEF IInv, TypeOK, Trees
<1>2. Prefix(n) \in Trees /\ Prefix(n - 1) \in Trees /\ Len(Prefix(n)) = n
  <2>1. n \in 0..Len(log) /\ n - 1 \in 0..Len(log)
    BY <1>1
  <2> QED BY <1>1, <2>1, SubSeqTree DEF Prefix
<1>3. \A i \in 1..n, e \in Envelope : [Prefix(n) EXCEPT ![i] = e] \in Trees
  BY <1>2 DEF Trees
<1> QED BY <1>2, <1>3 DEF Windows

LEMMA RangesAreTrees ==
  ASSUME IInv, NEW n \in Nat, n <= Len(log)
  PROVE  Ranges(n) \subseteq Trees
<1>1. log \in Trees
  BY DEF IInv, TypeOK
<1>2. Prefix(n) \in Trees
  BY <1>1, SubSeqTree DEF Prefix, Trees
<1> QED BY <1>2, WindowsAreTrees DEF Ranges

\* A checkpoint a mirror publishes is one of the log's, or was never signed.
LEMMA MintedKnown ==
  ASSUME IInv, NEW c \in minted
  PROVE  Known(c, log, minted)
BY DEF IInv, TypeOK, ServersOK, Known

LEMMA PublishedKnown ==
  ASSUME IInv, NEW published \in Published, NEW c \in published
  PROVE  Known(c, log, minted)
<1>1. \A d \in series : Known(d, log, minted)
  BY MintedKnown DEF IInv, ServersOK
<1>2. ASSUME NEW d \in Unsigned PROVE Known(d, log, minted)
  <2>1. PICK n \in 1..Len(log) :
          d \in {[size |-> n, root |-> w, time |-> 0] : w \in Windows(n)}
    BY <1>2 DEF Unsigned
  <2>2. d.root \in Trees /\ d = [size |-> n, root |-> d.root, time |-> 0]
    BY <2>1, WindowsAreTrees
  <2>3. log \in Trees /\ Len(log) \in Nat
    BY DEF IInv, TypeOK, Trees
  <2> QED BY <2>1, <2>2, <2>3 DEF Known, Checkpoint
<1>3. c \in series \/ c \in Unsigned
  BY DEF Published, Usable
<1> QED BY <1>1, <1>2, <1>3

\* What is in order about a run, spelled out.
LEMMA RunFacts ==
  ASSUME IInv, NEW r \in Runs
  PROVE  run[r] \in RunState /\ RunOK(run[r], log, minted, seen)
BY DEF IInv, TypeOK

-----------------------------------------------------------------------------
(***************************************************************************)
(* One lemma per action: it keeps IInv.                                    *)
(***************************************************************************)
LEMMA StartStep ==
  ASSUME IInv, NEW r \in Runs, Start(r)
  PROVE  IInv'
<1>1. PICK e \in Envelope, wants \in BOOLEAN :
        Go(r, [NewRun EXCEPT !.pc = "look", !.env = e, !.wants = wants])
  BY DEF Start
<1> DEFINE x == [NewRun EXCEPT !.pc = "look", !.env = e, !.wants = wants]
<1>3. x \in RunState
  <2>1. [NewRun EXCEPT !.pc = "look", !.env = e, !.wants = TRUE] \in RunState
    BY FreshRun DEF RunState, Labels
  <2>2. [NewRun EXCEPT !.pc = "look", !.env = e, !.wants = FALSE] \in RunState
    BY FreshRun DEF RunState, Labels
  <2>3. wants = TRUE \/ wants = FALSE
    OBVIOUS
  <2> QED BY <2>1, <2>2, <2>3, Zenon
<1>4. x.pc = "look" /\ x.env = e /\ x.cos = {} /\ x.lcos = {} /\ x.proofs = {} /\ x.later = None
  BY DEF NewRun
<1>5. RunOK(x, log, minted, seen)
  BY <1>3, <1>4
     DEF RunOK, HasWhatItNeeds, Cosigned, CosignedOver, Proving, Placed, Judging, Later, Asking
<1>6. UNCHANGED servers /\ UNCHANGED receipts
  BY DEF Start
<1>7. log' = log /\ minted' = minted /\ seen' = seen
  BY <1>6 DEF servers
<1>8. ServersTyped'
  BY <1>6 DEF Start, servers, IInv, TypeOK, ServersTyped
<1> QED BY <1>1, <1>3, <1>5, <1>6, <1>7, <1>8, StayStill, RunStep

LEMMA LookUpStep ==
  ASSUME IInv, NEW r \in Runs, LookUp(r)
  PROVE  IInv'
<1>1. run[r] \in RunState /\ RunOK(run[r], log, minted, seen) /\ run[r].pc = "look"
  BY RunFacts DEF LookUp, At
<1> DEFINE missing == [run[r] EXCEPT !.pc = "submit"]
           found(at) == [run[r] EXCEPT !.pc = "place", !.index = at, !.placed = TRUE]
<1>2. PICK at \in Places(run[r].env) :
        IF at = None THEN Learn(r, missing) ELSE Learn(r, found(at))
  BY DEF LookUp
<1>3. CASE at = None
  <2>1. missing \in RunState
    BY <1>1 DEF RunState, Labels
  <2>2. RunOK(missing, log, minted, seen)
    BY <1>1 DEF RunState, RunOK, HasWhatItNeeds, Cosigned, CosignedOver, Proving,
                Placed, Judging, Later, Asking, Ended
  <2> QED BY <1>2, <1>3, <2>1, <2>2, LearnStep
<1>4. CASE at # None
  <2>1. at \in Nat
    BY <1>4 DEF Places, IInv, TypeOK, Trees
  <2>2. found(at) \in RunState
    BY <1>1, <2>1 DEF RunState, Labels
  <2>3. RunOK(found(at), log, minted, seen)
    BY <1>1, <2>1 DEF RunState, RunOK, HasWhatItNeeds, Cosigned, CosignedOver, Proving,
                      Placed, Judging, Later, Asking, Ended
  <2> QED BY <1>2, <1>4, <2>2, <2>3, LearnStep
<1> QED BY <1>3, <1>4

LEMMA PlaceStep ==
  ASSUME IInv, NEW r \in Runs, Place(r)
  PROVE  IInv'
<1>1. run[r] \in RunState /\ RunOK(run[r], log, minted, seen) /\ run[r].pc = "place"
  BY RunFacts DEF Place, At
<1> DEFINE placed(c) == [run[r] EXCEPT !.pc = "enumerate", !.cp = c]
<1>2. CASE Fail(r)
  BY <1>2, FailStep
<1>3. ASSUME NEW published \in Published, NEW c \in Covers(published, run[r].index),
             Learn(r, placed(c))
      PROVE  IInv'
  <2>1. Known(c, log, minted)
    BY PublishedKnown DEF Covers
  <2>2. placed(c) \in RunState
    BY <1>1, <2>1 DEF RunState, Labels, Known
  <2>3. RunOK(placed(c), log, minted, seen)
    BY <1>1, <2>1 DEF RunState, RunOK, HasWhatItNeeds, Cosigned, CosignedOver, Proving,
                      Placed, Judging, Later, Asking, Ended
  <2> QED BY <1>3, <2>2, <2>3, LearnStep
<1> QED BY <1>2, <1>3 DEF Place

\* A checkpoint of the log stays one when an entry is appended.
LEMMA AppendKeepsPrefixes ==
  ASSUME NEW tree \in Trees, NEW e \in Envelope, NEW n \in 0..Len(tree)
  PROVE  /\ Append(tree, e) \in Trees
         /\ Len(Append(tree, e)) = Len(tree) + 1
         /\ \A k \in 1..Len(tree) : Append(tree, e)[k] = tree[k]
         /\ SubSeq(Append(tree, e), 1, n) = SubSeq(tree, 1, n)
BY DEF Trees

LEMMA SubmitStep ==
  ASSUME IInv, NEW r \in Runs, Submit(r)
  PROVE  IInv'
<1>1. run[r] \in RunState /\ RunOK(run[r], log, minted, seen) /\ run[r].pc = "submit"
  BY RunFacts DEF Submit, At
<1>2. run[r].env \in Envelope
  BY <1>1 DEF RunOK, HasWhatItNeeds, Ended
<1>3. log \in Trees /\ Len(log) \in Nat /\ log' = Append(log, run[r].env)
  BY DEF IInv, TypeOK, Trees, Submit
<1>4. /\ log' \in Trees /\ Len(log') = Len(log) + 1
      /\ \A k \in 1..Len(log) : log'[k] = log[k]
      /\ \A n \in 0..Len(log) : SubSeq(log', 1, n) = SubSeq(log, 1, n)
  <2>1. 0 \in 0..Len(log)
    BY <1>3
  <2> QED BY <1>2, <1>3, <2>1, AppendKeepsPrefixes
<1>5. /\ minted' = minted /\ staged' = staged /\ held' = held /\ series' = series
      /\ seen' = seen /\ mirror' = mirror /\ receipts' = receipts
      /\ starts' = starts /\ crashes' = crashes /\ overlapped' = overlapped
  BY DEF Submit, ghosts
<1>6. ServersTyped'
  BY <1>3, <1>4, <1>5 DEF IInv, TypeOK, ServersTyped
<1>7. ServersOK'
  <2>1. \A c \in minted : c.size \in 0..Len(log)
    BY <1>3 DEF IInv, TypeOK, ServersOK, Checkpoint
  <2>2. \A w \in Witnesses : \A c \in seen[w] : c.size \in Nat
    BY DEF IInv, TypeOK, Checkpoint
  <2> QED BY <1>3, <1>4, <1>5, <2>1, <2>2 DEF IInv, ServersOK
<1>8. Grows(log, minted, seen, log', minted', seen')
  BY <1>3, <1>4, <1>5 DEF Grows, IInv, ServersOK
<1> DEFINE x == [run[r] EXCEPT !.pc = "retrieve", !.index = Len(log)]
<1>9. x \in RunState
  BY <1>1, <1>3 DEF RunState, Labels
<1>10. RunOK(x, log', minted', seen')
  BY <1>1, <1>3, <1>4, <1>5
     DEF RunState, RunOK, HasWhatItNeeds, Cosigned, CosignedOver, Proving,
         Placed, Judging, Later, Asking, Ended
<1>11. Go(r, x)
  BY DEF Submit
<1> QED BY <1>5, <1>6, <1>7, <1>8, <1>9, <1>10, <1>11, RunStep

LEMMA RetrieveStep ==
  ASSUME IInv, NEW r \in Runs, Retrieve(r)
  PROVE  IInv'
<1>1. run[r] \in RunState /\ RunOK(run[r], log, minted, seen) /\ run[r].pc = "retrieve"
  BY RunFacts DEF Retrieve, At
<1> DEFINE same == {d \in minted : d.size = Len(log)}
           c    == [size |-> Len(log), root |-> log, time |-> Cardinality(same) + 1]
           x    == [run[r] EXCEPT !.pc = "stage", !.cp = c]
<1>2. log \in Trees /\ Len(log) \in Nat /\ SubSeq(log, 1, Len(log)) = log
  BY DEF IInv, TypeOK, Trees
<1>3. Cardinality(same) \in Nat
  <2>1. IsFiniteSet(minted) /\ same \subseteq minted
    BY DEF IInv, ServersOK
  <2> QED BY <2>1, FS_Subset, FS_CardinalityType
<1>4. c \in Checkpoint /\ c.size = Len(log) /\ c.root = log /\ c.time # 0
  BY <1>2, <1>3 DEF Checkpoint
<1>5. minted' = minted \cup {c} /\ Go(r, x)
  BY DEF Retrieve
<1> HIDE DEF c
<1>6. /\ log' = log /\ staged' = staged /\ held' = held /\ series' = series
      /\ seen' = seen /\ mirror' = mirror /\ receipts' = receipts
      /\ starts' = starts /\ crashes' = crashes /\ overlapped' = overlapped
  BY DEF Retrieve, ghosts
<1>7. ServersTyped'
  BY <1>4, <1>5, <1>6 DEF IInv, TypeOK, ServersTyped
<1>8. ServersOK'
  <2>1. IsFiniteSet(minted')
    BY <1>5, FS_AddElement DEF IInv, ServersOK
  <2> QED BY <1>2, <1>4, <1>5, <1>6, <2>1 DEF IInv, ServersOK
<1>9. Grows(log, minted, seen, log', minted', seen')
  BY <1>2, <1>4, <1>5, <1>6 DEF Grows, IInv, ServersOK
<1>10. x \in RunState
  BY <1>1, <1>4 DEF RunState, Labels
<1>11. RunOK(x, log', minted', seen')
  BY <1>1, <1>2, <1>4, <1>5, <1>6
     DEF RunState, RunOK, HasWhatItNeeds, Cosigned, CosignedOver, Proving,
         Placed, Judging, Later, Asking, Ended, Known
<1> QED BY <1>5, <1>6, <1>7, <1>8, <1>9, <1>10, <1>11, RunStep

LEMMA StageStep ==
  ASSUME IInv, NEW r \in Runs, Stage(r)
  PROVE  IInv'
<1>1. run[r] \in RunState /\ RunOK(run[r], log, minted, seen) /\ run[r].pc = "stage"
  BY RunFacts DEF Stage, At
<1> DEFINE x == [run[r] EXCEPT !.pc = "ingest"]
<1>2. /\ log' = log /\ minted' = minted /\ held' = held /\ series' = series
      /\ seen' = seen /\ mirror' = mirror /\ receipts' = receipts
      /\ starts' = starts /\ crashes' = crashes /\ overlapped' = overlapped
      /\ staged' = staged \cup {run[r].env} /\ Go(r, x)
  BY DEF Stage, ghosts
<1>3. ServersTyped'
  BY <1>1, <1>2 DEF IInv, TypeOK, ServersTyped, RunOK, HasWhatItNeeds, Ended
<1>4. ServersOK' /\ Grows(log, minted, seen, log', minted', seen')
  BY <1>2 DEF IInv, ServersOK, Grows, TypeOK, Trees
<1>5. x \in RunState
  BY <1>1 DEF RunState, Labels
<1>6. RunOK(x, log', minted', seen')
  BY <1>1, <1>2
     DEF RunState, RunOK, HasWhatItNeeds, Cosigned, CosignedOver, Proving,
         Placed, Judging, Later, Asking, Ended
<1> QED BY <1>2, <1>3, <1>4, <1>5, <1>6, RunStep

LEMMA IngestStep ==
  ASSUME IInv, NEW r \in Runs, Ingest(r)
  PROVE  IInv'
<1>1. run[r] \in RunState /\ RunOK(run[r], log, minted, seen) /\ run[r].pc = "ingest"
  BY RunFacts DEF Ingest, At
<1> DEFINE x == [run[r] EXCEPT !.pc = "enumerate"]
<1>2. /\ log' = log /\ minted' = minted /\ staged' = staged
      /\ seen' = seen /\ mirror' = mirror /\ receipts' = receipts
      /\ starts' = starts /\ crashes' = crashes /\ overlapped' = overlapped
      /\ held' = held \cup {run[r].index} /\ series' = series \cup {run[r].cp}
      /\ Go(r, x)
  BY DEF Ingest, ghosts
<1>3. run[r].index \in 0..(Len(log) - 1) /\ run[r].cp \in minted
  BY <1>1 DEF RunOK, HasWhatItNeeds, Placed, IInv, TypeOK, Trees
<1>4. ServersTyped'
  BY <1>2, <1>3 DEF IInv, TypeOK, ServersTyped
<1>5. ServersOK' /\ Grows(log, minted, seen, log', minted', seen')
  BY <1>2, <1>3 DEF IInv, ServersOK, Grows, TypeOK, Trees
<1>6. x \in RunState
  BY <1>1 DEF RunState, Labels
<1>7. RunOK(x, log', minted', seen')
  BY <1>1, <1>2
     DEF RunState, RunOK, HasWhatItNeeds, Cosigned, CosignedOver, Proving,
         Placed, Judging, Later, Asking, Ended
<1> QED BY <1>2, <1>4, <1>5, <1>6, <1>7, RunStep

LEMMA EnumerateStep ==
  ASSUME IInv, NEW r \in Runs, Enumerate(r)
  PROVE  IInv'
<1>1. run[r] \in RunState /\ RunOK(run[r], log, minted, seen) /\ run[r].pc = "enumerate"
  BY RunFacts DEF Enumerate, At
<1> DEFINE size == run[r].cp.size
           x(entries) == [run[r] EXCEPT !.pc = "history", !.prefix = entries,
                                        !.todo = Endpoints,
                                        !.owed = Rotations(entries, size)]
<1>2. Known(run[r].cp, log, minted) /\ size \in Nat /\ size <= Len(log)
  BY <1>1 DEF RunOK, HasWhatItNeeds, Placed, Known, Checkpoint
<1>3. CASE Fail(r)
  BY <1>3, FailStep
<1>4. ASSUME NEW entries \in Ranges(size), Learn(r, x(entries))
      PROVE  IInv'
  <2>1. entries \in Trees
    BY <1>2, RangesAreTrees
  <2>2. Rotations(entries, size) \subseteq Nat
    BY DEF Rotations, Below, ManifestIndices
  <2>3. Endpoints \in Seq(Witnesses) /\ Endpoints # <<>>
    BY EndpointsAssumption, SomeWitness
  <2>4. x(entries) \in RunState
    <3>1. ASSUME NEW owed \in SUBSET Nat, NEW todo \in Seq(Witnesses)
          PROVE  [run[r] EXCEPT !.pc = "history", !.prefix = entries,
                                !.todo = todo, !.owed = owed] \in RunState
      <4>1. "history" \in Labels
        BY DEF Labels
      <4> QED BY <1>1, <2>1, <4>1 DEF RunState
    <3> QED BY <2>2, <2>3, <3>1
  <2>5. RunOK(x(entries), log, minted, seen)
    BY <1>1, <2>3
       DEF RunState, RunOK, HasWhatItNeeds, Cosigned, CosignedOver, Proving,
           Placed, Judging, Later, Asking, Ended
  <2> QED BY <1>4, <2>4, <2>5, LearnStep
<1> QED BY <1>3, <1>4 DEF Enumerate

LEMMA OnwardIs ==
  ASSUME NEW todo, NEW owed, NEW wants
  PROVE  LET to == Onward(todo, owed, wants)
         IN  /\ to \in {"history", "proof", "series", "assemble"}
             /\ to \in Labels \ Ended
             /\ to = "history" => todo # <<>>
             /\ to \in {"series", "assemble"} => owed = {}
BY DEF Onward, Labels, Ended

LEMMA OnwardLaterIs ==
  ASSUME NEW todo
  PROVE  LET to == OnwardLater(todo)
         IN  /\ to \in {"later_history", "assemble"}
             /\ to \in Labels \ Ended
             /\ to = "later_history" => todo # <<>>
BY DEF OnwardLater, Labels, Ended

\* The witness a run asks next, and those left to ask.
LEMMA NextWitness ==
  ASSUME IInv, NEW r \in Runs, run[r].pc \in Asking
  PROVE  Head(run[r].todo) \in Witnesses /\ Tail(run[r].todo) \in Seq(Witnesses)
BY RunFacts DEF RunOK, HasWhatItNeeds, RunState

\* One more cosignature over the checkpoint in hand, and the run moves on.
LEMMA CosignatureTaken ==
  ASSUME NEW l, NEW m, NEW s, NEW x \in RunState, RunOK(x, l, m, s),
         x.pc \in {"history", "cosign"},
         NEW w \in Witnesses, x.cp \in s[w], NEW rest \in Seq(Witnesses)
  PROVE  LET y == [x EXCEPT !.pc   = Onward(rest, x.owed, x.wants),
                            !.cos  = @ \cup {[by |-> w, over |-> x.cp]},
                            !.todo = rest]
         IN  y \in RunState /\ RunOK(y, l, m, s)
<1> DEFINE to  == Onward(rest, x.owed, x.wants)
           cos == x.cos \cup {[by |-> w, over |-> x.cp]}
           y   == [x EXCEPT !.pc = to, !.cos = cos, !.todo = rest]
<1>1. /\ to \in {"history", "proof", "series", "assemble"} /\ to \in Labels \ Ended
      /\ to = "history" => rest # <<>>
      /\ to \in {"series", "assemble"} => x.owed = {}
  BY OnwardIs
<1>2. x.cp \in Checkpoint
  BY DEF RunOK, HasWhatItNeeds, Placed, Judging, Known
<1>3. cos \in SUBSET [by : Witnesses, over : Checkpoint]
  BY <1>2 DEF RunState
<1> HIDE DEF to, cos
<1>4. y \in RunState
  BY <1>1, <1>3 DEF RunState
<1>5. /\ y.pc = to /\ y.cos = cos /\ y.todo = rest /\ y.env = x.env /\ y.index = x.index
      /\ y.cp = x.cp /\ y.lcos = x.lcos /\ y.later = x.later /\ y.proofs = x.proofs
      /\ y.prefix = x.prefix /\ y.owed = x.owed /\ y.window = x.window
  BY DEF RunState
<1>6. HasWhatItNeeds(y, l, m)
  BY <1>1, <1>5 DEF RunOK, HasWhatItNeeds, Ended, Placed, Judging, Later, Asking
<1>7. Cosigned(y, s)
  <2>1. CosignedOver(cos, x.cp, s)
    BY DEF RunOK, Cosigned, CosignedOver, cos
  <2> QED BY <1>1, <1>5, <2>1 DEF RunOK, Cosigned, Judging, Later, CosignedOver
<1>8. Proving(y, l, s)
  BY <1>1, <1>5 DEF RunOK, Proving, Judging, Later
<1>9. y.later = None
  BY <1>5 DEF RunOK, Cosigned, Later
<1> QED BY <1>4, <1>6, <1>7, <1>8, <1>9 DEF RunOK, to, cos

LEMMA HistoryStep ==
  ASSUME IInv, NEW r \in Runs, History(r)
  PROVE  IInv'
<1>1. run[r] \in RunState /\ RunOK(run[r], log, minted, seen) /\ run[r].pc = "history"
  BY RunFacts DEF History, At
<1> DEFINE w    == Head(run[r].todo)
           rest == Tail(run[r].todo)
           ask  == [run[r] EXCEPT !.pc = "cosign"]
           took(rec) == [run[r] EXCEPT !.pc   = Onward(rest, run[r].owed, run[r].wants),
                                       !.cos  = @ \cup {[by |-> w, over |-> rec]},
                                       !.todo = rest]
<1>2. w \in Witnesses /\ rest \in Seq(Witnesses)
  BY <1>1, NextWitness DEF Asking
<1>3. CASE Learn(r, ask)
  <2>1. ask \in RunState
    BY <1>1 DEF RunState, Labels
  <2>2. RunOK(ask, log, minted, seen)
    BY <1>1 DEF RunState, RunOK, HasWhatItNeeds, Cosigned, CosignedOver, Proving,
                Placed, Judging, Later, Asking, Ended
  <2> QED BY <1>3, <2>1, <2>2, LearnStep
<1>4. ASSUME NEW rec \in CosignatureOver(seen[w], run[r].cp), Learn(r, took(rec))
      PROVE  IInv'
  <2>1. rec = run[r].cp /\ run[r].cp \in seen[w]
    BY DEF CosignatureOver
  <2>2. took(rec) \in RunState /\ RunOK(took(rec), log, minted, seen)
    BY <1>1, <1>2, <2>1, CosignatureTaken
  <2> QED BY <1>4, <2>2, LearnStep
<1> QED BY <1>3, <1>4 DEF History

\* A witness records one more checkpoint of a size the log has reached.
LEMMA WitnessSees ==
  ASSUME IInv, NEW w \in Witnesses, NEW c, Known(c, log, minted),
         seen' = [seen EXCEPT ![w] = @ \cup {c}],
         UNCHANGED <<log, minted, staged, held, series, mirror, receipts, ghosts>>
  PROVE  /\ ServersTyped' /\ ServersOK'
         /\ Grows(log, minted, seen, log', minted', seen')
         /\ c \in seen'[w]
<1>1. c \in Checkpoint /\ c.size <= Len(log)
  BY DEF Known
<1>2. seen \in [Witnesses -> SUBSET Checkpoint]
  BY DEF IInv, TypeOK
<1>3. /\ seen' \in [Witnesses -> SUBSET Checkpoint] /\ c \in seen'[w]
      /\ \A v \in Witnesses : /\ seen[v] \subseteq seen'[v]
                              /\ \A d \in seen'[v] : d \in seen[v] \/ d = c
  BY <1>1, <1>2
<1>4. ServersTyped'
  BY <1>3 DEF IInv, TypeOK, ServersTyped, ghosts
<1>5. ServersOK'
  BY <1>1, <1>3 DEF IInv, ServersOK
<1>6. Grows(log, minted, seen, log', minted', seen')
  BY <1>3 DEF IInv, ServersOK, TypeOK, Grows, Trees
<1> QED BY <1>3, <1>4, <1>5, <1>6

LEMMA CosignStep ==
  ASSUME IInv, NEW r \in Runs, Cosign(r)
  PROVE  IInv'
<1>1. run[r] \in RunState /\ RunOK(run[r], log, minted, seen) /\ run[r].pc = "cosign"
  BY RunFacts DEF Cosign, At
<1> DEFINE w    == Head(run[r].todo)
           rest == Tail(run[r].todo)
           c    == run[r].cp
           x    == [run[r] EXCEPT !.pc   = Onward(rest, run[r].owed, run[r].wants),
                                  !.cos  = @ \cup {[by |-> w, over |-> c]},
                                  !.todo = rest]
<1>2. w \in Witnesses /\ rest \in Seq(Witnesses)
  BY <1>1, NextWitness DEF Asking
<1>3. CASE Fail(r)
  BY <1>3, FailStep
<1>4. CASE /\ seen' = [seen EXCEPT ![w] = @ \cup {c}] /\ Go(r, x)
           /\ UNCHANGED <<log, minted, staged, held, series, mirror, receipts, ghosts>>
  <2>1. Known(c, log, minted)
    BY <1>1 DEF RunOK, HasWhatItNeeds, Placed, Judging
  <2>2. /\ ServersTyped' /\ ServersOK' /\ c \in seen'[w]
        /\ Grows(log, minted, seen, log', minted', seen')
    BY <1>2, <1>4, <2>1, WitnessSees
  <2>3. RunOK(run[r], log', minted', seen')
    <3>1. ServerTypes(log, minted, seen) /\ ServerTypes(log', minted', seen')
      BY <2>2 DEF ServersTyped, ServerTypes, IInv, TypeOK
    <3> QED BY <1>1, <2>2, <3>1, RunGrows
  <2>4. x \in RunState /\ RunOK(x, log', minted', seen')
    BY <1>1, <1>2, <2>2, <2>3, CosignatureTaken
  <2> QED BY <1>4, <2>2, <2>4, RunStep
<1> QED BY <1>3, <1>4 DEF Cosign

LEMMA ProofStep ==
  ASSUME IInv, NEW r \in Runs, Proof(r)
  PROVE  IInv'
<1>1. run[r] \in RunState /\ RunOK(run[r], log, minted, seen) /\ run[r].pc = "proof"
  BY RunFacts DEF Proof, At
<1> DEFINE x(c) == [run[r] EXCEPT !.pc = "attest", !.element = c,
                                  !.todo = Endpoints, !.served = {}]
<1>2. CASE Fail(r)
  BY <1>2, FailStep
<1>3. ASSUME NEW i \in run[r].owed, NEW c \in RotationProofs(i), c # None, Learn(r, x(c))
      PROVE  IInv'
  <2>1. c \in Checkpoint
    BY <1>3 DEF RotationProofs, Anchors, Usable, IInv, TypeOK
  <2>2. x(c) \in RunState
    <3>1. "attest" \in Labels
      BY DEF Labels
    <3>2. ASSUME NEW todo \in Seq(Witnesses)
          PROVE  [run[r] EXCEPT !.pc = "attest", !.element = c,
                                !.todo = todo, !.served = {}] \in RunState
      BY <1>1, <2>1, <3>1 DEF RunState
    <3> QED BY <3>2, EndpointsAssumption
  <2>3. Endpoints # <<>>
    BY SomeWitness
  <2>4. RunOK(x(c), log, minted, seen)
    BY <1>1, <2>1, <2>3
       DEF RunState, RunOK, HasWhatItNeeds, Cosigned, CosignedOver, Proving,
           Placed, Judging, Later, Asking, Ended
  <2> QED BY <1>3, <2>2, <2>4, LearnStep
<1> QED BY <1>2, <1>3 DEF Proof

LEMMA AttestStep ==
  ASSUME IInv, NEW r \in Runs, Attest(r)
  PROVE  IInv'
<1>1. run[r] \in RunState /\ RunOK(run[r], log, minted, seen) /\ run[r].pc = "attest"
  BY RunFacts DEF Attest, At
<1> DEFINE w    == Head(run[r].todo)
           todo == Tail(run[r].todo)
           c    == run[r].element
           rest(i)   == run[r].owed \ {i}
           served(i) == run[r].served \cup
                          {[by |-> w, over |-> d] : d \in RotationCosignatures(w, i)}
           more(i)   == [run[r] EXCEPT !.todo = todo, !.served = served(i)]
           proof(i)  == [index |-> i, over |-> c, by |-> {s.by : s \in served(i)}]
           joined(i) == [run[r] EXCEPT !.pc     = Onward(<<>>, rest(i), run[r].wants),
                                       !.todo   = <<>>,
                                       !.owed   = rest(i),
                                       !.served = {},
                                       !.element = None,
                                       !.proofs = @ \cup {proof(i)}]
<1>2. w \in Witnesses /\ todo \in Seq(Witnesses)
  BY <1>1, NextWitness DEF Asking
<1>3. CASE Fail(r)
  BY <1>3, FailStep
<1>4. ASSUME NEW i \in run[r].owed, \A j \in run[r].owed : i <= j,
             \/ todo # <<>> /\ Learn(r, more(i))
             \/ todo = <<>> /\ Paired(served(i), c) /\ Learn(r, joined(i))
      PROVE  IInv'
  <2>1. i \in Nat /\ c \in Checkpoint
    BY <1>1 DEF RunState, RunOK, HasWhatItNeeds
  <2>2. \A d \in RotationCosignatures(w, i) : Attested(i, w, d, log, seen) /\ d \in Checkpoint
    BY <1>2, <2>1 DEF RotationCosignatures, Attested, Anchors, IsActive, IInv, TypeOK
  <2>3. \A y \in served(i) : Attested(i, y.by, y.over, log, seen)
    BY <1>1, <1>4, <2>2 DEF RunOK, Proving
  <2>4. served(i) \in SUBSET [by : Witnesses, over : Checkpoint]
    BY <1>1, <1>2, <2>2 DEF RunState
  <2> HIDE DEF served
  <2>5. CASE todo # <<>> /\ Learn(r, more(i))
    <3>1. more(i) \in RunState
      BY <1>1, <1>2, <2>4 DEF RunState
    <3>2. \A k \in run[r].owed : (\A j \in run[r].owed : k <= j) => k = i
      BY <1>1, <1>4 DEF RunState
    <3>3. RunOK(more(i), log, minted, seen)
      BY <1>1, <2>3, <2>5, <3>2
         DEF RunState, RunOK, HasWhatItNeeds, Cosigned, CosignedOver, Proving,
             Placed, Judging, Later, Asking, Ended
    <3> QED BY <2>5, <3>1, <3>3, LearnStep
  <2>6. CASE todo = <<>> /\ Paired(served(i), c) /\ Learn(r, joined(i))
    <3> DEFINE to == Onward(<<>>, rest(i), run[r].wants)
    <3>1. /\ to \in {"history", "proof", "series", "assemble"} \ {"history"}
          /\ to \in Labels \ Ended
          /\ to \in {"series", "assemble"} => rest(i) = {}
      BY OnwardIs
    <3>2. PICK y \in served(i) : y.over = c
      BY <2>6 DEF Paired
    <3>3. ProvedAt(proof(i), log, seen)
      BY <2>3, <3>2 DEF ProvedAt
    <3>4. proof(i) \in [index : Nat, over : Checkpoint, by : SUBSET Witnesses]
      BY <2>1, <2>4
    <3>5. proof(i).index = i
      OBVIOUS
    <3> HIDE DEF to, proof
    <3>6. joined(i) \in RunState
      <4>1. <<>> \in Seq(Witnesses) /\ rest(i) \in SUBSET Nat
        BY <1>1 DEF RunState
      <4> QED BY <1>1, <3>1, <3>4, <4>1 DEF RunState, to
    <3> DEFINE y2 == joined(i)
    <3>7. /\ y2.pc = to /\ y2.todo = <<>> /\ y2.owed = rest(i) /\ y2.cos = run[r].cos
          /\ y2.proofs = run[r].proofs \cup {proof(i)} /\ y2.env = run[r].env
          /\ y2.index = run[r].index /\ y2.cp = run[r].cp /\ y2.lcos = run[r].lcos
          /\ y2.later = run[r].later /\ y2.prefix = run[r].prefix
      BY <1>1 DEF RunState, to
    <3> HIDE DEF y2
    <3>8. HasWhatItNeeds(y2, log, minted)
      BY <1>1, <3>1, <3>7
         DEF RunOK, HasWhatItNeeds, Placed, Judging, Later, Asking, Ended
    <3>9. Cosigned(y2, seen)
      BY <1>1, <3>1, <3>7 DEF RunOK, Cosigned, Judging, Later, CosignedOver
    <3>10. Proving(y2, log, seen)
      <4>1. {p.index : p \in run[r].proofs} \cup run[r].owed
              = Rotations(run[r].prefix, run[r].cp.size)
        BY <1>1 DEF RunOK, Proving, Judging
      <4>2. {p.index : p \in y2.proofs} \cup y2.owed
              = Rotations(run[r].prefix, run[r].cp.size)
        BY <3>5, <3>7, <4>1
      <4> QED BY <1>1, <3>1, <3>3, <3>7, <4>2 DEF RunOK, Proving, Judging, Later
    <3>11. y2.later = None
      BY <1>1, <3>7 DEF RunOK, Cosigned, Later
    <3> QED BY <2>6, <3>6, <3>8, <3>9, <3>10, <3>11, LearnStep DEF y2, RunOK
  <2> QED BY <1>4, <2>5, <2>6
<1> QED BY <1>3, <1>4 DEF Attest

LEMMA SeriesStep ==
  ASSUME IInv, NEW r \in Runs, Series(r)
  PROVE  IInv'
<1>1. run[r] \in RunState /\ RunOK(run[r], log, minted, seen) /\ run[r].pc = "series"
  BY RunFacts DEF Series, At
<1> DEFINE beyond(published) == {c \in published : c.size > run[r].cp.size}
           none == [run[r] EXCEPT !.pc = "assemble"]
           x(published, furthest) == [run[r] EXCEPT !.pc = "window",
                                                    !.published = beyond(published),
                                                    !.horizon = furthest]
<1>2. CASE Learn(r, none)
  <2>1. none \in RunState
    BY <1>1 DEF RunState, Labels
  <2>2. RunOK(none, log, minted, seen)
    BY <1>1 DEF RunState, RunOK, HasWhatItNeeds, Cosigned, CosignedOver, Proving,
                Placed, Judging, Later, Asking, Ended
  <2> QED BY <1>2, <2>1, <2>2, LearnStep
<1>3. ASSUME NEW published \in Published, NEW furthest \in Latest(beyond(published)),
             Learn(r, x(published, furthest))
      PROVE  IInv'
  <2>1. /\ \A d \in beyond(published) : /\ Known(d, log, minted)
                                        /\ run[r].cp.size < d.size
                                        /\ d.size <= furthest.size
        /\ Known(furthest, log, minted)
    BY PublishedKnown DEF Latest, Known, Checkpoint
  <2>2. beyond(published) \in SUBSET Checkpoint /\ furthest \in Checkpoint
    BY <2>1 DEF Known
  <2> HIDE DEF beyond
  <2>3. x(published, furthest) \in RunState
    BY <1>1, <2>2 DEF RunState, Labels
  <2>4. RunOK(x(published, furthest), log, minted, seen)
    BY <1>1, <2>1
       DEF RunState, RunOK, HasWhatItNeeds, Cosigned, CosignedOver, Proving,
           Placed, Judging, Later, Asking, Ended
  <2> QED BY <1>3, <2>3, <2>4, LearnStep
<1> QED BY <1>2, <1>3 DEF Series

LEMMA WindowStep ==
  ASSUME IInv, NEW r \in Runs, Window(r)
  PROVE  IInv'
<1>1. run[r] \in RunState /\ RunOK(run[r], log, minted, seen) /\ run[r].pc = "window"
  BY RunFacts DEF Window, At
<1> DEFINE horizon == run[r].horizon
           c       == run[r].cp
           reach(entries) == Latest({d \in run[r].published :
                                       WithinCeiling(entries, c.size, d.size)})
           none == [run[r] EXCEPT !.pc = "assemble"]
           found(later, entries) ==
             [run[r] EXCEPT !.pc        = "later_history",
                            !.later     = later,
                            !.window    = SubSeq(entries, 1, later.size),
                            !.todo      = Endpoints,
                            !.published = {},
                            !.horizon   = None]
<1>2. /\ Known(horizon, log, minted) /\ Known(c, log, minted)
      /\ \A d \in run[r].published :
           Known(d, log, minted) /\ c.size < d.size /\ d.size <= horizon.size
  BY <1>1 DEF RunOK, HasWhatItNeeds, Placed, Judging
<1>3. CASE Fail(r)
  BY <1>3, FailStep
<1>4. CASE Learn(r, none)
  <2>1. none \in RunState
    <3>1. "assemble" \in Labels
      BY DEF Labels
    <3> QED BY <1>1, <3>1 DEF RunState
  <2>2. RunOK(none, log, minted, seen)
    BY <1>1 DEF RunState, RunOK, HasWhatItNeeds, Cosigned, CosignedOver, Proving,
                Placed, Judging, Later, Asking, Ended
  <2> QED BY <1>4, <2>1, <2>2, LearnStep
<1>5. ASSUME NEW entries \in Ranges(horizon.size), Authentic(horizon, entries),
             NEW later \in reach(entries),
             BoundToLater(later, entries),
             Continues(later, entries, c, run[r].prefix),
             Learn(r, found(later, entries))
      PROVE  IInv'
  <2> DEFINE window == SubSeq(entries, 1, later.size)
  <2>1. /\ Known(later, log, minted) /\ c.size < later.size /\ later.size <= horizon.size
        /\ WithinCeiling(entries, c.size, later.size)
    BY <1>2, <1>5 DEF Latest
  <2>2. /\ later \in Checkpoint /\ later.size \in Nat /\ c.size \in Nat
        /\ horizon.size \in Nat /\ horizon.size <= Len(log)
    BY <1>2, <2>1 DEF Known, Checkpoint
  <2>3. entries \in Trees /\ Len(entries) = horizon.size
    BY <1>5, <2>2, RangesAreTrees DEF Authentic
  <2>4. /\ window \in Trees /\ Len(window) = later.size
        /\ \A k \in 1..later.size : window[k] = entries[k]
    BY <2>1, <2>2, <2>3, SubSeqTree
  <2>5. Authentic(later, window)
    BY <1>5 DEF BoundToLater
  <2>6. \A i \in ManifestIndices(window) : i < c.size
    <3> SUFFICES ASSUME NEW i \in ManifestIndices(window), ~(i < c.size) PROVE FALSE
      OBVIOUS
    <3>1. i \in Nat /\ i < later.size /\ window[i + 1] \in Manifest
      BY <2>2, <2>4 DEF ManifestIndices
    <3>2. i \in ManifestIndices(entries)
      BY <2>1, <2>2, <2>3, <2>4, <3>1 DEF ManifestIndices
    <3> QED BY <2>1, <2>2, <3>1, <3>2 DEF WithinCeiling
  <2>7. \A i : IsActive(entries, later.size, i) <=> IsActive(window, later.size, i)
    <3> HIDE DEF window
    <3>1. later.size <= Len(entries) /\ later.size <= Len(window)
      BY <2>1, <2>2, <2>3, <2>4
    <3>2. \A k \in 1..later.size : entries[k] = window[k]
      BY <2>4
    <3> QED BY <2>2, <2>3, <2>4, <3>1, <3>2, SamePrefix
  <2> HIDE DEF window
  <2>8. Continued([later |-> later, cp |-> c, window |-> window, prefix |-> run[r].prefix],
                  log, minted)
    BY <1>5, <2>1, <2>5, <2>6, <2>7 DEF Continued, Continues
  <2> DEFINE x == found(later, entries)
  <2>9. x \in RunState
    <3>1. "later_history" \in Labels
      BY DEF Labels
    <3>2. ASSUME NEW todo \in Seq(Witnesses), NEW wn \in Trees
          PROVE  [run[r] EXCEPT !.pc = "later_history", !.later = later, !.window = wn,
                                !.todo = todo, !.published = {}, !.horizon = None]
                   \in RunState
      BY <1>1, <2>2, <3>1 DEF RunState
    <3> QED BY <2>4, <3>2, EndpointsAssumption DEF window
  <2>10. /\ x.pc = "later_history" /\ x.later = later /\ x.window = window
         /\ x.todo = Endpoints /\ x.owed = run[r].owed /\ x.cos = run[r].cos
         /\ x.proofs = run[r].proofs /\ x.env = run[r].env /\ x.index = run[r].index
         /\ x.cp = c /\ x.lcos = run[r].lcos /\ x.prefix = run[r].prefix
    BY <1>1 DEF RunState, window
  <2> HIDE DEF x
  <2>11. Endpoints # <<>> /\ later # None
    BY <2>2, SomeWitness, NoneApart
  <2>12. HasWhatItNeeds(x, log, minted)
    BY <1>1, <2>10, <2>11 DEF RunOK, HasWhatItNeeds, Placed, Judging, Later, Asking, Ended
  <2>13. Cosigned(x, seen)
    BY <1>1, <2>10, <2>11 DEF RunOK, Cosigned, Judging, Later, CosignedOver
  <2>14. Proving(x, log, seen)
    BY <1>1, <2>10 DEF RunOK, Proving, Judging, Later
  <2>15. Continued(x, log, minted)
    BY <2>8, <2>10 DEF Continued
  <2> QED BY <1>5, <2>9, <2>12, <2>13, <2>14, <2>15, LearnStep DEF x, RunOK
<1> QED BY <1>3, <1>4, <1>5 DEF Window

\* One more cosignature over the later checkpoint, or none, and the run moves on.
LEMMA LaterMovesOn ==
  ASSUME NEW l, NEW m, NEW s, NEW x \in RunState, RunOK(x, l, m, s),
         x.pc \in {"later_history", "later_cosign"},
         NEW taken \in SUBSET [by : Witnesses, over : Checkpoint],
         CosignedOver(taken, x.later, s), NEW rest \in Seq(Witnesses)
  PROVE  LET y == [x EXCEPT !.pc   = OnwardLater(rest),
                            !.lcos = @ \cup taken,
                            !.todo = rest]
         IN  y \in RunState /\ RunOK(y, l, m, s)
<1> DEFINE to   == OnwardLater(rest)
           lcos == x.lcos \cup taken
           y    == [x EXCEPT !.pc = to, !.lcos = lcos, !.todo = rest]
<1>1. /\ to \in {"later_history", "assemble"} /\ to \in Labels \ Ended
      /\ to = "later_history" => rest # <<>>
  BY OnwardLaterIs
<1>2. lcos \in SUBSET [by : Witnesses, over : Checkpoint]
  BY DEF RunState
<1>3. CosignedOver(lcos, x.later, s)
  BY DEF RunOK, Cosigned, CosignedOver
<1> HIDE DEF to, lcos
<1>4. y \in RunState
  BY <1>1, <1>2 DEF RunState
<1>5. /\ y.pc = to /\ y.lcos = lcos /\ y.todo = rest /\ y.env = x.env /\ y.index = x.index
      /\ y.cp = x.cp /\ y.cos = x.cos /\ y.later = x.later /\ y.proofs = x.proofs
      /\ y.prefix = x.prefix /\ y.owed = x.owed /\ y.window = x.window
  BY DEF RunState
<1>6. x.later # None
  BY DEF RunOK, HasWhatItNeeds
<1>7. HasWhatItNeeds(y, l, m)
  BY <1>1, <1>5, <1>6 DEF RunOK, HasWhatItNeeds, Ended, Placed, Judging, Later, Asking
<1>8. Cosigned(y, s)
  BY <1>1, <1>3, <1>5, <1>6 DEF RunOK, Cosigned, Judging, Later
<1>9. Proving(y, l, s)
  BY <1>1, <1>5 DEF RunOK, Proving, Judging, Later
<1>10. Continued(y, l, m)
  BY <1>5, <1>6 DEF RunOK, Continued
<1> QED BY <1>4, <1>7, <1>8, <1>9, <1>10 DEF RunOK, to, lcos

LEMMA LaterHistoryStep ==
  ASSUME IInv, NEW r \in Runs, LaterHistory(r)
  PROVE  IInv'
<1>1. run[r] \in RunState /\ RunOK(run[r], log, minted, seen) /\ run[r].pc = "later_history"
  BY RunFacts DEF LaterHistory, At
<1> DEFINE w    == Head(run[r].todo)
           rest == Tail(run[r].todo)
           ask  == [run[r] EXCEPT !.pc = "later_cosign"]
           took(rec) == [run[r] EXCEPT !.pc   = OnwardLater(rest),
                                       !.lcos = @ \cup {[by |-> w, over |-> rec]},
                                       !.todo = rest]
<1>2. w \in Witnesses /\ rest \in Seq(Witnesses)
  BY <1>1, NextWitness DEF Asking
<1>3. CASE Learn(r, ask)
  <2>1. ask \in RunState
    BY <1>1 DEF RunState, Labels
  <2>2. RunOK(ask, log, minted, seen)
    BY <1>1 DEF RunState, RunOK, HasWhatItNeeds, Cosigned, CosignedOver, Proving,
                Placed, Judging, Later, Asking, Ended, Continued
  <2> QED BY <1>3, <2>1, <2>2, LearnStep
<1>4. ASSUME NEW rec \in CosignatureOver(seen[w], run[r].later), Learn(r, took(rec))
      PROVE  IInv'
  <2>1. rec = run[r].later /\ rec \in seen[w] /\ rec \in Checkpoint
    BY <1>2 DEF CosignatureOver, IInv, TypeOK
  <2> DEFINE taken == {[by |-> w, over |-> rec]}
  <2>2. /\ taken \in SUBSET [by : Witnesses, over : Checkpoint]
        /\ CosignedOver(taken, run[r].later, seen)
    BY <1>2, <2>1 DEF CosignedOver
  <2> HIDE DEF taken
  <2>3. took(rec) \in RunState /\ RunOK(took(rec), log, minted, seen)
    BY <1>1, <1>2, <2>2, LaterMovesOn DEF taken
  <2> QED BY <1>4, <2>3, LearnStep
<1> QED BY <1>3, <1>4 DEF LaterHistory

LEMMA LaterCosignStep ==
  ASSUME IInv, NEW r \in Runs, LaterCosign(r)
  PROVE  IInv'
<1>1. run[r] \in RunState /\ RunOK(run[r], log, minted, seen) /\ run[r].pc = "later_cosign"
  BY RunFacts DEF LaterCosign, At
<1> DEFINE w     == Head(run[r].todo)
           rest  == Tail(run[r].todo)
           later == run[r].later
           pass  == [run[r] EXCEPT !.pc = OnwardLater(rest), !.todo = rest]
           x     == [run[r] EXCEPT !.pc   = OnwardLater(rest),
                                   !.lcos = @ \cup {[by |-> w, over |-> later]},
                                   !.todo = rest]
<1>2. w \in Witnesses /\ rest \in Seq(Witnesses)
  BY <1>1, NextWitness DEF Asking
<1>3. CASE Fail(r)
  BY <1>3, FailStep
<1>4. CASE Learn(r, pass)
  <2> DEFINE taken == {}
             y == [run[r] EXCEPT !.pc = OnwardLater(rest), !.lcos = @ \cup taken,
                                 !.todo = rest]
  <2>1. pass = y
    BY <1>1 DEF RunState
  <2>2. /\ taken \in SUBSET [by : Witnesses, over : Checkpoint]
        /\ CosignedOver(taken, later, seen)
    BY DEF CosignedOver
  <2> HIDE DEF taken
  <2>3. y \in RunState /\ RunOK(y, log, minted, seen)
    BY <1>1, <1>2, <2>2, LaterMovesOn
  <2> QED BY <1>4, <2>1, <2>3, LearnStep
<1>5. CASE /\ seen' = [seen EXCEPT ![w] = @ \cup {later}] /\ Go(r, x)
           /\ UNCHANGED <<log, minted, staged, held, series, mirror, receipts, ghosts>>
  <2>1. Known(later, log, minted)
    BY <1>1 DEF RunOK, HasWhatItNeeds, Continued
  <2>2. /\ ServersTyped' /\ ServersOK' /\ later \in seen'[w]
        /\ Grows(log, minted, seen, log', minted', seen')
    BY <1>2, <1>5, <2>1, WitnessSees
  <2>3. RunOK(run[r], log', minted', seen')
    <3>1. ServerTypes(log, minted, seen) /\ ServerTypes(log', minted', seen')
      BY <2>2 DEF ServersTyped, ServerTypes, IInv, TypeOK
    <3> QED BY <1>1, <2>2, <3>1, RunGrows
  <2> DEFINE taken == {[by |-> w, over |-> later]}
  <2>4. /\ taken \in SUBSET [by : Witnesses, over : Checkpoint]
        /\ CosignedOver(taken, later, seen')
    BY <1>2, <2>1, <2>2 DEF CosignedOver, Known
  <2> HIDE DEF taken
  <2>5. x \in RunState /\ RunOK(x, log', minted', seen')
    BY <1>1, <1>2, <2>3, <2>4, LaterMovesOn DEF taken
  <2> QED BY <1>5, <2>2, <2>5, RunStep
<1> QED BY <1>3, <1>4, <1>5 DEF LaterCosign

\* What a run about to assemble says of its subject and its rotations is true
\* of the log, if the log signed its checkpoint.
LEMMA Assembled ==
  ASSUME IInv, NEW x \in RunState, RunOK(x, log, minted, seen), x.pc = "assemble",
         x.cp \in minted, Authentic(x.cp, x.prefix), SubjectIs(x.prefix, x.index, x.env)
  PROVE  /\ x.index < x.cp.size /\ log[x.index + 1] = x.env
         /\ AccountedIn(Accounted(x.cos, x.prefix, x.cp.size), log, x.cp.size)
         /\ {p.index : p \in x.proofs} = Rotations(log, x.cp.size)
         /\ x.later # None =>
              AccountedIn(Accounted(x.lcos, x.window, x.later.size), log, x.cp.size)
         /\ x.later \in minted =>
              \A i \in ManifestIndices(log) : ~(x.cp.size <= i /\ i < x.later.size)
<1> DEFINE n == x.cp.size
<1>1. /\ n \in Nat /\ n <= Len(log) /\ log \in Trees /\ Len(log) \in Nat
      /\ x.cp.root = SubSeq(log, 1, n) /\ x.prefix = x.cp.root /\ x.index \in Nat
      /\ minted \subseteq Checkpoint
  BY DEF IInv, TypeOK, ServersOK, Checkpoint, Authentic, RunOK, HasWhatItNeeds,
         Placed, Judging, Later, Trees
<1>2. x.prefix \in Trees /\ Len(x.prefix) = n /\ \A k \in 1..n : x.prefix[k] = log[k]
  BY <1>1, SubSeqTree
<1>3. /\ Below(x.prefix, n) = Below(log, n)
      /\ \A i : IsActive(x.prefix, n, i) <=> IsActive(log, n, i)
      /\ \A i \in Below(log, n) : DeclaredAt(x.prefix, i) = DeclaredAt(log, i)
      /\ Rotations(x.prefix, n) = Rotations(log, n)
  <2> HIDE DEF n
  <2>1. n <= Len(x.prefix)
    BY <1>1, <1>2
  <2>2. /\ Below(x.prefix, n) = Below(log, n)
        /\ \A i : IsActive(x.prefix, n, i) <=> IsActive(log, n, i)
        /\ \A i \in Below(x.prefix, n) : DeclaredAt(x.prefix, i) = DeclaredAt(log, i)
    BY <1>1, <1>2, <2>1, SamePrefix
  <2>3. Rotations(x.prefix, n) = Rotations(log, n)
    BY <1>1, <1>2, <2>1, SameRotations
  <2> QED BY <2>2, <2>3
<1>4. x.index < n /\ log[x.index + 1] = x.env
  BY <1>1, <1>2 DEF SubjectIs
<1>5. AccountedIn(Accounted(x.cos, x.prefix, n), log, n)
  BY <1>3 DEF AccountedIn, Accounted, IsActive
<1>6. {p.index : p \in x.proofs} = Rotations(log, n)
  BY <1>3 DEF RunOK, Proving, Judging, Later
<1>7. ASSUME x.later # None
      PROVE  AccountedIn(Accounted(x.lcos, x.window, x.later.size), log, n)
  <2>1. Continued(x, log, minted)
    BY <1>7 DEF RunOK
  <2>2. /\ x.later \in Checkpoint /\ x.later.size \in Nat /\ n <= x.later.size
        /\ x.window = x.later.root /\ Len(x.window) = x.later.size /\ x.window \in Trees
        /\ SubSeq(x.window, 1, n) = x.prefix
    BY <1>1, <2>1 DEF Continued, Known, Authentic, Extends, Checkpoint
  <2>3. \A k \in 1..n : x.window[k] = log[k]
    BY <1>1, <1>2, <2>2, SubSeqTree
  <2>4. PICK i \in Below(x.prefix, n) : /\ IsActive(x.prefix, n, i)
                                       /\ IsActive(x.window, x.later.size, i)
    BY <2>1 DEF Continued
  <2>5. i \in Nat /\ i < n /\ DeclaredAt(x.window, i) = DeclaredAt(log, i)
    BY <1>2, <2>3, <2>4 DEF Below, ManifestIndices, DeclaredAt
  <2>6. \A j : IsActive(x.window, x.later.size, j) => j = i
    BY <2>2, <2>4 DEF IsActive, Below, ManifestIndices
  <2>7. i \in Below(log, n) /\ IsActive(log, n, i)
    BY <1>3, <2>4
  <2> QED BY <2>5, <2>6, <2>7 DEF AccountedIn, Accounted
<1>8. ASSUME x.later \in minted, NEW i \in ManifestIndices(log), n <= i, i < x.later.size
      PROVE  FALSE
  <2>1. x.later # None /\ x.later.size \in Nat /\ i \in Nat /\ x.later.size <= Len(log)
    BY <1>1, <1>8, NoneApart DEF Checkpoint, ManifestIndices, IInv, ServersOK
  <2>2. Continued(x, log, minted)
    BY <2>1 DEF RunOK
  <2>3. x.window = SubSeq(log, 1, x.later.size) /\ Len(x.window) = x.later.size
    BY <1>8, <2>2 DEF Continued, Authentic, IInv, ServersOK
  <2>4. x.window[i + 1] = log[i + 1]
    BY <1>1, <1>8, <2>1, <2>3, SubSeqTree
  <2>5. i \in ManifestIndices(x.window)
    BY <1>8, <2>1, <2>3, <2>4 DEF ManifestIndices
  <2> QED BY <1>1, <1>8, <2>1, <2>2, <2>5 DEF Continued
<1> QED BY <1>4, <1>5, <1>6, <1>7, <1>8

LEMMA AssembleStep ==
  ASSUME IInv, NEW r \in Runs, Assemble(r)
  PROVE  IInv'
<1>1. run[r] \in RunState /\ RunOK(run[r], log, minted, seen) /\ run[r].pc = "assemble"
  BY RunFacts DEF Assemble, At
<1> DEFINE x   == run[r]
           cos == Accounted(x.cos, x.prefix, x.cp.size)
           c   == [env |-> x.env, index |-> x.index, placed |-> x.placed, cp |-> x.cp,
                   cos |-> cos, proofs |-> x.proofs, later |-> x.later,
                   lcos |-> LaterWitnesses(r)]
           ended == [NewRun EXCEPT !.pc = "issued"]
<1>2. CASE Fail(r)
  BY <1>2, FailStep
<1>3. CASE /\ Authentic(x.cp, x.prefix) /\ SubjectIs(x.prefix, x.index, x.env)
           /\ receipts' = receipts \cup {c} /\ End(r, "issued")
           /\ UNCHANGED <<servers, ghosts>>
  <2>1. cos \subseteq x.cos /\ LaterWitnesses(r) \subseteq x.lcos
    BY DEF Accounted, LaterWitnesses
  <2>2. /\ x.env \in Envelope /\ x.index \in Nat /\ Known(x.cp, log, minted)
        /\ CosignedOver(x.cos, x.cp, seen) /\ CosignedOver(x.lcos, x.later, seen)
        /\ \A p \in x.proofs : ProvedAt(p, log, seen)
        /\ x.later # None => Known(x.later, log, minted)
    BY <1>1 DEF RunOK, HasWhatItNeeds, Cosigned, Proving, Continued,
                Ended, Placed, Judging, Later
  <2>3. x.cp \in minted =>
          /\ x.index < x.cp.size /\ log[x.index + 1] = x.env
          /\ AccountedIn(cos \cup LaterWitnesses(r), log, x.cp.size)
          /\ {p.index : p \in x.proofs} = Rotations(log, x.cp.size)
          /\ x.later \in minted =>
               \A i \in ManifestIndices(log) : ~(x.cp.size <= i /\ i < x.later.size)
    BY <1>1, <1>3, Assembled DEF LaterWitnesses, AccountedIn
  <2>4. CosignedOver(cos, x.cp, seen) /\ CosignedOver(LaterWitnesses(r), x.later, seen)
    BY <2>1, <2>2 DEF CosignedOver
  <2>5. c \in Receipt
    <3>1. /\ cos \in SUBSET [by : Witnesses, over : Checkpoint]
          /\ LaterWitnesses(r) \in SUBSET [by : Witnesses, over : Checkpoint]
      BY <1>1, <2>1 DEF RunState
    <3>2. /\ x.placed \in BOOLEAN /\ x.cp \in Checkpoint /\ x.later \in Checkpoint \cup {None}
          /\ x.proofs \in SUBSET [index : Nat, over : Checkpoint, by : SUBSET Witnesses]
      BY <1>1, <2>2 DEF RunState, Known
    <3> QED BY <2>2, <3>1, <3>2 DEF Receipt
  <2> HIDE DEF cos
  <2>6. ReceiptOK(c, log, minted, seen)
    BY <2>2, <2>3, <2>4 DEF ReceiptOK
  <2>7. ended \in RunState /\ RunOK(ended, log, minted, seen)
    BY NothingInHand DEF Ended
  <2>8. /\ log' = log /\ minted' = minted /\ staged' = staged /\ held' = held
        /\ series' = series /\ seen' = seen /\ mirror' = mirror
        /\ starts' = starts /\ crashes' = crashes /\ overlapped' = overlapped
    BY <1>3 DEF servers, ghosts
  <2>9. run' = [run EXCEPT ![r] = ended] /\ receipts' = receipts \cup {c}
    BY <1>3 DEF End, Go
  <2> HIDE DEF c, ended
  <2>10. TypeOK'
    BY <2>5, <2>7, <2>8, <2>9 DEF IInv, TypeOK
  <2>11. ServersOK'
    BY <2>8 DEF IInv, ServersOK
  <2>12. \A q \in Runs : RunOK(run'[q], log', minted', seen')
    BY <2>7, <2>8, <2>9 DEF IInv, TypeOK
  <2>13. \A d \in receipts' : ReceiptOK(d, log', minted', seen')
    BY <2>6, <2>8, <2>9 DEF IInv
  <2> QED BY <2>10, <2>11, <2>12, <2>13 DEF IInv
<1> QED BY <1>2, <1>3 DEF Assemble

LEMMA CrashStep ==
  ASSUME IInv, NEW r \in Runs, Crash(r)
  PROVE  IInv'
<1> DEFINE x == [NewRun EXCEPT !.pc = "crashed"]
<1>1. Go(r, x) /\ UNCHANGED servers /\ UNCHANGED receipts
  BY DEF Crash, End
<1>2. x \in RunState /\ RunOK(x, log, minted, seen)
  BY NothingInHand DEF Ended
<1>3. log' = log /\ minted' = minted /\ seen' = seen
  BY <1>1 DEF servers
<1>4. ServersTyped'
  BY <1>1 DEF Crash, servers, IInv, TypeOK, ServersTyped
<1> QED BY <1>1, <1>2, <1>3, <1>4, StayStill, RunStep

-----------------------------------------------------------------------------
LEMMA IInvInit == Init => IInv
<1> SUFFICES ASSUME Init PROVE IInv
  OBVIOUS
<1>1. log \in Trees /\ Len(log) \in Nat /\ Len(log) > 0
  BY HistoriesAssumption DEF Init, Trees
<1> DEFINE at(n) == [size |-> n, root |-> SubSeq(log, 1, n), time |-> 1]
<1>2. minted = {at(n) : n \in 1..Len(log)}
  BY DEF Init, Signed
<1>3. \A n \in 1..Len(log) : at(n) \in Checkpoint
  BY <1>1, SubSeqTree DEF Checkpoint
<1>4. minted \in SUBSET Checkpoint
  BY <1>2, <1>3
<1>5. IsFiniteSet(minted)
  <2> DEFINE f == [n \in 1..Len(log) |-> at(n)]
  <2>1. f \in Surjection(1..Len(log), minted)
    BY <1>2 DEF Surjection
  <2> QED BY <1>1, <2>1, FS_Interval, FS_Surjection
<1>6. run \in [Runs -> RunState] /\ \A r \in Runs : RunOK(run[r], log, minted, seen)
  <2>1. /\ NewRun.pc = "idle" /\ NewRun.cos = {} /\ NewRun.lcos = {}
        /\ NewRun.proofs = {} /\ NewRun.later = None
    BY DEF NewRun
  <2>2. NewRun.pc \notin {"place", "retrieve", "window"} \cup Placed
    BY <2>1 DEF Placed, Judging, Later
  <2>3. RunOK(NewRun, log, minted, seen)
    BY <2>1, <2>2 DEF RunOK, HasWhatItNeeds, Cosigned, CosignedOver, Proving,
                      Placed, Judging, Later, Asking
  <2> QED BY <2>3, FreshRun DEF Init
<1>7. TypeOK
  BY <1>1, <1>4, <1>6 DEF TypeOK, Init
<1>8. ServersOK
  BY <1>1, <1>2, <1>5 DEF ServersOK, Init
<1> QED BY <1>6, <1>7, <1>8 DEF IInv, Init

LEMMA IInvStep == IInv /\ [Next]_vars => IInv'
<1> SUFFICES ASSUME IInv, [Next]_vars PROVE IInv'
  OBVIOUS
<1>1. CASE UNCHANGED vars
  BY <1>1 DEF vars, servers, ghosts, IInv, TypeOK, ServersOK
<1>2. ASSUME NEW r \in Runs, Start(r) PROVE IInv'
  BY <1>2, StartStep
<1>3. ASSUME NEW r \in Runs, Crash(r) PROVE IInv'
  BY <1>3, CrashStep
<1>4. ASSUME NEW r \in Runs, Step(r) PROVE IInv'
  BY <1>4, LookUpStep, PlaceStep, SubmitStep, RetrieveStep, StageStep, IngestStep,
     EnumerateStep, HistoryStep, CosignStep, ProofStep, AttestStep, SeriesStep,
     WindowStep, LaterHistoryStep, LaterCosignStep, AssembleStep DEF Step
<1> QED BY <1>1, <1>2, <1>3, <1>4 DEF Next

LEMMA Invariance == Spec => []IInv
BY IInvInit, IInvStep, PTL DEF Spec

-----------------------------------------------------------------------------
\* Every variable stays in its range.
THEOREM TypeCorrect == Spec => []TypeOK
BY Invariance, PTL DEF IInv

\* Whatever index a mirror claims for an envelope, a receipt a reader accepts
\* is about the envelope handed over, at the index it names (require_subject).
THEOREM SubjectsAreSubmitted == Spec => []SubjectIsSubmitted
<1>1. IInv => SubjectIsSubmitted
  BY DEF IInv, ReceiptOK, SubjectIsSubmitted, Readable
<1> QED BY <1>1, Invariance, PTL

\* A receipt carries no cosignature over another checkpoint than the one it
\* carries it for, and none its witness did not make (cosignature_over).
THEOREM CosignaturesAreOver == Spec => []CosignedAsCarried
<1>1. IInv => CosignedAsCarried
  BY DEF IInv, ReceiptOK, CosignedAsCarried, CosignedOver
<1> QED BY <1>1, Invariance, PTL

\* A receipt's cosignatures are of witnesses the version in force declares,
\* whatever prefix and window the mirror answered with.
THEOREM CosignaturesAccounted == Spec => []AccountedByTheLog
<1>1. IInv => AccountedByTheLog
  BY DEF IInv, ReceiptOK, AccountedByTheLog, AccountedIn, Readable
<1> QED BY <1>1, Invariance, PTL

\* No manifest comes between a receipt's checkpoint and the later one it
\* carries, whatever series and window the mirror published (continued_history).
THEOREM ContinuationsGrounded == Spec => []ContinuationGrounded
<1>1. IInv => ContinuationGrounded
  BY DEF IInv, ReceiptOK, ContinuationGrounded, Readable
<1> QED BY <1>1, Invariance, PTL

\* A receipt proves the rotations of its chain and no others, each attested
\* by a witness of the outgoing version (compose_rotation_proof).
THEOREM RotationsAreProved == Spec => []RotationsProved
<1>1. IInv => RotationsProved
  <2> SUFFICES ASSUME IInv, NEW c \in receipts, Readable(c)
               PROVE  /\ {p.index : p \in c.proofs} = Rotations(log, c.cp.size)
                      /\ \A p \in c.proofs :
                           \E w \in p.by, out \in Below(log, p.index) :
                              /\ IsActive(log, p.index, out) /\ w \in DeclaredAt(log, out)
                              /\ p.over \in seen[w] /\ p.over.size > p.index
    BY DEF RotationsProved
  <2>1. ReceiptOK(c, log, minted, seen)
    BY DEF IInv
  <2>2. \A p \in c.proofs : ProvedAt(p, log, seen)
    BY <2>1 DEF ReceiptOK
  <2> QED BY <2>1, <2>2 DEF ReceiptOK, Readable, ProvedAt, Attested
<1> QED BY <1>1, Invariance, PTL

-----------------------------------------------------------------------------
(***************************************************************************)
(* Anchoring (AnchorStable).  A receipt issued again is anchored at the    *)
(* earliest checkpoint usable when its entry was looked up.  It stays the  *)
(* earliest: an entry not yet held is beyond no usable checkpoint, so the  *)
(* one that an ingest makes usable is later than all that were.            *)
(***************************************************************************)
Entering  == {"retrieve", "stage", "ingest"}
Answering == {"enumerate"} \cup Judging

RunAnchored(x) ==
  /\ x.pc \in {"look", "submit"} \cup Entering => ~x.placed
  /\ x.pc \in Entering => x.index \notin held
  /\ x.pc \in {"stage", "ingest"} => x.index < x.cp.size
  /\ x.pc \in Answering /\ x.placed => x.cp \in Covers(Usable, x.index)

\* No two runs enter one index.
Apart(x, y) == x.pc \in Entering /\ y.pc \in Entering => x.index # y.index

ReceiptAnchored(c) == c.placed => c.cp \in Covers(Usable, c.index)

AnchorInv ==
  mirror = "honest" =>
    /\ \A r \in Runs : RunAnchored(run[r])
    /\ \A q, r \in Runs : q # r => Apart(run[q], run[r])
    /\ \A c \in receipts : ReceiptAnchored(c)

\* A step of one run that gives the mirror nothing.
LEMMA MirrorStill ==
  ASSUME IInv, AnchorInv, NEW r \in Runs, NEW y, Go(r, y),
         UNCHANGED <<held, series, mirror, receipts>>,
         mirror = "honest" =>
           RunAnchored(y) /\ \A q \in Runs \ {r} : Apart(run[q], y)
  PROVE  AnchorInv'
<1> SUFFICES ASSUME mirror = "honest" PROVE AnchorInv'
  BY DEF AnchorInv
<1>1. run'[r] = y /\ \A q \in Runs \ {r} : run'[q] = run[q]
  BY DEF Go, IInv, TypeOK
<1>2. Usable' = Usable
  BY DEF Usable
<1>3. \A x : RunAnchored(x)' <=> RunAnchored(x)
  BY <1>2 DEF RunAnchored, Covers
<1> QED BY <1>1, <1>2, <1>3 DEF AnchorInv, RunAnchored, Apart, ReceiptAnchored, Covers

LEMMA FailKeepsAnchors ==
  ASSUME IInv, AnchorInv, NEW r \in Runs, NEW label \in Ended,
         End(r, label), UNCHANGED <<servers, receipts>>
  PROVE  AnchorInv'
<1> DEFINE y == [NewRun EXCEPT !.pc = label]
<1>1. y.pc = label /\ Go(r, y)
  BY DEF NewRun, End
<1> HIDE DEF y
<1>2. RunAnchored(y) /\ \A q \in Runs \ {r} : Apart(run[q], y)
  BY <1>1 DEF RunAnchored, Apart, Ended, Entering, Answering, Judging, Later
<1> QED BY <1>1, <1>2, MirrorStill DEF servers

\* A run with its answer in hand keeps what it was anchored at.
LEMMA AnsweringKeepsAnchors ==
  ASSUME IInv, AnchorInv, NEW r \in Runs, NEW y, Go(r, y),
         UNCHANGED <<held, series, mirror, receipts>>,
         run[r].pc \in Answering, y.pc \in Answering,
         y.index = run[r].index, y.placed = run[r].placed, y.cp = run[r].cp
  PROVE  AnchorInv'
<1>1. mirror = "honest" => RunAnchored(y) /\ \A q \in Runs \ {r} : Apart(run[q], y)
  <2>1. y.pc \notin {"look", "submit"} \cup Entering
    BY DEF Answering, Judging, Later, Entering
  <2> QED BY <2>1 DEF AnchorInv, RunAnchored, Apart, Entering
<1> QED BY <1>1, MirrorStill

\* Such a run moves on to another question about the same answer.
Kept(r, y) ==
  /\ Go(r, y) /\ UNCHANGED <<held, series, mirror, receipts>>
  /\ y.pc \in Answering
  /\ y.index = run[r].index /\ y.placed = run[r].placed /\ y.cp = run[r].cp

LEMMA AnsweringMoves ==
  ASSUME IInv, NEW r \in Runs,
         \/ Enumerate(r) \/ History(r) \/ Cosign(r) \/ Proof(r) \/ Attest(r)
         \/ Series(r) \/ Window(r) \/ LaterHistory(r) \/ LaterCosign(r)
  PROVE  run[r].pc \in Answering /\ (Fail(r) \/ \E y : Kept(r, y))
<1> USE DEF Kept
<1>1. run[r] \in RunState
  BY RunFacts
<1>2. ASSUME NEW y, Learn(r, y) PROVE Go(r, y) /\ UNCHANGED <<held, series, mirror, receipts>>
  BY <1>2 DEF Learn, servers
<1>3. \A todo, owed, wants : Onward(todo, owed, wants) \in Answering
  BY OnwardIs DEF Answering, Judging, Later
<1>4. \A todo : OnwardLater(todo) \in Answering
  BY OnwardLaterIs DEF Answering, Judging, Later
<1>5. {"history", "cosign", "proof", "attest", "series", "window", "later_history",
       "later_cosign", "assemble", "enumerate"} \subseteq Answering
  BY DEF Answering, Judging, Later
<1>6. ASSUME Enumerate(r) PROVE Fail(r) \/ \E y : Kept(r, y)
  <2> SUFFICES ASSUME ~Fail(r) PROVE \E y : Kept(r, y)
    OBVIOUS
  <2>1. PICK entries :
          Learn(r, [run[r] EXCEPT !.pc = "history", !.prefix = entries, !.todo = Endpoints,
                                  !.owed = Rotations(entries, run[r].cp.size)])
    BY <1>6 DEF Enumerate
  <2> WITNESS [run[r] EXCEPT !.pc = "history", !.prefix = entries, !.todo = Endpoints,
                             !.owed = Rotations(entries, run[r].cp.size)]
  <2> QED BY <1>1, <1>2, <1>5, <2>1 DEF RunState
<1>7. ASSUME History(r) PROVE Fail(r) \/ \E y : Kept(r, y)
  <2> DEFINE w == Head(run[r].todo)
             rest == Tail(run[r].todo)
             to == Onward(rest, run[r].owed, run[r].wants)
             next(rec) == [run[r] EXCEPT !.pc = to,
                             !.cos = @ \cup {[by |-> w, over |-> rec]}, !.todo = rest]
             still == [run[r] EXCEPT !.pc = "cosign"]
  <2>1. Learn(r, still) \/ \E rec : Learn(r, next(rec))
    BY <1>7 DEF History
  <2>2. ASSUME Learn(r, still) PROVE \E y : Kept(r, y)
    <3> WITNESS still
    <3> QED BY <1>1, <1>2, <1>5, <2>2 DEF RunState
  <2>3. ASSUME NEW rec, Learn(r, next(rec)) PROVE \E y : Kept(r, y)
    <3>1. to \in Answering
      BY <1>3
    <3>2. Go(r, next(rec)) /\ UNCHANGED <<held, series, mirror, receipts>>
      BY <1>2, <2>3
    <3> WITNESS next(rec)
    <3> HIDE DEF to, w, rest
    <3> QED BY <1>1, <3>1, <3>2 DEF RunState
  <2> QED BY <2>1, <2>2, <2>3
<1>8. ASSUME Cosign(r) PROVE Fail(r) \/ \E y : Kept(r, y)
  <2> DEFINE w == Head(run[r].todo)
             rest == Tail(run[r].todo)
             to == Onward(rest, run[r].owed, run[r].wants)
             next == [run[r] EXCEPT !.pc = to,
                        !.cos = @ \cup {[by |-> w, over |-> run[r].cp]}, !.todo = rest]
  <2> SUFFICES ASSUME ~Fail(r) PROVE \E y : Kept(r, y)
    OBVIOUS
  <2>1. Go(r, next) /\ UNCHANGED <<held, series, mirror, receipts>>
    BY <1>8 DEF Cosign
  <2>2. to \in Answering
    BY <1>3
  <2> WITNESS next
  <2> HIDE DEF to, w, rest
  <2> QED BY <1>1, <2>1, <2>2 DEF RunState
<1>9. ASSUME Proof(r) PROVE Fail(r) \/ \E y : Kept(r, y)
  <2> SUFFICES ASSUME ~Fail(r) PROVE \E y : Kept(r, y)
    OBVIOUS
  <2>1. PICK c : Learn(r, [run[r] EXCEPT !.pc = "attest", !.element = c,
                                         !.todo = Endpoints, !.served = {}])
    BY <1>9 DEF Proof
  <2> WITNESS [run[r] EXCEPT !.pc = "attest", !.element = c,
                             !.todo = Endpoints, !.served = {}]
  <2> QED BY <1>1, <1>2, <1>5, <2>1 DEF RunState
<1>10. ASSUME Attest(r) PROVE Fail(r) \/ \E y : Kept(r, y)
  <2> DEFINE next(owed, proofs) ==
               [run[r] EXCEPT !.pc = Onward(<<>>, owed, run[r].wants), !.todo = <<>>,
                              !.owed = owed, !.served = {}, !.element = None,
                              !.proofs = @ \cup proofs]
             asked(todo, served) == [run[r] EXCEPT !.todo = todo, !.served = served]
  <2>1. \/ Fail(r)
        \/ \E todo, served : Learn(r, asked(todo, served))
        \/ \E owed, proofs : Learn(r, next(owed, proofs))
    BY <1>10 DEF Attest
  <2>2. ASSUME NEW todo, NEW served, Learn(r, asked(todo, served)) PROVE \E y : Kept(r, y)
    <3> WITNESS asked(todo, served)
    <3> QED BY <1>1, <1>2, <1>5, <1>10, <2>2 DEF RunState, Attest, At
  <2>3. ASSUME NEW owed, NEW proofs, Learn(r, next(owed, proofs)) PROVE \E y : Kept(r, y)
    <3> DEFINE to == Onward(<<>>, owed, run[r].wants)
    <3>1. to \in Answering
      BY <1>3
    <3>2. Go(r, next(owed, proofs)) /\ UNCHANGED <<held, series, mirror, receipts>>
      BY <1>2, <2>3
    <3> DEFINE y == [run[r] EXCEPT !.pc = to, !.todo = <<>>, !.owed = owed, !.served = {},
                                   !.element = None, !.proofs = @ \cup proofs]
    <3>3. Go(r, y)
      BY <3>2
    <3> HIDE DEF to
    <3>4. y.pc = to /\ y.index = run[r].index /\ y.placed = run[r].placed /\ y.cp = run[r].cp
      BY <1>1 DEF RunState
    <3> HIDE DEF y
    <3> WITNESS y
    <3> QED BY <3>1, <3>2, <3>3, <3>4
  <2> QED BY <2>1, <2>2, <2>3
<1>11. ASSUME Series(r) PROVE Fail(r) \/ \E y : Kept(r, y)
  <2> DEFINE on == [run[r] EXCEPT !.pc = "assemble"]
             next(beyond, furthest) == [run[r] EXCEPT !.pc = "window",
                                          !.published = beyond, !.horizon = furthest]
  <2>1. Learn(r, on) \/ \E beyond, furthest : Learn(r, next(beyond, furthest))
    BY <1>11 DEF Series
  <2>2. ASSUME Learn(r, on) PROVE \E y : Kept(r, y)
    <3> WITNESS on
    <3> QED BY <1>1, <1>2, <1>5, <2>2 DEF RunState
  <2>3. ASSUME NEW beyond, NEW furthest, Learn(r, next(beyond, furthest))
        PROVE  \E y : Kept(r, y)
    <3> WITNESS next(beyond, furthest)
    <3> QED BY <1>1, <1>2, <1>5, <2>3 DEF RunState
  <2> QED BY <2>1, <2>2, <2>3
<1>12. ASSUME Window(r) PROVE Fail(r) \/ \E y : Kept(r, y)
  <2> DEFINE on == [run[r] EXCEPT !.pc = "assemble"]
             next(later, window) ==
               [run[r] EXCEPT !.pc = "later_history", !.later = later, !.window = window,
                              !.todo = Endpoints, !.published = {}, !.horizon = None]
  <2>1. Fail(r) \/ Learn(r, on) \/ \E later, window : Learn(r, next(later, window))
    BY <1>12 DEF Window
  <2>2. ASSUME Learn(r, on) PROVE \E y : Kept(r, y)
    <3> WITNESS on
    <3> QED BY <1>1, <1>2, <1>5, <2>2 DEF RunState
  <2>3. ASSUME NEW later, NEW window, Learn(r, next(later, window)) PROVE \E y : Kept(r, y)
    <3> WITNESS next(later, window)
    <3> QED BY <1>1, <1>2, <1>5, <2>3 DEF RunState
  <2> QED BY <2>1, <2>2, <2>3
<1>13. ASSUME LaterHistory(r) \/ LaterCosign(r) PROVE Fail(r) \/ \E y : Kept(r, y)
  <2> DEFINE rest == Tail(run[r].todo)
             to == OnwardLater(rest)
             next(lcos) == [run[r] EXCEPT !.pc = to, !.lcos = @ \cup lcos, !.todo = rest]
             pass == [run[r] EXCEPT !.pc = to, !.todo = rest]
             still == [run[r] EXCEPT !.pc = "later_cosign"]
  <2>1. /\ UNCHANGED <<held, series, mirror, receipts>>
        /\ Fail(r) \/ Go(r, still) \/ Go(r, pass) \/ \E lcos : Go(r, next(lcos))
    BY <1>13 DEF LaterHistory, LaterCosign, Learn, Fail, servers
  <2>2. ASSUME Go(r, still) PROVE \E y : Kept(r, y)
    <3> WITNESS still
    <3> QED BY <1>1, <1>5, <2>1, <2>2 DEF RunState
  <2>3. to \in Answering
    BY <1>4
  <2>4. ASSUME Go(r, pass) PROVE \E y : Kept(r, y)
    <3> WITNESS pass
    <3> HIDE DEF to, rest
    <3> QED BY <1>1, <2>1, <2>3, <2>4 DEF RunState
  <2>5. ASSUME NEW lcos, Go(r, next(lcos)) PROVE \E y : Kept(r, y)
    <3> WITNESS next(lcos)
    <3> HIDE DEF to, rest
    <3> QED BY <1>1, <2>1, <2>3, <2>5 DEF RunState
  <2> QED BY <2>1, <2>2, <2>4, <2>5
<1>14. run[r].pc \in Answering
  BY <1>5 DEF Enumerate, History, Cosign, Proof, Attest, Series, Window,
              LaterHistory, LaterCosign, At
<1>15. Fail(r) \/ \E y : Kept(r, y)
  BY <1>6, <1>7, <1>8, <1>9, <1>10, <1>11, <1>12, <1>13
<1> QED BY <1>14, <1>15

LEMMA AnsweringSteps ==
  ASSUME IInv, AnchorInv, NEW r \in Runs,
         \/ Enumerate(r) \/ History(r) \/ Cosign(r) \/ Proof(r) \/ Attest(r)
         \/ Series(r) \/ Window(r) \/ LaterHistory(r) \/ LaterCosign(r)
  PROVE  AnchorInv'
<1>1. CASE Fail(r)
  BY <1>1, FailKeepsAnchors DEF Fail, Ended
<1>2. CASE \E y : Kept(r, y)
  BY <1>2, AnsweringMoves, AnsweringKeepsAnchors DEF Kept
<1> QED BY <1>1, <1>2, AnsweringMoves

LEMMA LookingKeepsAnchors ==
  ASSUME IInv, AnchorInv, NEW r \in Runs, Start(r) \/ LookUp(r) \/ Place(r)
  PROVE  AnchorInv'
<1>1. run[r] \in RunState
  BY RunFacts
<1>2. CASE Start(r)
  <2>1. PICK e \in Envelope, wants \in BOOLEAN :
          Go(r, [NewRun EXCEPT !.pc = "look", !.env = e, !.wants = wants])
    BY <1>2 DEF Start
  <2> DEFINE y == [NewRun EXCEPT !.pc = "look", !.env = e, !.wants = wants]
  <2>2. y.pc = "look" /\ ~y.placed /\ Go(r, y)
    BY <2>1 DEF NewRun
  <2> HIDE DEF y
  <2>3. RunAnchored(y) /\ \A q \in Runs \ {r} : Apart(run[q], y)
    BY <2>2 DEF RunAnchored, Apart, Entering, Answering, Judging, Later
  <2> QED BY <1>2, <2>2, <2>3, MirrorStill DEF Start, servers
<1>3. CASE LookUp(r)
  <2> DEFINE missing == [run[r] EXCEPT !.pc = "submit"]
             found(at) == [run[r] EXCEPT !.pc = "place", !.index = at, !.placed = TRUE]
  <2>1. Learn(r, missing) \/ \E at : Learn(r, found(at))
    BY <1>3 DEF LookUp
  <2>2. PICK y : /\ Learn(r, y)
                 /\ \/ y.pc = "submit" /\ y.placed = run[r].placed
                    \/ y.pc = "place"
    <3>1. missing.pc = "submit" /\ missing.placed = run[r].placed
      BY <1>1 DEF RunState
    <3>2. \A at : found(at).pc = "place"
      BY <1>1 DEF RunState
    <3> QED BY <2>1, <3>1, <3>2
  <2>3. mirror = "honest" => RunAnchored(y) /\ \A q \in Runs \ {r} : Apart(run[q], y)
    BY <1>3, <2>2
       DEF AnchorInv, RunAnchored, Apart, Entering, Answering, Judging, Later, LookUp, At
  <2> QED BY <2>2, <2>3, MirrorStill DEF Learn, servers
<1>4. CASE Place(r)
  <2> DEFINE next(c) == [run[r] EXCEPT !.pc = "enumerate", !.cp = c]
  <2>1. CASE Fail(r)
    BY <2>1, FailKeepsAnchors DEF Fail, Ended
  <2>2. CASE ~Fail(r)
    <3>1. PICK published \in Published :
            \E c \in Covers(published, run[r].index) : Learn(r, next(c))
      BY <1>4, <2>2 DEF Place
    <3>2. mirror = "honest" => published = Usable
      BY DEF Published
    <3>3. PICK c \in Covers(published, run[r].index) : Learn(r, next(c))
      BY <3>1
    <3> DEFINE y == next(c)
    <3>4. /\ y.pc = "enumerate" /\ y.cp = c /\ y.index = run[r].index
          /\ y.placed = run[r].placed /\ Learn(r, y)
      BY <1>1, <3>3 DEF RunState
    <3> HIDE DEF y
    <3>5. mirror = "honest" => RunAnchored(y) /\ \A q \in Runs \ {r} : Apart(run[q], y)
      BY <3>2, <3>3, <3>4 DEF RunAnchored, Apart, Entering, Answering, Judging, Later
    <3> QED BY <3>4, <3>5, MirrorStill DEF Learn, servers
  <2> QED BY <2>1, <2>2
<1> QED BY <1>2, <1>3, <1>4

\* The index a run submits at is that of no other run, and beyond all held.
LEMMA EnteringKeepsAnchors ==
  ASSUME IInv, AnchorInv, NEW r \in Runs, Submit(r) \/ Retrieve(r) \/ Stage(r)
  PROVE  AnchorInv'
<1>1. run[r] \in RunState /\ RunOK(run[r], log, minted, seen)
  BY RunFacts
<1>2. /\ log \in Trees /\ Len(log) \in Nat /\ held \subseteq 0..(Len(log) - 1)
      /\ \A q \in Runs : run[q].pc \in Entering =>
                           run[q].index \in Nat /\ run[q].index < Len(log)
  BY DEF IInv, TypeOK, Trees, RunOK, HasWhatItNeeds, Entering, Placed
<1>3. CASE Submit(r)
  <2> DEFINE y == [run[r] EXCEPT !.pc = "retrieve", !.index = Len(log)]
  <2>1. y.pc = "retrieve" /\ y.index = Len(log) /\ y.placed = run[r].placed /\ Go(r, y)
    BY <1>1, <1>3 DEF RunState, Submit
  <2> HIDE DEF y
  <2>2. mirror = "honest" => RunAnchored(y) /\ \A q \in Runs \ {r} : Apart(run[q], y)
    BY <1>2, <1>3, <2>1
       DEF AnchorInv, RunAnchored, Apart, Entering, Answering, Judging, Later, Submit, At
  <2> QED BY <1>3, <2>1, <2>2, MirrorStill DEF Submit
<1>4. CASE Retrieve(r)
  <2> DEFINE c == [size |-> Len(log), root |-> log,
                   time |-> Cardinality({d \in minted : d.size = Len(log)}) + 1]
             y == [run[r] EXCEPT !.pc = "stage", !.cp = c]
  <2>1. /\ y.pc = "stage" /\ y.index = run[r].index /\ y.placed = run[r].placed
        /\ y.cp.size = Len(log) /\ Go(r, y)
    BY <1>1, <1>4 DEF RunState, Retrieve
  <2> HIDE DEF y
  <2>2. mirror = "honest" => RunAnchored(y) /\ \A q \in Runs \ {r} : Apart(run[q], y)
    BY <1>2, <1>4, <2>1
       DEF AnchorInv, RunAnchored, Apart, Entering, Answering, Judging, Later, Retrieve, At
  <2> QED BY <1>4, <2>1, <2>2, MirrorStill DEF Retrieve
<1>5. CASE Stage(r)
  <2> DEFINE y == [run[r] EXCEPT !.pc = "ingest"]
  <2>1. /\ y.pc = "ingest" /\ y.index = run[r].index /\ y.placed = run[r].placed
        /\ y.cp = run[r].cp /\ Go(r, y)
    BY <1>1, <1>5 DEF RunState, Stage
  <2> HIDE DEF y
  <2>2. mirror = "honest" => RunAnchored(y) /\ \A q \in Runs \ {r} : Apart(run[q], y)
    BY <1>2, <1>5, <2>1
       DEF AnchorInv, RunAnchored, Apart, Entering, Answering, Judging, Later, Stage, At
  <2> QED BY <1>5, <2>1, <2>2, MirrorStill DEF Stage
<1> QED BY <1>3, <1>4, <1>5

\* What an ingest makes usable is later than all that was.
LEMMA IngestedIsLast ==
  ASSUME IInv, NEW c \in Checkpoint, NEW i \in Nat, i \notin held, i < c.size,
         held' = held \cup {i}, series' = series \cup {c},
         NEW j \in Nat, NEW d \in Covers(Usable, j)
  PROVE  d \in Covers(Usable', j)
<1>1. series \subseteq Checkpoint
  BY DEF IInv, TypeOK
<1>2. d \in Usable' /\ d.size > j /\ d.size \in Nat /\ 0..(d.size - 1) \subseteq held
  BY <1>1 DEF Covers, Usable, Checkpoint
<1>3. ASSUME NEW e \in Usable', e.size > j, e.size < d.size PROVE FALSE
  <2>1. e \in series \cup {c} /\ e.size \in Nat
    BY <1>1, <1>3 DEF Usable, Checkpoint
  <2>2. 0..(e.size - 1) \subseteq held
    BY <1>2, <1>3, <2>1
  <2>3. e \notin Usable
    BY <1>2, <1>3, <2>1 DEF Covers
  <2>4. e = c
    BY <2>1, <2>2, <2>3 DEF Usable
  <2> QED BY <2>1, <2>2, <2>4
<1>4. \A e \in Usable' : e.size \in Nat
  BY <1>1 DEF Usable, Checkpoint
<1>5. \A e \in Usable' : e.size > j => d.size <= e.size
  BY <1>2, <1>3, <1>4
<1> QED BY <1>2, <1>5 DEF Covers

LEMMA IngestKeepsAnchors ==
  ASSUME IInv, AnchorInv, NEW r \in Runs, Ingest(r)
  PROVE  AnchorInv'
<1> SUFFICES ASSUME mirror = "honest" PROVE AnchorInv'
  BY DEF AnchorInv, Ingest
<1> DEFINE y == [run[r] EXCEPT !.pc = "enumerate"]
<1>1. /\ run[r] \in RunState /\ RunOK(run[r], log, minted, seen) /\ run[r].pc = "ingest"
      /\ run \in [Runs -> RunState] /\ receipts \subseteq Receipt
  BY RunFacts DEF Ingest, At, IInv, TypeOK
<1>2. /\ run[r].index \in Nat /\ run[r].index \notin held /\ run[r].cp \in Checkpoint
      /\ run[r].index < run[r].cp.size /\ ~run[r].placed
  BY <1>1 DEF AnchorInv, RunAnchored, Entering, RunOK, HasWhatItNeeds, Placed, Known
<1>3. /\ held' = held \cup {run[r].index} /\ series' = series \cup {run[r].cp}
      /\ receipts' = receipts /\ mirror' = mirror /\ Go(r, y)
  BY DEF Ingest
<1>4. /\ y.pc = "enumerate" /\ y.placed = run[r].placed
      /\ run'[r] = y /\ \A q \in Runs \ {r} : run'[q] = run[q]
  BY <1>1, <1>3 DEF RunState, Go
<1> HIDE DEF y
<1>5. \A i \in Nat : \A d \in Covers(Usable, i) : d \in Covers(Usable', i)
  BY <1>2, <1>3, IngestedIsLast
<1>6. ASSUME NEW q \in Runs PROVE RunAnchored(run[q])'
  <2>1. CASE q = r
    BY <1>2, <1>4, <2>1 DEF RunAnchored, Entering
  <2>2. CASE q # r
    <3>1. run'[q] = run[q] /\ RunAnchored(run[q]) /\ Apart(run[r], run[q])
      BY <1>4, <2>2 DEF AnchorInv
    <3>2. run[q].pc \in Entering => run[q].index \notin held'
      BY <1>1, <1>3, <3>1 DEF RunAnchored, Apart, Entering
    <3>3. run[q].pc \in Answering => run[q].index \in Nat
      BY DEF IInv, RunOK, HasWhatItNeeds, Placed, Answering
    <3>4. run[q].pc \in Answering /\ run[q].placed => run[q].cp \in Covers(Usable', run[q].index)
      BY <1>5, <3>1, <3>3 DEF RunAnchored
    <3> QED BY <3>1, <3>2, <3>4 DEF RunAnchored
  <2> QED BY <2>1, <2>2
<1>7. \A p, q \in Runs : p # q => Apart(run'[p], run'[q])
  BY <1>4 DEF AnchorInv, Apart, Entering
<1>8. ASSUME NEW c \in receipts PROVE ReceiptAnchored(c)'
  <2>1. ReceiptAnchored(c) /\ c.index \in Nat
    BY <1>1 DEF AnchorInv, Receipt
  <2> QED BY <1>5, <2>1 DEF ReceiptAnchored
<1> QED BY <1>3, <1>6, <1>7, <1>8 DEF AnchorInv

LEMMA AssembleKeepsAnchors ==
  ASSUME IInv, AnchorInv, NEW r \in Runs, Assemble(r)
  PROVE  AnchorInv'
<1>1. CASE Fail(r)
  BY <1>1, FailKeepsAnchors DEF Fail, Ended
<1>2. CASE ~Fail(r)
  <2> SUFFICES ASSUME mirror = "honest" PROVE AnchorInv'
    BY <1>2 DEF AnchorInv, Assemble, servers
  <2> DEFINE ended == [NewRun EXCEPT !.pc = "issued"]
  <2>1. run \in [Runs -> RunState] /\ run[r].pc = "assemble"
    BY DEF Assemble, At, IInv, TypeOK
  <2>2. PICK c : /\ receipts' = receipts \cup {c} /\ c.index = run[r].index
                 /\ c.placed = run[r].placed /\ c.cp = run[r].cp
    <3> DEFINE c == [env    |-> run[r].env,   index |-> run[r].index,
                     placed |-> run[r].placed, cp   |-> run[r].cp,
                     cos    |-> Accounted(run[r].cos, run[r].prefix, run[r].cp.size),
                     proofs |-> run[r].proofs, later |-> run[r].later,
                     lcos   |-> LaterWitnesses(r)]
    <3>1. receipts' = receipts \cup {c}
      BY <1>2 DEF Assemble
    <3>2. c.index = run[r].index /\ c.placed = run[r].placed /\ c.cp = run[r].cp
      OBVIOUS
    <3> QED BY <3>1, <3>2
  <2>3. UNCHANGED servers /\ Go(r, ended) /\ ended.pc = "issued"
    BY <1>2 DEF Assemble, End, NewRun
  <2>4. run'[r] = ended /\ \A q \in Runs \ {r} : run'[q] = run[q]
    BY <2>1, <2>3 DEF Go
  <2> HIDE DEF ended
  <2>5. held' = held /\ series' = series /\ mirror' = mirror /\ Usable' = Usable
    BY <2>3 DEF servers, Usable
  <2>6. ReceiptAnchored(c)
    BY <2>1, <2>2 DEF AnchorInv, RunAnchored, ReceiptAnchored, Answering, Judging, Later
  <2>7. /\ RunAnchored(ended) /\ \A q \in Runs : Apart(run[q], ended) /\ Apart(ended, run[q])
    BY <2>3 DEF RunAnchored, Apart, Entering, Answering, Judging, Later
  <2>8. \A q \in Runs : RunAnchored(run[q])'
    BY <2>4, <2>5, <2>7 DEF AnchorInv, RunAnchored, Covers
  <2>9. \A p, q \in Runs : p # q => Apart(run'[p], run'[q])
    BY <2>4, <2>7 DEF AnchorInv
  <2>10. \A d \in receipts' : ReceiptAnchored(d)'
    BY <2>2, <2>5, <2>6 DEF AnchorInv, ReceiptAnchored, Covers
  <2> QED BY <2>5, <2>8, <2>9, <2>10 DEF AnchorInv
<1> QED BY <1>1, <1>2

LEMMA AnchorInit == Init => AnchorInv
BY DEF Init, NewRun, AnchorInv, RunAnchored, Apart, Entering, Answering, Judging, Later

LEMMA AnchorNext == IInv /\ AnchorInv /\ [Next]_vars => AnchorInv'
<1> SUFFICES ASSUME IInv, AnchorInv, [Next]_vars PROVE AnchorInv'
  OBVIOUS
<1>1. CASE UNCHANGED vars
  <2>1. /\ held' = held /\ series' = series /\ mirror' = mirror
        /\ run' = run /\ receipts' = receipts
    BY <1>1 DEF vars, servers
  <2> QED BY <2>1 DEF AnchorInv, RunAnchored, ReceiptAnchored, Covers, Usable
<1>2. ASSUME NEW r \in Runs, Start(r) PROVE AnchorInv'
  BY <1>2, LookingKeepsAnchors
<1>3. ASSUME NEW r \in Runs, Crash(r) PROVE AnchorInv'
  BY <1>3, FailKeepsAnchors DEF Crash, Ended
<1>4. ASSUME NEW r \in Runs, Step(r) PROVE AnchorInv'
  BY <1>4, LookingKeepsAnchors, EnteringKeepsAnchors, IngestKeepsAnchors,
     AnsweringSteps, AssembleKeepsAnchors DEF Step
<1> QED BY <1>1, <1>2, <1>3, <1>4 DEF Next

\* Whoever issues an envelope again, and however often, gets a receipt over a
\* tree of the same size: the anchor of an entry does not move as the log grows
\* (publish_existing).
THEOREM AnchorsStayPut == Spec => []AnchorStable
<1>1. IInv /\ AnchorInv => AnchorStable
  <2> SUFFICES ASSUME IInv, AnchorInv, mirror = "honest",
                      NEW b \in receipts, NEW c \in receipts,
                      b.placed, c.placed, b.index = c.index
               PROVE  b.cp.size = c.cp.size
    BY DEF AnchorStable
  <2>1. b.cp \in Covers(Usable, b.index) /\ c.cp \in Covers(Usable, b.index)
    BY DEF AnchorInv, ReceiptAnchored
  <2>2. b.cp.size \in Nat /\ c.cp.size \in Nat
    BY DEF IInv, TypeOK, Receipt, Checkpoint
  <2> QED BY <2>1, <2>2 DEF Covers
<1> QED BY <1>1, Invariance, AnchorInit, AnchorNext, PTL DEF Spec

-----------------------------------------------------------------------------
(***************************************************************************)
(* Runs in turn (RunsInTurn).  Between two runs the mirror holds all the   *)
(* log holds and a checkpoint over all of it, and every witness has        *)
(* cosigned every checkpoint of the series; the one run under way is what  *)
(* they may lack.  So the mirror knows every entry there is, no witness    *)
(* has seen beyond the checkpoint it is shown, and both kinds of server    *)
(* anchor a rotation at one checkpoint.                                    *)
(*                                                                         *)
(* l is the log, h what the mirror holds, s the series, v what each        *)
(* witness has seen.                                                       *)
(***************************************************************************)
Whole(l, h, s) == h = 0..(Len(l) - 1) /\ \E c \in s : c.size = Len(l)

Shown(s, v) == \A w \in Witnesses : v[w] = s

\* Witness w has still to be asked.
Ahead(x, w) == \E k \in 1..Len(x.todo) : x.todo[k] = w

\* The envelope is where the run has it, or nowhere.
Locates(x, l, h) ==
  /\ x.pc = "submit" => \A k \in 1..Len(l) : l[k] # x.env
  /\ x.pc = "place" => x.index < Len(l) /\ l[x.index + 1] = x.env
  /\ x.pc \in Entering =>
       /\ x.index = Len(l) - 1 /\ l[x.index + 1] = x.env
       /\ h = 0..(Len(l) - 2)
  /\ x.pc \in {"stage", "ingest"} => x.cp.size = Len(l)

Answered(x, l, s) ==
  /\ x.pc \in Answering =>
       /\ x.cp \in s /\ x.index < x.cp.size /\ l[x.index + 1] = x.env
  /\ x.pc \in Judging => x.prefix = x.cp.root

\* A checkpoint a witness lacks is the run's own, over the whole log, and the
\* run is about to show it.
Shows(x, l, s, v) ==
  /\ x.pc \in {"enumerate", "history", "cosign"} =>
       \A w \in Witnesses, c \in s :
          \/ c \in v[w]
          \/ c = x.cp /\ c.size = Len(l) /\ (x.pc = "enumerate" \/ Ahead(x, w))
  /\ x.pc = "cosign" => x.cp \notin v[Head(x.todo)]

\* The witnesses asked so far attest the rotation at the mirror's anchor.
Attests(x, l, s) ==
  x.pc = "attest" =>
    \A i \in x.owed : (\A j \in x.owed : i <= j) =>
       /\ x.element \in Anchors(s, i)
       /\ \A y \in x.served : y.over = x.element
       /\ \A out \in 0..i : IsActive(l, i, out) =>
            \A w \in DeclaredAt(l, out) :
               Ahead(x, w) \/ [by |-> w, over |-> x.element] \in x.served

LooksLater(x, s) ==
  /\ x.pc # "later_cosign"
  /\ x.pc = "window" => x.horizon \in s /\ x.published \subseteq s
  /\ x.pc \in Later /\ x.later # None =>
       /\ x.later \in s
       /\ \A w \in Witnesses : \/ [by |-> w, over |-> x.later] \in x.lcos
                               \/ x.pc = "later_history" /\ Ahead(x, w)

\* The servers as run x, alone with them, leaves them.
Settled(x, l, h, s, v) ==
  /\ Locates(x, l, h) /\ Answered(x, l, s) /\ Shows(x, l, s, v)
  /\ Attests(x, l, s) /\ LooksLater(x, s)
  /\ x.pc \notin Entering => Whole(l, h, s)
  /\ x.pc \notin {"enumerate", "history", "cosign"} => Shown(s, v)

Founded(l, s, v) ==
  /\ Once(l) /\ Len(l) > 0 /\ l[1] \in Manifest
  /\ \A w \in Witnesses : v[w] \subseteq s

TurnInv ==
  InTurn =>
    /\ \A q, r \in Runs : InFlight(q) /\ InFlight(r) => q = r
    /\ \A r \in Runs : run[r].pc # "failed"
    /\ Founded(log, series, seen)
    /\ \A r \in Runs : InFlight(r) => Settled(run[r], log, held, series, seen)
    /\ (\A r \in Runs : ~InFlight(r)) => Whole(log, held, series) /\ Shown(series, seen)

LEMMA LeastOfNats ==
  ASSUME NEW S \in SUBSET Nat, S # {}
  PROVE  \E n \in S : \A m \in S : n <= m
<1> DEFINE R == OpToRel(<, Nat)
<1>1. IsWellFoundedOn(R, Nat)
  BY NatLessThanWellFounded
<1>2. \A x, y \in Nat : <<y, x>> \in R <=> y < x
  BY DEF OpToRel
<1> HIDE DEF R
<1>3. PICK x \in S : \A y \in S : ~ (<<y, x>> \in R)
  BY <1>1, WFMin
<1>4. \A y \in S : ~ (y < x)
  BY <1>2, <1>3
<1> QED BY <1>4

\* Among checkpoints past an entry there is an earliest.
LEMMA SomeCover ==
  ASSUME NEW s \in SUBSET Checkpoint, NEW i \in Nat, NEW c \in s, c.size > i
  PROVE  Covers(s, i) # {}
<1> DEFINE sizes == {d.size : d \in {e \in s : e.size > i}}
<1>1. sizes \in SUBSET Nat /\ c.size \in sizes
  BY DEF Checkpoint
<1>2. PICK n \in sizes : \A m \in sizes : n <= m
  BY <1>1, LeastOfNats
<1>3. PICK d \in s : d.size > i /\ d.size = n
  BY <1>2
<1>4. d \in Covers(s, i)
  BY <1>2, <1>3 DEF Covers
<1> QED BY <1>4

LEMMA SomeAnchor ==
  ASSUME NEW s \in SUBSET Checkpoint, NEW i \in Nat, NEW c \in s, c.size > i
  PROVE  Anchors(s, i) # {}
<1>1. PICK d \in Covers(s, i) : TRUE
  BY SomeCover
<1> DEFINE times == {e.time : e \in {f \in s : f.size = d.size}}
<1>2. times \in SUBSET Nat /\ d.time \in times
  BY <1>1 DEF Checkpoint, Covers
<1>3. PICK n \in times : \A m \in times : n <= m
  BY <1>2, LeastOfNats
<1>4. PICK e \in s : e.size = d.size /\ e.time = n
  BY <1>3
<1>5. \A f \in s : f.size = d.size => n <= f.time
  BY <1>3
<1> HIDE DEF times
<1>6. d.size > i /\ d.size \in Nat /\ \A f \in s : f.size > i => d.size <= f.size
  BY <1>1 DEF Covers, Checkpoint
<1>7. ASSUME NEW f \in s, f.size > i PROVE ~Before(f, e)
  <2>1. f.size \in Nat /\ f.time \in Nat /\ e.time \in Nat
    BY <1>4 DEF Checkpoint
  <2> QED BY <1>4, <1>5, <1>6, <1>7, <2>1 DEF Before
<1>8. e \in Anchors(s, i)
  BY <1>4, <1>6, <1>7 DEF Anchors
<1> QED BY <1>8

\* The log signs one checkpoint of a size at a time.
LEMMA OneAnchor ==
  ASSUME IInv, NEW i \in Nat, NEW c \in Anchors(series, i), NEW d \in Anchors(series, i)
  PROVE  c = d
<1>1. /\ c \in Checkpoint /\ d \in Checkpoint /\ c \in series /\ d \in series
      /\ c.root = SubSeq(log, 1, c.size) /\ d.root = SubSeq(log, 1, d.size)
  BY DEF Anchors, IInv, TypeOK, ServersOK
<1>2. ~Before(c, d) /\ ~Before(d, c)
  BY DEF Anchors
<1>3. c.size = d.size /\ c.time = d.time
  BY <1>1, <1>2 DEF Before, Checkpoint
<1> QED BY <1>1, <1>3 DEF Checkpoint

\* A tree that carries a manifest has a version in force.
LEMMA SomeActive ==
  ASSUME NEW tree \in Trees, NEW n \in Nat, Below(tree, n) # {}
  PROVE  \E i \in Below(tree, n) : IsActive(tree, n, i)
<1>1. Below(tree, n) \in SUBSET Nat /\ \A i \in Below(tree, n) : i < n
  BY DEF Below, ManifestIndices, Trees
<1> DEFINE bounds == {k \in Nat : \A i \in Below(tree, n) : i <= k}
<1>2. n \in bounds
  BY <1>1
<1>3. PICK k \in bounds : \A m \in bounds : k <= m
  <2> HIDE DEF bounds
  <2>1. bounds \in SUBSET Nat
    BY DEF bounds
  <2> QED BY <1>2, <2>1, LeastOfNats
<1>4. k \in Below(tree, n)
  <2> SUFFICES ASSUME k \notin Below(tree, n) PROVE FALSE
    OBVIOUS
  <2>1. \A i \in Below(tree, n) : i < k
    BY <1>1, <1>3
  <2>2. k - 1 \in Nat /\ \A i \in Below(tree, n) : i <= k - 1
    BY <1>1, <1>3, <2>1
  <2> QED BY <1>3, <2>2
<1> QED BY <1>3, <1>4 DEF IsActive

-----------------------------------------------------------------------------
\* While runs take turns, the one under way is alone with the servers.
LEMMA Alone ==
  ASSUME TurnInv, InTurn, NEW r \in Runs, InFlight(r)
  PROVE  /\ Settled(run[r], log, held, series, seen)
         /\ Founded(log, series, seen)
         /\ \A q \in Runs \ {r} : ~InFlight(q) /\ run[q].pc # "failed"
BY DEF TurnInv

LEMMA TurnMoves ==
  ASSUME IInv, TurnInv, InTurn, NEW r \in Runs, InFlight(r), NEW y, Go(r, y),
         y.pc # "failed", Founded(log', series', seen'),
         Settled(y, log', held', series', seen')
  PROVE  TurnInv'
<1>1. \A q \in Runs \ {r} : ~InFlight(q) /\ run[q].pc # "failed"
  BY Alone
<1>2. run'[r] = y /\ \A q \in Runs \ {r} : run'[q] = run[q]
  BY DEF Go, IInv, TypeOK
<1>3. \A q \in Runs : InFlight(q)' => q = r
  BY <1>1, <1>2 DEF InFlight
<1>4. (\A q \in Runs : ~InFlight(q)') => Whole(log', held', series') /\ Shown(series', seen')
  <2>1. ~InFlight(r)' => y.pc \in Ended \cup {"idle"}
    BY <1>2 DEF InFlight
  <2>2. y.pc \in Ended \cup {"idle"} => y.pc \notin Entering \cup {"enumerate", "history", "cosign"}
    BY DEF Ended, Entering
  <2> QED BY <2>1, <2>2 DEF Settled
<1>5. \A q \in Runs : run'[q].pc # "failed"
  BY <1>1, <1>2
<1>6. \A q \in Runs : InFlight(q)' => Settled(run'[q], log', held', series', seen')
  BY <1>2, <1>3
<1> QED BY <1>3, <1>4, <1>5, <1>6 DEF TurnInv

LEMMA TurnLearns ==
  ASSUME IInv, TurnInv, InTurn, NEW r \in Runs, InFlight(r), NEW y, Learn(r, y),
         y.pc # "failed", Settled(y, log, held, series, seen)
  PROVE  TurnInv'
<1>1. /\ log' = log /\ held' = held /\ series' = series /\ seen' = seen /\ Go(r, y)
  BY DEF Learn, servers
<1> QED BY <1>1, Alone, TurnMoves

\* The checkpoints of the series, and what a mirror that holds all says of it.
LEMMA SeriesFacts ==
  ASSUME IInv, NEW c \in series
  PROVE  /\ c \in Checkpoint /\ c \in minted /\ c # None
         /\ c.size \in Nat /\ c.size <= Len(log) /\ Len(log) \in Nat /\ log \in Trees
         /\ c.root = Prefix(c.size) /\ c.root \in Trees /\ Len(c.root) = c.size
         /\ \A k \in 1..c.size : c.root[k] = log[k]
<1>1. /\ c \in Checkpoint /\ c \in minted /\ c.size \in Nat /\ c.size <= Len(log)
      /\ Len(log) \in Nat /\ log \in Trees /\ c.root = SubSeq(log, 1, c.size)
  BY DEF IInv, TypeOK, ServersOK, Checkpoint, Trees
<1>2. c.size \in 0..Len(log)
  BY <1>1
<1> QED BY <1>1, <1>2, SubSeqTree, NoneApart DEF Prefix

LEMMA WholeMirror ==
  ASSUME IInv, mirror = "honest", Whole(log, held, series)
  PROVE  /\ Usable = series /\ Published = {series}
         /\ \A c \in series : Ranges(c.size) = {c.root}
<1>1. \A c \in series : 0..(c.size - 1) \subseteq held
  BY SeriesFacts DEF Whole
<1>2. Usable = series
  BY <1>1 DEF Usable
<1>3. \A c \in series : c.root = Prefix(c.size)
  BY SeriesFacts
<1> QED BY <1>1, <1>2, <1>3 DEF Published, Ranges

-----------------------------------------------------------------------------
(***************************************************************************)
(* One lemma per action: taken in its turn, it keeps TurnInv.              *)
(***************************************************************************)
LEMMA StartTurn ==
  ASSUME IInv, TurnInv, NEW r \in Runs, Start(r)
  PROVE  TurnInv'
<1> SUFFICES ASSUME InTurn' PROVE TurnInv'
  BY DEF TurnInv
<1>1. /\ log' = log /\ held' = held /\ series' = series /\ seen' = seen
      /\ mirror' = mirror /\ crashes' = crashes
      /\ overlapped' = (overlapped \/ \E q \in Runs : InFlight(q))
  BY DEF Start, servers
<1>2. InTurn /\ \A q \in Runs : ~InFlight(q)
  BY <1>1 DEF InTurn
<1>3. PICK e \in Envelope, wants \in BOOLEAN :
        Go(r, [NewRun EXCEPT !.pc = "look", !.env = e, !.wants = wants])
  BY DEF Start
<1> DEFINE y == [NewRun EXCEPT !.pc = "look", !.env = e, !.wants = wants]
<1>4. y.pc = "look" /\ Go(r, y)
  BY <1>3 DEF NewRun
<1> HIDE DEF y
<1>5. run'[r] = y /\ \A q \in Runs \ {r} : run'[q] = run[q]
  BY <1>4 DEF Go, IInv, TypeOK
<1>6. /\ Whole(log, held, series) /\ Shown(series, seen) /\ Founded(log, series, seen)
      /\ \A q \in Runs : run[q].pc # "failed"
  BY <1>2 DEF TurnInv
<1>7. Settled(y, log, held, series, seen)
  BY <1>4, <1>6 DEF Settled, Locates, Answered, Shows, Attests, LooksLater,
                    Entering, Answering, Judging, Later
<1>8. \A q \in Runs : InFlight(q)' => q = r
  BY <1>2, <1>5 DEF InFlight
<1>9. InFlight(r)'
  BY <1>4, <1>5 DEF InFlight, Ended
<1> QED BY <1>1, <1>4, <1>5, <1>6, <1>7, <1>8, <1>9 DEF TurnInv

LEMMA LookUpTurn ==
  ASSUME IInv, TurnInv, InTurn, NEW r \in Runs, LookUp(r)
  PROVE  TurnInv'
<1> DEFINE x == run[r]
           missing   == [x EXCEPT !.pc = "submit"]
           found(at) == [x EXCEPT !.pc = "place", !.index = at, !.placed = TRUE]
<1>1. x \in RunState /\ x.pc = "look" /\ InFlight(r)
  BY RunFacts DEF LookUp, At, InFlight, Ended
<1>2. Whole(log, held, series) /\ Shown(series, seen) /\ log \in Trees
  BY <1>1, Alone DEF Settled, Entering, IInv, TypeOK
<1>3. \/ Learn(r, missing) /\ \A k \in held : log[k + 1] # x.env
      \/ \E at \in held : log[at + 1] = x.env /\ Learn(r, found(at))
  <2>1. PICK at \in Places(x.env) :
          IF at = None THEN Learn(r, missing) ELSE Learn(r, found(at))
    BY DEF LookUp
  <2>2. held \subseteq Nat /\ None \notin held
    BY <1>2, NoneApart DEF Whole, Trees
  <2>3. \/ at = None /\ \A k \in held : log[k + 1] # x.env
        \/ at \in held /\ log[at + 1] = x.env
    BY DEF Places, InTurn
  <2> QED BY <2>1, <2>2, <2>3
<1>4. CASE Learn(r, missing) /\ \A k \in held : log[k + 1] # x.env
  <2>1. missing.pc = "submit" /\ missing.env = x.env
    BY <1>1 DEF RunState
  <2> HIDE DEF missing
  <2>2. \A k \in 1..Len(log) : log[k] # x.env
    <3>1. \A k \in 1..Len(log) : k - 1 \in held /\ (k - 1) + 1 = k
      BY <1>2 DEF Whole, Trees
    <3> QED BY <1>4, <3>1
  <2>3. Settled(missing, log, held, series, seen)
    BY <1>2, <2>1, <2>2 DEF Settled, Locates, Answered, Shows, Attests, LooksLater,
                            Entering, Answering, Judging, Later
  <2> QED BY <1>1, <1>4, <2>1, <2>3, TurnLearns
<1>5. ASSUME NEW at \in held, log[at + 1] = x.env, Learn(r, found(at)) PROVE TurnInv'
  <2> DEFINE y == found(at)
  <2>1. y.pc = "place" /\ y.env = x.env /\ y.index = at
    BY <1>1 DEF RunState
  <2> HIDE DEF y
  <2>2. at < Len(log)
    BY <1>2 DEF Whole, Trees
  <2>3. Settled(y, log, held, series, seen)
    BY <1>2, <1>5, <2>1, <2>2 DEF Settled, Locates, Answered, Shows, Attests, LooksLater,
                                  Entering, Answering, Judging, Later
  <2>4. Learn(r, y)
    BY <1>5 DEF y
  <2> QED BY <1>1, <2>1, <2>3, <2>4, TurnLearns
<1> QED BY <1>3, <1>4, <1>5

\* The mirror has published a checkpoint past every entry it holds.
LEMMA PlaceTurn ==
  ASSUME IInv, TurnInv, InTurn, NEW r \in Runs, Place(r)
  PROVE  TurnInv'
<1> DEFINE x == run[r]
           next(c) == [x EXCEPT !.pc = "enumerate", !.cp = c]
<1>1. /\ x \in RunState /\ RunOK(x, log, minted, seen) /\ x.pc = "place" /\ InFlight(r)
  BY RunFacts DEF Place, At, InFlight, Ended
<1>2. /\ Whole(log, held, series) /\ Shown(series, seen) /\ x.index \in Nat
      /\ x.index < Len(log) /\ log[x.index + 1] = x.env
  BY <1>1, Alone DEF Settled, Locates, Entering, RunOK, HasWhatItNeeds
<1>3. Published = {series} /\ series \in SUBSET Checkpoint
  BY <1>2, WholeMirror DEF InTurn, IInv, TypeOK
<1>4. Covers(series, x.index) # {}
  BY <1>2, <1>3, SomeCover DEF Whole
<1>5. PICK c \in Covers(series, x.index) : Learn(r, next(c))
  BY <1>3, <1>4 DEF Place
<1> DEFINE y == next(c)
<1>6. y.pc = "enumerate" /\ y.cp = c /\ y.index = x.index /\ y.env = x.env /\ Learn(r, y)
  BY <1>1, <1>5 DEF RunState
<1> HIDE DEF y
<1>7. c \in series /\ x.index < c.size
  BY <1>2, <1>3 DEF Covers, Checkpoint
<1>8. Settled(y, log, held, series, seen)
  BY <1>2, <1>6, <1>7 DEF Settled, Locates, Answered, Shows, Shown, Attests, LooksLater,
                          Entering, Answering, Judging, Later
<1> QED BY <1>1, <1>6, <1>8, TurnLearns

LEMMA SubmitTurn ==
  ASSUME IInv, TurnInv, InTurn, NEW r \in Runs, Submit(r)
  PROVE  TurnInv'
<1> DEFINE x == run[r]
           y == [x EXCEPT !.pc = "retrieve", !.index = Len(log)]
<1>1. /\ x \in RunState /\ RunOK(x, log, minted, seen) /\ x.pc = "submit" /\ InFlight(r)
  BY RunFacts DEF Submit, At, InFlight, Ended
<1>2. /\ Whole(log, held, series) /\ Shown(series, seen) /\ Founded(log, series, seen)
      /\ x.env \in Envelope /\ log \in Trees /\ Len(log) \in Nat
      /\ \A k \in 1..Len(log) : log[k] # x.env
  BY <1>1, Alone DEF Settled, Locates, Entering, RunOK, HasWhatItNeeds, Ended,
                     IInv, TypeOK, Trees
<1>3. /\ log' = Append(log, x.env) /\ Go(r, y)
      /\ held' = held /\ series' = series /\ seen' = seen
  BY DEF Submit
<1>4. /\ Len(log') = Len(log) + 1 /\ \A k \in 1..Len(log) : log'[k] = log[k]
      /\ log'[Len(log) + 1] = x.env
  BY <1>2, <1>3 DEF Trees
<1>5. y.pc = "retrieve" /\ y.index = Len(log) /\ y.env = x.env
  BY <1>1 DEF RunState
<1> HIDE DEF y
<1>6. Founded(log', series', seen')
  <2>1. Once(log')
    BY <1>2, <1>4 DEF Once, Founded
  <2> QED BY <1>2, <1>3, <1>4, <2>1 DEF Founded
<1>7. held' = 0..(Len(log') - 2)
  BY <1>2, <1>3, <1>4 DEF Whole
<1>8. Settled(y, log', held', series', seen')
  BY <1>2, <1>3, <1>4, <1>5, <1>7
     DEF Settled, Locates, Answered, Shows, Shown, Attests, LooksLater,
         Entering, Answering, Judging, Later
<1> QED BY <1>1, <1>3, <1>5, <1>6, <1>8, TurnMoves

LEMMA EnterTurn ==
  ASSUME IInv, TurnInv, InTurn, NEW r \in Runs, Retrieve(r) \/ Stage(r)
  PROVE  TurnInv'
<1> DEFINE x == run[r]
           c == [size |-> Len(log), root |-> log,
                 time |-> Cardinality({d \in minted : d.size = Len(log)}) + 1]
           signed == [x EXCEPT !.pc = "stage", !.cp = c]
           given  == [x EXCEPT !.pc = "ingest"]
<1>1. x \in RunState /\ x.pc \in {"retrieve", "stage"} /\ InFlight(r)
  BY RunFacts DEF Retrieve, Stage, At, InFlight, Ended
<1>2. /\ Shown(series, seen) /\ Founded(log, series, seen)
      /\ x.index = Len(log) - 1 /\ log[x.index + 1] = x.env /\ held = 0..(Len(log) - 2)
      /\ x.pc = "stage" => x.cp.size = Len(log)
  BY <1>1, Alone DEF Settled, Locates, Entering
<1>3. /\ signed.pc = "stage" /\ signed.index = x.index /\ signed.env = x.env
      /\ signed.cp.size = Len(log)
      /\ given.pc = "ingest" /\ given.index = x.index /\ given.env = x.env /\ given.cp = x.cp
  BY <1>1 DEF RunState
<1>4. /\ Go(r, signed) \/ (x.pc = "stage" /\ Go(r, given))
      /\ log' = log /\ held' = held /\ series' = series /\ seen' = seen
  <2>1. CASE Retrieve(r)
    BY <2>1 DEF Retrieve
  <2>2. CASE Stage(r)
    BY <2>2 DEF Stage, At
  <2> QED BY <2>1, <2>2
<1> HIDE DEF signed, given, c
<1>5. PICK y : /\ Go(r, y) /\ y.pc \in {"stage", "ingest"} /\ y.index = x.index
               /\ y.env = x.env /\ y.cp.size = Len(log)
  BY <1>2, <1>3, <1>4
<1>6. Settled(y, log', held', series', seen')
  BY <1>2, <1>4, <1>5 DEF Settled, Locates, Answered, Shows, Shown, Attests, LooksLater,
                          Entering, Answering, Judging, Later
<1> QED BY <1>1, <1>2, <1>4, <1>5, <1>6, TurnMoves

LEMMA IngestTurn ==
  ASSUME IInv, TurnInv, InTurn, NEW r \in Runs, Ingest(r)
  PROVE  TurnInv'
<1> DEFINE x == run[r]
           y == [x EXCEPT !.pc = "enumerate"]
<1>1. x \in RunState /\ x.pc = "ingest" /\ InFlight(r)
  BY RunFacts DEF Ingest, At, InFlight, Ended
<1>2. /\ Shown(series, seen) /\ Founded(log, series, seen) /\ Len(log) \in Nat
      /\ x.index = Len(log) - 1 /\ log[x.index + 1] = x.env /\ held = 0..(Len(log) - 2)
      /\ x.cp.size = Len(log)
  BY <1>1, Alone DEF Settled, Locates, Entering, IInv, TypeOK, Trees
<1>3. /\ log' = log /\ held' = held \cup {x.index} /\ series' = series \cup {x.cp}
      /\ seen' = seen /\ Go(r, y)
  BY DEF Ingest
<1>4. y.pc = "enumerate" /\ y.index = x.index /\ y.env = x.env /\ y.cp = x.cp
  BY <1>1 DEF RunState
<1> HIDE DEF y
<1>5. Len(log) > 0
  BY <1>2 DEF Founded
<1>6. Whole(log', held', series')
  BY <1>2, <1>3, <1>5 DEF Whole
<1>7. Founded(log', series', seen')
  BY <1>2, <1>3 DEF Founded
<1>8. Settled(y, log', held', series', seen')
  BY <1>2, <1>3, <1>4, <1>5, <1>6
     DEF Settled, Locates, Answered, Shows, Shown, Attests, LooksLater,
         Entering, Answering, Judging, Later
<1> QED BY <1>1, <1>3, <1>4, <1>7, <1>8, TurnMoves

\* The prefix a run reads is the log's, and governed from its first entry on.
LEMMA EnumerateTurn ==
  ASSUME IInv, TurnInv, InTurn, NEW r \in Runs, Enumerate(r)
  PROVE  TurnInv'
<1> DEFINE x == run[r]
           c == x.cp
           next(entries) == [x EXCEPT !.pc = "history", !.prefix = entries,
                                      !.todo = Endpoints,
                                      !.owed = Rotations(entries, c.size)]
<1>1. /\ x \in RunState /\ RunOK(x, log, minted, seen) /\ x.pc = "enumerate" /\ InFlight(r)
  BY RunFacts DEF Enumerate, At, InFlight, Ended
<1>2. /\ Settled(x, log, held, series, seen) /\ Founded(log, series, seen)
      /\ Whole(log, held, series) /\ x.index \in Nat
      /\ c \in series /\ x.index < c.size /\ log[x.index + 1] = x.env /\ x.later = None
  BY <1>1, Alone DEF Settled, Answered, Answering, Entering, RunOK, HasWhatItNeeds,
                     Placed, Cosigned, Later
<1>3. /\ Ranges(c.size) = {c.root} /\ c.size \in Nat /\ c.size > 0 /\ c.root \in Trees
      /\ Len(c.root) = c.size /\ c.root[1] \in Manifest
  <2>1. /\ Ranges(c.size) = {c.root} /\ c.size \in Nat /\ c.root \in Trees
        /\ Len(c.root) = c.size /\ \A k \in 1..c.size : c.root[k] = log[k]
    BY <1>2, SeriesFacts, WholeMirror DEF InTurn
  <2>2. c.size > 0
    BY <1>2, <2>1
  <2> QED BY <1>2, <2>1, <2>2 DEF Founded
<1>4. 0 \in Below(c.root, c.size)
  BY <1>3 DEF Below, ManifestIndices, Trees
<1>5. Learn(r, next(c.root))
  BY <1>3, <1>4 DEF Enumerate
<1> DEFINE y == next(c.root)
<1>6. /\ y.pc = "history" /\ y.prefix = c.root /\ y.todo = Endpoints /\ y.cp = c
      /\ y.index = x.index /\ y.env = x.env /\ y.later = None
  BY <1>1, <1>2 DEF RunState
<1> HIDE DEF y
<1>7. \A w \in Witnesses : Ahead(y, w)
  BY <1>6 DEF Ahead, Witnesses
<1>8. Shows(y, log, series, seen)
  BY <1>1, <1>2, <1>6, <1>7 DEF Settled, Shows
<1>9. Settled(y, log, held, series, seen)
  BY <1>2, <1>6, <1>8 DEF Settled, Locates, Answered, Attests, LooksLater,
                          Entering, Answering, Judging, Later
<1>10. Learn(r, y)
  BY <1>5 DEF y
<1> QED BY <1>1, <1>6, <1>9, <1>10, TurnLearns

\* Once the next witness has seen the checkpoint, the rest are still ahead.
LEMMA Heard ==
  ASSUME NEW x \in RunState, NEW y, NEW l, NEW h, NEW s, NEW v, NEW v2,
         x.pc \in {"history", "cosign"}, x.todo # <<>>, x.later = None,
         Settled(x, l, h, s, v),
         \A w \in Witnesses : v[w] \subseteq v2[w] /\ v2[w] \subseteq s,
         x.cp \in v2[Head(x.todo)],
         y.pc = Onward(Tail(x.todo), x.owed, x.wants), y.todo = Tail(x.todo),
         y.cp = x.cp, y.prefix = x.prefix, y.index = x.index, y.env = x.env,
         y.later = None
  PROVE  Settled(y, l, h, s, v2) /\ y.pc # "failed"
<1>1. /\ y.pc \in {"history", "proof", "series", "assemble"}
      /\ y.pc = "history" <=> y.todo # <<>>
  BY DEF Onward
<1>2. \A w \in Witnesses : Ahead(x, w) => w = Head(x.todo) \/ Ahead(y, w)
  <2> SUFFICES ASSUME NEW w \in Witnesses, NEW k \in 1..Len(x.todo), x.todo[k] = w,
                      w # Head(x.todo)
               PROVE  Ahead(y, w)
    BY DEF Ahead
  <2>1. x.todo \in Seq(Witnesses)
    BY DEF RunState
  <2>2. k # 1 /\ k - 1 \in 1..Len(y.todo) /\ y.todo[k - 1] = w
    BY <2>1
  <2> QED BY <2>2 DEF Ahead
<1>3. \A w \in Witnesses, c \in s :
         c \in v2[w] \/ (c = x.cp /\ c.size = Len(l) /\ Ahead(y, w))
  BY <1>2 DEF Settled, Shows
<1>4. y.todo = <<>> => \A w \in Witnesses : ~Ahead(y, w)
  <2> SUFFICES ASSUME y.todo = <<>>, NEW w \in Witnesses, NEW k \in 1..Len(y.todo)
               PROVE  FALSE
    BY DEF Ahead
  <2>1. k \in 1..Len(<<>>)
    OBVIOUS
  <2> QED BY <2>1
<1>5. y.pc # "history" => Shown(s, v2)
  BY <1>1, <1>3, <1>4 DEF Shown
<1>6. Shows(y, l, s, v2)
  BY <1>1, <1>3 DEF Shows
<1>7. Locates(y, l, h) /\ Answered(y, l, s) /\ Attests(y, l, s) /\ LooksLater(y, s)
  BY <1>1 DEF Settled, Locates, Answered, Attests, LooksLater, Entering, Answering,
              Judging, Later
<1> QED BY <1>1, <1>5, <1>6, <1>7 DEF Settled, Entering

LEMMA HistoryTurn ==
  ASSUME IInv, TurnInv, InTurn, NEW r \in Runs, History(r)
  PROVE  TurnInv'
<1> DEFINE x == run[r]
           w    == Head(x.todo)
           rest == Tail(x.todo)
           to   == Onward(rest, x.owed, x.wants)
           still == [x EXCEPT !.pc = "cosign"]
           y     == [x EXCEPT !.pc = to, !.cos = @ \cup {[by |-> w, over |-> x.cp]},
                              !.todo = rest]
<1>1. /\ x \in RunState /\ RunOK(x, log, minted, seen) /\ x.pc = "history" /\ InFlight(r)
  BY RunFacts DEF History, At, InFlight, Ended
<1>2. /\ Settled(x, log, held, series, seen) /\ Founded(log, series, seen)
      /\ x.todo # <<>> /\ x.later = None
  BY <1>1, Alone DEF RunOK, HasWhatItNeeds, Asking, Cosigned, Later
<1>3. \/ x.cp \notin seen[w] /\ Learn(r, still)
      \/ x.cp \in seen[w] /\ Learn(r, y)
  BY DEF History, CosignatureOver
<1>4. CASE x.cp \notin seen[w] /\ Learn(r, still)
  <2>1. /\ still.pc = "cosign" /\ still.todo = x.todo /\ still.cp = x.cp
        /\ still.index = x.index /\ still.env = x.env /\ still.prefix = x.prefix
        /\ still.later = None
    BY <1>1, <1>2 DEF RunState
  <2> HIDE DEF still
  <2>2. Shows(still, log, series, seen)
    BY <1>1, <1>2, <1>4, <2>1 DEF Settled, Shows, Ahead
  <2>3. Settled(still, log, held, series, seen)
    BY <1>1, <1>2, <2>1, <2>2
       DEF Settled, Locates, Answered, Attests, LooksLater, Entering, Answering,
           Judging, Later
  <2> QED BY <1>1, <1>4, <2>1, <2>3, TurnLearns
<1>5. CASE x.cp \in seen[w] /\ Learn(r, y)
  <2> HIDE DEF to, w, rest
  <2>1. /\ y.pc = to /\ y.todo = rest /\ y.cp = x.cp /\ y.prefix = x.prefix
        /\ y.index = x.index /\ y.env = x.env /\ y.later = None
    BY <1>1, <1>2 DEF RunState
  <2> HIDE DEF y
  <2>2. Settled(y, log, held, series, seen) /\ y.pc # "failed"
    BY <1>1, <1>2, <1>5, <2>1, Heard DEF Founded, to, w, rest
  <2> QED BY <1>1, <1>5, <2>2, TurnLearns
<1> QED BY <1>3, <1>4, <1>5

\* No witness has seen beyond the checkpoint it is shown: none refuses it.
LEMMA CosignTurn ==
  ASSUME IInv, TurnInv, InTurn, NEW r \in Runs, Cosign(r)
  PROVE  TurnInv'
<1> DEFINE x == run[r]
           c    == x.cp
           w    == Head(x.todo)
           rest == Tail(x.todo)
           to   == Onward(rest, x.owed, x.wants)
           y    == [x EXCEPT !.pc = to, !.cos = @ \cup {[by |-> w, over |-> c]},
                             !.todo = rest]
<1>1. /\ x \in RunState /\ RunOK(x, log, minted, seen) /\ x.pc = "cosign" /\ InFlight(r)
  BY RunFacts DEF Cosign, At, InFlight, Ended
<1>2. /\ Settled(x, log, held, series, seen) /\ Founded(log, series, seen)
      /\ x.todo # <<>> /\ x.later = None /\ w \in Witnesses
  BY <1>1, Alone, NextWitness DEF RunOK, HasWhatItNeeds, Asking, Cosigned, Later
<1>3. c \in series /\ x.prefix = c.root /\ c \notin seen[w] /\ c.size = Len(log)
  <2>1. c \in series /\ x.prefix = c.root /\ c \notin seen[w]
    BY <1>1, <1>2 DEF Settled, Answered, Shows, Answering, Judging
  <2> QED BY <1>1, <1>2, <2>1 DEF Settled, Shows
<1>4. c \in minted /\ Authentic(c, x.prefix)
  BY <1>3, SeriesFacts DEF Authentic
<1>5. ASSUME NEW d \in seen[w] PROVE ~(d.size > c.size) /\ Extends(c, d)
  <2>1. d \in series
    BY <1>2 DEF Founded
  <2>2. /\ d.size \in Nat /\ d.size <= c.size /\ c.size \in Nat /\ log \in Trees
        /\ c.root = SubSeq(log, 1, c.size) /\ d.root = SubSeq(log, 1, d.size)
    BY <1>3, <2>1, SeriesFacts DEF Prefix
  <2>3. SubSeq(c.root, 1, d.size) = d.root
    BY <1>3, <2>2 DEF Trees
  <2> QED BY <2>2, <2>3 DEF Extends
<1>6. Answers(w, c, x.prefix) = {"cosigned"}
  BY <1>3, <1>4, <1>5 DEF Answers
<1>7. /\ seen' = [seen EXCEPT ![w] = @ \cup {c}] /\ Go(r, y)
      /\ log' = log /\ held' = held /\ series' = series
  BY <1>6 DEF Cosign
<1>8. \A u \in Witnesses : seen[u] \subseteq seen'[u] /\ seen'[u] \subseteq series
  BY <1>2, <1>3, <1>7 DEF Founded, IInv, TypeOK
<1>9. c \in seen'[w]
  BY <1>2, <1>7 DEF IInv, TypeOK
<1>10. Founded(log', series', seen')
  BY <1>2, <1>7, <1>8 DEF Founded
<1> HIDE DEF to, w, rest
<1>11. /\ y.pc = to /\ y.todo = rest /\ y.cp = x.cp /\ y.prefix = x.prefix
       /\ y.index = x.index /\ y.env = x.env /\ y.later = None
  BY <1>1, <1>2 DEF RunState
<1> HIDE DEF y
<1>12. Settled(y, log, held, series, seen') /\ y.pc # "failed"
  BY <1>1, <1>2, <1>8, <1>9, <1>11, Heard DEF to, w, rest
<1> QED BY <1>1, <1>7, <1>10, <1>12, TurnMoves

\* The prefix of a run is the log's, and so are the rotations it owes.
LEMMA OwedFacts ==
  ASSUME IInv, NEW x \in RunState, RunOK(x, log, minted, seen), x.pc \in Judging,
         x.cp \in series, x.prefix = x.cp.root, NEW i \in x.owed
  PROVE  /\ i \in Nat /\ i < x.cp.size
         /\ \E out \in 0..i : IsActive(log, i, out)
<1>1. i \in Rotations(x.prefix, x.cp.size)
  BY DEF RunOK, Proving
<1>2. PICK out \in 0..i : IsActive(x.prefix, i, out)
  BY <1>1 DEF Rotations
<1>3. i \in Nat /\ i < x.cp.size
  BY <1>1 DEF Rotations, Below, ManifestIndices, RunState
<1>4. /\ log \in Trees /\ x.prefix \in Trees /\ i <= Len(log) /\ i <= Len(x.prefix)
      /\ \A k \in 1..i : x.prefix[k] = log[k]
  BY <1>3, SeriesFacts
<1>5. IsActive(log, i, out)
  BY <1>2, <1>3, <1>4, SamePrefix
<1> QED BY <1>3, <1>5

\* Only a version of the log is in force, and it declares a witness.
LEMMA ActiveDeclares ==
  ASSUME InTurn, NEW tree \in Trees, NEW n, NEW out, IsActive(tree, n, out)
  PROVE  DeclaredAt(tree, out) \subseteq Witnesses /\ DeclaredAt(tree, out) # {}
<1>1. tree[out + 1] \in Manifest
  BY DEF IsActive, Below, ManifestIndices
<1> QED BY <1>1, DeclaredAssumption DEF DeclaredAt, InTurn, Provisioned

LEMMA ProofTurn ==
  ASSUME IInv, TurnInv, InTurn, NEW r \in Runs, Proof(r)
  PROVE  TurnInv'
<1> DEFINE x == run[r]
           next(c) == [x EXCEPT !.pc = "attest", !.element = c,
                                !.todo = Endpoints, !.served = {}]
<1>1. /\ x \in RunState /\ RunOK(x, log, minted, seen) /\ x.pc = "proof" /\ InFlight(r)
  BY RunFacts DEF Proof, At, InFlight, Ended
<1>2. /\ Settled(x, log, held, series, seen) /\ Whole(log, held, series)
      /\ Shown(series, seen) /\ x.cp \in series /\ x.prefix = x.cp.root
      /\ x.index < x.cp.size /\ log[x.index + 1] = x.env /\ x.later = None
      /\ series \in SUBSET Checkpoint /\ log \in Trees
  BY <1>1, Alone DEF Settled, Answered, Answering, Judging, Entering, RunOK, Cosigned,
                     Later, IInv, TypeOK
<1>3. PICK i \in x.owed :
        /\ \A j \in x.owed : i <= j
        /\ \E c \in RotationProofs(i) : IF c = None THEN Fail(r) ELSE Learn(r, next(c))
  BY DEF Proof
<1>4. i \in Nat /\ i < x.cp.size
  BY <1>1, <1>2, OwedFacts DEF Judging
<1>5. RotationProofs(i) = Anchors(series, i)
  <2>1. Anchors(series, i) # {}
    BY <1>2, <1>4, SomeAnchor DEF RunState, Checkpoint
  <2> QED BY <1>2, <2>1, WholeMirror DEF RotationProofs, InTurn
<1>6. PICK c \in Anchors(series, i) : Learn(r, next(c))
  BY <1>3, <1>5, SeriesFacts DEF Anchors
<1> DEFINE y == next(c)
<1>7. /\ y.pc = "attest" /\ y.element = c /\ y.todo = Endpoints /\ y.served = {}
      /\ y.cp = x.cp /\ y.prefix = x.prefix /\ y.index = x.index /\ y.env = x.env
      /\ y.later = None /\ y.owed = x.owed
  BY <1>1, <1>2 DEF RunState
<1> HIDE DEF y
<1>8. \A w \in Witnesses : Ahead(y, w)
  BY <1>7 DEF Ahead, Witnesses
<1>9. \A k \in y.owed : (\A j \in y.owed : k <= j) => k = i
  BY <1>1, <1>3, <1>7 DEF RunState
<1>10. \A out : IsActive(log, i, out) => DeclaredAt(log, out) \subseteq Witnesses
  BY <1>2, ActiveDeclares
<1>11. Attests(y, log, series)
  BY <1>7, <1>8, <1>9, <1>10 DEF Attests
<1>12. Settled(y, log, held, series, seen)
  BY <1>2, <1>7, <1>11 DEF Settled, Locates, Answered, Shows, LooksLater,
                           Entering, Answering, Judging, Later
<1>13. Learn(r, y)
  BY <1>6 DEF y
<1> QED BY <1>1, <1>7, <1>12, <1>13, TurnLearns

\* Mirror and witnesses anchor the rotation at one checkpoint, and by the last
\* answer a witness of the outgoing version has attested it.
LEMMA AttestTurn ==
  ASSUME IInv, TurnInv, InTurn, NEW r \in Runs, Attest(r)
  PROVE  TurnInv'
<1> DEFINE x    == run[r]
           w    == Head(x.todo)
           todo == Tail(x.todo)
           c    == x.element
           rest(i)   == x.owed \ {i}
           served(i) == x.served \cup
                          {[by |-> w, over |-> d] : d \in RotationCosignatures(w, i)}
           more(i)   == [x EXCEPT !.todo = todo, !.served = served(i)]
           joined(i) == [x EXCEPT !.pc     = Onward(<<>>, rest(i), x.wants),
                                  !.todo   = <<>>,
                                  !.owed   = rest(i),
                                  !.served = {},
                                  !.element = None,
                                  !.proofs = @ \cup {[index |-> i, over |-> c,
                                                      by |-> {s.by : s \in served(i)}]}]
<1>1. /\ x \in RunState /\ RunOK(x, log, minted, seen) /\ x.pc = "attest" /\ InFlight(r)
  BY RunFacts DEF Attest, At, InFlight, Ended
<1>2. /\ Settled(x, log, held, series, seen) /\ Whole(log, held, series)
      /\ Shown(series, seen) /\ x.cp \in series /\ x.prefix = x.cp.root
      /\ x.index < x.cp.size /\ log[x.index + 1] = x.env /\ x.later = None
      /\ log \in Trees /\ w \in Witnesses /\ todo \in Seq(Witnesses) /\ x.todo # <<>>
  BY <1>1, Alone, NextWitness
     DEF Settled, Answered, Answering, Judging, Entering, RunOK, Cosigned, Later, Asking,
         HasWhatItNeeds, IInv, TypeOK
<1>3. PICK i \in x.owed :
        /\ \A j \in x.owed : i <= j
        /\ \/ todo # <<>> /\ Learn(r, more(i))
           \/ todo = <<>> /\ ~Paired(served(i), c) /\ Fail(r)
           \/ todo = <<>> /\ Paired(served(i), c) /\ Learn(r, joined(i))
  BY DEF Attest
<1>4. /\ i \in Nat /\ i < x.cp.size
      /\ \E out \in 0..i : IsActive(log, i, out)
  BY <1>1, <1>2, OwedFacts DEF Judging
<1>5. /\ c \in Anchors(series, i)
      /\ \A y \in x.served : y.over = c
      /\ \A out \in 0..i : IsActive(log, i, out) =>
           \A u \in DeclaredAt(log, out) :
              Ahead(x, u) \/ [by |-> u, over |-> c] \in x.served
  BY <1>1, <1>2, <1>3 DEF Settled, Attests
<1>6. /\ RotationCosignatures(w, i) \subseteq {c}
      /\ \A out \in 0..i : IsActive(log, i, out) /\ w \in DeclaredAt(log, out) =>
           c \in RotationCosignatures(w, i)
  <2>1. seen[w] = series
    BY <1>2 DEF Shown
  <2>2. Anchors(series, i) = {c}
    BY <1>4, <1>5, OneAnchor
  <2> QED BY <2>1, <2>2 DEF RotationCosignatures
<1>7. /\ \A y \in served(i) : y.over = c
      /\ \A out \in 0..i : IsActive(log, i, out) =>
           \A u \in DeclaredAt(log, out) :
              (Ahead(x, u) /\ u # w) \/ [by |-> u, over |-> c] \in served(i)
  BY <1>5, <1>6
<1>8. \A u \in Witnesses : Ahead(x, u) => u = w \/ \E k \in 1..Len(todo) : todo[k] = u
  <2> SUFFICES ASSUME NEW u \in Witnesses, NEW k \in 1..Len(x.todo), x.todo[k] = u, u # w
               PROVE  \E j \in 1..Len(todo) : todo[j] = u
    BY DEF Ahead
  <2>1. x.todo \in Seq(Witnesses)
    BY <1>1 DEF RunState
  <2>2. k # 1 /\ k - 1 \in 1..Len(todo) /\ todo[k - 1] = u
    BY <1>2, <2>1
  <2> QED BY <2>2
<1>9. \A out : IsActive(log, i, out) =>
        DeclaredAt(log, out) \subseteq Witnesses /\ DeclaredAt(log, out) # {}
  BY <1>2, ActiveDeclares
<1>10. \A k \in x.owed : (\A j \in x.owed : k <= j) => k = i
  BY <1>1, <1>3 DEF RunState
<1> HIDE DEF served
<1>11. CASE todo # <<>> /\ Learn(r, more(i))
  <2> DEFINE y == more(i)
  <2>1. /\ y.pc = "attest" /\ y.element = c /\ y.todo = todo /\ y.served = served(i)
        /\ y.cp = x.cp /\ y.prefix = x.prefix /\ y.index = x.index /\ y.env = x.env
        /\ y.later = None /\ y.owed = x.owed
    BY <1>1, <1>2 DEF RunState
  <2> HIDE DEF y
  <2>2. \A u \in Witnesses : Ahead(x, u) /\ u # w => Ahead(y, u)
    BY <1>8, <2>1 DEF Ahead
  <2>3. Attests(y, log, series)
    BY <1>5, <1>7, <1>9, <1>10, <2>1, <2>2 DEF Attests
  <2>4. Settled(y, log, held, series, seen)
    BY <1>2, <2>1, <2>3 DEF Settled, Locates, Answered, Shows, LooksLater,
                            Entering, Answering, Judging, Later
  <2>5. Learn(r, y)
    BY <1>11 DEF y
  <2> QED BY <1>1, <2>1, <2>4, <2>5, TurnLearns
<1>12. ASSUME todo = <<>> PROVE Paired(served(i), c)
  <2>1. PICK out \in 0..i : IsActive(log, i, out)
    BY <1>4
  <2>2. PICK u \in DeclaredAt(log, out) : u \in Witnesses
    BY <1>9, <2>1
  <2>3. 1..Len(todo) = {}
    BY <1>12
  <2>4. [by |-> u, over |-> c] \in served(i)
    BY <1>7, <1>8, <2>1, <2>2, <2>3
  <2> QED BY <1>7, <2>4 DEF Paired
<1>13. CASE todo = <<>> /\ Learn(r, joined(i))
  <2> DEFINE to == Onward(<<>>, rest(i), x.wants)
             by == {s.by : s \in served(i)}
             y  == [x EXCEPT !.pc = to, !.todo = <<>>, !.owed = rest(i), !.served = {},
                             !.element = None,
                             !.proofs = @ \cup {[index |-> i, over |-> c, by |-> by]}]
  <2>1. Learn(r, y)
    BY <1>13
  <2>2. to \in {"proof", "series", "assemble"}
    BY DEF Onward
  <2> HIDE DEF to, by
  <2>3. /\ y.pc = to /\ y.cp = x.cp /\ y.prefix = x.prefix /\ y.index = x.index
        /\ y.env = x.env /\ y.later = None
    BY <1>1, <1>2 DEF RunState
  <2> HIDE DEF y
  <2>4. Settled(y, log, held, series, seen)
    BY <1>2, <2>2, <2>3 DEF Settled, Locates, Answered, Shows, Attests, LooksLater,
                            Entering, Answering, Judging, Later
  <2> QED BY <1>1, <2>1, <2>2, <2>3, <2>4, TurnLearns
<1> QED BY <1>3, <1>11, <1>12, <1>13

LEMMA SeriesTurn ==
  ASSUME IInv, TurnInv, InTurn, NEW r \in Runs, Series(r)
  PROVE  TurnInv'
<1> DEFINE x == run[r]
           beyond == {c \in series : c.size > x.cp.size}
           none   == [x EXCEPT !.pc = "assemble"]
           next(furthest) == [x EXCEPT !.pc = "window", !.published = beyond,
                                       !.horizon = furthest]
<1>1. /\ x \in RunState /\ RunOK(x, log, minted, seen) /\ x.pc = "series" /\ InFlight(r)
  BY RunFacts DEF Series, At, InFlight, Ended
<1>2. /\ Settled(x, log, held, series, seen) /\ Whole(log, held, series)
      /\ Shown(series, seen) /\ x.cp \in series /\ x.prefix = x.cp.root
      /\ x.index < x.cp.size /\ log[x.index + 1] = x.env /\ x.later = None
  BY <1>1, Alone DEF Settled, Answered, Answering, Judging, Entering, RunOK, Cosigned, Later
<1>3. Learn(r, none) \/ \E furthest \in Latest(beyond) : Learn(r, next(furthest))
  BY <1>2, WholeMirror DEF Series, InTurn
<1>4. CASE Learn(r, none)
  <2>1. /\ none.pc = "assemble" /\ none.cp = x.cp /\ none.prefix = x.prefix
        /\ none.index = x.index /\ none.env = x.env /\ none.later = None
    BY <1>1, <1>2 DEF RunState
  <2> HIDE DEF none
  <2>2. Settled(none, log, held, series, seen)
    BY <1>2, <2>1 DEF Settled, Locates, Answered, Shows, Attests, LooksLater,
                      Entering, Answering, Judging, Later
  <2> QED BY <1>1, <1>4, <2>1, <2>2, TurnLearns
<1>5. ASSUME NEW furthest \in Latest(beyond), Learn(r, next(furthest)) PROVE TurnInv'
  <2> DEFINE y == next(furthest)
  <2>1. furthest \in series /\ beyond \subseteq series
    BY DEF Latest
  <2> HIDE DEF beyond
  <2>2. /\ y.pc = "window" /\ y.cp = x.cp /\ y.prefix = x.prefix /\ y.index = x.index
        /\ y.env = x.env /\ y.later = None /\ y.published = beyond /\ y.horizon = furthest
    BY <1>1, <1>2 DEF RunState
  <2> HIDE DEF y
  <2>3. Settled(y, log, held, series, seen)
    BY <1>2, <2>1, <2>2 DEF Settled, Locates, Answered, Shows, Attests, LooksLater,
                            Entering, Answering, Judging, Later
  <2>4. Learn(r, y)
    BY <1>5 DEF y
  <2> QED BY <1>1, <2>2, <2>3, <2>4, TurnLearns
<1> QED BY <1>3, <1>4, <1>5

\* A window without a manifest past the run's checkpoint leaves one version in
\* force at both ends.
LEMMA SameVersion ==
  ASSUME NEW tree \in Trees, NEW n \in Nat, NEW m \in Nat, n <= m, m <= Len(tree),
         Below(tree, n) # {}, WithinCeiling(tree, n, m)
  PROVE  \E i \in Below(tree, n) : IsActive(tree, n, i) /\ IsActive(tree, m, i)
<1>1. PICK i \in Below(tree, n) : IsActive(tree, n, i)
  BY SomeActive
<1>2. \A j \in Below(tree, m) : j \in Below(tree, n)
  BY DEF Below, ManifestIndices, WithinCeiling, Trees
<1>3. i \in Below(tree, m)
  BY DEF Below, ManifestIndices, Trees
<1> QED BY <1>1, <1>2, <1>3 DEF IsActive

LEMMA WindowTurn ==
  ASSUME IInv, TurnInv, InTurn, NEW r \in Runs, Window(r)
  PROVE  TurnInv'
<1> DEFINE x == run[r]
           c == x.cp
           horizon == x.horizon
           entries == horizon.root
           none == [x EXCEPT !.pc = "assemble"]
           found(later) == [x EXCEPT !.pc        = "later_history",
                                     !.later     = later,
                                     !.window    = SubSeq(entries, 1, later.size),
                                     !.todo      = Endpoints,
                                     !.published = {},
                                     !.horizon   = None]
<1>1. /\ x \in RunState /\ RunOK(x, log, minted, seen) /\ x.pc = "window" /\ InFlight(r)
  BY RunFacts DEF Window, At, InFlight, Ended
<1>2. /\ Settled(x, log, held, series, seen) /\ Whole(log, held, series)
      /\ Shown(series, seen) /\ Founded(log, series, seen)
      /\ c \in series /\ x.prefix = c.root
      /\ x.index < c.size /\ log[x.index + 1] = x.env /\ x.later = None
      /\ horizon \in series /\ x.published \subseteq series /\ x.index \in Nat
      /\ \A d \in x.published : c.size < d.size /\ d.size <= horizon.size
  BY <1>1, Alone DEF Settled, Answered, Answering, Judging, Entering, RunOK, Cosigned,
                     HasWhatItNeeds, Placed, Later, LooksLater
<1>3. Ranges(horizon.size) = {entries} /\ Authentic(horizon, entries)
  BY <1>2, SeriesFacts, WholeMirror DEF InTurn, Authentic
<1>4. ASSUME NEW d \in x.published, WithinCeiling(entries, c.size, d.size)
      PROVE  BoundToLater(d, entries) /\ Continues(d, entries, c, x.prefix)
  <2>1. /\ c.size \in Nat /\ d.size \in Nat /\ horizon.size \in Nat /\ Len(log) \in Nat
        /\ c.size < d.size /\ d.size <= horizon.size /\ horizon.size <= Len(log)
        /\ log \in Trees /\ entries \in Trees /\ Len(entries) = horizon.size
        /\ entries = SubSeq(log, 1, horizon.size)
        /\ d.root = SubSeq(log, 1, d.size) /\ c.root = SubSeq(log, 1, c.size)
        /\ Len(c.root) = c.size /\ c.root \in Trees
        /\ \A k \in 1..horizon.size : entries[k] = log[k]
        /\ \A k \in 1..c.size : c.root[k] = log[k]
    BY <1>2, SeriesFacts DEF Prefix
  <2> DEFINE n == c.size
             m == d.size
             z == horizon.size
  <2>2. SubSeq(entries, 1, m) = d.root /\ Len(d.root) = m
    BY <2>1 DEF Trees
  <2>3. SubSeq(d.root, 1, n) = c.root
    BY <2>1 DEF Trees
  <2>4. 0 \in Below(c.root, n)
    <3>1. n > 0 /\ c.root[1] = log[1]
      BY <1>2, <2>1
    <3> QED BY <1>2, <2>1, <3>1 DEF Founded, Below, ManifestIndices
  <2>5. Below(c.root, n) = Below(entries, n)
        /\ \A i : IsActive(c.root, n, i) <=> IsActive(entries, n, i)
    <3>1. n <= Len(c.root) /\ n <= Len(entries) /\ \A k \in 1..n : c.root[k] = entries[k]
      BY <2>1
    <3> HIDE DEF n
    <3> QED BY <2>1, <3>1, SamePrefix DEF n
  <2>6. \E i \in Below(entries, n) : IsActive(entries, n, i) /\ IsActive(entries, m, i)
    <3>1. n \in Nat /\ m \in Nat /\ n <= m /\ m <= Len(entries)
      BY <2>1
    <3> QED BY <1>4, <2>1, <2>4, <2>5, <3>1, SameVersion
  <2>7. Authentic(d, SubSeq(entries, 1, m))
    BY <2>2 DEF Authentic
  <2>8. Extends(d, c)
    BY <2>1, <2>3 DEF Extends
  <2> QED BY <1>2, <2>5, <2>6, <2>7, <2>8 DEF BoundToLater, Continues
<1>5. \/ Learn(r, none)
      \/ \E later \in x.published : Learn(r, found(later))
  BY <1>2, <1>3, <1>4 DEF Window, InTurn, Latest
<1>6. CASE Learn(r, none)
  <2>1. /\ none.pc = "assemble" /\ none.cp = c /\ none.prefix = x.prefix
        /\ none.index = x.index /\ none.env = x.env /\ none.later = None
    BY <1>1, <1>2 DEF RunState
  <2> HIDE DEF none
  <2>2. Settled(none, log, held, series, seen)
    BY <1>2, <2>1 DEF Settled, Locates, Answered, Shows, Attests, LooksLater,
                      Entering, Answering, Judging, Later
  <2> QED BY <1>1, <1>6, <2>1, <2>2, TurnLearns
<1>7. ASSUME NEW later \in x.published, Learn(r, found(later)) PROVE TurnInv'
  <2> DEFINE window == SubSeq(entries, 1, later.size)
             y == [x EXCEPT !.pc = "later_history", !.later = later, !.window = window,
                            !.todo = Endpoints, !.published = {}, !.horizon = None]
  <2>1. Learn(r, y)
    BY <1>7
  <2> HIDE DEF window
  <2>2. /\ y.pc = "later_history" /\ y.cp = c /\ y.prefix = x.prefix
        /\ y.index = x.index /\ y.env = x.env /\ y.later = later /\ y.todo = Endpoints
    BY <1>1 DEF RunState
  <2> HIDE DEF y
  <2>3. \A u \in Witnesses : Ahead(y, u)
    BY <2>2 DEF Ahead, Witnesses
  <2>4. Settled(y, log, held, series, seen)
    BY <1>2, <2>2, <2>3 DEF Settled, Locates, Answered, Shows, Attests, LooksLater,
                            Entering, Answering, Judging, Later
  <2> QED BY <1>1, <2>1, <2>2, <2>4, TurnLearns
<1> QED BY <1>5, <1>6, <1>7

LEMMA LaterHistoryTurn ==
  ASSUME IInv, TurnInv, InTurn, NEW r \in Runs, LaterHistory(r)
  PROVE  TurnInv'
<1> DEFINE x == run[r]
           w    == Head(x.todo)
           rest == Tail(x.todo)
           to   == OnwardLater(rest)
           lcos == x.lcos \cup {[by |-> w, over |-> x.later]}
           y    == [x EXCEPT !.pc = to, !.lcos = lcos, !.todo = rest]
<1>1. /\ x \in RunState /\ RunOK(x, log, minted, seen) /\ x.pc = "later_history" /\ InFlight(r)
  BY RunFacts DEF LaterHistory, At, InFlight, Ended
<1>2. /\ Settled(x, log, held, series, seen) /\ Whole(log, held, series)
      /\ Shown(series, seen) /\ x.cp \in series /\ x.prefix = x.cp.root
      /\ x.index < x.cp.size /\ log[x.index + 1] = x.env
      /\ x.later \in series /\ w \in Witnesses /\ rest \in Seq(Witnesses) /\ x.todo # <<>>
      /\ \A u \in Witnesses : [by |-> u, over |-> x.later] \in x.lcos \/ Ahead(x, u)
  BY <1>1, Alone, NextWitness
     DEF Settled, Answered, Answering, Judging, Entering, RunOK, HasWhatItNeeds, Asking,
         Later, LooksLater
<1>3. CosignatureOver(seen[w], x.later) = {x.later}
  BY <1>2 DEF CosignatureOver, Shown
<1>4. Learn(r, y)
  BY <1>3 DEF LaterHistory
<1>5. \A u \in Witnesses : Ahead(x, u) => u = w \/ \E k \in 1..Len(rest) : rest[k] = u
  <2> SUFFICES ASSUME NEW u \in Witnesses, NEW k \in 1..Len(x.todo), x.todo[k] = u, u # w
               PROVE  \E j \in 1..Len(rest) : rest[j] = u
    BY DEF Ahead
  <2>1. x.todo \in Seq(Witnesses)
    BY <1>1 DEF RunState
  <2>2. k # 1 /\ k - 1 \in 1..Len(rest) /\ rest[k - 1] = u
    BY <1>2, <2>1
  <2> QED BY <2>2
<1>6. /\ to \in {"later_history", "assemble"}
      /\ to = "assemble" => 1..Len(rest) = {}
  BY DEF OnwardLater
<1>7. \A u \in Witnesses :
        [by |-> u, over |-> x.later] \in lcos \/ \E k \in 1..Len(rest) : rest[k] = u
  BY <1>2, <1>5
<1> HIDE DEF to, rest, lcos
<1>8. /\ y.pc = to /\ y.cp = x.cp /\ y.prefix = x.prefix /\ y.index = x.index
      /\ y.env = x.env /\ y.later = x.later /\ y.todo = rest /\ y.lcos = lcos
  BY <1>1 DEF RunState
<1> HIDE DEF y
<1>9. LooksLater(y, series)
  BY <1>2, <1>6, <1>7, <1>8 DEF LooksLater, Ahead
<1>10. Settled(y, log, held, series, seen)
  BY <1>2, <1>6, <1>8, <1>9 DEF Settled, Locates, Answered, Shows, Attests,
                                Entering, Answering, Judging, Later
<1> QED BY <1>1, <1>4, <1>6, <1>8, <1>10, TurnLearns

\* The receipt of a run in its turn is assembled: its prefix is the tree of its
\* checkpoint, and a declared witness saw the continuation.
LEMMA AssembleTurn ==
  ASSUME IInv, TurnInv, InTurn, NEW r \in Runs, Assemble(r)
  PROVE  TurnInv'
<1> DEFINE x == run[r]
           y == [NewRun EXCEPT !.pc = "issued"]
<1>1. /\ x \in RunState /\ RunOK(x, log, minted, seen) /\ x.pc = "assemble" /\ InFlight(r)
  BY RunFacts DEF Assemble, At, InFlight, Ended
<1>2. /\ Settled(x, log, held, series, seen) /\ Whole(log, held, series)
      /\ Shown(series, seen) /\ Founded(log, series, seen)
      /\ x.cp \in series /\ x.prefix = x.cp.root /\ x.index \in Nat
      /\ x.index < x.cp.size /\ log[x.index + 1] = x.env
      /\ x.later # None => /\ x.later \in series /\ Continued(x, log, minted)
                           /\ \A u \in Witnesses : [by |-> u, over |-> x.later] \in x.lcos
  BY <1>1, Alone DEF Settled, Answered, Answering, Judging, Entering, RunOK,
                     HasWhatItNeeds, Placed, Later, LooksLater
<1>3. Authentic(x.cp, x.prefix) /\ SubjectIs(x.prefix, x.index, x.env)
  <2>1. /\ Len(x.prefix) = x.cp.size /\ x.cp.size \in Nat
        /\ \A k \in 1..x.cp.size : x.prefix[k] = log[k]
    BY <1>2, SeriesFacts
  <2> QED BY <1>2, <2>1 DEF Authentic, SubjectIs
<1>4. LaterSupported(r)
  <2> SUFFICES ASSUME x.later # None PROVE LaterWitnesses(r) # {}
    BY DEF LaterSupported
  <2>1. /\ x.later.size \in Nat /\ x.window \in Trees /\ Len(x.window) = x.later.size
        /\ x.window = x.later.root
    BY <1>1, <1>2, SeriesFacts DEF Continued, Authentic, RunState
  <2>2. PICK i : IsActive(x.window, x.later.size, i)
    BY <1>2 DEF Continued
  <2>3. i \in 0..(Len(x.window) - 1)
    BY <2>1, <2>2 DEF IsActive, Below, ManifestIndices
  <2>4. PICK u \in DeclaredAt(x.window, i) : u \in Witnesses
    BY <2>1, <2>2, ActiveDeclares
  <2>5. [by |-> u, over |-> x.later] \in Accounted(x.lcos, x.window, x.later.size)
    BY <1>2, <2>2, <2>3, <2>4 DEF Accounted
  <2> QED BY <2>5 DEF LaterWitnesses
<1>5. End(r, "issued") /\ UNCHANGED servers
  BY <1>3, <1>4 DEF Assemble
<1>6. /\ Go(r, y) /\ y.pc = "issued"
      /\ log' = log /\ held' = held /\ series' = series /\ seen' = seen
  BY <1>5 DEF End, servers, NewRun
<1> HIDE DEF y
<1>7. Settled(y, log, held, series, seen)
  BY <1>2, <1>6 DEF Settled, Locates, Answered, Shows, Attests, LooksLater,
                    Entering, Answering, Judging, Later
<1> QED BY <1>1, <1>2, <1>6, <1>7, TurnMoves

LEMMA TurnInit == Init => TurnInv
<1> SUFFICES ASSUME Init, InTurn PROVE TurnInv
  BY DEF TurnInv
<1>1. \A r \in Runs : run[r].pc = "idle"
  BY DEF Init, NewRun
<1>2. log \in Trees /\ log # <<>> /\ log[1] \in Manifest /\ Once(log)
  BY HistoriesAssumption DEF Init, InTurn, Provisioned
<1>3. Len(log) \in Nat /\ Len(log) > 0
  BY <1>2 DEF Trees
<1>4. Shown(series, seen)
  BY DEF Init, Shown
<1>5. Whole(log, held, series)
  <2>1. [size |-> Len(log), root |-> SubSeq(log, 1, Len(log)), time |-> 1] \in series
    BY <1>3 DEF Init, Signed
  <2> QED BY <2>1 DEF Init, Whole
<1> QED BY <1>1, <1>2, <1>3, <1>4, <1>5 DEF TurnInv, InFlight, Founded, Shown

LEMMA TurnNext == IInv /\ TurnInv /\ [Next]_vars => TurnInv'
<1> SUFFICES ASSUME IInv, TurnInv, [Next]_vars, InTurn' PROVE TurnInv'
  BY DEF TurnInv
<1>1. CASE UNCHANGED vars
  <2>1. /\ log' = log /\ held' = held /\ series' = series /\ seen' = seen
        /\ mirror' = mirror /\ run' = run /\ crashes' = crashes /\ overlapped' = overlapped
    BY <1>1 DEF vars, servers, ghosts
  <2> QED BY <2>1 DEF TurnInv, InTurn, InFlight
<1>2. ASSUME NEW r \in Runs, Start(r) PROVE TurnInv'
  BY <1>2, StartTurn
<1>3. ASSUME NEW r \in Runs, Crash(r) PROVE FALSE
  BY <1>3 DEF Crash, InTurn, IInv, TypeOK
<1>4. ASSUME NEW r \in Runs, Step(r) PROVE TurnInv'
  <2>1. mirror' = mirror /\ crashes' = crashes /\ overlapped' = overlapped
    BY <1>4 DEF Step, LookUp, Place, Submit, Retrieve, Stage, Ingest, Enumerate, History,
                Cosign, Proof, Attest, Series, Window, LaterHistory, LaterCosign, Assemble,
                Learn, Fail, servers, ghosts
  <2>2. InTurn
    BY <2>1 DEF InTurn
  <2>3. ~LaterCosign(r)
    <3> SUFFICES ASSUME run[r].pc = "later_cosign" PROVE FALSE
      BY DEF LaterCosign, At
    <3>1. InFlight(r)
      BY DEF InFlight, Ended
    <3> QED BY <2>2, <3>1, Alone DEF Settled, LooksLater
  <2> QED BY <1>4, <2>2, <2>3, LookUpTurn, PlaceTurn, SubmitTurn, EnterTurn, IngestTurn,
          EnumerateTurn, HistoryTurn, CosignTurn, ProofTurn, AttestTurn, SeriesTurn,
          WindowTurn, LaterHistoryTurn, AssembleTurn DEF Step
<1> QED BY <1>1, <1>2, <1>3, <1>4 DEF Next

\* Runs taken one after another all succeed, whatever they issue, and the log
\* keeps one entry for an envelope issued any number of times.
THEOREM RunsTakeTurns == Spec => []RunsInTurn
<1>1. TurnInv => RunsInTurn
  BY DEF TurnInv, RunsInTurn, Founded, At
<1> QED BY <1>1, Invariance, TurnInit, TurnNext, PTL DEF Spec

-----------------------------------------------------------------------------
(***************************************************************************)
(* The halves of a rotation proof.  Overlapping runs leave a witness       *)
(* without checkpoints the mirror has, so the two may anchor a rotation    *)
(* differently; runs in turn never do.                                     *)
(***************************************************************************)
\* In turn, the log signs each tree once.
SizesInv ==
  InTurn =>
    /\ \A c, d \in minted : c.size = d.size => c = d
    /\ \A r \in Runs : At(r, "retrieve") => \A c \in minted : c.size < Len(log)

LEMMA SizesInit == Init => SizesInv
BY DEF Init, Signed, SizesInv, NewRun, At

LEMMA ElsewhereThan ==
  ASSUME IInv, NEW r \in Runs, Start(r) \/ Step(r) \/ Crash(r), ~Submit(r)
  PROVE  \E y : Go(r, y) /\ y.pc # "retrieve"
<1>1. run[r] \in RunState
  BY RunFacts
<1>2. \A label \in Ended : End(r, label) => \E y : Go(r, y) /\ y.pc # "retrieve"
  <2> SUFFICES ASSUME NEW label \in Ended, End(r, label)
               PROVE  \E y : Go(r, y) /\ y.pc # "retrieve"
    OBVIOUS
  <2>1. [NewRun EXCEPT !.pc = label].pc # "retrieve"
    BY DEF NewRun, Ended
  <2> QED BY <2>1 DEF End
<1>3. CASE Fail(r) \/ Crash(r) \/ End(r, "issued")
  BY <1>2, <1>3 DEF Fail, Crash, Ended
<1>4. CASE Start(r)
  <2>1. PICK e, wants : Go(r, [NewRun EXCEPT !.pc = "look", !.env = e, !.wants = wants])
    BY <1>4 DEF Start
  <2>2. [NewRun EXCEPT !.pc = "look", !.env = e, !.wants = wants].pc # "retrieve"
    BY DEF NewRun
  <2> QED BY <2>1, <2>2
<1>5. CASE LookUp(r)
  <2>1. \A at : [run[r] EXCEPT !.pc = "place", !.index = at, !.placed = TRUE].pc = "place"
    BY <1>1 DEF RunState
  <2>2. [run[r] EXCEPT !.pc = "submit"].pc = "submit"
    BY <1>1 DEF RunState
  <2> QED BY <1>5, <2>1, <2>2 DEF LookUp, Learn
<1>6. CASE Place(r) /\ ~Fail(r)
  <2>1. \A c : [run[r] EXCEPT !.pc = "enumerate", !.cp = c].pc = "enumerate"
    BY <1>1 DEF RunState
  <2> QED BY <1>6, <2>1 DEF Place, Learn
<1>7. CASE Retrieve(r) \/ Stage(r) \/ Ingest(r)
  <2>1. \A c : [run[r] EXCEPT !.pc = "stage", !.cp = c].pc = "stage"
    BY <1>1 DEF RunState
  <2>2. \A label : [run[r] EXCEPT !.pc = label].pc = label
    BY <1>1 DEF RunState
  <2> QED BY <1>7, <2>1, <2>2 DEF Retrieve, Stage, Ingest
<1>8. CASE \/ Enumerate(r) \/ History(r) \/ Cosign(r) \/ Proof(r) \/ Attest(r)
           \/ Series(r) \/ Window(r) \/ LaterHistory(r) \/ LaterCosign(r)
  <2>1. Fail(r) \/ \E y : Kept(r, y)
    BY <1>8, AnsweringMoves
  <2> QED BY <1>3, <2>1 DEF Kept, Answering, Judging, Later
<1>9. CASE Assemble(r)
  BY <1>3, <1>9 DEF Assemble
<1> QED BY <1>3, <1>4, <1>5, <1>6, <1>7, <1>8, <1>9 DEF Step

LEMMA SizesNext == IInv /\ TurnInv /\ SizesInv /\ [Next]_vars => SizesInv'
<1> SUFFICES ASSUME IInv, TurnInv, SizesInv, [Next]_vars, InTurn' PROVE SizesInv'
  BY DEF SizesInv
<1>1. CASE UNCHANGED vars
  <2>1. log' = log /\ minted' = minted /\ run' = run /\ (InTurn' <=> InTurn)
    BY <1>1 DEF vars, servers, ghosts, InTurn
  <2> QED BY <2>1 DEF SizesInv, At
<1>2. CASE \E r \in Runs : Start(r) \/ Step(r) \/ Crash(r)
  <2>1. PICK r \in Runs : Start(r) \/ Step(r) \/ Crash(r)
    BY <1>2
  <2>2. InTurn
    <3>1. CASE Start(r)
      BY <3>1 DEF Start, servers, InTurn
    <3>2. CASE Step(r)
      BY <3>2 DEF Step, LookUp, Place, Submit, Retrieve, Stage, Ingest, Enumerate, History,
         Cosign, Proof, Attest, Series, Window, LaterHistory, LaterCosign, Assemble,
         Learn, Fail, servers, ghosts, InTurn
    <3> QED BY <2>1, <3>1, <3>2 DEF Crash, InTurn, IInv, TypeOK
  <2>3. run \in [Runs -> RunState] /\ Len(log) \in Nat /\ log \in Trees
        /\ \A c \in minted : c.size \in Nat /\ c.size <= Len(log)
    BY DEF IInv, TypeOK, ServersOK, Checkpoint, Trees
  <2>4. CASE Submit(r)
    <3>1. /\ minted' = minted /\ Len(log') = Len(log) + 1
      BY <2>3, <2>4 DEF Submit, Trees
    <3> QED BY <2>2, <2>3, <3>1 DEF SizesInv
  <2>5. CASE Retrieve(r)
    <3> DEFINE c == [size |-> Len(log), root |-> log,
                     time |-> Cardinality({d \in minted : d.size = Len(log)}) + 1]
               y == [run[r] EXCEPT !.pc = "stage", !.cp = c]
    <3>1. /\ minted' = minted \cup {c} /\ c.size = Len(log) /\ log' = log
          /\ run'[r] = y /\ \A q \in Runs \ {r} : run'[q] = run[q]
      BY <2>3, <2>5 DEF Retrieve, Go
    <3>2. y.pc = "stage"
      BY <2>3 DEF RunState
    <3> HIDE DEF c, y
    <3>3. \A d \in minted : d.size < Len(log)
      BY <2>2, <2>5 DEF SizesInv, Retrieve
    <3>4. \A q \in Runs \ {r} : ~InFlight(q)
      <4>1. InFlight(r)
        BY <2>5 DEF Retrieve, At, InFlight, Ended
      <4> QED BY <2>2, <4>1, Alone
    <3>5. \A q \in Runs : run'[q].pc # "retrieve"
      BY <3>1, <3>2, <3>4 DEF InFlight, Ended
    <3>6. \A d, e \in minted' : d.size = e.size => d = e
      BY <2>2, <2>3, <3>1, <3>3 DEF SizesInv
    <3> QED BY <3>5, <3>6 DEF SizesInv, At
  <2>6. CASE ~Submit(r) /\ ~Retrieve(r)
    <3>1. log' = log /\ minted' = minted
      BY <2>1, <2>6 DEF Start, Crash, Step, LookUp, Place, Stage, Ingest,
         Enumerate, History, Cosign, Proof, Attest, Series, Window, LaterHistory,
         LaterCosign, Assemble, Learn, Fail, servers
    <3>2. \E y : Go(r, y) /\ y.pc # "retrieve"
      BY <2>1, <2>6, ElsewhereThan
    <3>3. \A q \in Runs : At(q, "retrieve")' => At(q, "retrieve")
      BY <2>3, <3>2 DEF Go, At
    <3> QED BY <2>2, <3>1, <3>3 DEF SizesInv
  <2> QED BY <2>4, <2>5, <2>6
<1> QED BY <1>1, <1>2 DEF Next

\* A witness lacks nothing of the series but the checkpoint over the whole log.
LEMMA SeenInTurn ==
  ASSUME IInv, TurnInv, InTurn
  PROVE  \/ Shown(series, seen)
         \/ /\ Whole(log, held, series)
            /\ \A w \in Witnesses, c \in series : c \in seen[w] \/ c.size = Len(log)
<1>1. CASE \A r \in Runs : ~InFlight(r)
  BY <1>1 DEF TurnInv
<1>2. CASE \E r \in Runs : InFlight(r)
  BY <1>2, Alone DEF Settled, Shows, Entering
<1> QED BY <1>1, <1>2

\* While runs take turns, the mirror and every witness that anchors a rotation
\* anchor it at one checkpoint, which is what compose_rotation_proof takes a
\* healthy deployment to be; that runs may overlap is what breaks it.
THEOREM HalvesAgreeInTurn == Spec => [](InTurn => RotationHalvesAgree)
<1>1. IInv /\ TurnInv /\ SizesInv => (InTurn => RotationHalvesAgree)
  <2> SUFFICES ASSUME IInv, TurnInv, SizesInv, InTurn,
                      NEW i \in ManifestIndices(log), NEW w \in Witnesses,
                      NEW c \in RotationProofs(i) \ {None}, NEW d \in RotationCosignatures(w, i)
               PROVE  c = d
    BY DEF RotationHalvesAgree
  <2>1. /\ c \in Anchors(Usable, i) /\ d \in Anchors(seen[w], i)
        /\ seen[w] \subseteq series /\ i \in Nat
    BY DEF RotationProofs, RotationCosignatures, InTurn, TurnInv, Founded, ManifestIndices
  <2>2. /\ c \in series /\ d \in series /\ c \in Usable
        /\ c.size > i /\ d.size > i
    BY <2>1 DEF Anchors, Usable
  <2>3. /\ c \in minted /\ d \in minted /\ c.size \in Nat /\ d.size \in Nat
        /\ c.time \in Nat /\ d.time \in Nat /\ d.size <= Len(log) /\ Len(log) \in Nat
    BY <2>2, SeriesFacts DEF Checkpoint
  <2>4. c.size = d.size => c = d
    BY <2>3 DEF SizesInv
  <2>5. CASE c \in seen[w]
    <3>1. ~Before(c, d)
      BY <2>1, <2>2, <2>5 DEF Anchors
    <3>2. d.size <= c.size
      BY <2>3, <3>1 DEF Before
    <3>3. d \in Usable
      BY <2>2, <2>3, <3>2 DEF Usable
    <3>4. ~Before(d, c)
      BY <2>1, <2>2, <3>3 DEF Anchors
    <3> QED BY <2>3, <2>4, <3>2, <3>4 DEF Before
  <2>6. CASE c \notin seen[w]
    <3>1. Whole(log, held, series) /\ c.size = Len(log)
      BY <2>2, <2>6, SeenInTurn DEF Shown
    <3>2. d \in Usable
      BY <2>2, <3>1, WholeMirror DEF InTurn
    <3>3. ~Before(d, c)
      BY <2>1, <2>2, <3>2 DEF Anchors
    <3> QED BY <2>3, <2>4, <3>1, <3>3 DEF Before
  <2> QED BY <2>5, <2>6
<1> QED BY <1>1, Invariance, TurnInit, TurnNext, SizesInit, SizesNext, PTL DEF Spec
=============================================================================
