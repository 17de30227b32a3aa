------------------------- MODULE GovernedLog_proofs -------------------------
(***************************************************************************)
(* What holds of resolve for every log, every policy and every corpus.     *)
(***************************************************************************)
EXTENDS GovernedLog, GovernanceRules_proofs

\* Nothing joins a chain before the genesis at index 0 does.
Rooted(c) == DOMAIN c # {} => 0 \in Manifests(c)

IInv == /\ TypeOK
        /\ OfCorpus(chain)
        /\ chain = calm
        /\ Rooted(chain)
        /\ EachActsOnce

-----------------------------------------------------------------------------
\* The branches of the loop, taken together, are Admits.
LEMMA ReadAdmits ==
  ASSUME NEW i \in Indexes, NEW e \in Envelopes, Read(i, e)
  PROVE  chain' = IF Admits(chain, i, e) THEN Extend(chain, i, e) ELSE chain
<1>1. CASE Broken(i, e) \/ NotGovernance(e) \/ PrecedesAnyManifest(i, e)
  BY <1>1 DEF Broken, NotGovernance, PrecedesAnyManifest, Report, Admits
<1>2. CASE Genesis(i, e)
  BY <1>2 DEF Genesis, Answer, Admits
<1>3. CASE Later(i, e)
  BY <1>3 DEF Later, Report, Admits
<1> QED BY <1>1, <1>2, <1>3 DEF Read

\* The chain grows by at most the entry just read, which comes after all of it.
Grows(i, e) == chain' = chain \/ (chain' = Extend(chain, i, e) /\ Admits(chain, i, e))

LEMMA StepGrows ==
  ASSUME IInv, NEW i \in Indexes, NEW e \in Envelopes, Enumerated(i, e)
  PROVE  Grows(i, e)
BY ReadAdmits DEF Enumerated, Returned, Grows

-----------------------------------------------------------------------------
LEMMA IInvInit == Init => IInv
<1> SUFFICES ASSUME Init PROVE IInv
  OBVIOUS
<1> USE DEF Init, GovInit
<1>1. TypeOK
  BY DEF TypeOK, GovTypeOK, Indexes
<1>2. OfCorpus(chain) /\ chain = calm /\ Rooted(chain) /\ EachActsOnce
  BY DEF OfCorpus, Rooted, EachActsOnce
<1> QED BY <1>1, <1>2 DEF IInv

LEMMA TypeEnumerated ==
  ASSUME IInv, NEW i \in Indexes, NEW e \in Envelopes, Enumerated(i, e)
  PROVE  TypeOK'
<1> USE DEF IInv, TypeOK, GovTypeOK
<1>1. i > last /\ last' = i /\ log' = Extend(log, i, e)
  BY DEF Enumerated
<1>2. i \notin DOMAIN log
  BY <1>1 DEF Indexes
<1>3. /\ DOMAIN log' = DOMAIN log \cup {i}
      /\ log'[i] = e
      /\ \A n \in DOMAIN log : log'[n] = log[n]
  BY <1>1, <1>2 DEF Extend
<1>4. /\ DOMAIN log' \subseteq Indexes
      /\ \A n \in DOMAIN log' : log'[n] \in Envelopes /\ n <= last'
      /\ last' \in Indexes \cup {-1}
  BY <1>1, <1>3, MaxIndexAssumption DEF Indexes
<1>5. ASSUME NEW c, NEW d, d = c \/ d = Extend(c, i, e),
             \A n \in DOMAIN c : n \in DOMAIN log /\ c[n] = log[n]
      PROVE  \A n \in DOMAIN d : n \in DOMAIN log' /\ d[n] = log'[n]
  BY <1>2, <1>3, <1>5 DEF Extend
<1>6. \A n \in DOMAIN chain' : n \in DOMAIN log' /\ chain'[n] = log'[n]
  <2>1. chain' = chain \/ chain' = Extend(chain, i, e)
    BY StepGrows DEF Grows
  <2> QED BY <2>1, <1>5
<1>7. \A n \in DOMAIN calm' : n \in DOMAIN log' /\ calm'[n] = log'[n]
  <2>1. calm' = calm \/ calm' = Extend(calm, i, e)
    BY DEF Enumerated
  <2> QED BY <2>1, <1>5
<1>8. \A n \in DOMAIN walk' : n \in DOMAIN log' /\ walk'[n] = log'[n]
  <2>1. walk' = walk \/ walk' = Extend(walk, i, e)
    BY DEF Enumerated, WalkOn
  <2> QED BY <2>1, <1>5
<1>9. walkStatus' \in {"walking", "halted", "walked"} /\ excluded' \subseteq DOMAIN log'
  BY <1>3 DEF Enumerated, WalkOn
<1>10. \A n \in DOMAIN chain' : Kind(chain', n) \in {"manifest", "key"}
  <2>1. CASE chain' = chain
    BY <2>1 DEF Kind, Payload
  <2>2. CASE chain' = Extend(chain, i, e) /\ Admits(chain, i, e)
    BY <2>2 DEF Extend, Admits, Kind, Payload
  <2> QED BY <2>1, <2>2, StepGrows DEF Grows
<1>11. /\ status' \in {"walking", "resolved", "rule_fired", "anchor_mismatch"}
       /\ findings' \in SUBSET (Tags \X Indexes)
  <2>1. CASE Returned
    BY <2>1 DEF Returned
  <2>2. CASE Read(i, e)
    BY <2>2 DEF Read, Broken, NotGovernance, PrecedesAnyManifest, Genesis, Later,
                Report, Answer, Tags
  <2> QED BY <2>1, <2>2 DEF Enumerated
<1> QED BY <1>4, <1>6, <1>7, <1>8, <1>9, <1>10, <1>11

LEMMA EnumeratedKeeps ==
  ASSUME IInv, NEW i \in Indexes, NEW e \in Envelopes, Enumerated(i, e)
  PROVE  IInv'
<1>1. TypeOK'
  BY TypeEnumerated
<1>2. Admits(chain, i, e) => ~ByOutsider(e)
  BY OutsidersRefused DEF IInv
<1>3. chain' = calm'
  <2>1. CASE status = "walking"
    BY <2>1, <1>2, ReadAdmits DEF IInv, Enumerated, Returned
  <2>2. CASE status # "walking"
    BY <2>2 DEF IInv, Enumerated, Returned
  <2> QED BY <2>1, <2>2
<1>4. CASE chain' = chain
  BY <1>1, <1>3, <1>4 DEF IInv, OfCorpus, Rooted, EachActsOnce, Manifests, Kind, Payload
<1>5. CASE chain' = Extend(chain, i, e) /\ Admits(chain, i, e)
  <2>1. i \notin DOMAIN chain
    BY DEF IInv, TypeOK, GovTypeOK, Enumerated, Indexes
  <2>2. /\ DOMAIN chain' = DOMAIN chain \cup {i}
        /\ chain'[i] = e
        /\ \A n \in DOMAIN chain : chain'[n] = chain[n]
    BY <1>5, <2>1 DEF Extend
  <2>3. OfCorpus(chain')
    BY <2>2, <1>2, <1>5 DEF IInv, OfCorpus, ByOutsider
  <2>4. CASE Manifests(chain) = {}
    <3>1. DOMAIN chain = {}
      BY <2>4 DEF IInv, Rooted
    <3>2. i = 0 /\ Payload(e).kind = "manifest"
      BY <2>4, <1>5 DEF Admits, WellAnchored
    <3>3. Rooted(chain)'
      BY <3>2, <2>2 DEF Rooted, Manifests, Kind
    <3>4. EachActsOnce'
      BY <3>1, <2>2 DEF EachActsOnce
    <3> QED BY <1>1, <1>3, <2>3, <3>3, <3>4 DEF IInv, OfCorpus
  <2>5. CASE Manifests(chain) # {}
    <3>1. 0 \in Manifests(chain)
      BY <2>5 DEF IInv, Rooted, Manifests
    <3>2. Rooted(chain)'
      BY <3>1, <2>2 DEF Rooted, Manifests, Kind, Payload
    <3>3. ~DuplicateRefusal(chain, e)
      BY <2>5, <1>5 DEF Admits
    <3>4. EachActsOnce'
      BY <3>3, <2>2 DEF DuplicateRefusal, EachActsOnce, IInv
    <3> QED BY <1>1, <1>3, <2>3, <3>2, <3>4 DEF IInv, OfCorpus
  <2> QED BY <2>4, <2>5
<1> QED BY <1>4, <1>5, StepGrows DEF Grows

LEMMA ClosingKeeps ==
  ASSUME IInv, (\E i \in Indexes : Disordered(i)) \/ End \/ UNCHANGED vars
  PROVE  IInv' /\ chain' = chain
<1>1. UNCHANGED <<chain, last, findings, log, calm, walk, excluded>>
  BY DEF Disordered, End, OutOfOrder, Finish, Answer, Returned, WalkEnds, vars, govVars
<1>2. /\ status' \in {"walking", "resolved", "rule_fired", "anchor_mismatch"}
      /\ walkStatus' \in {"walking", "halted", "walked"}
  BY DEF IInv, TypeOK, GovTypeOK,
         Disordered, End, OutOfOrder, Finish, Answer, Returned, WalkEnds, vars, govVars
<1>3. TypeOK'
  BY <1>1, <1>2 DEF IInv, TypeOK, GovTypeOK, Kind, Payload
<1> QED BY <1>1, <1>3 DEF IInv, OfCorpus, Rooted, EachActsOnce, Manifests, Kind, Payload

LEMMA IInvNext == IInv /\ [Next]_vars => IInv'
<1> SUFFICES ASSUME IInv, [Next]_vars PROVE IInv'
  OBVIOUS
<1>1. ASSUME NEW i \in Indexes, NEW e \in Envelopes, Enumerated(i, e) PROVE IInv'
  BY <1>1, EnumeratedKeeps
<1>2. CASE (\E i \in Indexes : Disordered(i)) \/ End \/ UNCHANGED vars
  BY <1>2, ClosingKeeps
<1> QED BY <1>1, <1>2 DEF Next

LEMMA Invariance == Spec => []IInv
BY IInvInit, IInvNext, PTL DEF Spec

-----------------------------------------------------------------------------
\* The chain, the walk and the log are what they should be for any log.
THEOREM TypeCorrect == Spec => []TypeOK
<1>1. IInv => TypeOK
  BY DEF IInv
<1> QED BY <1>1, Invariance, PTL

\* Whatever outsiders anchor, no key of theirs is ever in force.
THEOREM KeysOfTheCorpus == Spec => []OnlyCorpusKeys
<1>1. IInv => OnlyCorpusKeys
  BY CorpusKeys, MaxIndexAssumption DEF IInv, OnlyCorpusKeys
<1> QED BY <1>1, Invariance, PTL

\* Their entries make no difference to the chain: noninterference.
THEOREM Noninterference == Spec => []OutsidersPowerless
<1>1. IInv => OutsidersPowerless
  BY DEF IInv, OutsidersPowerless
<1> QED BY <1>1, Invariance, PTL

\* A statement takes effect at most once, copied and re-signed as it may be.
THEOREM ActsOnce == Spec => []EachActsOnce
<1>1. IInv => EachActsOnce
  BY DEF IInv
<1> QED BY <1>1, Invariance, PTL

-----------------------------------------------------------------------------
(***************************************************************************)
(* No later statement reaches back.  A chain that already has its genesis  *)
(* answers every question about an index before i as it did before an      *)
(* entry joined it at i.                                                   *)
(***************************************************************************)
LEMMA EarlierKept ==
  ASSUME NEW c, NEW i \in Indexes, NEW e, NEW n \in Indexes, n < i,
         DOMAIN c \subseteq Indexes, \A m \in DOMAIN c : m < i,
         0 \in Manifests(c)
  PROVE  /\ ProducerKeysAt(Extend(c, i, e), n) = ProducerKeysAt(c, n)
         /\ LogKeysFor(Extend(c, i, e), n + 1) = LogKeysFor(c, n + 1)
<1> DEFINE d == Extend(c, i, e)
<1>1. /\ DOMAIN d = DOMAIN c \cup {i}
      /\ \A m \in DOMAIN c : d[m] = c[m]
  BY DEF Extend, Indexes
<1>2. /\ i \in Int /\ n \in Int
      /\ DOMAIN c \subseteq Int
  BY DEF Indexes
<1> HIDE DEF d
<1>3. Manifests(c) \subseteq Manifests(d) /\ Manifests(d) \subseteq Manifests(c) \cup {i}
  BY <1>1 DEF Manifests, Kind, Payload
<1>4. /\ Manifests(c) \subseteq DOMAIN c
      /\ 0 < i
  BY DEF Manifests
<1>5. {m \in Manifests(d) : m < n} = {m \in Manifests(c) : m < n}
  BY <1>2, <1>3, <1>4
<1>6. {m \in Manifests(d) : m < n + 1} = {m \in Manifests(c) : m < n + 1}
  BY <1>2, <1>3, <1>4
<1>7. Least(Manifests(d)) = Least(Manifests(c))
  <2>1. ASSUME NEW m \in Least(Manifests(d)) PROVE m \in Least(Manifests(c))
    BY <2>1, <1>2, <1>3, <1>4 DEF Least
  <2>2. ASSUME NEW m \in Least(Manifests(c)) PROVE m \in Least(Manifests(d))
    BY <2>2, <1>2, <1>3, <1>4 DEF Least
  <2> QED BY <2>1, <2>2
<1>8. SnapshotManifest(d, n) = SnapshotManifest(c, n)
  BY <1>5, <1>7 DEF SnapshotManifest
<1>9. SnapshotManifest(c, n) \subseteq DOMAIN c
  BY <1>4 DEF SnapshotManifest, Greatest, Least
<1>10. ASSUME NEW k \in Keys, NEW m \in DOMAIN c
       PROVE  InForce(d, k, m, n) <=> InForce(c, k, m, n)
  <2>1. Events(d, k, m, n) = Events(c, k, m, n)
    <3>1. ASSUME NEW x \in Events(d, k, m, n) PROVE x \in Events(c, k, m, n)
      BY <3>1, <1>1, <1>2 DEF Events, Kind, Payload
    <3>2. ASSUME NEW x \in Events(c, k, m, n) PROVE x \in Events(d, k, m, n)
      BY <3>2, <1>1 DEF Events, Kind, Payload
    <3> QED BY <3>1, <3>2
  <2>2. Greatest(Events(c, k, m, n)) \subseteq DOMAIN c
    BY DEF Greatest, Events
  <2> QED BY <1>1, <2>1, <2>2 DEF InForce, Payload
<1>11. ProducerKeysAt(d, n) = ProducerKeysAt(c, n)
  BY <1>8, <1>9, <1>10 DEF ProducerKeysAt
<1>12. ActiveFor(d, n + 1) = ActiveFor(c, n + 1) /\ ActiveFor(c, n + 1) \subseteq DOMAIN c
  BY <1>4, <1>6 DEF ActiveFor, Greatest
<1>13. LogKeysFor(d, n + 1) = LogKeysFor(c, n + 1)
  BY <1>1, <1>12 DEF LogKeysFor, Payload
<1> QED BY <1>11, <1>13 DEF d

LEMMA HistoryKept ==
  ASSUME IInv, NEW i \in Indexes, NEW e \in Envelopes, Enumerated(i, e), NEW n \in 0..last
  PROVE  /\ ProducerKeysAt(chain', n) = ProducerKeysAt(chain, n)
         /\ LogKeysFor(chain', n + 1) = LogKeysFor(chain, n + 1)
<1>1. CASE chain' = chain
  BY <1>1
<1>2. CASE chain' = Extend(chain, i, e) /\ Admits(chain, i, e)
  <2>1. /\ i > last /\ last \in Indexes /\ n \in Indexes /\ n < i
        /\ DOMAIN chain \subseteq Indexes
        /\ \A m \in DOMAIN chain : m < i
    <3>1. i > last /\ last \in Indexes \cup {-1} /\ i \in Nat /\ MaxIndex \in Nat
      BY MaxIndexAssumption DEF IInv, TypeOK, GovTypeOK, Enumerated, Indexes
    <3>2. last \in Indexes /\ n \in Indexes /\ n < i
      BY <3>1 DEF Indexes
    <3>3. DOMAIN chain \subseteq Indexes /\ \A m \in DOMAIN chain : m <= last
      BY DEF IInv, TypeOK, GovTypeOK
    <3>4. \A m \in DOMAIN chain : m < i
      BY <3>1, <3>2, <3>3 DEF Indexes
    <3> QED BY <3>1, <3>2, <3>3, <3>4
  <2>2. i # 0
    BY <2>1 DEF Indexes
  <2>3. Manifests(chain) # {}
    BY <2>2, <1>2 DEF Admits, WellAnchored
  <2>4. 0 \in Manifests(chain)
    BY <2>3 DEF IInv, Rooted, Manifests
  <2> QED BY <1>2, <2>1, <2>4, EarlierKept
<1> QED BY <1>1, <1>2, StepGrows DEF Grows

\* What was resolved for an index or a checkpoint stays as it was while the
\* log grows: a rotation, a retirement or a forgery is never retroactive.
THEOREM NothingRetroactive == Spec => HistoryFixed
<1> DEFINE Same == \A n \in 0..last :
             /\ ProducerKeysAt(chain', n) = ProducerKeysAt(chain, n)
             /\ LogKeysFor(chain', n + 1) = LogKeysFor(chain, n + 1)
<1>1. IInv /\ [Next]_vars => [Same]_vars
  <2> SUFFICES ASSUME IInv, [Next]_vars PROVE Same
    OBVIOUS
  <2>1. ASSUME NEW i \in Indexes, NEW e \in Envelopes, Enumerated(i, e) PROVE Same
    BY <2>1, HistoryKept
  <2>2. CASE (\E i \in Indexes : Disordered(i)) \/ End \/ UNCHANGED vars
    BY <2>2, ClosingKeeps
  <2> QED BY <2>1, <2>2 DEF Next
<1> QED BY <1>1, Invariance, PTL DEF Spec, HistoryFixed

\* Every entry read keeps its verdict: the two rules of the view look only at
\* what comes before it.
LEMMA VerdictKept ==
  ASSUME IInv, NEW i \in Indexes, NEW e \in Envelopes, Enumerated(i, e), NEW n \in DOMAIN log
  PROVE  InView(n)' <=> InView(n)
<1>1. /\ i > last /\ log' = Extend(log, i, e)
      /\ i \in Int /\ last \in Int /\ n \in Int
      /\ \A m \in DOMAIN log : m \in 0..last
  <2>1. i > last /\ log' = Extend(log, i, e)
    BY DEF Enumerated
  <2>2. DOMAIN log \subseteq Indexes /\ \A m \in DOMAIN log : m <= last
    BY DEF IInv, TypeOK
  <2>3. last \in Int /\ Indexes \subseteq Nat
    BY MaxIndexAssumption DEF IInv, TypeOK, GovTypeOK, Indexes
  <2>4. i \in Int
    BY <2>3
  <2>5. \A m \in DOMAIN log : m \in 0..last
    <3> TAKE m \in DOMAIN log
    <3>1. m \in Nat /\ m <= last
      BY <2>2, <2>3
    <3> QED BY <2>3, <3>1
  <2>6. n \in Int
    BY <2>3, <2>5
  <2> QED BY <2>1, <2>3, <2>4, <2>5, <2>6
<1>2. i \notin DOMAIN log
  BY <1>1
<1>3. /\ DOMAIN log' = DOMAIN log \cup {i}
      /\ \A m \in DOMAIN log : log'[m] = log[m]
  BY <1>1, <1>2 DEF Extend
<1>4. \A m \in DOMAIN log : ProducerKeysAt(chain', m) = ProducerKeysAt(chain, m)
  BY <1>1, HistoryKept
<1>5. \A m \in DOMAIN log : IsStatement(m)' <=> IsStatement(m)
  BY <1>3, <1>4 DEF IsStatement, EnvelopeVerifiesAt, Payload
<1>6. {j \in DOMAIN log' : j < n} = {j \in DOMAIN log : j < n}
  <2>1. n < i
    BY <1>1
  <2> QED BY <1>1, <1>3, <2>1
<1>7. FirstCopy(n)' <=> FirstCopy(n)
  BY <1>3, <1>5, <1>6 DEF FirstCopy
<1> QED BY <1>5, <1>7 DEF InView

\* The verified statement view is never revised by what is anchored later.
THEOREM NoVerdictRevised == Spec => ViewFixed
<1> DEFINE Same == \A n \in DOMAIN log : InView(n)' <=> InView(n)
<1>1. IInv /\ [Next]_vars => [Same]_vars
  <2> SUFFICES ASSUME IInv, [Next]_vars PROVE Same
    OBVIOUS
  <2>1. ASSUME NEW i \in Indexes, NEW e \in Envelopes, Enumerated(i, e) PROVE Same
    BY <2>1, VerdictKept
  <2>2. CASE (\E i \in Indexes : Disordered(i)) \/ End \/ UNCHANGED vars
    <3>1. chain' = chain /\ log' = log
      BY <2>2, ClosingKeeps DEF Disordered, End, vars
    <3> QED BY <3>1 DEF InView, IsStatement, FirstCopy, EnvelopeVerifiesAt, Payload
  <2> QED BY <2>1, <2>2 DEF Next
<1> QED BY <1>1, Invariance, PTL DEF Spec, ViewFixed

\* Neither history nor verdicts.
THEOREM NothingIsRevised == Spec => NothingRevised
BY NothingRetroactive, NoVerdictRevised, PTL DEF NothingRevised

\* A statement of the corpus is not lost to copies of it: the earliest that
\* verifies is in the view (anchored.rs Statements::build, rules 1 and 2).
THEOREM StatementsSurvive == Spec => []NoStatementLost
<1>1. ASSUME TypeOK, NEW i \in DOMAIN log, IsStatement(i)
      PROVE  \E j \in DOMAIN log : j <= i /\ InView(j) /\ StmtOf[log[j]] = StmtOf[log[i]]
  <2> DEFINE Copies == {j \in DOMAIN log : IsStatement(j) /\ StmtOf[log[j]] = StmtOf[log[i]]}
  <2>1. DOMAIN log \subseteq Nat
    BY <1>1, MaxIndexAssumption DEF TypeOK, GovTypeOK, Indexes
  <2>2. i \in Copies /\ Copies \in SUBSET Nat
    BY <1>1, <2>1
  <2>3. PICK j \in Copies : \A m \in Copies : j <= m
    BY <2>2, NatHasLeast
  <2>4. \A m \in DOMAIN log : m < j /\ IsStatement(m) => StmtOf[log[m]] # StmtOf[log[j]]
    BY <2>1, <2>3
  <2>5. InView(j) /\ j <= i /\ StmtOf[log[j]] = StmtOf[log[i]]
    BY <2>2, <2>3, <2>4 DEF InView, FirstCopy
  <2> QED BY <2>5
<1>2. TypeOK => NoStatementLost
  BY <1>1 DEF NoStatementLost
<1> QED BY <1>2, TypeCorrect, PTL

-----------------------------------------------------------------------------
(***************************************************************************)
(* The walk that checks no signature.                                      *)
(***************************************************************************)
\* As long as resolve has reported nothing, the two chains are one; and once
\* it has resolved, neither reads on.
Agreed ==
  findings = {} /\ status \in {"walking", "resolved"} =>
    walk = chain /\ (status = "resolved" => walkStatus # "walking")

\* What resolve takes the walk takes, and what it passes over unreported the
\* walk passes over.
LEMMA ReadAgrees ==
  ASSUME NEW i \in Indexes, NEW e \in Envelopes, Read(i, e), WalkOn(i, e),
         walk = chain, findings' = {}, status' \in {"walking", "resolved"}
  PROVE  walk' = chain'
<1>1. CASE NotGovernance(e)
  BY <1>1 DEF NotGovernance, WalkOn, WalkAdmits
<1>2. CASE Broken(i, e) \/ PrecedesAnyManifest(i, e)
  BY <1>2 DEF Broken, PrecedesAnyManifest, Report
<1>3. CASE Genesis(i, e)
  <2>1. WellAnchored(i, e) /\ chain' = Extend(chain, i, e)
    BY <1>3 DEF Genesis, Answer
  <2>2. WalkAdmits(chain, e)
    BY <1>3, <2>1 DEF Genesis, WellAnchored, WalkAdmits, StructurallyLinked
  <2> QED BY <2>1, <2>2 DEF WalkOn
<1>4. CASE Later(i, e)
  <2>1. Fits(chain, e) /\ chain' = Extend(chain, i, e)
    BY <1>4 DEF Later, Report
  <2>2. WalkAdmits(chain, e)
    BY <1>4, <2>1 DEF Later, Fits, WalkAdmits, StructurallyLinked
  <2> QED BY <2>1, <2>2 DEF WalkOn
<1> QED BY <1>1, <1>2, <1>3, <1>4 DEF Read

LEMMA ReadReports ==
  ASSUME NEW i \in Indexes, NEW e \in Envelopes, Read(i, e)
  PROVE  findings \subseteq findings' /\ status' \in {status, "rule_fired", "anchor_mismatch"}
BY DEF Read, Broken, NotGovernance, PrecedesAnyManifest, Genesis, Later, Report, Answer

LEMMA AgreedNext == Agreed /\ [Next]_vars => Agreed'
<1> SUFFICES ASSUME Agreed, [Next]_vars,
                    findings' = {}, status' \in {"walking", "resolved"}
             PROVE  walk' = chain' /\ (status' = "resolved" => walkStatus' # "walking")
  BY DEF Agreed
<1>1. ASSUME NEW i \in Indexes, NEW e \in Envelopes, Enumerated(i, e)
      PROVE  walk' = chain' /\ (status' = "resolved" => walkStatus' # "walking")
  <2>1. walkStatus = "walking" /\ WalkOn(i, e)
    BY <1>1 DEF Enumerated
  <2>2. CASE status = "walking" /\ Read(i, e)
    <3>1. findings = {} /\ status' = "walking"
      BY <2>2, ReadReports
    <3>2. walk = chain
      BY <2>2, <3>1 DEF Agreed
    <3> QED BY <2>1, <2>2, <3>1, <3>2, ReadAgrees
  <2>3. CASE Returned
    BY <2>1, <2>3 DEF Returned, Agreed
  <2> QED BY <1>1, <2>2, <2>3 DEF Enumerated
<1>2. ASSUME NEW i \in Indexes, Disordered(i)
      PROVE  walk' = chain' /\ (status' = "resolved" => walkStatus' # "walking")
  BY <1>2 DEF Disordered, OutOfOrder, Returned, Answer, WalkEnds, Agreed
<1>3. CASE End
  BY <1>3 DEF End, Finish, Returned, Answer, WalkEnds, Agreed
<1>4. CASE UNCHANGED vars
  BY <1>4 DEF vars, govVars, Agreed
<1> QED BY <1>1, <1>2, <1>3, <1>4 DEF Next

\* Where resolve reports nothing, its chain and that of the walk without a
\* policy are the same (governance.rs resolve and structural_only).
THEOREM WalksAgree == Spec => []CleanWalksAgree
<1>1. Init => Agreed
  BY DEF Init, GovInit, Agreed
<1>2. Agreed => CleanWalksAgree
  BY DEF Agreed, CleanWalksAgree
<1> QED BY <1>1, <1>2, AgreedNext, PTL DEF Spec
=============================================================================
