-------------------------- MODULE Commands_proofs --------------------------
(***************************************************************************)
(* What a run of a command may be relied on for, whatever is asked of it,  *)
(* wherever it is started and whoever serves it.                           *)
(***************************************************************************)
EXTENDS Commands, AnchoredView_proofs, FiniteSetTheorems

\* Every class of error has an outcome.
Errors == CouldNotBegin \cup RuleFired \cup NotEstablishable
Checks == Errors \cup {"ok"}

LEMMA ErrorsHaveOutcomes ==
  ASSUME NEW error \in Errors
  PROVE  OutcomeOf(error) \in {"error", "invalid", "unverifiable"}
BY DEF Errors, OutcomeOf, CouldNotBegin, RuleFired, NotEstablishable

\* The first check that fails is one of the checks, and "ok" is all of them.
LEMMA FirstFailure ==
  ASSUME NEW checks, DOMAIN checks \subseteq Nat
  PROVE  \/ First(checks) = "ok" /\ \A n \in DOMAIN checks : checks[n] = "ok"
         \/ First(checks) # "ok" /\ \E n \in DOMAIN checks : First(checks) = checks[n]
<1> DEFINE failed == {n \in DOMAIN checks : checks[n] # "ok"}
<1>1. CASE failed = {}
  BY <1>1 DEF First
<1>2. CASE failed # {}
  <2>1. failed \in SUBSET Nat
    OBVIOUS
  <2>2. \E n \in failed : \A m \in failed : n <= m
    <3> HIDE DEF failed
    <3> QED BY <1>2, <2>1, NatHasLeast
  <2> DEFINE least == CHOOSE n \in failed : \A m \in failed : n <= m
  <2>3. least \in failed
    <3> HIDE DEF failed
    <3> QED BY <2>2
  <2>4. First(checks) = checks[least]
    BY <1>2 DEF First
  <2> HIDE DEF least
  <2> QED BY <2>3, <2>4
<1> QED BY <1>1, <1>2

LEMMA FirstIsChecked ==
  ASSUME NEW checks, DOMAIN checks \subseteq Nat, \A n \in DOMAIN checks : checks[n] \in Checks
  PROVE  First(checks) \in Checks
BY FirstFailure DEF Checks

\* Whoever answers was checked, and no failure of a server is held against
\* the artifact.
LEMMA EveryExchangeIsChecked ==
  ASSUME NEW url, NEW x \in Exchanges, NEW cap \in Nat
  PROVE  ExchangeIsChecked(url, x, cap)
<1> DEFINE answered == IF x.status = "redirect" THEN Redirected(url, x) ELSE ReadBody(x, cap)
<1> DEFINE checks == <<Pin(url, x), Unless(x.connects /\ Peers(x) # {}, "missing"), answered>>
<1>1. HttpFetch(url, x, cap) = First(checks)
  BY DEF HttpFetch
<1>2. DOMAIN checks = 1..3 /\ checks[1] = Pin(url, x) /\ checks[3] = answered
      /\ checks[2] = Unless(x.connects /\ Peers(x) # {}, "missing")
  OBVIOUS
<1>3. Pin(url, x) \in {"ok", "refused-target", "missing"} /\ checks[2] \in {"ok", "missing"}
  BY <1>2 DEF Pin, Unless
<1>4. answered \in {"ok", "refused-target", "missing", "limit"}
  BY DEF Redirected, ReadBody, Unless
<1> HIDE DEF checks
<1>5. CASE First(checks) = "ok"
  <2>1. Pin(url, x) = "ok" /\ answered = "ok"
    BY <1>2, <1>5, FirstFailure
  <2>2. url = "https" \/ Peers(x) \subseteq Loopback
    BY <2>1 DEF Pin, Unless, Peers
  <2>3. x.status # "redirect"
    BY <2>1 DEF Redirected
  <2>4. x.wire \in Nat /\ x.body \in Nat
    BY DEF Exchanges
  <2>5. x.body <= cap /\ x.wire <= cap
    BY <2>1, <2>3, <2>4 DEF ReadBody, Unless
  <2> QED BY <1>1, <1>5, <2>2, <2>3, <2>5 DEF ExchangeIsChecked
<1>6. CASE First(checks) # "ok"
  <2>1. First(checks) \in {"refused-target", "missing", "limit"}
    BY <1>2, <1>3, <1>4, <1>6, FirstFailure
  <2> QED BY <1>1, <1>6, <2>1 DEF ExchangeIsChecked, OutcomeOf, CouldNotBegin, RuleFired, NotEstablishable
<1> QED BY <1>5, <1>6

-----------------------------------------------------------------------------
(***************************************************************************)
(* Whatever stops a run has an outcome of its own.                         *)
(***************************************************************************)
LEMMA UnlessChecked ==
  ASSUME NEW holds, NEW error \in Checks
  PROVE  Unless(holds, error) \in Checks
BY DEF Unless, Checks

LEMMA AllChecks ==
  /\ CouldNotBegin \cup RuleFired \cup NotEstablishable \cup {"ok"} = Checks
  /\ {"ok", "usage", "open", "limit", "policy", "profile-broken", "not-possessed", "malformed", "output",
      "missing", "refused-target", "unparseable", "rule", "equivocation"} \subseteq Checks
BY DEF Checks, Errors, CouldNotBegin, RuleFired, NotEstablishable

LEMMA FirstOf2 ==
  ASSUME NEW a \in Checks, NEW b \in Checks
  PROVE  First(<<a, b>>) \in Checks
<1> DEFINE checks == <<a, b>>
<1>1. DOMAIN checks = 1..2 /\ checks[1] = a /\ checks[2] = b
  OBVIOUS
<1> HIDE DEF checks
<1>2. First(checks) \in Checks
  BY <1>1, FirstIsChecked
<1> QED BY <1>2 DEF checks

LEMMA FirstOf3 ==
  ASSUME NEW a \in Checks, NEW b \in Checks, NEW c \in Checks
  PROVE  First(<<a, b, c>>) \in Checks
<1> DEFINE checks == <<a, b, c>>
<1>1. DOMAIN checks = 1..3 /\ checks[1] = a /\ checks[2] = b /\ checks[3] = c
  OBVIOUS
<1> HIDE DEF checks
<1>2. First(checks) \in Checks
  BY <1>1, FirstIsChecked
<1> QED BY <1>2 DEF checks

LEMMA FirstOf4 ==
  ASSUME NEW a \in Checks, NEW b \in Checks, NEW c \in Checks, NEW d \in Checks
  PROVE  First(<<a, b, c, d>>) \in Checks
<1> DEFINE checks == <<a, b, c, d>>
<1>1. DOMAIN checks = 1..4 /\ checks[1] = a /\ checks[2] = b /\ checks[3] = c /\ checks[4] = d
  OBVIOUS
<1> HIDE DEF checks
<1>2. First(checks) \in Checks
  BY <1>1, FirstIsChecked
<1> QED BY <1>2 DEF checks

LEMMA FirstOf5 ==
  ASSUME NEW a \in Checks, NEW b \in Checks, NEW c \in Checks, NEW d \in Checks, NEW e \in Checks
  PROVE  First(<<a, b, c, d, e>>) \in Checks
<1> DEFINE checks == <<a, b, c, d, e>>
<1>1. DOMAIN checks = 1..5 /\ checks[1] = a /\ checks[2] = b /\ checks[3] = c /\ checks[4] = d /\ checks[5] = e
  OBVIOUS
<1> HIDE DEF checks
<1>2. First(checks) \in Checks
  BY <1>1, FirstIsChecked
<1> QED BY <1>2 DEF checks

LEMMA FirstOf8 ==
  ASSUME NEW a \in Checks, NEW b \in Checks, NEW c \in Checks, NEW d \in Checks, NEW e \in Checks, NEW f \in Checks, NEW g \in Checks, NEW h \in Checks
  PROVE  First(<<a, b, c, d, e, f, g, h>>) \in Checks
<1> DEFINE checks == <<a, b, c, d, e, f, g, h>>
<1>1. DOMAIN checks = 1..8 /\ checks[1] = a /\ checks[2] = b /\ checks[3] = c /\ checks[4] = d /\ checks[5] = e /\ checks[6] = f /\ checks[7] = g /\ checks[8] = h
  OBVIOUS
<1> HIDE DEF checks
<1>2. First(checks) \in Checks
  BY <1>1, FirstIsChecked
<1> QED BY <1>2 DEF checks

LEMMA FirstOf13 ==
  ASSUME NEW a \in Checks, NEW b \in Checks, NEW c \in Checks, NEW d \in Checks, NEW e \in Checks, NEW f \in Checks, NEW g \in Checks, NEW h \in Checks, NEW i \in Checks, NEW j \in Checks, NEW k \in Checks, NEW l \in Checks, NEW m \in Checks
  PROVE  First(<<a, b, c, d, e, f, g, h, i, j, k, l, m>>) \in Checks
<1> DEFINE checks == <<a, b, c, d, e, f, g, h, i, j, k, l, m>>
<1>1. DOMAIN checks = 1..13 /\ checks[1] = a /\ checks[2] = b /\ checks[3] = c /\ checks[4] = d /\ checks[5] = e /\ checks[6] = f /\ checks[7] = g /\ checks[8] = h /\ checks[9] = i /\ checks[10] = j /\ checks[11] = k /\ checks[12] = l /\ checks[13] = m
  OBVIOUS
<1> HIDE DEF checks
<1>2. First(checks) \in Checks
  BY <1>1, FirstIsChecked
<1> QED BY <1>2 DEF checks

LEMMA ReadFileChecked ==
  ASSUME NEW f, NEW use
  PROVE  ReadFile(f, use) \in Checks
<1>1. OpenChecked(f, use) \in Checks /\ Unless(f.size <= Caps[use], "limit") \in Checks
  BY AllChecks, UnlessChecked DEF OpenChecked
<1> QED BY <1>1, FirstOf2 DEF ReadFile

LEMMA DatasetKeyChecked ==
  ASSUME NEW d
  PROVE  DatasetKey(d) \in Checks
<1>1. /\ Unless(Cardinality(d.by) = 1, "policy") \in Checks
      /\ (IF d.by = {"file"} THEN ReadFile(d.file, "dataset key") ELSE "ok") \in Checks
      /\ Unless(d.decodes, "policy") \in Checks
  BY AllChecks, UnlessChecked, ReadFileChecked
<1> QED BY <1>1, FirstOf3 DEF DatasetKey

LEMMA LoadPolicyChecked ==
  ASSUME NEW p, IsPolicy(p)
  PROVE  LoadPolicy(p) \in Checks
<1> DEFINE keys == [n \in DOMAIN p.datasets |-> DatasetKey(p.datasets[n])]
<1>1. First(keys) \in Checks
  <2>1. DOMAIN keys \subseteq Nat /\ \A n \in DOMAIN keys : keys[n] \in Checks
    BY DatasetKeyChecked DEF IsPolicy
  <2> HIDE DEF keys
  <2> QED BY <2>1, FirstIsChecked
<1> HIDE DEF keys
<1> DEFINE checks ==
      <<ReadFile(p.file, "policy"), Unless(p.parses, "policy"), Unless(AnchorStated(p), "policy"),
        Unless(WitnessesStated(p), "policy"),
        Unless(\A id \in DOMAIN p.profiles : p.profiles[id].pinned, "policy"),
        First(keys), CheckEndpoint(p.mirror), CheckEndpoint(p.witness)>>
<1>2. First(checks) \in Checks
  <2>1. /\ ReadFile(p.file, "policy") \in Checks
        /\ Unless(p.parses, "policy") \in Checks
        /\ Unless(AnchorStated(p), "policy") \in Checks
        /\ Unless(WitnessesStated(p), "policy") \in Checks
        /\ Unless(\A id \in DOMAIN p.profiles : p.profiles[id].pinned, "policy") \in Checks
        /\ CheckEndpoint(p.mirror) \in Checks
        /\ CheckEndpoint(p.witness) \in Checks
    BY AllChecks, UnlessChecked, ReadFileChecked DEF CheckEndpoint
  <2> QED BY <1>1, <2>1, FirstOf8
<1>3. LoadPolicy(p) = First(checks)
  BY DEF LoadPolicy, keys
<1> QED BY <1>2, <1>3

LEMMA AnyProfileChecked ==
  ASSUME NEW p
  PROVE  AnyProfile(p) \in Checks
<1>1. ResolveAll(p) \in Checks /\ Unless(DOMAIN p.profiles # {}, "not-possessed") \in Checks
  BY AllChecks, UnlessChecked DEF ResolveAll
<1> QED BY <1>1, FirstOf2 DEF AnyProfile

LEMMA LoadTranscriptChecked ==
  ASSUME NEW t
  PROVE  LoadTranscript(t) \in Checks
<1>1. ReadFile(t.file, "transcript") \in Checks /\ Unless(t.parses, "malformed") \in Checks
  BY AllChecks, UnlessChecked, ReadFileChecked
<1> QED BY <1>1, FirstOf2 DEF LoadTranscript

LEMMA StatedChecked ==
  ASSUME NEW m
  PROVE  Stated(m) \in Checks
BY AllChecks, UnlessChecked DEF Stated

\* What is asked is one of the invocations, in one of the places.
LEMMA DispatchChecked ==
  ASSUME cmd \in Invocations
  PROVE  Dispatch \in Checks
<1>1. cmd.place \in DOMAIN Places /\ \A q \in Place.policy : IsPolicy(q)
  BY InvocationsAssumption, PlacesAssumption DEF Place
<1>2. PolicyLoads \in Checks
  <2>1. CASE Place.policy # {}
    BY <1>1, <2>1, LoadPolicyChecked DEF PolicyLoads, Policy, Given
  <2>2. CASE Place.policy = {}
    BY <2>2, AllChecks, UnlessChecked DEF PolicyLoads
  <2> QED BY <2>1, <2>2
<1>3. ChainBuilds \in Checks
  <2>1. (IF Place.transcript # {} THEN LoadTranscript(Given(Place.transcript)) ELSE "ok") \in Checks
    BY AllChecks, LoadTranscriptChecked
  <2>2. Unless(Place.cache # "unusable", "output") \in Checks
    BY AllChecks, UnlessChecked
  <2> QED BY <2>1, <2>2, FirstOf2 DEF ChainBuilds
<1>4. (IF Remote \/ cmd.name = "issue" THEN ChainBuilds ELSE "ok") \in Checks
  BY <1>3, AllChecks
<1> QED BY <1>2, <1>4, StatedChecked, FirstOf4 DEF Dispatch

LEMMA OptionsChecked ==
  ASSUME cmd \in Invocations
  PROVE  Options \in Checks
<1>1. \A m : Stated(m) \in Checks
  BY StatedChecked
<1>2. /\ Unless(Mirror # "none", "usage") \in Checks
      /\ Unless(Witness # "none", "usage") \in Checks
      /\ Unless("valid time" \notin Place.wrong, "malformed") \in Checks
      /\ Unless(Place.parses, "unparseable") \in Checks
      /\ ReadFile(Place.file, "artifact") \in Checks
      /\ AnyProfile(Policy) \in Checks
  BY AllChecks, UnlessChecked, ReadFileChecked, AnyProfileChecked
<1>3. CASE cmd.name = "closure"
  <2>1. Options = First(<<Stated("checkpoint"), Unless(Mirror # "none", "usage"), AnyProfile(Policy)>>)
    BY <1>3 DEF Options
  <2> QED BY <1>1, <1>2, <2>1, FirstOf3
<1>4. CASE cmd.name = "reconstruct"
  <2> DEFINE checks == <<Stated("checkpoint"), Unless("valid time" \notin Place.wrong, "malformed"),
                         Unless(Mirror # "none", "usage"), Unless(Witness # "none", "usage"), AnyProfile(Policy)>>
  <2>1. Options = First(checks)
    BY <1>4 DEF Options
  <2> QED BY <1>1, <1>2, <2>1, FirstOf5
<1>5. CASE cmd.name = "issue"
  BY <1>2, <1>5 DEF Options
<1>6. CASE cmd.name = "topology"
  <2>1. Options = First(<<Stated("corpus"), ReadFile(Place.file, "artifact"), Unless(Place.parses, "unparseable")>>)
    BY <1>6 DEF Options
  <2> QED BY <1>1, <1>2, <2>1, FirstOf3
<1>7. CASE cmd.name \notin {"closure", "reconstruct", "issue", "topology"}
  BY <1>7, AllChecks DEF Options
<1> QED BY <1>3, <1>4, <1>5, <1>6, <1>7

LEMMA FetchChecked ==
  ASSUME NEW url, NEW x, NEW r
  PROVE  HttpFetch(url, x, MaxBody) \in Checks /\ Replayed(r) \in Checks
<1>1. Pin(url, x) \in Checks /\ Unless(x.connects /\ Peers(x) # {}, "missing") \in Checks
  BY AllChecks, UnlessChecked DEF Pin
<1>2. (IF x.status = "redirect" THEN Redirected(url, x) ELSE ReadBody(x, MaxBody)) \in Checks
  BY AllChecks, UnlessChecked DEF Redirected, ReadBody
<1>3. Replayed(r) \in Checks
  BY AllChecks DEF Replayed
<1> QED BY <1>1, <1>2, <1>3, FirstOf3 DEF HttpFetch

LEMMA InstallChecked ==
  ASSUME NEW out \in Targets, NEW force
  PROVE  Install(out, force) \in Checks
BY AllChecks, UnlessChecked DEF Install, Targets

LEMMA EmitChecked ==
  ASSUME NEW file, NEW p, NEW key, NEW out, out.at \in Targets
  PROVE  EmitRun(file, p, key, out) \in Checks
<1>1. Check(p) \in Checks /\ ReadFile(file, "artifact") \in Checks /\ Install(out.at, out.force) \in Checks
  BY AllChecks, UnlessChecked, ReadFileChecked, InstallChecked DEF Check
<1>2. LoadKey(key) \in Checks
  <2>1. (IF key.from = "file" THEN ReadFile(key.file, "signing key") ELSE Unless(key.set, "usage")) \in Checks
        /\ Unless(key.seed, "malformed") \in Checks
    BY AllChecks, UnlessChecked, ReadFileChecked
  <2> QED BY <2>1, FirstOf2 DEF LoadKey
<1> QED BY <1>1, <1>2, FirstOf4 DEF EmitRun

-----------------------------------------------------------------------------
\* issue is refused with a class of error, or not at all.
LEMMA PositionChecked ==
  ASSUME NEW r, NEW d
  PROVE  Position(r, d).error \in Checks
<1>1. PublishExisting(r, d).error \in {"missing", "ok"}
  BY DEF PublishExisting, Placed
<1>2. Submitted(r, d).error \in {"refused-target", "missing", "ok"}
  BY DEF Submitted, Placed
<1> QED BY <1>1, <1>2, AllChecks DEF Position

LEMMA MaterialChecked ==
  ASSUME NEW r, IsRequest(r)
  PROVE  Material(r) \in Checks
<1> DEFINE receipts == [n \in DOMAIN r.embeds |-> Embedded(r.embeds[n])]
<1> DEFINE trees == IF r.trees = {} THEN <<>> ELSE <<Embedded(Given(r.trees))>>
<1>1. \A e : Embedded(e) \in Checks
  <2> TAKE e
  <2>1. ReadFile(e.file, "artifact") \in Checks /\ Unless(e.json, "usage") \in Checks
    BY AllChecks, UnlessChecked, ReadFileChecked
  <2> QED BY <2>1, FirstOf2 DEF Embedded
<1>2. receipts \in Seq(Checks)
  <2>1. r.embeds \in Seq([file : Files, json : BOOLEAN])
    BY DEF IsRequest
  <2>2. DOMAIN r.embeds = 1..Len(r.embeds) /\ Len(r.embeds) \in Nat
    BY <2>1
  <2> QED BY <1>1, <2>2
<1>3. trees \in Seq(Checks)
  BY <1>1
<1> HIDE DEF receipts, trees
<1>4. receipts \o trees \in Seq(Checks)
  BY <1>2, <1>3
<1>5. \A s \in Seq(Checks) : First(s) \in Checks
  <2> TAKE s \in Seq(Checks)
  <2>1. DOMAIN s \subseteq Nat /\ \A n \in DOMAIN s : s[n] \in Checks
    OBVIOUS
  <2> QED BY <2>1, FirstIsChecked
<1>6. First(receipts \o trees) \in Checks
  BY <1>4, <1>5
<1> QED BY <1>6 DEF Material, receipts, trees

LEMMA LeafChecked ==
  ASSUME NEW r
  PROVE  Leaf(r).error \in Checks
<1>1. \A claim, s, trees, record : LeafMaterial(claim, s, trees, record).error \in Checks
  BY AllChecks, UnlessChecked DEF LeafMaterial, Opened, Unopened
<1> QED BY <1>1, AllChecks DEF Leaf, Unopened

LEMMA IssueChecked ==
  ASSUME NEW r, IsRequest(r), NEW d, NEW mirror, NEW witness
  PROVE  IssueRun(r, d, mirror, witness).error \in Checks
<1> DEFINE early == First(<<Unless(r.claim \in DOMAIN ClaimShape, "usage"), CheckEndpoints(r, mirror, witness),
                            ReadEnvelope(r), Unless(mirror # "odd", "refused-target")>>)
<1>1. \A holds : \A error \in {"usage", "missing", "refused-target"} : Unless(holds, error) \in Checks
  BY AllChecks, UnlessChecked
<1>2. early \in Checks
  <2>1. CheckEndpoints(r, mirror, witness) \in Checks
    <3> DEFINE witnesses == r.witnesses \cup ({witness} \ {"none"})
    <3>1. \A url : CheckPlain(url, r) \in Checks
      BY <1>1 DEF CheckPlain
    <3>2. /\ Unless(\A w \in witnesses : CheckPlain(w, r) = "ok", "usage") \in Checks
          /\ Unless(witnesses # {}, "usage") \in Checks
      BY <1>1
    <3> QED BY <3>1, <3>2, FirstOf4 DEF CheckEndpoints
  <2>2. ReadEnvelope(r) \in Checks
    BY <1>1, ReadFileChecked, FirstOf2 DEF ReadEnvelope
  <2> QED BY <1>1, <2>1, <2>2, FirstOf4
<1>3. \A at : at.error \in Checks => Refused(r, at, witness) \in Checks
  <2> TAKE at
  <2> HAVE at.error \in Checks
  <2>1. ContentBinding(r) \in Checks
    BY <1>1, AllChecks, ReadFileChecked, FirstOf2 DEF ContentBinding
  <2>2. SubjectStated(r) \in Checks /\ SubjectBlock(r) \in Checks /\ ClaimBlock(r) \in Checks
    BY <1>1 DEF SubjectStated, SubjectBlock, ClaimBlock
  <2>3. AdaptorPin(at) \in Checks
    BY <1>1 DEF AdaptorPin
  <2>4. DeclaredPrefix(r, at) \in Checks
    <3>1. /\ Unless(r.entry.declares # {}, "usage") \in Checks
          /\ Unless(\A size \in r.entry.declares : size \in at.d.sizes /\ size <= at.size, "missing") \in Checks
      BY <1>1
    <3> QED BY <3>1, AllChecks, FirstOf2 DEF DeclaredPrefix
  <2>5. Install(r.out.at, r.out.force) \in Checks
    BY InstallChecked DEF IsRequest
  <2>6. /\ Unless(ManifestsBelow(at.d, at.size) # {}, "missing") \in Checks
        /\ Unless("odd" \notin r.witnesses \cup {witness}, "refused-target") \in Checks
        /\ Unless(at.d.fails # "after", "missing") \in Checks
    BY <1>1
  <2> QED BY <2>1, <2>2, <2>3, <2>4, <2>5, <2>6, MaterialChecked, LeafChecked, FirstOf13 DEF Refused
<1>4. IssueRun(r, d, mirror, witness).error
        = IF early = "ok" THEN Refused(r, Position(r, d), witness) ELSE early
  BY DEF IssueRun, PositionedRun, Ended
<1> HIDE DEF early
<1> QED BY <1>2, <1>3, <1>4, PositionChecked

-----------------------------------------------------------------------------
(***************************************************************************)
(* What is concluded is an answer.                                         *)
(***************************************************************************)
Decides(a) == a.outcome # "none"

LEMMA FailureDecides ==
  ASSUME NEW error \in Checks, error # "ok"
  PROVE  Answers(OutcomeOf(error)).outcome \in {"error", "invalid", "unverifiable"}
BY ErrorsHaveOutcomes DEF Answers, Checks

LEMMA AnswerDecides ==
  ASSUME NEW done, NEW error \in Checks
  PROVE  AnswerTo(done, error).outcome \in Outcomes
BY FailureDecides DEF AnswerTo, NoAnswer, Answers, Outcomes

LEMMA VerifyDecides ==
  ASSUME NEW a \in Artifacts
  PROVE  Verify(a).outcome \in Outcomes
<1>1. \A v : Status(a, v) \in Outcomes
  BY ArtifactsAssumption DEF Status, ReceiptsCarried, Outcomes
<1>2. \A v : VerifyBytes(a, v).outcome \in Outcomes
  BY <1>1 DEF VerifyBytes, Overlaid, Decided, AppliedOverlays, Outcomes
<1> QED BY <1>2, ReadFileChecked, FailureDecides DEF Verify, Outcomes

LEMMA InspectDecides ==
  ASSUME NEW a
  PROVE  Inspect(a).outcome \in Outcomes
<1>1. Unless(a.json /\ a.object, "malformed") \in Checks
  BY AllChecks, UnlessChecked
<1> QED BY <1>1, ReadFileChecked, FirstOf2, AnswerDecides DEF Inspect

-----------------------------------------------------------------------------
(***************************************************************************)
(* What a witness shows is what it gave, or what a stolen key gave.        *)
(***************************************************************************)
Testified(e) ==
  \/ e.key \in world.stolen
  \/ \E n \in 1..upto : e.over = world.history[n] /\ e.key = world.cosigner[n]

Shown(h, n) ==
  IF world.cosigner[n] = NoKey THEN h ELSE Append(h, Entry(world.history[n], world.cosigner[n]))

ShownAlong(f, n) == f[0] = <<>> /\ \A k \in 1..n : f[k] = Shown(f[k - 1], k)

LEMMA HistoryGrows ==
  ASSUME NEW n \in Nat
  PROVE  \E f : DOMAIN f = 0..n /\ ShownAlong(f, n)
<1> DEFINE Fail == {k \in Nat : ~\E f : DOMAIN f = 0..k /\ ShownAlong(f, k)}
<1>1. SUFFICES ASSUME Fail # {} PROVE FALSE
  OBVIOUS
<1>2. PICK k \in Fail : \A m \in Fail : k <= m
  <2>1. Fail \in SUBSET Nat
    OBVIOUS
  <2> HIDE DEF Fail
  <2> QED BY <1>1, <2>1, NatHasLeast
<1>3. CASE k = 0
  <2> DEFINE f == [m \in 0..0 |-> <<>>]
  <2>1. DOMAIN f = 0..0 /\ ShownAlong(f, 0)
    BY DEF ShownAlong
  <2> HIDE DEF f
  <2> QED BY <1>3, <2>1
<1>4. CASE k # 0
  <2>1. k \in Nat /\ k - 1 \in Nat /\ k - 1 \notin Fail
    BY <1>2, <1>4
  <2>2. PICK f : DOMAIN f = 0..(k - 1) /\ ShownAlong(f, k - 1)
    BY <2>1
  <2> DEFINE g == [m \in 0..k |-> IF m = k THEN Shown(f[k - 1], k) ELSE f[m]]
  <2>3. g[0] = <<>>
    BY <1>4, <2>1, <2>2 DEF ShownAlong
  <2>4. ASSUME NEW m \in 1..k PROVE g[m] = Shown(g[m - 1], m)
    <3>1. g[m - 1] = f[m - 1] /\ m - 1 \in 0..k
      BY <2>1
    <3>2. CASE m = k
      BY <2>1, <3>1, <3>2
    <3>3. CASE m # k
      BY <2>1, <2>2, <3>1, <3>3 DEF ShownAlong
    <3> QED BY <3>2, <3>3
  <2>5. DOMAIN g = 0..k /\ ShownAlong(g, k)
    BY <2>3, <2>4 DEF ShownAlong
  <2> HIDE DEF g
  <2> QED BY <1>2, <2>5
<1> QED BY <1>3, <1>4

LEMMA TrueHistoryGrows ==
  ASSUME upto \in Nat
  PROVE  \E f : ShownAlong(f, upto) /\ TrueHistory = f[upto]
<1> DEFINE Is(g) == g = [n \in 0..upto |->
                          IF n = 0 THEN <<>>
                          ELSE IF world.cosigner[n] = NoKey THEN g[n - 1]
                               ELSE Append(g[n - 1], Entry(world.history[n], world.cosigner[n]))]
<1> DEFINE grown == CHOOSE g : Is(g)
<1>1. PICK f : DOMAIN f = 0..upto /\ ShownAlong(f, upto)
  BY HistoryGrows
<1> DEFINE fun == [n \in 0..upto |-> f[n]]
<1>2. Is(fun)
  <2>1. ASSUME NEW n \in 0..upto
        PROVE  fun[n] = IF n = 0 THEN <<>>
                        ELSE IF world.cosigner[n] = NoKey THEN fun[n - 1]
                             ELSE Append(fun[n - 1], Entry(world.history[n], world.cosigner[n]))
    <3>1. CASE n = 0
      BY <1>1, <3>1 DEF ShownAlong
    <3>2. CASE n # 0
      <4>1. n \in 1..upto /\ n - 1 \in 0..upto /\ fun[n - 1] = f[n - 1]
        BY <3>2
      <4> QED BY <1>1, <3>2, <4>1 DEF ShownAlong, Shown
    <3> QED BY <3>1, <3>2
  <2> QED BY <2>1
<1> HIDE DEF fun
<1>3. Is(grown)
  <2> HIDE DEF Is
  <2> QED BY <1>2
<1>4. TrueHistory = grown[upto]
  BY DEF TrueHistory
<1> HIDE DEF grown
<1>5. \A n \in 0..upto : grown[n] = IF n = 0 THEN <<>>
                                    ELSE IF world.cosigner[n] = NoKey THEN grown[n - 1]
                                         ELSE Append(grown[n - 1], Entry(world.history[n], world.cosigner[n]))
  <2> QED BY <1>3
<1>6. ShownAlong(grown, upto)
  BY <1>5 DEF ShownAlong, Shown
<1> QED BY <1>4, <1>6

LEMMA HistoryTestified ==
  ASSUME world \in Worlds, upto \in 0..Len(world.history), NEW h \in HistoryAnswers
  PROVE  \A n \in DOMAIN h : h[n] \in Cosigned /\ Testified(h[n])
<1> DEFINE Honestly == {e \in Cosigned : Testified(e)}
<1>1. world.history \in Seq(Checkpoints) /\ DOMAIN world.history = 1..Len(world.history)
      /\ Len(world.history) \in Nat /\ world.cosigner \in [DOMAIN world.history -> Keys \cup {NoKey}]
      /\ world.stolen \subseteq Keys
  BY WorldsAssumption
<1>2. Offered \subseteq Checkpoints
  BY OfferedAreCheckpoints
<1>3. CASE world.lying
  <2>1. LyingEntries \subseteq Honestly
    <3>1. ASSUME NEW m \in Offered, NEW k \in world.stolen PROVE Entry(m, k) \in Honestly
      BY <1>1, <1>2 DEF Entry, Cosigned, Testified
    <3>2. ASSUME NEW m \in Offered, NEW n \in 1..upto
          PROVE  [cp |-> m, over |-> world.history[n], key |-> world.cosigner[n]] \in Honestly
      BY <1>1, <1>2 DEF Cosigned, Testified
    <3> QED BY <3>1, <3>2 DEF LyingEntries
  <2>2. PICK n \in 0..MaxHistory : h \in [1..n -> LyingEntries]
    BY <1>3 DEF HistoryAnswers
  <2> QED BY <2>1, <2>2
<1>4. CASE ~world.lying
  <2>1. PICK f : ShownAlong(f, upto) /\ h = f[upto]
    BY <1>1, <1>4, TrueHistoryGrows DEF HistoryAnswers
  <2> DEFINE Fail == {k \in 0..upto : f[k] \notin Seq(Honestly)}
  <2>2. SUFFICES ASSUME Fail # {} PROVE FALSE
    <3>1. upto \notin Fail
      BY <2>2
    <3>2. h \in Seq(Honestly)
      BY <1>1, <2>1, <3>1
    <3> HIDE DEF Honestly
    <3>3. \A n \in DOMAIN h : h[n] \in Honestly
      BY <3>2
    <3> QED BY <3>3 DEF Honestly
  <2>3. PICK k \in Fail : \A m \in Fail : k <= m
    <3>1. Fail \in SUBSET Nat
      BY <1>1
    <3> HIDE DEF Fail
    <3> QED BY <2>2, <3>1, NatHasLeast
  <2>4. k \in 1..upto /\ k - 1 \in 0..upto
    <3>1. <<>> \in Seq(Honestly)
      <4> HIDE DEF Honestly
      <4> QED OBVIOUS
    <3>2. f[0] = <<>>
      BY <2>1 DEF ShownAlong
    <3>3. k \in 0..upto /\ f[k] \notin Seq(Honestly)
      BY <2>3
    <3> HIDE DEF Honestly
    <3>4. k # 0
      BY <3>1, <3>2, <3>3
    <3> QED BY <1>1, <3>3, <3>4
  <2>5. f[k - 1] \in Seq(Honestly)
    BY <2>3, <2>4
  <2>6. Entry(world.history[k], world.cosigner[k]) \in Honestly
    BY <1>1, <2>4 DEF Entry, Cosigned, Testified
  <2> HIDE DEF Honestly
  <2>7. Shown(f[k - 1], k) \in Seq(Honestly)
    BY <2>5, <2>6 DEF Shown
  <2> QED BY <2>1, <2>3, <2>4, <2>7 DEF ShownAlong
<1> QED BY <1>3, <1>4

-----------------------------------------------------------------------------
(***************************************************************************)
(* The invariant.                                                          *)
(***************************************************************************)

\* Checkpoints a reconstruction is of, and reaches forward to.
Reaches ==
  /\ asof \in [cp : Checkpoints, tree : Trees]
  /\ forward \in Cosigned
  /\ CosignedInTruth(asof.cp, WitnessKeysFor(ChainOf(asof.tree), Size(asof.cp)))
  /\ Testified(forward)
  /\ target = Size(forward.cp)

\* A refusal that is supported is evidence of its own reason and no other.
RefusalIsEvidence ==
  (cmd.name = "refusal" /\ answer # NoAnswer /\ answer.outcome = "supported") =>
    /\ cmd.refusal.reason = "equivocation" => Divergent(cmd.signed) # {}
    /\ \A reason \in RefusalReasons \ {cmd.refusal.reason} :
         CheckRefusal([cmd.refusal EXCEPT !.reason = reason], cmd.log, cmd.witnessKeys, cmd.logKeys) = Missing

CommandInv ==
  /\ cmd \in Invocations
  /\ world \in Worlds \cup {Nowhere}
  /\ Remote => world \in Worlds
  /\ ViewInv
  /\ phase \in {"start", "local", "first", "second", "done"}
  /\ (answer = NoAnswer) <=> (phase # "done")
  /\ phase \in {"first", "second"} => Remote
  /\ phase = "local" => ~Remote
  /\ phase = "second" => cmd.name = "reconstruct"
  /\ phase \in {"start", "local", "first"} => asof = NoView
  /\ asof = NoView => phase # "second" /\ forward = NoEntry
  /\ asof # NoView => Reaches
  /\ WitnessedInTruth
  /\ RefusalIsEvidence

LEMMA InitCommand == Init => CommandInv
<1> SUFFICES ASSUME Init PROVE CommandInv
  OBVIOUS
<1> USE DEF Init
<1>1. cmd \in Invocations /\ Place.worlds \subseteq Worlds /\ cmd.place \in DOMAIN Places
      /\ Place.requests \in Nat /\ (Remote => cmd.size \in Nat)
  BY InvocationsAssumption, PlacesAssumption DEF Place, Remote
<1>2. world \in Worlds \cup {Nowhere} /\ (Remote => world \in Worlds)
  BY <1>1
<1>3. 0 \in 0..Len(world.history)
  BY <1>2, WorldsAssumption DEF Nowhere
<1>4. ViewTypeOK
  BY <1>1, <1>3, LimitsAssumption DEF ViewTypeOK, Steps, Verdicts
<1>5. ViewInv
  BY <1>4 DEF ViewInv, Established, AccusedSignedTwoRoots
<1> QED BY <1>1, <1>2, <1>5 DEF CommandInv, WitnessedInTruth, RefusalIsEvidence

\* The recheck of a reason belongs to no other, and what the log is shown to
\* have signed it did sign.
LEMMA SupportIsEvidence ==
  ASSUME cmd \in Invocations, cmd.name = "refusal",
         CheckRefusal(cmd.refusal, cmd.log, cmd.witnessKeys, cmd.logKeys).outcome = "supported"
  PROVE  /\ cmd.refusal.reason = "equivocation" => Divergent(cmd.signed) # {}
         /\ \A reason \in RefusalReasons \ {cmd.refusal.reason} :
              CheckRefusal([cmd.refusal EXCEPT !.reason = reason], cmd.log, cmd.witnessKeys, cmd.logKeys) = Missing
<1> DEFINE f == cmd.refusal
<1>1. f \in Refusals
      /\ \A m \in {f.retained, f.offered} : m.log = cmd.log /\ m.signer \in cmd.logKeys => m \in cmd.signed
  BY InvocationsAssumption
<1>2. f.signer \in cmd.witnessKeys /\ Carried(f, cmd.log, cmd.logKeys) /\ Supports(f)
  BY DEF CheckRefusal, Missing
<1>3. f.retained \in cmd.signed /\ f.offered \in cmd.signed
  BY <1>1, <1>2 DEF Carried, SignatureVerifies
<1>4. Size(f.retained) \in Nat /\ Size(f.offered) \in Nat
  BY <1>1, CheckpointSizes DEF Refusals
<1>5. f.reason \in RefusalReasons
  BY <1>2 DEF Supports, RefusalReasons
<1>6. f.reason = "equivocation" => Divergent(cmd.signed) # {}
  BY <1>2, <1>3 DEF Supports, Divergent
<1>7. ASSUME NEW reason \in RefusalReasons \ {f.reason}
      PROVE  ~Supports([f EXCEPT !.reason = reason])
  <2> DEFINE g == [f EXCEPT !.reason = reason]
  <2>1. g.reason = reason /\ g.proof = f.proof /\ g.retained = f.retained /\ g.offered = f.offered
    BY <1>1 DEF Refusals
  <2> HIDE DEF g
  <2> QED BY <1>2, <1>4, <1>5, <1>7, <2>1 DEF Supports, RefusalReasons
<1> QED BY <1>6, <1>7 DEF CheckRefusal

\* Nothing of the view changes, whatever else is asked for.
ViewKept == UNCHANGED <<envVars, viewVars>> /\ sent' \in 0..limit

LEMMA NothingSent ==
  ASSUME CommandInv, UNCHANGED <<envVars, estVars>>
  PROVE  ViewKept
BY DEF ViewKept, estVars, CommandInv, ViewInv, ViewTypeOK

LEMMA OneSent ==
  ASSUME CommandInv, UNCHANGED <<envVars, viewVars>>, Sends(1)
  PROVE  ViewKept
BY SendsView DEF ViewKept, CommandInv

\* The run is over, with this answer.
LEMMA ConcludesCommand ==
  ASSUME CommandInv, ViewKept, phase # "done", NEW a, Concludes(a), Decides(a),
         (cmd.name = "reconstruct" /\ a.outcome = "valid") =>
           LET keys == WitnessKeysFor(ChainOf(got), target) IN
           IF asof = NoView THEN CosignedInTruth(cp, keys)
           ELSE CosignedInTruth(forward.cp, keys),
         (cmd.name = "refusal" /\ a.outcome = "supported") =>
           a = CheckRefusal(cmd.refusal, cmd.log, cmd.witnessKeys, cmd.logKeys)
  PROVE  CommandInv'
<1> USE DEF Concludes
<1>1. ViewInv'
  BY ViewStays DEF CommandInv, ViewKept
<1>2. world' = world /\ upto' = upto /\ target' = target /\ cp' = cp /\ got' = got
  BY DEF ViewKept, envVars, viewVars
<1>3. answer' = a /\ a # NoAnswer /\ phase' = "done" /\ UNCHANGED <<cmd, asof, forward>>
  BY DEF Decides, NoAnswer, Answers
<1>4. (asof # NoView => Reaches)'
  BY <1>2, <1>3 DEF CommandInv, Reaches, CosignedInTruth, Testified
<1>5. WitnessedInTruth'
  <2>1. asof # NoView => CosignedInTruth(asof.cp, WitnessKeysFor(ChainOf(asof.tree), Size(asof.cp)))
    BY DEF CommandInv, Reaches
  <2> QED BY <1>2, <1>3, <2>1 DEF WitnessedInTruth, CosignedInTruth
<1>6. RefusalIsEvidence'
  <2>1. cmd \in Invocations /\ cmd' = cmd
    BY <1>3 DEF CommandInv
  <2>2. (cmd.name = "refusal" /\ a.outcome = "supported") =>
          /\ cmd.refusal.reason = "equivocation" => Divergent(cmd.signed) # {}
          /\ \A reason \in RefusalReasons \ {cmd.refusal.reason} :
               CheckRefusal([cmd.refusal EXCEPT !.reason = reason], cmd.log, cmd.witnessKeys, cmd.logKeys) = Missing
    BY <2>1, SupportIsEvidence
  <2> QED BY <1>3, <2>1, <2>2 DEF RefusalIsEvidence
<1> QED BY <1>1, <1>2, <1>3, <1>4, <1>5, <1>6 DEF CommandInv, Remote

LEMMA FailsCommand ==
  ASSUME CommandInv, ViewKept, phase # "done", NEW error \in Checks, error # "ok", Fails(error)
  PROVE  CommandInv'
<1>1. Answers(OutcomeOf(error)).outcome \in {"error", "invalid", "unverifiable"}
  BY FailureDecides
<1> QED BY <1>1, ConcludesCommand DEF Fails, Decides

LEMMA MissingCommand ==
  ASSUME CommandInv, ViewKept, phase # "done", Concludes(Missing)
  PROVE  CommandInv'
BY ConcludesCommand DEF Decides, Missing

-----------------------------------------------------------------------------
(***************************************************************************)
(* Every action keeps it.                                                  *)
(***************************************************************************)
LEMMA PublishesCommand ==
  ASSUME CommandInv, Publishes
  PROVE  CommandInv'
<1>1. upto < Len(world.history) /\ upto' = upto + 1 /\ world' = world /\ UNCHANGED <<estVars, cmdVars>>
  BY DEF Publishes, Publish
<1>2. upto \in 0..Len(world.history)
  BY DEF CommandInv, ViewInv, ViewTypeOK
<1>3. world \in Worlds
  BY <1>1, <1>2 DEF CommandInv, Nowhere
<1>4. ViewInv'
  BY <1>3, PublishKeepsView DEF CommandInv, Publishes
<1>5. UNCHANGED <<target, cp, got, cmd, phase, asof, forward, answer>>
  BY <1>1 DEF estVars, viewVars, cmdVars
<1>6. 1..upto \subseteq 1..upto'
  BY <1>1, <1>2
<1>7. \A m, keys : CosignedInTruth(m, keys) => CosignedInTruth(m, keys)'
  BY <1>1, <1>6 DEF CosignedInTruth
<1>8. \A e : Testified(e) => Testified(e)'
  BY <1>1, <1>6 DEF Testified
<1>9. WitnessedInTruth'
  BY <1>5, <1>7 DEF CommandInv, WitnessedInTruth
<1>10. (asof # NoView => Reaches)'
  BY <1>5, <1>7, <1>8 DEF CommandInv, Reaches
<1> QED BY <1>1, <1>3, <1>4, <1>5, <1>9, <1>10 DEF CommandInv, RefusalIsEvidence, Remote

LEMMA StartsCommand ==
  ASSUME CommandInv, Starts
  PROVE  CommandInv'
<1>1. phase = "start" /\ UNCHANGED <<envVars, estVars>> /\ ViewKept
  BY NothingSent DEF Starts
<1>2. CASE Place.help
  BY <1>1, <1>2, ConcludesCommand DEF Starts, Decides, Answers
<1> DEFINE ready == Ready(Dispatch)
<1>3. CASE ~Place.help /\ ready # "ok"
  <2>1. ready \in Checks
    BY DispatchChecked, OptionsChecked DEF Ready, CommandInv
  <2> QED BY <1>1, <1>3, <2>1, FailsCommand DEF Starts, Proceeds
<1>4. CASE ~Place.help /\ ready = "ok"
  <2>1. /\ phase' = IF Remote THEN "first" ELSE "local"
        /\ UNCHANGED <<cmd, asof, forward, answer>>
    BY <1>4 DEF Starts, Proceeds
  <2>2. ViewInv'
    BY <1>1, ViewStays DEF ViewKept, CommandInv
  <2>3. UNCHANGED <<world, upto, target, cp, got>>
    BY <1>1 DEF ViewKept, envVars, viewVars
  <2> QED BY <1>1, <2>1, <2>2, <2>3 DEF CommandInv, WitnessedInTruth, RefusalIsEvidence, Remote
<1> QED BY <1>2, <1>3, <1>4

LEMMA LocalCommand ==
  ASSUME CommandInv, Local
  PROVE  CommandInv'
<1>1. phase = "local" /\ ViewKept /\ cmd \in Invocations /\ ~Remote
  BY NothingSent DEF Local, CommandInv
<1>2. cmd.name \in Names \ {"closure", "reconstruct"}
  BY <1>1, InvocationsAssumption DEF Remote
<1>3. CASE cmd.name = "topology"
  <2>1. Concludes(Topology(cmd.file, cmd.trigger, cmd.material))
    BY <1>3 DEF Local
  <2>2. Decides(Topology(cmd.file, cmd.trigger, cmd.material))
    BY DEF Decides, Topology, Missing
  <2> QED BY <1>1, <1>3, <2>1, <2>2, ConcludesCommand
<1>4. CASE cmd.name = "verify"
  <2>1. Concludes(Verify(cmd.artifact))
    BY <1>4 DEF Local
  <2>2. Decides(Verify(cmd.artifact))
    BY <1>1, <1>4, InvocationsAssumption, VerifyDecides DEF Decides, Outcomes
  <2> QED BY <1>1, <1>4, <2>1, <2>2, ConcludesCommand
<1>5. CASE cmd.name = "inspect"
  <2>1. Concludes(Inspect(cmd.artifact))
    BY <1>5 DEF Local
  <2>2. Decides(Inspect(cmd.artifact))
    BY InspectDecides DEF Decides, Outcomes
  <2> QED BY <1>1, <1>5, <2>1, <2>2, ConcludesCommand
<1>6. CASE cmd.name = "emit"
  <2>1. Concludes(Emitted(cmd.payload))
    BY <1>6 DEF Local
  <2>2. Decides(Emitted(cmd.payload))
    BY <1>1, <1>6, InvocationsAssumption, EmitChecked, AnswerDecides DEF Emitted, Decides, Outcomes
  <2> QED BY <1>1, <1>6, <2>1, <2>2, ConcludesCommand
<1>7. CASE cmd.name = "issue"
  <2>1. Concludes(AnswerTo("issued", Issued.error))
    BY <1>7 DEF Local
  <2>2. Decides(AnswerTo("issued", Issued.error))
    BY <1>1, <1>7, InvocationsAssumption, IssueChecked, AnswerDecides DEF Issued, Decides, Outcomes
  <2> QED BY <1>1, <1>7, <2>1, <2>2, ConcludesCommand
<1>8. CASE cmd.name = "refusal"
  <2>1. Concludes(CheckRefusal(cmd.refusal, cmd.log, cmd.witnessKeys, cmd.logKeys))
    BY <1>8 DEF Local
  <2>2. Decides(CheckRefusal(cmd.refusal, cmd.log, cmd.witnessKeys, cmd.logKeys))
    BY DEF CheckRefusal, Decides, Missing
  <2> QED BY <1>1, <1>8, <2>1, <2>2, ConcludesCommand
<1> QED BY <1>2, <1>3, <1>4, <1>5, <1>6, <1>7, <1>8 DEF Names

LEMMA EstablishingCommand ==
  ASSUME CommandInv, Establishing
  PROVE  CommandInv'
<1>1. phase \in {"first", "second"} /\ EstablishStep(Place.cache = "usable") /\ UNCHANGED <<cmd, phase, asof, forward, answer>>
  BY DEF Establishing, cmdVars
<1>2. world \in Worlds
  BY <1>1 DEF CommandInv
<1>3. ViewInv'
  BY <1>1, <1>2, EstablishView DEF CommandInv
<1>4. UNCHANGED <<world, upto, target>>
  BY <1>1 DEF EstablishStep, ReadSeries, Limited, ReadRange, Ground, Precede, Succeed, Unanswered, Ends, envVars
<1>5. answer' = NoAnswer
  BY <1>1 DEF CommandInv
<1>6. (asof # NoView => Reaches)'
  BY <1>1, <1>4 DEF CommandInv, Reaches, CosignedInTruth, Testified
<1> QED BY <1>1, <1>3, <1>4, <1>5, <1>6 DEF CommandInv, WitnessedInTruth, RefusalIsEvidence, Remote

LEMMA FetchFailsCommand ==
  ASSUME CommandInv, FetchFails
  PROVE  CommandInv'
<1>1. PICK url \in Asked :
        \E error \in {HttpFetch(url, x, MaxBody) : x \in Place.servers}
                     \cup {Replayed(r) : r \in UNION {t.records : t \in Place.transcript}} \cup {"limit"} :
          error # "ok" /\ Fails(error)
  BY DEF FetchFails
<1>2. PICK error \in {HttpFetch(url, x, MaxBody) : x \in Place.servers}
                     \cup {Replayed(r) : r \in UNION {t.records : t \in Place.transcript}} \cup {"limit"} :
        error # "ok" /\ Fails(error)
  BY <1>1
<1>3. error \in Checks
  BY FetchChecked, AllChecks
<1>4. phase # "done"
  BY <1>1 DEF Asked, AsksMirror, AsksForward, AsksWitness
<1>5. ViewKept
  BY OneSent DEF FetchFails
<1> QED BY <1>2, <1>3, <1>4, <1>5, FailsCommand

LEMMA OverBudgetCommand ==
  ASSUME CommandInv, OverBudget
  PROVE  CommandInv'
<1>1. phase # "done" /\ ViewKept /\ Fails("limit")
  BY NothingSent DEF OverBudget, AsksForward, AsksWitness
<1> QED BY <1>1, AllChecks, FailsCommand

LEMMA NotEstablishedCommand ==
  ASSUME CommandInv, NotEstablished
  PROVE  CommandInv'
<1>1. phase # "done" /\ ViewKept /\ Fails(verdict)
  BY NothingSent DEF NotEstablished
<1>2. verdict \in {"missing", "limit", "equivocation", "rule"}
  BY DEF NotEstablished, CommandInv, ViewInv, ViewTypeOK, Verdicts
<1> QED BY <1>1, <1>2, AllChecks, FailsCommand

LEMMA ClosureCommand ==
  ASSUME CommandInv, Closure
  PROVE  CommandInv'
<1>1. /\ phase = "first" /\ cmd.name = "closure" /\ ViewKept
      /\ Concludes(Authenticated(ViewOf(got), cmd.trigger, cmd.material))
  BY NothingSent DEF Closure
<1>2. Decides(Authenticated(ViewOf(got), cmd.trigger, cmd.material))
  BY DEF Decides, Authenticated, Missing
<1> QED BY <1>1, <1>2, ConcludesCommand

LEMMA ReconstructionDecides ==
  ASSUME NEW v, NEW r, NEW t
  PROVE  Decides(Reconstruction(v, r, t))
BY DEF Decides, Reconstruction, Missing

\* Of a history it shows, the witness gave what is found in it.
LEMMA WitnessedIsTruth ==
  ASSUME NEW e, Testified(e), NEW m, NEW keys, SameIdentity(e.cp, m), CosignatureHolds(e.cp, e, keys)
  PROVE  CosignedInTruth(m, keys)
BY DEF Testified, CosignedInTruth, CosignatureHolds, SameIdentity

LEMMA ReadHistoryCommand ==
  ASSUME CommandInv, NEW h \in HistoryAnswers, ReadHistory(h)
  PROVE  CommandInv'
<1> DEFINE keys == WitnessKeysFor(ChainOf(got), target)
<1>1. /\ phase = "first" /\ cmd.name = "reconstruct" /\ Established /\ UNCHANGED envVars /\ Sends(1)
      /\ world \in Worlds /\ asof = NoView /\ answer = NoAnswer /\ cmd \in Invocations
  BY DEF ReadHistory, AsksWitness, CommandInv, Established
<1>2. upto \in 0..Len(world.history) /\ cp \in Checkpoints /\ Size(cp) = target /\ got = cp.root
  BY <1>1 DEF CommandInv, ViewInv, ViewTypeOK, Weighed
<1>3. \A n \in DOMAIN h : h[n] \in Cosigned /\ Testified(h[n])
  BY <1>1, <1>2, HistoryTestified
<1>4. CASE ~WitnessedBy(h, cp, keys)
  BY <1>1, <1>4, OneSent, MissingCommand DEF ReadHistory
<1>5. CASE WitnessedBy(h, cp, keys)
  <2>1. CosignedInTruth(cp, keys)
    BY <1>3, <1>5, WitnessedIsTruth DEF WitnessedBy
  <2> DEFINE Follows(n, first) ==
          IF Size(h[n].cp) > target
            THEN /\ phase' = "second"
                 /\ asof' = [cp |-> cp, tree |-> got]
                 /\ forward' = [h[first] EXCEPT !.cp = h[n].cp]
                 /\ Begin(Size(h[n].cp))
                 /\ UNCHANGED <<cmd, answer>>
            ELSE /\ Concludes(Reconstruction(ViewOf(got), cmd.record, cmd.time))
                 /\ UNCHANGED viewVars
  <2>2. PICK n \in NewestOf(h) : \E first \in FirstLike(h, h[n].cp) : Follows(n, first)
    BY <1>5 DEF ReadHistory
  <2>3. PICK first \in FirstLike(h, h[n].cp) : Follows(n, first)
    BY <2>2
  <2>4. n \in DOMAIN h /\ first \in DOMAIN h
    BY DEF NewestOf, FirstLike, Least
  <2>5. CASE Size(h[n].cp) > target
    <3>1. h[n] \in Cosigned /\ h[first] \in Cosigned /\ Testified(h[first]) /\ h[n].cp \in Checkpoints
      BY <1>3, <2>4 DEF Cosigned
    <3>2. /\ forward' \in Cosigned /\ forward'.cp = h[n].cp
          /\ forward'.key = h[first].key /\ forward'.over = h[first].over
      BY <2>3, <2>5, <3>1 DEF Cosigned
    <3>3. Testified(forward)'
      BY <1>1, <3>1, <3>2 DEF Testified, envVars
    <3>4. Size(h[n].cp) \in Nat /\ Begin(Size(h[n].cp)) /\ target' = Size(h[n].cp)
      BY <2>3, <2>5, <3>1, CheckpointSizes DEF Begin
    <3>5. upto' \in 0..Len(world'.history) /\ world' = world /\ upto' = upto
          /\ limit' \in Nat /\ sent' \in 0..limit'
      BY <1>1, <1>2, SendsView DEF envVars, CommandInv, ViewInv, ViewTypeOK
    <3>6. ViewInv'
      BY <3>4, <3>5, BeginsView
    <3>7. asof' \in [cp : Checkpoints, tree : Trees] /\ asof' # NoView
      BY <1>2, <2>3, <2>5, CheckpointSizes DEF NoView, NoCheckpoint, Trees
    <3>8. CosignedInTruth(asof.cp, WitnessKeysFor(ChainOf(asof.tree), Size(asof.cp)))'
      <4>1. asof'.cp = cp /\ asof'.tree = got /\ Size(asof'.cp) = target
        BY <1>2, <2>3, <2>5
      <4>2. WitnessKeysFor(ChainOf(asof'.tree), Size(asof'.cp)) = keys
        BY <4>1
      <4> QED BY <2>1, <3>5, <4>1, <4>2 DEF CosignedInTruth, Size
    <3>9. Reaches'
      BY <3>2, <3>3, <3>4, <3>7, <3>8 DEF Reaches, Size
    <3> QED BY <1>1, <2>3, <2>5, <3>5, <3>6, <3>7, <3>9 DEF CommandInv, WitnessedInTruth, RefusalIsEvidence, Remote
  <2>6. CASE ~(Size(h[n].cp) > target)
    <3>1. Concludes(Reconstruction(ViewOf(got), cmd.record, cmd.time)) /\ ViewKept
      BY <1>1, <2>3, <2>6, OneSent
    <3> QED BY <1>1, <2>1, <3>1, ReconstructionDecides, ConcludesCommand
  <2> QED BY <2>5, <2>6
<1> QED BY <1>4, <1>5

LEMMA ReadPathCommand ==
  ASSUME CommandInv, NEW given, ReadPath(given)
  PROVE  CommandInv'
<1> DEFINE keys == WitnessKeysFor(ChainOf(got), target)
<1> DEFINE holds == Proved(asof.cp, forward.cp, given)
<1>1. phase = "second" /\ ViewKept /\ asof # NoView /\ Testified(forward) /\ HoldsForward
      /\ cmd.name = "reconstruct"
  BY OneSent DEF ReadPath, AsksForward, CommandInv, Reaches
<1>2. CASE ~holds
  BY <1>1, <1>2, MissingCommand DEF ReadPath
<1>3. CASE holds
  <2>1. Concludes(Reconstruction(ViewOf(asof.tree), cmd.record, cmd.time))
    BY <1>3 DEF ReadPath
  <2>2. CosignedInTruth(forward.cp, keys)
    BY <1>1, WitnessedIsTruth DEF SameIdentity, HoldsForward
  <2> QED BY <1>1, <2>1, <2>2, ReconstructionDecides, ConcludesCommand
<1> QED BY <1>2, <1>3

LEMMA ForwardUnheldCommand ==
  ASSUME CommandInv, ForwardUnheld
  PROVE  CommandInv'
BY NothingSent, MissingCommand DEF ForwardUnheld

LEMMA WitnessSilentCommand ==
  ASSUME CommandInv, WitnessSilent
  PROVE  CommandInv'
BY OneSent, MissingCommand DEF WitnessSilent, AsksWitness

LEMMA CommandStays ==
  ASSUME CommandInv, UNCHANGED vars
  PROVE  CommandInv'
<1>1. ViewKept /\ UNCHANGED <<world, upto, target, cp, got>>
      /\ UNCHANGED <<cmd, phase, asof, forward, answer>>
  BY NothingSent DEF vars, envVars, estVars, viewVars, cmdVars
<1>2. ViewInv'
  BY <1>1, ViewStays DEF ViewKept, CommandInv
<1>3. WitnessedInTruth'
  BY <1>1 DEF CommandInv, WitnessedInTruth, CosignedInTruth
<1>4. (asof # NoView => Reaches)'
  BY <1>1 DEF CommandInv, Reaches, CosignedInTruth, Testified
<1> QED BY <1>1, <1>2, <1>3, <1>4 DEF CommandInv, RefusalIsEvidence, Remote

THEOREM CommandInvariant == Spec => []CommandInv
<1>1. CommandInv /\ [Next]_vars => CommandInv'
  <2> SUFFICES ASSUME CommandInv, [Next]_vars PROVE CommandInv'
    OBVIOUS
  <2>1. CASE Publishes
    BY <2>1, PublishesCommand
  <2>2. CASE Starts
    BY <2>2, StartsCommand
  <2>3. CASE Local
    BY <2>3, LocalCommand
  <2>4. CASE Establishing
    BY <2>4, EstablishingCommand
  <2>5. CASE FetchFails
    BY <2>5, FetchFailsCommand
  <2>6. CASE NotEstablished
    BY <2>6, NotEstablishedCommand
  <2>7. CASE Closure
    BY <2>7, ClosureCommand
  <2>8. CASE WitnessSilent
    BY <2>8, WitnessSilentCommand
  <2>9. CASE \E h \in HistoryAnswers : ReadHistory(h)
    BY <2>9, ReadHistoryCommand
  <2>10. CASE \E given \in ProofAnswers : ReadPath(given)
    BY <2>10, ReadPathCommand
  <2>11. CASE ForwardUnheld
    BY <2>11, ForwardUnheldCommand
  <2>12. CASE OverBudget
    BY <2>12, OverBudgetCommand
  <2>13. CASE UNCHANGED vars
    BY <2>13, CommandStays
  <2> QED BY <2>1, <2>2, <2>3, <2>4, <2>5, <2>6, <2>7, <2>8, <2>9, <2>10, <2>11, <2>12, <2>13 DEF Next, Step
<1> QED BY <1>1, InitCommand, PTL DEF Spec

-----------------------------------------------------------------------------
(***************************************************************************)
(* An honest deployment is served.                                         *)
(***************************************************************************)

\* Where an honest deployment leaves a run: with what the log published alone,
\* a whole prefix of the enumeration, and nothing against it but what the
\* premises of being served exclude.
Within == WithinLimits /\ AtSize(series) # {} /\ \E m \in series : Size(m) < target

Serving ==
  /\ series \subseteq Published
  /\ step = "series" => got = <<>> /\ requests = 0
  /\ step = "range" =>
       /\ target <= MaxEntries
       /\ Len(got) = requests * Chunk /\ Len(got) < target
       /\ got = SubSeq(cp.root, 1, Len(got))
  /\ step \in {"ground", "precede", "succeed"} => got = cp.root
  /\ step \in {"precede", "succeed"} =>
       \A m \in series : Size(m) <= target => m \in authentic
  /\ step = "done" /\ Within => verdict = "established"

\* What it has asked for by then, of the mirror and of the witness.
Paid ==
  phase # "done" =>
    /\ step = "series" => sent <= NeededBefore
    /\ step = "range" => sent <= NeededBefore + 1 + requests
    /\ step \in {"ground", "precede"} => sent <= NeededBefore + 1 + Chunks(target)
    /\ step = "succeed" => sent <= NeededBefore + 2 + Chunks(target)
    /\ verdict = "established" => sent <= NeededBefore + Needed(target)

ServedInv == Remote /\ Honest(world) => Serving /\ Paid

\* As many subranges as it takes tile a view, and no more are asked for.
LEMMA ChunksCover ==
  ASSUME NEW n \in Nat
  PROVE  /\ Chunks(n) \in Nat
         /\ \A k \in Nat : k * Chunk < n => k < Chunks(n)
<1> DEFINE q == (n + Chunk - 1) \div Chunk
<1>1. Chunk \in Nat \ {0}
  BY LimitsAssumption
<1>2. q \in Int /\ n <= q * Chunk
  <2>1. q \in Int /\ n + Chunk - 1 = Chunk * q + ((n + Chunk - 1) % Chunk) /\ (n + Chunk - 1) % Chunk \in 0..(Chunk - 1)
    BY <1>1
  <2> QED BY <1>1, <2>1
<1> HIDE DEF q
<1>3. q >= 0
  BY <1>1, <1>2
<1>4. ASSUME NEW k \in Nat, k * Chunk < n PROVE k < q
  <2>1. k * Chunk < q * Chunk
    BY <1>1, <1>2, <1>4
  <2> QED BY <1>1, <1>2, <2>1
<1> QED BY <1>2, <1>3, <1>4 DEF Chunks, q

\* What was needed before is a number.
LEMMA NeededIsNumber ==
  ASSUME CommandInv
  PROVE  NeededBefore \in Nat /\ target \in Nat /\ Chunks(target) \in Nat
<1>1. target \in Nat
  BY DEF CommandInv, ViewInv, ViewTypeOK
<1>2. asof # NoView => Size(asof.cp) \in Nat
  BY CheckpointSizes DEF CommandInv, Reaches
<1> QED BY <1>1, <1>2, ChunksCover DEF NeededBefore, Needed

\* What an honest log publishes is one tree, one identity for each size.
LEMMA HonestPair ==
  ASSUME world \in Worlds, Honest(world), upto \in 0..Len(world.history),
         NEW a \in Published, NEW b \in Published
  PROVE  /\ a \in Checkpoints
         /\ Size(a) = Size(b) => a.root = b.root /\ SameIdentity(a, b)
         /\ Size(a) < Size(b) => ConsistencyVerifies(a, b)
         /\ ~Unreadable(ChainOf(a.root), a.root)
         /\ LogIdFor(ChainOf(a.root), Size(a)) = {a.log}
         /\ SignatureVerifies(a, LogKeysFor(ChainOf(a.root), Size(a)))
<1>1. world.history \in Seq(Checkpoints) /\ DOMAIN world.history = 1..Len(world.history)
      /\ Len(world.history) \in Nat
  BY WorldsAssumption
<1>2. PICK n \in 1..upto : a = world.history[n]
  BY DEF Published
<1>3. PICK k \in 1..upto : b = world.history[k]
  BY DEF Published
<1>4. n \in DOMAIN world.history /\ k \in DOMAIN world.history /\ n \in Nat /\ k \in Nat
  BY <1>1, <1>2, <1>3
<1>5. a \in Checkpoints /\ b \in Checkpoints /\ Size(a) \in Nat /\ Size(b) \in Nat
  BY <1>1, <1>2, <1>3, <1>4, CheckpointSizes
<1>6. \A p, q \in DOMAIN world.history : p <= q =>
        \/ world.history[q].root = world.history[p].root
        \/ Size(world.history[p]) < Size(world.history[q]) /\ ConsistencyVerifies(world.history[p], world.history[q])
  BY <1>1 DEF Honest
<1>7. \/ a.root = b.root
      \/ Size(a) < Size(b) /\ ConsistencyVerifies(a, b)
      \/ Size(b) < Size(a) /\ ConsistencyVerifies(b, a)
  <2>1. n <= k \/ k <= n
    BY <1>4
  <2> QED BY <1>2, <1>3, <1>4, <1>6, <2>1
<1>8. \A m \in {a, b} : /\ LogIdFor(ChainOf(m.root), Size(m)) = {m.log}
                       /\ SignatureVerifies(m, LogKeysFor(ChainOf(m.root), Size(m)))
                       /\ ~Unreadable(ChainOf(m.root), m.root)
  BY <1>2, <1>3, <1>4 DEF Honest
<1>9. Size(a) = Size(b) => a.root = b.root
  BY <1>5, <1>7
<1>10. Size(a) < Size(b) => ConsistencyVerifies(a, b)
  BY <1>5, <1>7 DEF Size
<1>11. Size(a) = Size(b) => a.log = b.log
  <2>1. SUFFICES ASSUME Size(a) = Size(b) PROVE {a.log} = {b.log}
    OBVIOUS
  <2> QED BY <1>8, <1>9, <2>1
<1> QED BY <1>5, <1>8, <1>9, <1>10, <1>11 DEF SameIdentity

\* What it signed is authentic under the chain of any larger tree of its own.
LEMMA HonestIsAuthentic ==
  ASSUME world \in Worlds, Honest(world), upto \in 0..Len(world.history),
         NEW a \in Published, NEW b \in Published, Size(a) <= Size(b)
  PROVE  SignatureVerifies(a, LogKeysFor(ChainOf(b.root), Size(a)))
<1>1. a \in Checkpoints /\ b \in Checkpoints
  BY HonestPair
<1>2. a.root \in Trees /\ b.root \in Trees /\ Size(a) \in Nat /\ Size(b) \in Nat
  BY <1>1, CheckpointSizes
<1>3. SignatureVerifies(a, LogKeysFor(ChainOf(a.root), Size(a)))
  BY HonestPair
<1>4. CASE Size(a) = Size(b)
  BY <1>3, <1>4, HonestPair
<1>5. CASE Size(a) # Size(b)
  <2>1. ConsistencyVerifies(a, b)
    BY <1>2, <1>5, HonestPair
  <2>2. AgreeBelow(ChainOf(a.root), ChainOf(b.root), Size(a))
    BY <1>2, <2>1, ChainOfPrefix DEF ConsistencyVerifies, Size
  <2> QED BY <1>2, <1>3, <2>2, AgreeingKeys
<1> QED BY <1>4, <1>5

\* The steps of establish, one by one, against an honest deployment.
LEMMA ServedBySeries ==
  ASSUME world \in Worlds, Honest(world), ViewInv, Serving, NEW S \in SeriesAnswers, ReadSeries(S)
  PROVE  Serving'
<1> USE DEF ReadSeries, envVars
<1>1. S = Published /\ series' = Published /\ Published' = Published /\ target' = target /\ got' = got
      /\ requests' = requests /\ step = "series"
  BY DEF SeriesAnswers, Honest, Published
<1>2. Published \subseteq Checkpoints /\ target \in Nat
  BY OfferedAreCheckpoints DEF ViewInv, ViewTypeOK, Offered
<1>3. CASE GoverningMember(S) = {}
  <2>1. AtSize(S) = {}
    <3>1. AtSize(S) \in SUBSET Checkpoints /\ \A m \in AtSize(S) : Size(m) = target
      BY <1>1, <1>2 DEF AtSize
    <3> QED BY <1>3, <3>1, SomeAreEarliest DEF GoverningMember
  <2>2. ~Within'
    BY <1>1, <2>1 DEF Within, AtSize, Size
  <2> QED BY <1>1, <1>3, <2>2 DEF Serving
<1>4. CASE GoverningMember(S) # {} /\ target > MaxEntries
  <2>1. ~Within'
    BY <1>1, <1>2, <1>4, LimitsAssumption DEF Within, WithinLimits
  <2> QED BY <1>1, <1>4, <2>1 DEF Serving
<1>5. CASE GoverningMember(S) # {} /\ ~(target > MaxEntries)
  <2>1. got = <<>> /\ requests = 0 /\ step' = "range" /\ cp' \in GoverningMember(S)
    BY <1>1, <1>5 DEF Serving
  <2>2. cp' \in Checkpoints /\ Len(cp'.root) = target
    BY <1>1, <1>2, <2>1 DEF GoverningMember, Earliest, AtSize, Size
  <2>3. target \in Nat \ {0} /\ cp'.root \in Seq(Envelopes)
    BY <2>2, CheckpointSizes DEF Size, Trees
  <2>4. target <= MaxEntries
    BY <1>2, <1>5, LimitsAssumption
  <2>5. Len(<<>>) = 0 * Chunk /\ Len(<<>>) < target /\ <<>> = SubSeq(cp'.root, 1, Len(<<>>))
    BY <2>3, LimitsAssumption
  <2> QED BY <1>1, <2>1, <2>4, <2>5 DEF Serving
<1> QED BY <1>3, <1>4, <1>5

\* Whatever an honest mirror answers verifies, so no subrange costs two.
LEMMA HonestCosts ==
  ASSUME world \in Worlds, Honest(world), ViewInv, Serving, step = "range", NEW cached
  PROVE  /\ RangeCosts(cached) \subseteq {0, 1}
         /\ \A a \in RangeAnswers : RangeVerifies(a[1], Slice(a[2].root))
<1>1. cp \in series /\ Size(cp) = target /\ upto \in 0..Len(world.history)
  BY DEF ViewInv, ViewTypeOK
<1>2. ASSUME NEW a \in RangeAnswers PROVE RangeVerifies(a[1], Slice(a[2].root))
  <2>1. PICK m \in AtSize(Published) : a = <<m, m>>
    BY DEF RangeAnswers, Honest
  <2>2. cp \in Published /\ m \in Published /\ Size(m) = Size(cp)
    BY <1>1, <2>1 DEF Serving, AtSize
  <2>3. SameIdentity(m, cp) /\ m.root = cp.root
    BY <1>1, <2>2, HonestPair
  <2> QED BY <2>1, <2>3 DEF RangeVerifies
<1> QED BY <1>2 DEF RangeCosts

LEMMA ServedWithinLimits ==
  ASSUME CommandInv, Honest(world), world \in Worlds, Serving, Paid, phase # "done", NEW cached, Limited(cached)
  PROVE  ~WithinLimits
<1>1. ViewInv /\ sent \in Nat /\ limit \in Nat /\ requests \in Nat /\ sent <= limit
  BY DEF CommandInv, ViewInv, ViewTypeOK
<1>2. NeededBefore \in Nat /\ target \in Nat /\ Chunks(target) \in Nat
  BY NeededIsNumber
<1>3. SUFFICES NeededBefore + Needed(target) > limit
  BY <1>1, <1>2 DEF WithinLimits, Needed
<1>4. CASE step = "series"
  <2>1. sent + 1 > limit /\ sent <= NeededBefore
    BY <1>4 DEF Limited, Costs, Paid
  <2> QED BY <1>1, <1>2, <2>1 DEF Needed
<1>5. CASE step = "range"
  <2>1. \A n \in Costs(cached) : n \in {0, 1}
    BY <1>1, <1>5, HonestCosts DEF Costs
  <2>2. sent + 1 > limit \/ requests = limit
    BY <1>1, <2>1 DEF Limited
  <2>3. requests < Chunks(target)
    BY <1>1, <1>2, <1>5, ChunksCover DEF Serving
  <2>4. sent <= NeededBefore + 1 + requests
    BY <1>5 DEF Paid
  <2> QED BY <1>1, <1>2, <2>2, <2>3, <2>4 DEF Needed
<1>6. CASE step = "precede"
  <2>1. sent + 1 > limit /\ sent <= NeededBefore + 1 + Chunks(target)
    BY <1>1, <1>6 DEF Limited, Costs, ProofCost, Paid
  <2> QED BY <1>1, <1>2, <2>1 DEF Needed
<1>7. CASE step = "succeed"
  <2>1. sent + 1 > limit /\ sent <= NeededBefore + 2 + Chunks(target)
    BY <1>1, <1>7 DEF Limited, Costs, ProofCost, Paid
  <2> QED BY <1>1, <1>2, <2>1 DEF Needed
<1>8. CASE step \notin {"series", "range", "precede", "succeed"}
  BY <1>1, <1>8 DEF Limited, Costs
<1> QED BY <1>4, <1>5, <1>6, <1>7, <1>8

LEMMA ServedByRange ==
  ASSUME world \in Worlds, Honest(world), ViewInv, Serving, NEW a \in RangeAnswers, NEW cost, ReadRange(a[1], a[2].root, cost)
  PROVE  Serving'
<1>1. step = "range" /\ UNCHANGED envVars /\ cp \in series /\ Size(cp) = target /\ requests \in Nat
      /\ upto \in 0..Len(world.history)
  BY DEF ReadRange, ViewInv, ViewTypeOK
<1>4. cp \in Checkpoints
  BY <1>1, HonestPair DEF Serving
<1>5. RangeVerifies(a[1], Slice(a[2].root))
  BY <1>1, HonestCosts
<1>6. /\ got' = got \o Slice(cp.root) /\ requests' = requests + 1
      /\ step' = (IF Until = target THEN "ground" ELSE step)
      /\ UNCHANGED <<target, series, cp>>
  BY <1>5 DEF ReadRange, RangeVerifies
<1> DEFINE root == cp.root
<1> DEFINE n == Len(got)
<1>7. root \in Seq(Envelopes) /\ Len(root) = target /\ target \in Nat /\ target <= MaxEntries
      /\ n = requests * Chunk /\ n \in Nat /\ n < target /\ got = SubSeq(root, 1, n) /\ Chunk \in Nat \ {0}
  BY <1>1, <1>4, LimitsAssumption DEF Serving, ViewInv, ViewTypeOK, Checkpoints, Trees, Size
<1>8. Until \in Nat /\ n < Until /\ Until <= target /\ (Until # target => Until = n + Chunk)
  BY <1>7 DEF Until
<1>9. Slice(root) = SubSeq(root, n + 1, Until)
  <2>1. (IF Until < Len(root) THEN Until ELSE Len(root)) = Until
    BY <1>7, <1>8
  <2> QED BY <2>1 DEF Slice
<1>10. got' = SubSeq(root, 1, Until) /\ Len(got') = Until
  <2> HIDE DEF root, n
  <2>1. SubSeq(root, 1, n) \o SubSeq(root, n + 1, Until) = SubSeq(root, 1, Until)
    <3>1. 1 \in 1..(Len(root) + 1) /\ n \in (1 - 1)..Len(root) /\ Until \in n..Len(root)
      BY <1>7, <1>8
    <3> QED BY <1>7, <3>1, ConcatAdjacentSubSeq
  <2>2. Len(SubSeq(root, 1, Until)) = Until
    BY <1>7, <1>8
  <2> QED BY <1>6, <1>7, <1>9, <2>1, <2>2 DEF root
<1>11. CASE Until = target
  <2>1. SubSeq(root, 1, target) = root
    BY <1>7
  <2> QED BY <1>1, <1>6, <1>10, <1>11, <2>1 DEF Serving, envVars, Published
<1>12. CASE Until # target
  <2>1. requests * Chunk + Chunk = (requests + 1) * Chunk
    BY <1>1, <1>7
  <2> QED BY <1>1, <1>6, <1>7, <1>8, <1>10, <1>12, <2>1 DEF Serving, envVars, Published
<1> QED BY <1>11, <1>12

LEMMA ServedOnGround ==
  ASSUME world \in Worlds, Honest(world), ViewInv, Serving, Ground
  PROVE  Serving'
<1> DEFINE known == AuthenticMembers(ChainOf(got))
<1>1. step = "ground" /\ UNCHANGED envVars /\ cp \in series /\ Size(cp) = target /\ got = cp.root
      /\ upto \in 0..Len(world.history) /\ series \subseteq Published /\ target \in Nat
  BY DEF Ground, Serving, ViewInv, ViewTypeOK
<1>2. Grounded(ChainOf(got))
  <2>1. LogIdFor(ChainOf(got), target) = {cp.log} /\ SignatureVerifies(cp, LogKeysFor(ChainOf(got), target))
    BY <1>1, HonestPair
  <2>2. ActiveFor(ChainOf(got), target) # {}
    BY <2>1 DEF LogIdFor
  <2>3. Manifests(ChainOf(got)) # {}
    BY <2>2 DEF ActiveFor, Greatest
  <2> QED BY <1>1, <2>1, <2>3 DEF Grounded
<1>3. Divergent(series) = {} /\ Divergent(known) = {}
  <2>1. \A m, k \in series : Size(m) = Size(k) => m.root = k.root
    BY <1>1, HonestPair
  <2>2. known \subseteq series
    BY DEF AuthenticMembers
  <2> QED BY <2>1, <2>2 DEF Divergent
<1>4. AtOrBeyond(EquivocationFloor(known)) = {} /\ AtOrBeyond(UnresolvedDivergences(series, known)) = {}
  BY <1>3 DEF AtOrBeyond, EquivocationFloor, UnresolvedDivergences, Least
<1>5. step' = "precede" /\ authentic' = known /\ UNCHANGED <<target, series, cp, got>>
  BY <1>2, <1>4 DEF Ground
<1>6. \A m \in series : Size(m) <= target => m \in known
  BY <1>1, HonestIsAuthentic DEF AuthenticMembers
<1> QED BY <1>1, <1>5, <1>6 DEF Serving, envVars, Published, Size

LEMMA ServedByNeighbours ==
  ASSUME world \in Worlds, Honest(world), ViewInv, Serving, NEW given \in ProofAnswers,
         Precede(given) \/ Succeed(given)
  PROVE  Serving'
<1>1. /\ step \in {"precede", "succeed"} /\ UNCHANGED envVars /\ cp \in series /\ Size(cp) = target /\ got = cp.root
      /\ upto \in 0..Len(world.history) /\ series \subseteq Published /\ authentic \subseteq series
      /\ target \in Nat /\ given = TRUE
  BY DEF Precede, Succeed, Serving, ViewInv, ViewTypeOK, ProofAnswers, Honest
<1>2. /\ \A m \in series : Size(m) <= target => m \in authentic
      /\ UNCHANGED <<target, series, cp, got, authentic>>
  BY <1>1 DEF Precede, Succeed, Ends, Serving
<1>3. \A m, k \in series : Before(m, k) => NeighbourVerifies(m, k, given)
  <2> TAKE m, k \in series
  <2> HAVE Before(m, k)
  <2>1. m \in Published /\ k \in Published
    BY <1>1
  <2> QED BY <1>1, <2>1, HonestPair DEF Before, NeighbourVerifies, Proved
<1>4. CASE Precede(given)
  <2>1. CASE Predecessor = {}
    <3>1. Latest({m \in authentic : Before(m, cp)}) = {}
      BY <2>1 DEF Predecessor
    <3>2. {m \in authentic : Before(m, cp)} \in SUBSET {world.history[k] : k \in 1..upto}
      BY <1>1 DEF Published
    <3>3. world.history \in Seq(Checkpoints)
      BY WorldsAssumption
    <3>4. {m \in authentic : Before(m, cp)} = {}
      BY <1>1, <3>1, <3>2, <3>3, SomeAreLatest
    <3>5. \A m \in series : Size(m) \in Nat
      BY <1>1, HonestPair, CheckpointSizes
    <3>6. ~\E m \in series : Size(m) < target
      BY <1>1, <1>2, <3>4, <3>5 DEF Before
    <3> QED BY <1>1, <1>2, <1>4, <2>1, <3>6 DEF Precede, Ends, Serving, Within, envVars, Published, Size
  <2>2. CASE Predecessor # {}
    <3>1. PICK m \in Predecessor : TRUE
      BY <2>2
    <3>2. m \in series /\ Before(m, cp)
      BY <1>1, <3>1 DEF Predecessor, Latest
    <3>3. step' = "succeed"
      BY <1>1, <1>3, <1>4, <3>1, <3>2 DEF Precede
    <3> QED BY <1>1, <1>2, <3>3 DEF Serving, envVars, Published, Size
  <2> QED BY <2>1, <2>2
<1>5. CASE Succeed(given)
  <2>1. ~\E m \in Successor : ~NeighbourVerifies(cp, m, given)
    <3>1. \A m \in Successor : m \in series /\ Before(cp, m)
      BY <1>1 DEF Successor, Earliest
    <3> QED BY <1>1, <1>3, <3>1
  <2>2. ~Unreadable(ChainOf(got), got)
    BY <1>1, HonestPair
  <2>3. step' = "done" /\ verdict' = "established"
    BY <1>5, <2>1, <2>2 DEF Succeed, Ends
  <2> QED BY <1>1, <1>2, <2>3 DEF Serving, envVars, Published
<1> QED BY <1>4, <1>5

LEMMA ServedByEstablish ==
  ASSUME CommandInv, world \in Worlds, Honest(world), Serving, Paid, phase # "done", UNCHANGED cmdVars,
         NEW cached, EstablishStep(cached)
  PROVE  Serving'
<1>1. ~Unanswered(cached) /\ ViewInv
  BY DEF Unanswered, Honest, CommandInv
<1>2. ASSUME Limited(cached) PROVE Serving'
  <2>1. ~WithinLimits
    BY <1>2, ServedWithinLimits
  <2>2. UNCHANGED <<series, target, envVars, asof>> /\ step' = "done"
    BY <1>2 DEF Limited, Ends, cmdVars
  <2>3. ~WithinLimits'
    BY <2>1, <2>2 DEF WithinLimits, NeededBefore, envVars, Size
  <2> QED BY <2>2, <2>3 DEF Serving, Within, Published, envVars
<1> QED BY <1>1, <1>2, ServedBySeries, ServedByRange, ServedOnGround, ServedByNeighbours DEF EstablishStep

LEMMA PaidByEstablish ==
  ASSUME CommandInv, world \in Worlds, Honest(world), Serving, Paid, phase # "done", UNCHANGED cmdVars,
         NEW cached, EstablishStep(cached)
  PROVE  Paid'
<1>1. ViewInv /\ sent \in Nat /\ requests \in Nat
  BY DEF CommandInv, ViewInv, ViewTypeOK
<1>2. NeededBefore \in Nat /\ target \in Nat /\ Chunks(target) \in Nat
  BY NeededIsNumber
<1>3. NeededBefore' = NeededBefore /\ phase' = phase /\ Chunks(target') \in Int
  <2>1. UNCHANGED <<asof, target, phase>>
    BY DEF EstablishStep, ReadSeries, Limited, ReadRange, Ground, Precede, Succeed, Unanswered, Ends, cmdVars
  <2> QED BY <1>2, <2>1 DEF NeededBefore, Size
<1>4. target' = target
  BY DEF EstablishStep, ReadSeries, Limited, ReadRange, Ground, Precede, Succeed, Unanswered, Ends
<1>5. step # "done" => verdict = "none"
  BY <1>1 DEF ViewInv, ViewTypeOK
<1>6. CASE \E S \in SeriesAnswers : ReadSeries(S)
  <2>1. step = "series" /\ sent' = sent + 1 /\ requests' = 0 /\ requests = 0 /\ step' \in {"done", "range"}
        /\ verdict' # "established"
    BY <1>5, <1>6 DEF ReadSeries, Sends, Serving
  <2> QED BY <1>1, <1>2, <1>3, <2>1 DEF Paid
<1>7. CASE \E a \in RangeAnswers, cost \in RangeCosts(cached) : ReadRange(a[1], a[2].root, cost)
  <2>1. PICK a \in RangeAnswers, cost \in RangeCosts(cached) : ReadRange(a[1], a[2].root, cost)
    BY <1>7
  <2>2. step = "range" /\ sent' = sent + cost /\ cost \in {0, 1}
    BY <1>1, <2>1, HonestCosts DEF ReadRange, Sends
  <2>3. requests' = requests + 1 /\ step' \in {"range", "ground"} /\ verdict' # "established"
    BY <1>1, <1>5, <2>1, <2>2, HonestCosts DEF ReadRange
  <2>4. requests < Chunks(target)
    BY <1>1, <1>2, <2>2, ChunksCover DEF Serving
  <2> QED BY <1>1, <1>2, <1>3, <1>4, <2>2, <2>3, <2>4 DEF Paid
<1>8. CASE Ground
  <2>1. step = "ground" /\ sent' = sent /\ step' \in {"done", "precede"} /\ verdict' # "established"
    BY <1>5, <1>8 DEF Ground, Ends
  <2> QED BY <1>1, <1>2, <1>3, <1>4, <2>1 DEF Paid
<1>9. CASE \E given \in ProofAnswers : Precede(given)
  <2>1. step = "precede" /\ sent' \in {sent, sent + 1} /\ step' \in {"done", "succeed"} /\ verdict' # "established"
    BY <1>1, <1>5, <1>9 DEF Precede, Ends, Sends, ProofCost
  <2> QED BY <1>1, <1>2, <1>3, <1>4, <2>1 DEF Paid
<1>10. CASE \E given \in ProofAnswers : Succeed(given)
  <2>1. step = "succeed" /\ sent' \in {sent, sent + 1} /\ step' = "done"
    BY <1>1, <1>10 DEF Succeed, Ends, Sends, ProofCost
  <2> QED BY <1>1, <1>2, <1>3, <1>4, <2>1 DEF Paid, Needed
<1>11. CASE Limited(cached)
  <2>1. step' = "done" /\ verdict' = "limit"
    BY <1>11 DEF Limited, Ends
  <2> QED BY <2>1 DEF Paid
<1>12. ~Unanswered(cached)
  BY DEF Unanswered, Honest
<1> QED BY <1>6, <1>7, <1>8, <1>9, <1>10, <1>11, <1>12 DEF EstablishStep

\* What the log publishes meanwhile takes nothing away, and what is served
\* stays served.
LEMMA ServedStays ==
  ASSUME Serving, Published \subseteq Published', UNCHANGED <<viewVars, limit, asof>>
  PROVE  Serving'
<1>1. WithinLimits' = WithinLimits /\ AtSize(series)' = AtSize(series)
      /\ Within' = Within
  BY DEF viewVars, WithinLimits, NeededBefore, AtSize, Within, Size
<1> QED BY <1>1 DEF Serving, viewVars, Size

LEMMA PaidStays ==
  ASSUME Paid, UNCHANGED <<estVars, asof>>, phase' = "done" \/ phase # "done"
  PROVE  Paid'
BY DEF Paid, NeededBefore, estVars, viewVars, Size

LEMMA ServedFromBegin ==
  ASSUME NEW n, Begin(n)
  PROVE  Serving'
BY DEF Begin, Serving

\* A second view begins where the first, and the witness, are paid for.
LEMMA PaidFromBegin ==
  ASSUME CommandInv, Paid, phase = "first", verdict = "established", asof = NoView,
         Sends(1), NEW n, Begin(n), asof' = [cp |-> cp, tree |-> got]
  PROVE  Paid'
<1>1. sent <= Needed(target) /\ sent \in Nat /\ Needed(target) \in Nat
  <2>1. sent \in Nat /\ target \in Nat /\ Chunks(target) \in Nat
    BY NeededIsNumber DEF CommandInv, ViewInv, ViewTypeOK
  <2> QED BY <2>1 DEF Paid, NeededBefore, Needed
<1>2. Size(cp) = target /\ cp \in Checkpoints
  BY DEF CommandInv, ViewInv, ViewTypeOK, Established
<1>3. asof' # NoView /\ NeededBefore' = Needed(target) + 1
  <2>1. cp.root # <<>>
    BY <1>2, CheckpointSizes DEF Trees
  <2>2. asof' # NoView /\ asof'.cp = cp
    BY <2>1 DEF NoView, NoCheckpoint
  <2> QED BY <1>2, <2>2 DEF NeededBefore, Size
<1>4. step' = "series" /\ verdict' = "none" /\ sent' = sent + 1
  BY DEF Begin, Sends
<1> QED BY <1>1, <1>3, <1>4 DEF Paid

\* No step of a command moves the deployment, and only establish's own steps
\* and the start of a second view touch what is being established.
LEMMA ServedByCommand ==
  ASSUME CommandInv, ServedInv, [Next]_vars
  PROVE  ServedInv'
<1>1. world' = world /\ (Remote' <=> Remote)
  <2>1. \A cached : EstablishStep(cached) => UNCHANGED envVars
    BY DEF EstablishStep, ReadSeries, Limited, ReadRange, Ground, Precede, Succeed, Unanswered
  <2> QED BY <2>1 DEF Next, Step, Publishes, Publish, Starts, Proceeds, Fails, Concludes, Local, Establishing, FetchFails,
             OverBudget, NotEstablished, Closure, WitnessSilent, ReadHistory, ReadPath, ForwardUnheld, Remote, envVars, cmdVars, vars
<1> SUFFICES ASSUME Remote, Honest(world) PROVE Serving' /\ Paid'
  BY <1>1 DEF ServedInv, Honest
<1>2. Serving /\ Paid /\ world \in Worlds /\ ViewInv /\ upto \in Nat
  BY DEF ServedInv, CommandInv, ViewInv, ViewTypeOK
<1>3. CASE Publishes
  <2>1. Published \subseteq Published' /\ UNCHANGED <<estVars, viewVars, limit, asof, phase>>
    BY <1>2, <1>3 DEF Publishes, Publish, Published, estVars, cmdVars
  <2> QED BY <1>2, <2>1, ServedStays, PaidStays
<1>4. CASE Establishing
  BY <1>2, <1>4, ServedByEstablish, PaidByEstablish DEF Establishing
<1>5. ASSUME UNCHANGED <<envVars, viewVars, asof>>, phase' = "done" PROVE Serving' /\ Paid'
  BY <1>2, <1>5, ServedStays DEF envVars, Published, Paid
<1>6. CASE \E h \in HistoryAnswers : ReadHistory(h)
  <2>1. PICK h \in HistoryAnswers : ReadHistory(h)
    BY <1>6
  <2>2. AsksWitness /\ Sends(1) /\ UNCHANGED envVars
    BY <2>1 DEF ReadHistory
  <2>3. CASE phase' = "done"
    BY <1>5, <2>1, <2>2, <2>3 DEF ReadHistory, Concludes
  <2>4. CASE phase' # "done"
    <3>1. (\E n : Begin(n)) /\ asof' = [cp |-> cp, tree |-> got]
      BY <2>1, <2>4 DEF ReadHistory, Concludes
    <3>2. asof = NoView
      BY <2>2 DEF CommandInv, AsksWitness
    <3> QED BY <1>2, <2>2, <3>1, <3>2, ServedFromBegin, PaidFromBegin DEF AsksWitness
  <2> QED BY <2>3, <2>4
<1>7. CASE Starts
  <2>1. UNCHANGED <<envVars, estVars, viewVars, asof>> /\ phase # "done"
    BY <1>7 DEF Starts, Proceeds, Fails, Concludes, estVars
  <2> QED BY <1>2, <2>1, ServedStays, PaidStays DEF envVars, Published
<1>8. CASE \/ Local \/ FetchFails \/ OverBudget \/ NotEstablished \/ Closure \/ WitnessSilent \/ ForwardUnheld
           \/ \E given \in ProofAnswers : ReadPath(given)
  <2>1. UNCHANGED <<envVars, viewVars>>
    BY <1>8 DEF Local, FetchFails, OverBudget, NotEstablished, Closure, WitnessSilent, ReadPath, ForwardUnheld, estVars
  <2>2. asof' = asof /\ phase' = "done"
    BY <1>8 DEF Local, FetchFails, OverBudget, NotEstablished, Closure, WitnessSilent, ReadPath, ForwardUnheld, Fails, Concludes
  <2> QED BY <1>5, <2>1, <2>2
<1>9. CASE UNCHANGED vars
  <2>1. UNCHANGED <<envVars, estVars, viewVars, asof, phase>>
    BY <1>9 DEF vars, estVars, cmdVars
  <2> QED BY <1>2, <2>1, ServedStays, PaidStays DEF envVars, Published
<1> QED BY <1>3, <1>4, <1>6, <1>7, <1>8, <1>9 DEF Next, Step

-----------------------------------------------------------------------------
(***************************************************************************)
(* A run that succeeds has done what it is for.                            *)
(***************************************************************************)

\* What a run has behind it once it is past its options, and what it has done
\* where it says it is valid.
Told ==
  /\ phase \in {"local", "first", "second"} => ~Place.help /\ Dispatch = "ok" /\ Options = "ok"
  /\ (phase = "done" /\ cmd.name # "refusal" /\ ~Place.help) =>
       /\ answer.outcome \in Outcomes
       /\ answer.outcome = "valid" => Dispatch = "ok" /\ HasDoneItsWork

\* Nothing failed where the first failure is none.
LEMMA AllChecksHold ==
  ASSUME NEW checks, DOMAIN checks \subseteq Nat, First(checks) = "ok"
  PROVE  \A k \in DOMAIN checks : checks[k] = "ok"
BY FirstFailure

LEMMA UnlessHolds ==
  ASSUME NEW holds, NEW error, error # "ok", Unless(holds, error) = "ok"
  PROVE  holds
BY DEF Unless

\* A secret that was read is its owner's alone.
LEMMA SecretIsOwn ==
  ASSUME NEW f, NEW use \in Secrets, ReadFile(f, use) = "ok"
  PROVE  f.kind = "regular" /\ f.private /\ f.own
<1> DEFINE checks == <<OpenChecked(f, use), Unless(f.size <= Caps[use], "limit")>>
<1>1. DOMAIN checks = 1..2 /\ checks[1] = OpenChecked(f, use) /\ First(checks) = "ok"
  BY DEF ReadFile
<1> HIDE DEF checks
<1>2. OpenChecked(f, use) = "ok"
  BY <1>1, AllChecksHold
<1> QED BY <1>2 DEF OpenChecked, Unless

\* What is loaded of a policy.
OwnAnchor(p) ==
  /\ p.file.kind = "regular" /\ p.file.private /\ p.file.own
  /\ p.genesis /\ p.keyIds = {TRUE}

LEMMA LoadedIsOwn ==
  ASSUME NEW p, IsPolicy(p), LoadPolicy(p) = "ok"
  PROVE  OwnAnchor(p)
<1> DEFINE keys == First([n \in DOMAIN p.datasets |-> DatasetKey(p.datasets[n])])
<1> DEFINE checks ==
      <<ReadFile(p.file, "policy"), Unless(p.parses, "policy"), Unless(AnchorStated(p), "policy"),
        Unless(WitnessesStated(p), "policy"),
        Unless(\A id \in DOMAIN p.profiles : p.profiles[id].pinned, "policy"),
        keys, CheckEndpoint(p.mirror), CheckEndpoint(p.witness)>>
<1>1. First(checks) = "ok"
  BY DEF LoadPolicy
<1> HIDE DEF keys
<1>2. DOMAIN checks = 1..8 /\ checks[1] = ReadFile(p.file, "policy")
      /\ checks[3] = Unless(AnchorStated(p), "policy")
  OBVIOUS
<1> HIDE DEF checks
<1>3. ReadFile(p.file, "policy") = "ok" /\ Unless(AnchorStated(p), "policy") = "ok"
  BY <1>1, <1>2, AllChecksHold
<1>4. p.file.kind = "regular" /\ p.file.private /\ p.file.own
  BY <1>3, SecretIsOwn DEF Secrets
<1>5. AnchorStated(p)
  BY <1>3, UnlessHolds
<1>6. p.keyIds \subseteq BOOLEAN
  BY DEF IsPolicy
<1>7. p.keyIds = {TRUE}
  BY <1>5, <1>6 DEF AnchorStated
<1> QED BY <1>4, <1>5, <1>7 DEF OwnAnchor, AnchorStated

\* The policy of a place is the one it is given.
LEMMA DispatchedUnderOwnPolicy ==
  ASSUME cmd \in Invocations, Dispatch = "ok"
  PROVE  /\ \A p \in Place.policy : p = Policy /\ OwnAnchor(p)
         /\ cmd.name # "emit" => Policy \in Place.policy
<1> DEFINE chain == IF Remote \/ cmd.name = "issue" THEN ChainBuilds ELSE "ok"
<1> DEFINE checks == <<Stated("arguments"), Stated("evaluation time"), PolicyLoads, chain>>
<1>1. First(checks) = "ok"
  BY DEF Dispatch
<1> HIDE DEF chain
<1>2. DOMAIN checks = 1..4 /\ checks[3] = PolicyLoads
  OBVIOUS
<1> HIDE DEF checks
<1>3. PolicyLoads = "ok"
  BY <1>1, <1>2, AllChecksHold
<1>4. /\ \A q \in Place.policy : IsPolicy(q)
      /\ \A x, y \in Place.policy : x = y
  BY InvocationsAssumption, PlacesAssumption DEF Place, AtMostOne
<1>5. CASE Place.policy = {}
  BY <1>3, <1>5, UnlessHolds DEF PolicyLoads
<1>6. CASE Place.policy # {}
  <2>1. Policy \in Place.policy
    BY <1>6 DEF Policy, Given
  <2>2. LoadPolicy(Policy) = "ok"
    BY <1>3, <1>6 DEF PolicyLoads
  <2> QED BY <1>4, <2>1, <2>2, LoadedIsOwn
<1> QED BY <1>5, <1>6

\* Whatever profiles a command goes by, those it resolved are the ones pinned.
LEMMA ResolvedMatches ==
  ASSUME NEW q, Resolved(q) = "ok"
  PROVE  q.matches
BY UnlessHolds DEF Resolved

LEMMA AllProfilesMatch ==
  ASSUME NEW p, AnyProfile(p) = "ok"
  PROVE  \A id \in DOMAIN p.profiles : p.profiles[id].matches
<1> DEFINE checks == <<ResolveAll(p), Unless(DOMAIN p.profiles # {}, "not-possessed")>>
<1>1. DOMAIN checks = 1..2 /\ checks[1] = ResolveAll(p) /\ First(checks) = "ok"
  BY DEF AnyProfile
<1> HIDE DEF checks
<1>2. ResolveAll(p) = "ok"
  BY <1>1, AllChecksHold
<1> QED BY <1>2, UnlessHolds, ResolvedMatches DEF ResolveAll

\* The receipt a run calls valid is one the core verified, fresh where that is
\* required, under a profile that is the one pinned.
LEMMA VerifyDone ==
  ASSUME cmd \in Invocations, cmd.name = "verify", Verify(cmd.artifact).outcome = "valid"
  PROVE  /\ cmd.artifact.core = "verified" /\ cmd.artifact.canonical
         /\ cmd.verifier.requireFresh => ~Stale(cmd.artifact, cmd.verifier)
         /\ cmd.pinned \in DOMAIN Policy.profiles /\ Policy.profiles[cmd.pinned].matches
<1> DEFINE a == cmd.artifact
<1> DEFINE w == Verifier
<1>1. a \in Artifacts /\ a \in ReceiptsCarried /\ cmd.verifier \in Verifiers
  BY InvocationsAssumption, ArtifactsAssumption
<1>2. cmd.verifier \in [implements : {"first", "second"} \X {"first", "second"}, profile : {"held", "broken", "absent"},
                        completes : BOOLEAN, now : Nat, requireFresh : BOOLEAN]
  BY <1>1, VerifiersAssumption
<1>3. w.profile = Possession(Policy, cmd.pinned) /\ w.now = cmd.verifier.now
      /\ w.requireFresh = cmd.verifier.requireFresh
  BY <1>2 DEF Verifier
<1>4. VerifyBytes(a, w).outcome = "valid"
  <2>1. CASE ReadFile(Place.file, "artifact") = "ok"
    BY <2>1 DEF Verify
  <2>2. CASE ReadFile(Place.file, "artifact") # "ok"
    <3>1. Verify(a).outcome \in {"error", "invalid", "unverifiable"}
      BY <2>2, ReadFileChecked, FailureDecides DEF Verify
    <3> QED BY <3>1
  <2> QED BY <2>1, <2>2
<1> HIDE DEF w
<1>5. Status(a, w) = "valid" /\ PolicyOverlays(a, w) = {}
  BY <1>4 DEF VerifyBytes, Overlaid, Decided, AppliedOverlays
<1>6. a.core = "verified" /\ a.canonical /\ w.profile \notin {"absent", "broken"}
  BY <1>1, <1>5 DEF Status, ReceiptsCarried
<1>7. w.requireFresh => ~Stale(a, w)
  BY <1>5 DEF PolicyOverlays
<1>8. Stale(a, w) = Stale(a, cmd.verifier)
  BY <1>3 DEF Stale, NanosSince
<1>9. cmd.pinned \in DOMAIN Policy.profiles /\ Resolved(Policy.profiles[cmd.pinned]) = "ok"
  BY <1>3, <1>6 DEF Possession
<1> QED BY <1>3, <1>6, <1>7, <1>8, <1>9, ResolvedMatches

\* What emit checks is enough for the readers of the log, but for the forms it
\* leaves to the operator.
LEMMA CheckedIsReadable ==
  ASSUME NEW p \in Payloads
  PROVE  SignedIsReadable(p)
<1> SUFFICES ASSUME Check(p) = "ok", p.odd \cap Unchecked = {} PROVE GovernanceReads(p)
  BY DEF SignedIsReadable
<1>1. p.type \in StatementTypes /\ Formed(p, FormedIn(p.type)) /\ Present(p, PresentIn(p.type))
  BY DEF Check, Unless
<1>2. "binding" \notin p.absent
  BY DEF Payloads
<1>3. CASE p.type = "manifest"
  BY <1>1, <1>3 DEF GovernanceReads, ManifestReads, FormedIn, PresentIn, Formed, Present, Unchecked
<1>4. CASE p.type = "key"
  BY <1>1, <1>2, <1>4 DEF GovernanceReads, KeyEventReads, FormedIn, PresentIn, Formed, Present, Unchecked
<1>5. CASE p.type \notin {"manifest", "key"}
  BY <1>1, <1>5 DEF GovernanceReads
<1> QED BY <1>3, <1>4, <1>5

LEMMA InstalledWhereAllowed ==
  ASSUME NEW force, Install("taken", force) = "ok"
  PROVE  force
BY UnlessHolds DEF Install

LEMMA EmitDone ==
  ASSUME cmd \in Invocations, cmd.name = "emit", Emitted(cmd.payload).outcome = "valid"
  PROVE  /\ SignedIsReadable(cmd.payload) /\ cmd.payload.json = "object"
         /\ cmd.key.from = "file" => cmd.key.file.private /\ cmd.key.file.own
         /\ cmd.out.at = "taken" => cmd.out.force
<1>1. cmd.payload \in Payloads /\ cmd.out.at \in Targets
  BY InvocationsAssumption
<1>2. EmitRun(Place.file, cmd.payload, cmd.key, cmd.out) = "ok"
  <2>1. EmitRun(Place.file, cmd.payload, cmd.key, cmd.out) \in Checks
    BY <1>1, EmitChecked
  <2> QED BY <2>1, FailureDecides DEF Emitted, AnswerTo
<1> DEFINE checks == <<ReadFile(Place.file, "artifact"), Check(cmd.payload), LoadKey(cmd.key),
                       Install(cmd.out.at, cmd.out.force)>>
<1>3. DOMAIN checks = 1..4 /\ checks[2] = Check(cmd.payload) /\ checks[3] = LoadKey(cmd.key)
      /\ checks[4] = Install(cmd.out.at, cmd.out.force) /\ First(checks) = "ok"
  BY <1>2 DEF EmitRun
<1> HIDE DEF checks
<1>4. Check(cmd.payload) = "ok" /\ LoadKey(cmd.key) = "ok" /\ Install(cmd.out.at, cmd.out.force) = "ok"
  BY <1>3, AllChecksHold
<1>5. cmd.payload.json = "object"
  BY <1>4 DEF Check, Unless
<1>6. cmd.key.from = "file" => cmd.key.file.private /\ cmd.key.file.own
  <2> SUFFICES ASSUME cmd.key.from = "file" PROVE cmd.key.file.private /\ cmd.key.file.own
    OBVIOUS
  <2> DEFINE source == IF cmd.key.from = "file" THEN ReadFile(cmd.key.file, "signing key") ELSE Unless(cmd.key.set, "usage")
  <2> DEFINE loads == <<source, Unless(cmd.key.seed, "malformed")>>
  <2>1. First(loads) = "ok"
    BY <1>4 DEF LoadKey
  <2> HIDE DEF source
  <2>2. DOMAIN loads = 1..2 /\ loads[1] = source
    OBVIOUS
  <2> HIDE DEF loads
  <2>3. source = "ok"
    BY <2>1, <2>2, AllChecksHold
  <2>4. ReadFile(cmd.key.file, "signing key") = "ok"
    BY <2>3 DEF source
  <2> QED BY <2>4, SecretIsOwn DEF Secrets
<1> QED BY <1>1, <1>4, <1>5, <1>6, CheckedIsReadable, InstalledWhereAllowed

LEMMA InspectDone ==
  ASSUME NEW a, Inspect(a).outcome = "valid"
  PROVE  a.object
<1> DEFINE checks == <<ReadFile(Place.file, "artifact"), Unless(a.json /\ a.object, "malformed")>>
<1>1. First(checks) \in Checks
  BY AllChecks, UnlessChecked, ReadFileChecked, FirstOf2
<1>2. First(checks) = "ok"
  BY <1>1, FailureDecides DEF Inspect, AnswerTo
<1>3. DOMAIN checks = 1..2 /\ checks[2] = Unless(a.json /\ a.object, "malformed")
  OBVIOUS
<1> HIDE DEF checks
<1>4. Unless(a.json /\ a.object, "malformed") = "ok"
  BY <1>2, <1>3, AllChecksHold
<1> QED BY <1>4, UnlessHolds

\* issue answers where nothing refused it.
LEMMA IssueSucceeds ==
  ASSUME NEW r, NEW d, NEW mirror, NEW witness, IssueRun(r, d, mirror, witness).error = "ok"
  PROVE  /\ r.claim \in DOMAIN ClaimShape /\ r.canonical
         /\ Refused(r, Position(r, d), witness) = "ok"
         /\ \A d2 : IssueRun(r, d2, mirror, witness) = PositionedRun(r, Position(r, d2), witness)
<1> DEFINE shaped == r.claim \in DOMAIN ClaimShape
<1> DEFINE checks == <<Unless(shaped, "usage"), CheckEndpoints(r, mirror, witness),
                       ReadEnvelope(r), Unless(mirror # "odd", "refused-target")>>
<1>1. /\ First(checks) = "ok"
      /\ \A d2 : IssueRun(r, d2, mirror, witness) = PositionedRun(r, Position(r, d2), witness)
  <2>1. \A d2 : IssueRun(r, d2, mirror, witness)
                  = IF First(checks) = "ok" THEN PositionedRun(r, Position(r, d2), witness)
                    ELSE Ended(r, Placed(d2, First(checks), 0, 0), First(checks))
    BY DEF IssueRun
  <2> HIDE DEF checks
  <2>2. \A at, error : Ended(r, at, error).error = error
    BY DEF Ended
  <2> QED BY <2>1, <2>2
<1> HIDE DEF shaped
<1>2. DOMAIN checks = 1..4 /\ checks[1] = Unless(shaped, "usage") /\ checks[3] = ReadEnvelope(r)
  OBVIOUS
<1> HIDE DEF checks
<1>3. Unless(shaped, "usage") = "ok" /\ ReadEnvelope(r) = "ok"
  BY <1>1, <1>2, AllChecksHold
<1>4. r.canonical
  <2> DEFINE reads == <<ReadFile(r.envelope, "artifact"), Unless(r.canonical, "usage")>>
  <2>1. DOMAIN reads = 1..2 /\ reads[2] = Unless(r.canonical, "usage") /\ First(reads) = "ok"
    BY <1>3 DEF ReadEnvelope
  <2> HIDE DEF reads
  <2>2. Unless(r.canonical, "usage") = "ok"
    BY <2>1, AllChecksHold
  <2> QED BY <2>2, UnlessHolds
<1>5. shaped
  BY <1>3, UnlessHolds
<1>6. Refused(r, Position(r, d), witness) = "ok"
  BY <1>1 DEF PositionedRun, Ended
<1> QED BY <1>1, <1>4, <1>5, <1>6 DEF shaped

\* Nothing the run checks after the subject has its place was wrong.
LEMMA NothingRefused ==
  ASSUME NEW r, NEW at, NEW witness, Refused(r, at, witness) = "ok"
  PROVE  /\ at.error = "ok" /\ ManifestsBelow(at.d, at.size) # {} /\ at.d.fails # "after"
         /\ "odd" \notin r.witnesses \cup {witness}
         /\ Leaf(r).error = "ok" /\ DeclaredPrefix(r, at) = "ok" /\ SubjectStated(r) = "ok" /\ ClaimBlock(r) = "ok"
         /\ Install(r.out.at, r.out.force) = "ok"
<1> DEFINE below == ManifestsBelow(at.d, at.size) # {}
<1> DEFINE even == "odd" \notin r.witnesses \cup {witness}
<1> DEFINE answered == at.d.fails # "after"
<1> DEFINE checks ==
      <<at.error, Unless(below, "missing"), Unless(even, "refused-target"), Unless(answered, "missing"),
        ContentBinding(r), SubjectStated(r), Material(r), Leaf(r).error, DeclaredPrefix(r, at),
        SubjectBlock(r), AdaptorPin(at), ClaimBlock(r), Install(r.out.at, r.out.force)>>
<1>1. First(checks) = "ok"
  BY DEF Refused
<1> HIDE DEF below, even, answered
<1>2. /\ DOMAIN checks = 1..13 /\ checks[1] = at.error /\ checks[2] = Unless(below, "missing")
      /\ checks[3] = Unless(even, "refused-target") /\ checks[4] = Unless(answered, "missing")
      /\ checks[6] = SubjectStated(r) /\ checks[8] = Leaf(r).error /\ checks[9] = DeclaredPrefix(r, at)
      /\ checks[12] = ClaimBlock(r) /\ checks[13] = Install(r.out.at, r.out.force)
  OBVIOUS
<1> HIDE DEF checks
<1>3. \A k \in 1..13 : checks[k] = "ok"
  BY <1>1, <1>2, AllChecksHold
<1>4. /\ at.error = "ok" /\ Unless(below, "missing") = "ok" /\ Unless(even, "refused-target") = "ok"
      /\ Unless(answered, "missing") = "ok" /\ SubjectStated(r) = "ok" /\ Leaf(r).error = "ok"
      /\ DeclaredPrefix(r, at) = "ok" /\ ClaimBlock(r) = "ok" /\ Install(r.out.at, r.out.force) = "ok"
  BY <1>2, <1>3
<1>5. below /\ even /\ answered
  BY <1>4, UnlessHolds
<1> QED BY <1>4, <1>5 DEF below, even, answered

LEMMA IssueDone ==
  ASSUME cmd \in Invocations, cmd.name = "issue", AnswerTo("issued", Issued.error).outcome = "valid"
  PROVE  /\ cmd.request.canonical /\ Issued.receipt # {}
         /\ cmd.request.out.at = "taken" => cmd.request.out.force
<1>1. IsRequest(cmd.request)
  BY InvocationsAssumption
<1>2. Issued.error = "ok"
  <2>1. Issued.error \in Checks
    BY <1>1, IssueChecked DEF Issued
  <2> QED BY <2>1, FailureDecides DEF AnswerTo
<1>3. /\ cmd.request.canonical
      /\ Refused(cmd.request, Position(cmd.request, cmd.deployment), Witness) = "ok"
      /\ Issued = PositionedRun(cmd.request, Position(cmd.request, cmd.deployment), Witness)
  BY <1>2, IssueSucceeds DEF Issued
<1>4. Install(cmd.request.out.at, cmd.request.out.force) = "ok"
  BY <1>3, NothingRefused
<1> QED BY <1>3, <1>4, InstalledWhereAllowed DEF PositionedRun, Ended

\* The answer a run ends with.
LEMMA ConcludesTold ==
  ASSUME Told, phase \in {"local", "first", "second"}, NEW a, Concludes(a),
         cmd.name # "refusal" => a.outcome \in Outcomes,
         (cmd.name # "refusal" /\ a.outcome = "valid") => HasDoneItsWork'
  PROVE  Told'
<1>1. answer' = a /\ phase' = "done" /\ cmd' = cmd
  BY DEF Concludes
<1>2. Place' = Place /\ Dispatch' = Dispatch
  BY <1>1 DEF Place, Dispatch, Stated, PolicyLoads, Policy, ChainBuilds, Remote
<1> QED BY <1>1, <1>2 DEF Told

LEMMA FailsTold ==
  ASSUME Told, phase \in {"local", "first", "second"},
         NEW error \in Checks, error # "ok", Fails(error)
  PROVE  Told'
<1>1. Answers(OutcomeOf(error)).outcome \in {"error", "invalid", "unverifiable"}
  BY FailureDecides
<1> QED BY <1>1, ConcludesTold DEF Fails, Outcomes

LEMMA MissingTold ==
  ASSUME Told, phase \in {"local", "first", "second"}, Concludes(Missing)
  PROVE  Told'
BY ConcludesTold DEF Missing, Outcomes

\* No state of the run enters what it was asked.
LEMMA AskedStays ==
  ASSUME UNCHANGED cmd
  PROVE  /\ Place' = Place /\ Policy' = Policy /\ Dispatch' = Dispatch /\ Options' = Options /\ Issued' = Issued
BY DEF Place, Dispatch, Stated, PolicyLoads, Policy, ChainBuilds, Remote, Options, Mirror, Witness, Issued

LEMMA StartsTold ==
  ASSUME CommandInv, Starts
  PROVE  Told'
<1>1. phase = "start" /\ UNCHANGED <<envVars, estVars>> /\ cmd' = cmd /\ cmd \in Invocations
  BY DEF Starts, Proceeds, Fails, Concludes, CommandInv
<1>2. Place' = Place /\ Dispatch' = Dispatch /\ Options' = Options
  BY <1>1, AskedStays
<1>3. CASE Place.help
  BY <1>2, <1>3 DEF Starts, Concludes, Told
<1>4. CASE ~Place.help /\ Ready(Dispatch) # "ok"
  <2>1. Ready(Dispatch) \in Checks
    BY <1>1, DispatchChecked, OptionsChecked DEF Ready
  <2>2. Answers(OutcomeOf(Ready(Dispatch))).outcome \in {"error", "invalid", "unverifiable"}
    BY <1>4, <2>1, FailureDecides
  <2> QED BY <1>4, <2>2 DEF Starts, Proceeds, Fails, Concludes, Told, Outcomes
<1>5. CASE ~Place.help /\ Ready(Dispatch) = "ok"
  <2>1. Dispatch = "ok" /\ Options = "ok"
    BY <1>5 DEF Ready
  <2>2. phase' # "done"
    BY <1>5 DEF Starts, Proceeds
  <2> QED BY <1>2, <1>5, <2>1, <2>2 DEF Told
<1> QED BY <1>3, <1>4, <1>5

LEMMA LocalTold ==
  ASSUME CommandInv, Told, Local
  PROVE  Told'
<1>1. phase = "local" /\ UNCHANGED <<envVars, estVars>> /\ cmd \in Invocations /\ cmd' = cmd /\ ~Remote
  BY DEF Local, CommandInv, Concludes
<1>2. cmd.name \in Names \ {"closure", "reconstruct"}
  BY <1>1, InvocationsAssumption DEF Remote
<1>3. Place' = Place /\ Issued' = Issued /\ Dispatch = "ok"
  BY <1>1, AskedStays DEF Told
<1>4. \A q \in Place.policy : q = Policy /\ OwnAnchor(q)
  BY <1>1, <1>3, DispatchedUnderOwnPolicy
<1>5. CASE cmd.name = "topology"
  <2>1. Concludes(Topology(cmd.file, cmd.trigger, cmd.material))
    BY <1>5 DEF Local
  <2>2. Topology(cmd.file, cmd.trigger, cmd.material).outcome = "unverifiable"
    BY DEF Topology, Missing
  <2> QED BY <1>1, <2>1, <2>2, ConcludesTold DEF Outcomes
<1>6. CASE cmd.name = "verify"
  <2>1. Concludes(Verify(cmd.artifact)) /\ cmd.artifact \in Artifacts
    BY <1>1, <1>6, InvocationsAssumption DEF Local
  <2>2. Verify(cmd.artifact).outcome \in Outcomes
    BY <2>1, VerifyDecides
  <2>3. Verify(cmd.artifact).outcome = "valid" => HasDoneItsWork'
    BY <1>1, <1>3, <1>4, <1>6, VerifyDone DEF HasDoneItsWork, PolicyIsOwn, OwnAnchor
  <2> QED BY <1>1, <2>1, <2>2, <2>3, ConcludesTold
<1>7. CASE cmd.name = "inspect"
  <2>1. Concludes(Inspect(cmd.artifact))
    BY <1>7 DEF Local
  <2>2. Inspect(cmd.artifact).outcome \in Outcomes
    BY InspectDecides
  <2>3. Inspect(cmd.artifact).outcome = "valid" => HasDoneItsWork'
    BY <1>1, <1>3, <1>4, <1>7, InspectDone DEF HasDoneItsWork, PolicyIsOwn, OwnAnchor
  <2> QED BY <1>1, <2>1, <2>2, <2>3, ConcludesTold
<1>8. CASE cmd.name = "emit"
  <2>1. Concludes(Emitted(cmd.payload))
    BY <1>8 DEF Local
  <2>2. Emitted(cmd.payload).outcome \in Outcomes
    BY <1>1, <1>8, InvocationsAssumption, EmitChecked, AnswerDecides DEF Emitted
  <2>3. Emitted(cmd.payload).outcome = "valid" => HasDoneItsWork'
    BY <1>1, <1>3, <1>4, <1>8, EmitDone DEF HasDoneItsWork, PolicyIsOwn, OwnAnchor
  <2> QED BY <1>1, <2>1, <2>2, <2>3, ConcludesTold
<1>9. CASE cmd.name = "issue"
  <2>1. Concludes(AnswerTo("issued", Issued.error))
    BY <1>9 DEF Local
  <2>2. AnswerTo("issued", Issued.error).outcome \in Outcomes
    BY <1>1, <1>9, InvocationsAssumption, IssueChecked, AnswerDecides DEF Issued
  <2>3. AnswerTo("issued", Issued.error).outcome = "valid" => HasDoneItsWork'
    BY <1>1, <1>3, <1>4, <1>9, IssueDone DEF HasDoneItsWork, PolicyIsOwn, OwnAnchor
  <2> QED BY <1>1, <2>1, <2>2, <2>3, ConcludesTold
<1>10. CASE cmd.name = "refusal"
  <2>1. Concludes(CheckRefusal(cmd.refusal, cmd.log, cmd.witnessKeys, cmd.logKeys))
    BY <1>10 DEF Local
  <2> QED BY <1>1, <1>10, <2>1, ConcludesTold
<1> QED BY <1>2, <1>5, <1>6, <1>7, <1>8, <1>9, <1>10 DEF Names

\* What a remote command says of an established view.
LEMMA RemoteTold ==
  ASSUME CommandInv, Told, phase \in {"first", "second"}, Established, UNCHANGED viewVars,
         NEW a, Concludes(a), a.outcome \in Outcomes, a.outcome = "valid" => a.says \notin {"nothing", "none"}
  PROVE  Told'
<1>1. Remote /\ cmd \in Invocations /\ cmd' = cmd /\ answer' = a /\ Established'
  BY DEF CommandInv, Concludes, viewVars, Established
<1>2. Place' = Place /\ Dispatch = "ok" /\ Options = "ok"
  BY <1>1, AskedStays DEF Told
<1>3. \A q \in Place.policy : q = Policy /\ OwnAnchor(q)
  BY <1>1, <1>2, DispatchedUnderOwnPolicy
<1>4. AnyProfile(Policy) = "ok"
  <2>1. CASE cmd.name = "closure"
    <3> DEFINE checks == <<Stated("checkpoint"), Unless(Mirror # "none", "usage"), AnyProfile(Policy)>>
    <3>1. DOMAIN checks = 1..3 /\ checks[3] = AnyProfile(Policy) /\ First(checks) = "ok"
      BY <1>2, <2>1 DEF Options
    <3> HIDE DEF checks
    <3> QED BY <3>1, AllChecksHold
  <2>2. CASE cmd.name = "reconstruct"
    <3> DEFINE checks == <<Stated("checkpoint"), Unless("valid time" \notin Place.wrong, "malformed"),
                           Unless(Mirror # "none", "usage"), Unless(Witness # "none", "usage"), AnyProfile(Policy)>>
    <3>1. First(checks) = "ok"
      BY <1>2, <2>2 DEF Options
    <3>2. DOMAIN checks = 1..5 /\ checks[5] = AnyProfile(Policy)
      OBVIOUS
    <3> HIDE DEF checks
    <3> QED BY <3>1, <3>2, AllChecksHold
  <2> QED BY <1>1, <2>1, <2>2 DEF Remote
<1>5. a.outcome = "valid" => HasDoneItsWork'
  BY <1>1, <1>2, <1>3, <1>4, AllProfilesMatch DEF HasDoneItsWork, PolicyIsOwn, OwnAnchor, Remote
<1> QED BY <1>5, ConcludesTold

LEMMA ReconstructionSays ==
  ASSUME NEW v, NEW r, NEW t
  PROVE  LET a == Reconstruction(v, r, t) IN
         a.outcome \in Outcomes /\ (a.outcome = "valid" => a.says \notin {"nothing", "none"})
<1>1. StatusAt(v, r, t) \in {"as-asserted", "retracted", "corrected"}
  BY DEF StatusAt
<1> QED BY <1>1 DEF Reconstruction, Missing, Outcomes

LEMMA ToldByCommand ==
  ASSUME CommandInv, Told, [Next]_vars
  PROVE  Told'
<1>1. CASE Publishes \/ UNCHANGED vars
  <2>1. UNCHANGED <<cmd, phase, answer, verdict>>
    BY <1>1 DEF Publishes, Publish, cmdVars, estVars, viewVars, vars
  <2>2. HasDoneItsWork => HasDoneItsWork'
    BY <2>1, AskedStays DEF HasDoneItsWork, PolicyIsOwn, Established
  <2> QED BY <2>1, <2>2, AskedStays DEF Told
<1>2. CASE Establishing
  BY <1>2, AskedStays DEF Establishing, cmdVars, Told
<1>3. CASE FetchFails
  <2>1. PICK url \in Asked :
          \E error \in {HttpFetch(url, x, MaxBody) : x \in Place.servers}
                       \cup {Replayed(r) : r \in UNION {t.records : t \in Place.transcript}} \cup {"limit"} :
            error # "ok" /\ Fails(error)
    BY <1>3 DEF FetchFails
  <2>2. PICK error \in {HttpFetch(url, x, MaxBody) : x \in Place.servers}
                       \cup {Replayed(r) : r \in UNION {t.records : t \in Place.transcript}} \cup {"limit"} :
          error # "ok" /\ Fails(error)
    BY <2>1
  <2>3. error \in Checks
    BY FetchChecked, AllChecks
  <2>4. phase \in {"first", "second"}
    BY <2>1 DEF Asked, AsksMirror, AsksForward, AsksWitness
  <2> QED BY <2>2, <2>3, <2>4, FailsTold
<1>4. CASE NotEstablished
  <2>1. verdict \in {"missing", "limit", "equivocation", "rule"}
    BY <1>4 DEF NotEstablished, CommandInv, ViewInv, ViewTypeOK, Verdicts
  <2> QED BY <1>4, <2>1, AllChecks, FailsTold DEF NotEstablished
<1>5. CASE Closure
  <2> DEFINE a == Authenticated(ViewOf(got), cmd.trigger, cmd.material)
  <2>1. a.outcome \in Outcomes /\ (a.outcome = "valid" => a.says \notin {"nothing", "none"})
    BY DEF Authenticated, Missing, Outcomes
  <2> QED BY <1>5, <2>1, RemoteTold DEF Closure, Established, estVars
<1>6. CASE WitnessSilent
  BY <1>6, MissingTold DEF WitnessSilent, AsksWitness
<1>7. CASE \E h \in HistoryAnswers : ReadHistory(h)
  <2>1. PICK h \in HistoryAnswers : ReadHistory(h)
    BY <1>7
  <2>2. phase = "first" /\ Established
    BY <2>1 DEF ReadHistory, AsksWitness, Established
  <2>3. CASE phase' = "second"
    BY <2>1, <2>2, <2>3, AskedStays DEF ReadHistory, Concludes, Told
  <2>4. CASE phase' # "second"
    <3>1. UNCHANGED viewVars /\ (Concludes(Missing) \/ Concludes(Reconstruction(ViewOf(got), cmd.record, cmd.time)))
      BY <2>1, <2>4 DEF ReadHistory
    <3> QED BY <2>2, <3>1, MissingTold, RemoteTold, ReconstructionSays
  <2> QED BY <2>3, <2>4
<1>8. CASE \E given \in ProofAnswers : ReadPath(given)
  <2>1. /\ phase = "second" /\ Established /\ UNCHANGED viewVars
        /\ Concludes(Missing) \/ Concludes(Reconstruction(ViewOf(asof.tree), cmd.record, cmd.time))
    BY <1>8 DEF ReadPath, AsksForward, Established
  <2> QED BY <2>1, MissingTold, RemoteTold, ReconstructionSays
<1>9. CASE ForwardUnheld
  BY <1>9, MissingTold DEF ForwardUnheld
<1>10. CASE OverBudget
  BY <1>10, AllChecks, FailsTold DEF OverBudget, AsksForward, AsksWitness
<1> QED BY <1>1, <1>2, <1>3, <1>4, <1>5, <1>6, <1>7, <1>8, <1>9, <1>10, StartsTold, LocalTold DEF Next, Step

-----------------------------------------------------------------------------
(***************************************************************************)
(* What issue answers, and what becomes of a request it refuses.           *)
(***************************************************************************)
LEMMA LeastOfIsIn ==
  ASSUME NEW S \in SUBSET Nat, S # {}
  PROVE  LeastOf(S) \in S /\ \A m \in S : LeastOf(S) <= m
BY NatHasLeast DEF LeastOf

Unsubjected == {"statement-anchored", "propagation-complete", "governance-state"}

\* Which claims are about a record.
LEMMA ClaimShapes ==
  ASSUME NEW t \in DOMAIN ClaimShape
  PROVE  ClaimShape[t].subject <=> t \notin Unsubjected
<1> DEFINE shape(types, governance, competing, subject) ==
             [u \in types |-> [governance |-> governance, competing |-> competing, subject |-> subject]]
<1> DEFINE T1 == {"statement-anchored"}
<1> DEFINE T2 == {"record-ingested", "record-derived", "trigger-declared", "disposition-declared"}
<1> DEFINE T3 == {"trigger-effective"}
<1> DEFINE T4 == {"disposition-effective"}
<1> DEFINE T5 == {"propagation-complete", "governance-state"}
<1> DEFINE s1 == shape(T1, "declared", "not-checked", FALSE)
<1> DEFINE s2 == shape(T2, "declared", "not-checked", TRUE)
<1> DEFINE s3 == shape(T3, "enumerated", "enumerated", TRUE)
<1> DEFINE s4 == shape(T4, "enumerated", "not-checked", TRUE)
<1> DEFINE s5 == shape(T5, "enumerated", "not-checked", FALSE)
<1> DEFINE all == <<s1, s2, s3, s4, s5>>
<1>1. ClaimShape = [u \in UNION {DOMAIN all[n] : n \in DOMAIN all} |->
                      LET n == CHOOSE m \in DOMAIN all : u \in DOMAIN all[m] IN all[n][u]]
  BY DEF ClaimShape
<1>2. /\ DOMAIN s1 = T1 /\ \A u \in T1 : s1[u].subject = FALSE
      /\ DOMAIN s2 = T2 /\ \A u \in T2 : s2[u].subject = TRUE
      /\ DOMAIN s3 = T3 /\ \A u \in T3 : s3[u].subject = TRUE
      /\ DOMAIN s4 = T4 /\ \A u \in T4 : s4[u].subject = TRUE
      /\ DOMAIN s5 = T5 /\ \A u \in T5 : s5[u].subject = FALSE
  OBVIOUS
<1> HIDE DEF s1, s2, s3, s4, s5
<1>3. DOMAIN all = 1..5 /\ all[1] = s1 /\ all[2] = s2 /\ all[3] = s3 /\ all[4] = s4 /\ all[5] = s5
  OBVIOUS
<1> HIDE DEF all
<1>4. \E m \in DOMAIN all : t \in DOMAIN all[m]
  BY <1>1
<1> DEFINE n == CHOOSE m \in DOMAIN all : t \in DOMAIN all[m]
<1>5. n \in DOMAIN all /\ t \in DOMAIN all[n]
  BY <1>4
<1>6. ClaimShape[t] = all[n][t]
  BY <1>1
<1> HIDE DEF n
<1>7. \/ t \in T1 /\ ClaimShape[t] = s1[t]
      \/ t \in T2 /\ ClaimShape[t] = s2[t]
      \/ t \in T3 /\ ClaimShape[t] = s3[t]
      \/ t \in T4 /\ ClaimShape[t] = s4[t]
      \/ t \in T5 /\ ClaimShape[t] = s5[t]
  <2> HIDE DEF T1, T2, T3, T4, T5
  <2>1. n = 1 \/ n = 2 \/ n = 3 \/ n = 4 \/ n = 5
    BY <1>3, <1>5
  <2> QED BY <1>2, <1>3, <1>5, <1>6, <2>1
<1> QED BY <1>2, <1>7 DEF Unsubjected

\* Where a log holds an entry.
LEMMA HeldIsIn ==
  ASSUME NEW r, NEW d, IsDeployment(d)
  PROVE  /\ HeldAt(r, d) \in SUBSET Nat
         /\ Len(d.tree) \in Nat /\ DOMAIN d.tree = 1..Len(d.tree)
         /\ \E S : d.tree \in Seq(S)
<1>1. d.tree \in Seq(Range(d.tree))
  BY DEF IsDeployment
<1> QED BY <1>1 DEF HeldAt

\* Wherever the subject is placed, it is there, the checkpoint commits it, and
\* where it was there before, what the claim names besides.
LEMMA PlacedRight ==
  ASSUME NEW r, NEW d, IsDeployment(d), Position(r, d).error = "ok"
  PROVE  LET at == Position(r, d) IN
         /\ at.index \in Nat /\ at.size \in Nat /\ at.index < at.size /\ at.d.tree[at.index + 1] = r.entry
         /\ \A size \in at.d.sizes : size \in Nat \ {0}
         /\ HeldAt(r, d) # {} => \A n \in r.target : at.size > n
<1>1. /\ HeldAt(r, d) \in SUBSET Nat /\ Len(d.tree) \in Nat /\ DOMAIN d.tree = 1..Len(d.tree)
      /\ d.sizes \subseteq 1..Len(d.tree)
  BY HeldIsIn DEF IsDeployment
<1>2. CASE HeldAt(r, d) # {}
  <2> DEFINE index == LeastOf(HeldAt(r, d))
  <2> DEFINE covering == {size \in d.sizes : \A n \in {index} \cup r.target : size > n}
  <2>1. index \in HeldAt(r, d)
    BY <1>1, <1>2, LeastOfIsIn
  <2>2. Position(r, d) = IF covering = {} THEN Placed(d, "missing", index, 0)
                         ELSE Placed(d, "ok", index, LeastOf(covering))
    BY <1>2 DEF Position, PublishExisting
  <2>3. covering \in SUBSET Nat
    BY <1>1
  <2> HIDE DEF covering, index
  <2>4. covering # {} /\ Position(r, d) = Placed(d, "ok", index, LeastOf(covering))
    BY <2>2 DEF Placed
  <2>5. LeastOf(covering) \in covering
    BY <2>3, <2>4, LeastOfIsIn
  <2>6. LeastOf(covering) \in Nat /\ index < LeastOf(covering) /\ \A n \in r.target : LeastOf(covering) > n
    BY <1>1, <2>1, <2>3, <2>5 DEF covering
  <2>7. index \in Nat /\ d.tree[index + 1] = r.entry
    BY <1>1, <2>1 DEF HeldAt
  <2> QED BY <1>1, <2>4, <2>6, <2>7 DEF Placed
<1>3. CASE HeldAt(r, d) = {}
  <2> DEFINE L == Len(d.tree)
  <2> DEFINE after == [[d EXCEPT !.tree = Append(@, r.entry)] EXCEPT !.sizes = @ \cup {L + 1}]
  <2>1. Position(r, d) = Placed(after, "ok", L, L + 1)
    <3>1. Position(r, d) = Submitted(r, d)
      BY <1>3 DEF Position
    <3>2. r.log # "odd" /\ d.fails # "log" /\ d.fails # "mirror"
      BY <3>1 DEF Submitted, Placed
    <3> QED BY <3>1, <3>2 DEF Submitted
  <2>2. after.tree = Append(d.tree, r.entry) /\ after.sizes = d.sizes \cup {L + 1}
    BY DEF IsDeployment
  <2>3. PICK S : d.tree \in Seq(S)
    BY HeldIsIn
  <2>4. Append(d.tree, r.entry)[L + 1] = r.entry
    BY <2>3
  <2> HIDE DEF after
  <2>5. \A size \in after.sizes : size \in Nat \ {0}
    BY <1>1, <2>2
  <2> QED BY <1>1, <1>3, <2>1, <2>2, <2>4, <2>5 DEF Placed
<1> QED BY <1>2, <1>3

\* The leaf a claim opens is one of its tree that names the record, and its
\* inputs are whole.
LEMMA LeafOpened ==
  ASSUME NEW claim, NEW s, NEW trees, NEW record,
         \A root \in DOMAIN trees : DOMAIN trees[root] = 1..Len(trees[root]),
         LeafMaterial(claim, s, trees, record).error = "ok",
         NEW l \in LeafMaterial(claim, s, trees, record).leaf
  PROVE  /\ l.record = record
         /\ l \in Range(trees[Root(claim, s)])
         /\ claim = "record-derived" /\ l.inputs # "none" => LeafMaterial(claim, s, trees, record).members = Range(trees[l.inputs])
<1> DEFINE root == Root(claim, s)
<1> DEFINE named == LeafPosition(trees[root], record)
<1> DEFINE leaf == trees[root][LeastOf(named)]
<1> DEFINE inputs == IF claim = "record-derived" THEN leaf.inputs ELSE "none"
<1> DEFINE m == LeafMaterial(claim, s, trees, record)
<1>1. m = IF root = "none" THEN Unopened(Unless(claim \notin Dispositions, "usage"))
          ELSE IF root \notin DOMAIN trees \/ named = {} \/ inputs \notin {"none"} \cup DOMAIN trees
            THEN Unopened("usage")
            ELSE Opened({leaf}, IF inputs = "none" THEN {} ELSE Range(trees[inputs]))
  BY DEF LeafMaterial
<1> HIDE DEF root, named, leaf, inputs, m
<1>2. m.error = "ok" /\ l \in m.leaf
  BY DEF m
<1>3. \A error : Unopened(error).leaf = {}
  BY DEF Unopened
<1>4. root \in DOMAIN trees /\ named # {}
  BY <1>1, <1>2, <1>3
<1>5. m = Opened({leaf}, IF inputs = "none" THEN {} ELSE Range(trees[inputs]))
  BY <1>1, <1>2, <1>3
<1>6. l = leaf
  BY <1>2, <1>5 DEF Opened
<1>7. named \in SUBSET Nat
  BY <1>4 DEF named, LeafPosition
<1>8. LeastOf(named) \in named
  BY <1>4, <1>7, LeastOfIsIn
<1>9. LeastOf(named) \in DOMAIN trees[root] /\ trees[root][LeastOf(named)].record = record
  BY <1>8 DEF named, LeafPosition
<1>10. claim = "record-derived" /\ l.inputs # "none" => m.members = Range(trees[l.inputs])
  BY <1>5, <1>6 DEF inputs, Opened
<1> QED BY <1>6, <1>9, <1>10 DEF leaf, root, m, Range

LEMMA IssuedAnswers ==
  ASSUME NEW r, IsRequest(r), NEW d, IsDeployment(d), NEW mirror, NEW witness
  PROVE  AnswersItsClaim(r, d, IssueRun(r, d, mirror, witness))
<1> DEFINE ran == IssueRun(r, d, mirror, witness)
<1> DEFINE at == Position(r, d)
<1>1. SUFFICES ASSUME NEW c \in ran.receipt, ran.error = "ok" PROVE AnswersItsClaim(r, d, ran)
  <2>1. ran.error # "ok" => ran.receipt = {}
    BY DEF IssueRun, PositionedRun, Ended
  <2> QED BY <2>1 DEF AnswersItsClaim
<1>2. r.claim \in DOMAIN ClaimShape /\ Refused(r, at, witness) = "ok" /\ ran = PositionedRun(r, at, witness)
  BY <1>1, IssueSucceeds
<1>3. ran.receipt = {Receipt(r, at)} /\ ran.d = at.d
  BY <1>2 DEF PositionedRun, Ended
<1> HIDE DEF ran
<1>4. /\ at.error = "ok" /\ Leaf(r).error = "ok" /\ DeclaredPrefix(r, at) = "ok" /\ ClaimBlock(r) = "ok"
  BY <1>2, NothingRefused
<1> DEFINE b == Receipt(r, at)
<1>5. b.index = at.index /\ b.size = at.size /\ b.claim = r.claim /\ b.subject = RecordSubject(r)
      /\ b.leaf = Leaf(r).leaf /\ b.members = Leaf(r).members /\ b.target = r.target /\ b.ranges = Ranges(r, at)
      /\ b.governance = ClaimShape[r.claim].governance /\ b.continued = Continued(r, at)
  BY DEF Receipt
<1>6. /\ at.index \in Nat /\ at.size \in Nat /\ at.index < at.size /\ at.d.tree[at.index + 1] = r.entry
      /\ \A size \in at.d.sizes : size \in Nat \ {0}
      /\ HeldAt(r, d) # {} => \A n \in r.target : at.size > n
  BY <1>4, PlacedRight
<1> HIDE DEF at, b
<1>7. b.index < b.size /\ ran.d.tree[b.index + 1] = r.entry
  BY <1>3, <1>5, <1>6
<1>8. b.subject # {} <=> b.claim \notin Unsubjected
  <2>1. ClaimShape[r.claim].subject <=> RecordSubject(r) # {}
    BY <1>4, UnlessHolds DEF ClaimBlock
  <2> QED BY <1>2, <1>5, <2>1, ClaimShapes
<1>9. b.leaf # {} => Cardinality(b.subject) = 1
  <2> SUFFICES ASSUME b.leaf # {} PROVE Cardinality(b.subject) = 1
    OBVIOUS
  <2>1. RecordSubject(r) # {}
    BY <1>5 DEF Leaf, Unopened
  <2>2. RecordSubject(r) = {<<r.dataset, r.record>>}
    BY <2>1 DEF RecordSubject
  <2> QED BY <1>5, <2>2, FS_Singleton
<1>10. ASSUME NEW l \in b.leaf, NEW s \in b.subject
       PROVE  LET trees == Given(r.trees).leaves IN
              /\ l.record = s[2]
              /\ l \in Range(trees[Root(b.claim, r.entry)])
              /\ b.claim = "record-derived" /\ l.inputs # "none" => b.members = Range(trees[l.inputs])
  <2> DEFINE trees == Given(r.trees).leaves
  <2>1. r.trees # {} /\ RecordSubject(r) # {} /\ Leaf(r) = LeafMaterial(r.claim, r.entry, trees, r.record)
    BY <1>5, <1>10 DEF Leaf, Unopened
  <2>2. s[2] = r.record
    BY <1>5, <1>10, <2>1 DEF RecordSubject
  <2>3. \A root \in DOMAIN trees : DOMAIN trees[root] = 1..Len(trees[root])
    BY <2>1 DEF IsRequest, Given
  <2> DEFINE root == Root(r.claim, r.entry)
  <2>4. /\ LeafMaterial(r.claim, r.entry, trees, r.record).error = "ok"
        /\ l \in LeafMaterial(r.claim, r.entry, trees, r.record).leaf
        /\ b.members = LeafMaterial(r.claim, r.entry, trees, r.record).members
    BY <1>4, <1>5, <1>10, <2>1
  <2> HIDE DEF trees
  <2>5. /\ l.record = r.record
        /\ l \in Range(trees[root])
        /\ r.claim = "record-derived" /\ l.inputs # "none" => b.members = Range(trees[l.inputs])
    BY <2>3, <2>4, LeafOpened
  <2> QED BY <1>5, <2>2, <2>5 DEF trees
<1>11. b.continued => b.governance = "declared"
  BY <1>5 DEF Continued
<1>12. b.ranges \subseteq 1..b.size
  <2>1. CASE r.claim = "trigger-effective"
    BY <1>5, <1>6, <2>1 DEF Ranges
  <2>2. CASE r.claim = "propagation-complete"
    <3> DEFINE held == \A size \in r.entry.declares : size \in at.d.sizes /\ size <= at.size
    <3> DEFINE checks == <<Unless(r.entry.declares # {}, "usage"), Unless(held, "missing")>>
    <3>1. First(checks) = "ok"
      BY <1>4, <2>2 DEF DeclaredPrefix
    <3> HIDE DEF held
    <3>2. DOMAIN checks = 1..2 /\ checks[2] = Unless(held, "missing")
      OBVIOUS
    <3> HIDE DEF checks
    <3>3. Unless(held, "missing") = "ok"
      BY <3>1, <3>2, AllChecksHold
    <3>4. held
      BY <3>3, UnlessHolds
    <3> QED BY <1>5, <1>6, <2>2, <3>4 DEF Ranges, held
  <2>3. CASE r.claim \notin {"trigger-effective", "propagation-complete"}
    BY <1>5, <2>3 DEF Ranges
  <2> QED BY <2>1, <2>2, <2>3
<1>13. HeldAt(r, d) # {} => b.target \subseteq 0..(b.size - 1)
  BY <1>5, <1>6 DEF IsRequest
<1>14. c = b
  BY <1>1, <1>3 DEF b
<1>15. \A x \in ran.receipt : x = b
  BY <1>3 DEF b
<1> HIDE DEF b
<1>16. IsAnAnswer(b, r, d, ran.d)
  <2>1. b.subject # {} <=> b.claim \notin {"statement-anchored", "propagation-complete", "governance-state"}
    BY <1>8 DEF Unsubjected
  <2> QED BY <1>7, <1>9, <1>10, <1>11, <1>12, <1>13, <2>1 DEF IsAnAnswer
<1> QED BY <1>15, <1>16 DEF AnswersItsClaim

LEMMA Appending ==
  ASSUME NEW d, d = [tree |-> d.tree, sizes |-> d.sizes, fails |-> d.fails], NEW T, NEW Z
  PROVE  [[d EXCEPT !.tree = T] EXCEPT !.sizes = Z] = [tree |-> T, sizes |-> Z, fails |-> d.fails]
<1> DEFINE D == d.sizes
<1> DEFINE x == d.fails
<1> HIDE DEF D, x
<1>1. [[tree |-> d.tree, sizes |-> D, fails |-> x] EXCEPT !.tree = T] = [tree |-> T, sizes |-> D, fails |-> x]
  OBVIOUS
<1>2. [[tree |-> T, sizes |-> D, fails |-> x] EXCEPT !.sizes = Z] = [tree |-> T, sizes |-> Z, fails |-> x]
  OBVIOUS
<1> QED BY <1>1, <1>2 DEF D, x

\* What a log that takes the entry makes of the deployment.
LEMMA SubmittedIsPlaced ==
  ASSUME NEW r, NEW d, d = [tree |-> d.tree, sizes |-> d.sizes, fails |-> d.fails],
         r.log # "odd", d.fails \notin {"log", "mirror"}
  PROVE  Submitted(r, d) = Placed([tree |-> Append(d.tree, r.entry), sizes |-> d.sizes \cup {Len(d.tree) + 1},
                                   fails |-> d.fails],
                                  "ok", Len(d.tree), Len(d.tree) + 1)
<1>1. Submitted(r, d)
        = Placed([[d EXCEPT !.tree = Append(@, r.entry)] EXCEPT !.sizes = @ \cup {Len(d.tree) + 1}],
                 "ok", Len(d.tree), Len(d.tree) + 1)
  BY DEF Submitted
<1>2. [d EXCEPT !.tree = Append(@, r.entry)].sizes = d.sizes
  OBVIOUS
<1>3. [[d EXCEPT !.tree = Append(@, r.entry)] EXCEPT !.sizes = @ \cup {Len(d.tree) + 1}]
        = [tree |-> Append(d.tree, r.entry), sizes |-> d.sizes \cup {Len(d.tree) + 1}, fails |-> d.fails]
  BY <1>2, Appending
<1> QED BY <1>1, <1>3

\* A log that takes an entry it did not hold, once nothing fails any more,
\* places it exactly where a run that is asked after that finds it.
LEMMA PlacedOnce ==
  ASSUME NEW r, NEW d, IsDeployment(d), r.log # "odd", r.target \subseteq 0..Len(d.tree),
         \A n \in 0..(Len(d.tree) - 1) : d.tree[n + 1] # r.entry
  PROVE  LET L == Len(d.tree)
             after == [tree |-> Append(d.tree, r.entry), sizes |-> d.sizes \cup {L + 1}, fails |-> "never"]
         IN /\ Position(r, Mended(d)) = Placed(after, "ok", L, L + 1)
            /\ Position(r, after) = Placed(after, "ok", L, L + 1)
<1> DEFINE L == Len(d.tree)
<1> DEFINE T == Append(d.tree, r.entry)
<1> DEFINE before == [tree |-> d.tree, sizes |-> d.sizes, fails |-> "never"]
<1> DEFINE after == [tree |-> T, sizes |-> d.sizes \cup {L + 1}, fails |-> "never"]
<1>1. L \in Nat /\ d.sizes \subseteq 1..L
  BY HeldIsIn DEF IsDeployment
<1>2. Mended(d) = before
  BY DEF IsDeployment, Mended
<1>3. Len(T) = L + 1 /\ T[L + 1] = r.entry /\ \A n \in 1..L : T[n] = d.tree[n]
  <2>1. PICK S : d.tree \in Seq(S)
    BY HeldIsIn
  <2> QED BY <2>1
<1>4. Position(r, before) = Placed(after, "ok", L, L + 1)
  <2>1. HeldAt(r, before) = {}
    BY DEF HeldAt
  <2>2. Position(r, before) = Submitted(r, before)
    BY <2>1 DEF Position
  <2>3. /\ before.tree = d.tree /\ before.sizes = d.sizes /\ before.fails = "never"
        /\ before = [tree |-> before.tree, sizes |-> before.sizes, fails |-> before.fails]
    OBVIOUS
  <2> HIDE DEF before
  <2>4. Submitted(r, before) = Placed([tree |-> Append(before.tree, r.entry),
                                       sizes |-> before.sizes \cup {Len(before.tree) + 1},
                                       fails |-> before.fails],
                                      "ok", Len(before.tree), Len(before.tree) + 1)
    BY <2>3, SubmittedIsPlaced
  <2>5. Submitted(r, before) = Placed(after, "ok", L, L + 1)
    BY <2>3, <2>4
  <2> QED BY <2>2, <2>5
<1>5. Position(r, after) = Placed(after, "ok", L, L + 1)
  <2>1. after.tree = T /\ after.sizes = d.sizes \cup {L + 1}
    OBVIOUS
  <2> HIDE DEF after, T, L
  <2>2. HeldAt(r, after) = {L}
    <3>1. ASSUME NEW n \in 0..(Len(T) - 1), T[n + 1] = r.entry PROVE n = L
      <4>1. n \in 0..L
        BY <1>1, <1>3
      <4>2. CASE n # L
        <5>1. n \in 0..(L - 1) /\ n + 1 \in 1..L
          BY <1>1, <4>1, <4>2
        <5> QED BY <1>3, <3>1, <5>1 DEF L
      <4> QED BY <4>2
    <3>2. L \in 0..(Len(T) - 1) /\ T[L + 1] = r.entry /\ \E size \in after.sizes : size > L
      BY <1>1, <1>3, <2>1
    <3> QED BY <2>1, <3>1, <3>2 DEF HeldAt
  <2>3. LeastOf({L}) = L /\ LeastOf({L + 1}) = L + 1
    BY <1>1, LeastOfIsIn
  <2>4. {size \in after.sizes : \A n \in {L} \cup r.target : size > n} = {L + 1}
    BY <1>1, <2>1 DEF L
  <2> QED BY <2>2, <2>3, <2>4 DEF Position, PublishExisting
<1> QED BY <1>2, <1>4, <1>5

\* A run that leaves the deployment other than it was has had its entry taken
\* by a log that did not hold it.
LEMMA LeavesItsEntry ==
  ASSUME NEW r, NEW d, IsDeployment(d), NEW mirror, NEW witness,
         d.fails # "mirror", IssueRun(r, d, mirror, witness).d # d
  PROVE  /\ HeldAt(r, d) = {}
         /\ Mended(IssueRun(r, d, mirror, witness).d) =
              [tree |-> Append(d.tree, r.entry), sizes |-> d.sizes \cup {Len(d.tree) + 1}, fails |-> "never"]
<1> DEFINE ran == IssueRun(r, d, mirror, witness)
<1> DEFINE at == Position(r, d)
<1>1. ran.d = at.d
  BY DEF IssueRun, PositionedRun, Ended, Placed
<1>2. HeldAt(r, d) = {}
  <2>1. HeldAt(r, d) # {} => at.d = d
    BY DEF Position, PublishExisting, Placed
  <2> QED BY <1>1, <2>1
<1>3. at = Submitted(r, d)
  BY <1>2 DEF Position
<1>4. r.log # "odd" /\ d.fails # "log"
  BY <1>1, <1>3 DEF Submitted, Placed
<1> DEFINE T == Append(d.tree, r.entry)
<1> DEFINE Z == d.sizes \cup {Len(d.tree) + 1}
<1>5. at.d = [tree |-> T, sizes |-> Z, fails |-> d.fails]
  <2>1. d = [tree |-> d.tree, sizes |-> d.sizes, fails |-> d.fails]
    BY DEF IsDeployment
  <2>2. at = Placed([tree |-> T, sizes |-> Z, fails |-> d.fails], "ok", Len(d.tree), Len(d.tree) + 1)
    BY <1>3, <1>4, <2>1, SubmittedIsPlaced
  <2> HIDE DEF at, T, Z
  <2> QED BY <2>2 DEF Placed
<1> HIDE DEF at, ran
<1>6. Mended(at.d) = [tree |-> T, sizes |-> Z, fails |-> "never"]
  <2> HIDE DEF T, Z
  <2>1. [[tree |-> T, sizes |-> Z, fails |-> d.fails] EXCEPT !.fails = "never"]
          = [tree |-> T, sizes |-> Z, fails |-> "never"]
    OBVIOUS
  <2> QED BY <1>5, <2>1 DEF Mended
<1> QED BY <1>1, <1>2, <1>6 DEF ran

\* What is refused is never held against the request put right.
LEMMA RefusedIsRepaired ==
  ASSUME NEW r, NEW right, NEW d, IsDeployment(d), NEW mirror, NEW witness
  PROVE  RefusalIsRepaired(r, right, d, IssueRun(r, d, mirror, witness), mirror, witness)
<1> DEFINE ran == IssueRun(r, d, mirror, witness)
<1> DEFINE atOnce == IssueRun(right, Mended(d), mirror, witness)
<1> DEFINE afterIt == IssueRun(right, Mended(ran.d), mirror, witness)
<1> SUFFICES ASSUME ran.d = d \/ d.fails # "mirror",
                    HeldAt(r, d) = {n \in 0..(Len(d.tree) - 1) : d.tree[n + 1] = r.entry},
                    right.entry = r.entry, right.target \subseteq 0..Len(d.tree), atOnce.error = "ok"
             PROVE  atOnce = afterIt
  BY DEF RefusalIsRepaired, ComesToTheSame
<1>1. CASE ran.d = d
  BY <1>1
<1>2. CASE ran.d # d
  <2> DEFINE after == [tree |-> Append(d.tree, r.entry), sizes |-> d.sizes \cup {Len(d.tree) + 1}, fails |-> "never"]
  <2>1. HeldAt(r, d) = {} /\ Mended(ran.d) = after
    BY <1>2, LeavesItsEntry
  <2>2. \A n \in 0..(Len(d.tree) - 1) : d.tree[n + 1] # right.entry
    BY <2>1
  <2> DEFINE at == Position(right, Mended(d))
  <2>3. /\ right.claim \in DOMAIN ClaimShape /\ Refused(right, at, witness) = "ok"
        /\ atOnce = PositionedRun(right, at, witness)
    BY IssueSucceeds
  <2>4. at.error = "ok"
    BY <2>3, NothingRefused
  <2>5. HeldAt(right, Mended(d)) = {}
    BY <2>2 DEF HeldAt, Mended, IsDeployment
  <2>6. right.log # "odd"
    BY <2>4, <2>5 DEF Position, Submitted, Placed
  <2>7. at = Position(right, after)
    BY <2>2, <2>6, PlacedOnce
  <2> HIDE DEF at, after
  <2>8. \A d2 : IssueRun(right, d2, mirror, witness) = PositionedRun(right, Position(right, d2), witness)
    BY IssueSucceeds
  <2>9. afterIt = PositionedRun(right, at, witness)
    BY <2>1, <2>7, <2>8
  <2> QED BY <2>3, <2>9
<1> QED BY <1>1, <1>2

\* A receipt answers the claim it was asked for, and a request refused, even
\* after the log took its entry, can be put right and asked again: commands/
\* issue.rs run, published_index and publish_existing.
THEOREM IssueAnswersAndRepairs == Spec => []IssuesWhatIsAsked
<1>1. CommandInv => IssuesWhatIsAsked
  <2> SUFFICES ASSUME CommandInv, cmd.name = "issue", phase = "local" PROVE Borne(Issued)
    BY DEF IssuesWhatIsAsked
  <2>1. IsRequest(cmd.request) /\ IsDeployment(cmd.deployment)
    BY InvocationsAssumption DEF CommandInv
  <2> QED BY <2>1, IssuedAnswers, RefusedIsRepaired DEF Borne, Issued
<1> QED BY <1>1, CommandInvariant, PTL

-----------------------------------------------------------------------------
(***************************************************************************)
(* What the walk of a corpus reports.                                      *)
(***************************************************************************)

\* A dense corpus is the log of its entries.
LEMMA DenseIsALog ==
  ASSUME NEW f, IsCorpus(f), Dense(f)
  PROVE  LET N == Cardinality(DOMAIN Entries(f)) IN
         /\ N \in Nat /\ DOMAIN Entries(f) = 0..(N - 1) /\ Len(DenseEnvelopes(f)) = N
         /\ \A n \in 0..(N - 1) : DenseEnvelopes(f)[n + 1] = Entries(f)[n]
<1> DEFINE x == Entries(f)
<1> DEFINE N == Cardinality(DOMAIN x)
<1>1. DOMAIN x \subseteq 0..MaxIndex
  <2>1. \A p \in Loaded(f) : f[p] \in Items /\ f[p].index # NoIndex
    BY DEF IsCorpus, Loaded, WellFormed
  <2>2. \A item \in Items : item.index # NoIndex => item.index \in 0..MaxIndex
    BY DEF Items, Indexes
  <2> QED BY <2>1, <2>2 DEF Entries
<1>2. IsFiniteSet(DOMAIN x)
  <2>1. IsFiniteSet(0..MaxIndex)
    BY MaxIndexAssumption, FS_Interval
  <2>2. DOMAIN x \in SUBSET (0..MaxIndex)
    BY <1>1
  <2> HIDE DEF x
  <2> QED BY <2>1, <2>2, FS_Subset
<1>3. N \in Nat
  BY <1>2, FS_CardinalityType
<1>4. DOMAIN x = 0..(N - 1)
  BY DEF Dense
<1> HIDE DEF x, N
<1>5. DenseEnvelopes(f) = [n \in 1..N |-> x[n - 1]]
  BY DEF DenseEnvelopes, x, N
<1>6. Len(DenseEnvelopes(f)) = N
  BY <1>3, <1>5
<1>7. \A n \in 0..(N - 1) : DenseEnvelopes(f)[n + 1] = x[n]
  BY <1>3, <1>5
<1> QED BY <1>3, <1>4, <1>6, <1>7 DEF x, N

\* The finding that voids an entry, by what the walk sees of it.
LEMMA WhatTheWalkNames ==
  ASSUME NEW x, NEW n
  PROVE  (\E tag \in {"statement-unenveloped", "signature-does-not-verify", "statement-id-not-unique"} :
            <<tag, n>> \in WalkFindings(x))
         <=> n \in DOMAIN x /\ (~HasPayload(x, n) \/ DoesNotVerify(x, n) \/ Repeats(x, n))
<1> DEFINE A == {<<"statement-unenveloped", m>> : m \in {k \in DOMAIN x : ~HasPayload(x, k)}}
<1> DEFINE B == {<<"signature-does-not-verify", m>> : m \in {k \in DOMAIN x : DoesNotVerify(x, k)}}
<1> DEFINE C == {<<"statement-id-not-unique", m>> : m \in {k \in DOMAIN x : Repeats(x, k)}}
<1> DEFINE D == {<<"unknown-statement-type", m>> :
                   m \in {k \in DOMAIN x : Payload(x[k]).kind \in {"untyped", "unknown"}}}
<1> DEFINE E == {<<"trigger-without-scope", m>> : m \in {k \in DOMAIN x : IsTrigger(x[k]) /\ ~Saying(x[k]).scoped}}
<1> DEFINE F == {<<"correction-without-replacement", m>> :
                   m \in {k \in DOMAIN x : Type(x[k]) = "correction" /\ Saying(x[k]).replacement = None}}
<1>1. WalkFindings(x) = A \cup B \cup C \cup D \cup E \cup F
  BY DEF WalkFindings
<1>2. /\ <<"statement-unenveloped", n>> \in A <=> n \in DOMAIN x /\ ~HasPayload(x, n)
      /\ \A tag : <<tag, n>> \in A => tag = "statement-unenveloped"
  OBVIOUS
<1>3. /\ <<"signature-does-not-verify", n>> \in B <=> n \in DOMAIN x /\ DoesNotVerify(x, n)
      /\ \A tag : <<tag, n>> \in B => tag = "signature-does-not-verify"
  OBVIOUS
<1>4. /\ <<"statement-id-not-unique", n>> \in C <=> n \in DOMAIN x /\ Repeats(x, n)
      /\ \A tag : <<tag, n>> \in C => tag = "statement-id-not-unique"
  OBVIOUS
<1>5. \A tag : <<tag, n>> \in D \cup E \cup F =>
         tag \in {"unknown-statement-type", "trigger-without-scope", "correction-without-replacement"}
  OBVIOUS
<1> HIDE DEF A, B, C, D, E, F
<1>6. CASE \E tag \in {"statement-unenveloped", "signature-does-not-verify", "statement-id-not-unique"} :
             <<tag, n>> \in WalkFindings(x)
  BY <1>1, <1>2, <1>3, <1>4, <1>5, <1>6
<1>7. CASE n \in DOMAIN x /\ (~HasPayload(x, n) \/ DoesNotVerify(x, n) \/ Repeats(x, n))
  BY <1>1, <1>2, <1>3, <1>4, <1>7
<1> QED BY <1>6, <1>7

LEMMA WalkIsRight ==
  ASSUME NEW f, IsCorpus(f)
  PROVE  WalkNamesTheVoid(f)
<1> DEFINE x == Entries(f)
<1> DEFINE t == DenseEnvelopes(f)
<1> DEFINE c == ChainOf(t)
<1> DEFINE named == {n \in DOMAIN x : \E tag \in {"statement-unenveloped", "signature-does-not-verify",
                                                  "statement-id-not-unique"} : <<tag, n>> \in WalkFindings(x)}
<1> SUFFICES ASSUME Dense(f), Resolves(t), WalkChain(x) = c
             PROVE  named = DOMAIN x \ Statements(c, t)
  BY DEF WalkNamesTheVoid
<1>1. PICK N \in Nat : /\ DOMAIN x = 0..(N - 1) /\ Len(t) = N
                       /\ \A n \in 0..(N - 1) : t[n + 1] = x[n]
  BY DenseIsALog
<1>2. Manifests(WalkChain(x)) # {}
  BY DEF Resolves
<1> HIDE DEF x, t, c
<1>3. \A n \in 0..(N - 1) : Verifies(c, t, n) <=> HasPayload(x, n) /\ ~DoesNotVerify(x, n)
  BY <1>1, <1>2 DEF Verifies, HasPayload, DoesNotVerify
<1>4. \A n \in 0..(N - 1) :
         n \in Statements(c, t) <=> HasPayload(x, n) /\ ~DoesNotVerify(x, n) /\ ~Repeats(x, n)
  <2> TAKE n \in 0..(N - 1)
  <2>1. \A k : k \in 0..(n - 1) <=> k \in 0..(N - 1) /\ k < n
    OBVIOUS
  <2>2. n \in Statements(c, t) <=>
          Verifies(c, t, n) /\ \A k \in 0..(n - 1) : Verifies(c, t, k) => StmtOf[x[k]] # StmtOf[x[n]]
    BY <1>1, <2>1 DEF Statements
  <2>3. ~Repeats(x, n) /\ Verifies(c, t, n) <=>
          Verifies(c, t, n) /\ \A k \in 0..(n - 1) : Verifies(c, t, k) => StmtOf[x[k]] # StmtOf[x[n]]
    BY <1>1, <1>3, <2>1 DEF Repeats
  <2> QED BY <1>3, <2>2, <2>3
<1>5. \A n : n \in named <=> n \in DOMAIN x /\ (~HasPayload(x, n) \/ DoesNotVerify(x, n) \/ Repeats(x, n))
  BY WhatTheWalkNames
<1> HIDE DEF named
<1> QED BY <1>1, <1>4, <1>5

\* The walk of a whole log names exactly the positions the verified view voids:
\* corpus.rs walk beside anchored.rs Statements::build.
THEOREM WalkTellsTheVoid == Spec => []WalkReportsTheVoid
<1>1. CommandInv => WalkReportsTheVoid
  BY WalkIsRight, InvocationsAssumption DEF CommandInv, WalkReportsTheVoid
<1> QED BY <1>1, CommandInvariant, PTL

-----------------------------------------------------------------------------
(***************************************************************************)
(* What counts for a closure.                                              *)
(***************************************************************************)

\* An entry gone from a log takes no other statement with it or along: it was
\* none, or no other entry is of its statement.
LEMMA StatementsLeft ==
  ASSUME NEW tree \in Trees, NEW other \in Trees, SameGovernance(tree, other),
         \A i \in 0..(Len(tree) - 1) :
           \/ other[i + 1] = tree[i + 1]
           \/ /\ Payload(other[i + 1]).kind = "broken"
              /\ ~Verifies(ChainOf(tree), tree, i) \/ AnchoredOnce(ViewOf(tree), i)
  PROVE  /\ ViewOf(other).chain = ViewOf(tree).chain
         /\ ViewOf(other).stmts = {i \in ViewOf(tree).stmts : other[i + 1] = tree[i + 1]}
<1> DEFINE c == ChainOf(tree)
<1> DEFINE L == Len(tree)
<1>1. ChainOf(other) = c /\ Len(other) = L /\ L \in Nat
  BY SameChain DEF SameGovernance, Trees
<1>2. ViewOf(tree).stmts = Statements(c, tree) /\ ViewOf(other).stmts = Statements(c, other)
      /\ ViewOf(tree).chain = c /\ ViewOf(other).chain = c
  BY <1>1 DEF ViewOf
<1>3. \A i \in 0..(L - 1) : Verifies(c, other, i) <=> Verifies(c, tree, i) /\ other[i + 1] = tree[i + 1]
  BY DEF Verifies
<1>4. ASSUME NEW i \in 0..(L - 1), AnchoredOnce(ViewOf(tree), i), NEW j \in 0..(L - 1), j # i, Verifies(c, tree, j)
      PROVE  StmtOf[tree[j + 1]] # StmtOf[tree[i + 1]]
  BY <1>4 DEF AnchoredOnce, ViewOf, At
<1> HIDE DEF c, L
<1>5. ASSUME NEW i \in Statements(c, tree), other[i + 1] = tree[i + 1] PROVE i \in Statements(c, other)
  <2>1. i \in 0..(L - 1) /\ Verifies(c, tree, i)
        /\ \A j \in 0..(i - 1) : Verifies(c, tree, j) => StmtOf[tree[j + 1]] # StmtOf[tree[i + 1]]
    BY DEF Statements, L
  <2>2. \A j \in 0..(i - 1) : j \in 0..(L - 1)
    BY <1>1, <2>1
  <2> QED BY <1>1, <1>3, <1>5, <2>1, <2>2 DEF Statements
<1>6. ASSUME NEW i \in Statements(c, other) PROVE i \in Statements(c, tree) /\ other[i + 1] = tree[i + 1]
  <2>1. i \in 0..(L - 1) /\ Verifies(c, other, i)
        /\ \A j \in 0..(i - 1) : Verifies(c, other, j) => StmtOf[other[j + 1]] # StmtOf[other[i + 1]]
    BY <1>1 DEF Statements
  <2>2. Verifies(c, tree, i) /\ other[i + 1] = tree[i + 1]
    BY <1>3, <2>1
  <2>3. ASSUME NEW j \in 0..(i - 1), Verifies(c, tree, j) PROVE StmtOf[tree[j + 1]] # StmtOf[tree[i + 1]]
    <3>1. j \in 0..(L - 1) /\ j # i
      BY <1>1, <2>1
    <3>2. CASE other[j + 1] = tree[j + 1]
      BY <1>3, <2>1, <2>2, <2>3, <3>1, <3>2
    <3>3. CASE other[j + 1] # tree[j + 1]
      <4>1. AnchoredOnce(ViewOf(tree), j)
        BY <2>3, <3>1, <3>3 DEF c, L
      <4> QED BY <1>4, <2>1, <2>2, <3>1, <4>1
    <3> QED BY <3>2, <3>3
  <2> QED BY <2>1, <2>2, <2>3 DEF Statements, L
<1> QED BY <1>2, <1>5, <1>6

\* Where challenges alone are gone, every record is introduced where it was,
\* governed by the trigger it was, and derived from what it was.
Spared(v, u) ==
  /\ u.chain = v.chain /\ u.stmts \subseteq v.stmts
  /\ \A i \in u.stmts : At(u, i) = At(v, i)
  /\ \A i \in v.stmts \ u.stmts : Challenge(v, i)

LEMMA SameIntroduction ==
  ASSUME NEW v, NEW u, Spared(v, u), NEW r
  PROVE  IntroductionIndex(u, r) = IntroductionIndex(v, r) /\ IntroductionIndex(v, r) \subseteq u.stmts
<1>1. \A i \in v.stmts : Introduces(At(v, i), r) => i \in u.stmts
  BY DEF Spared, Challenge, IsTrigger, Introduces
<1>2. {i \in u.stmts : Introduces(At(u, i), r)} = {i \in v.stmts : Introduces(At(v, i), r)}
  BY <1>1 DEF Spared
<1> QED BY <1>1, <1>2 DEF IntroductionIndex, Least

LEMMA SameGoverning ==
  ASSUME NEW v, NEW u, Spared(v, u), NEW r
  PROVE  GoverningTrigger(u, r) = GoverningTrigger(v, r) /\ GoverningTrigger(v, r) \subseteq u.stmts
<1>1. \A i, intro : intro \in IntroductionIndex(v, r) => AuthorityFor(u, intro, r, i) = AuthorityFor(v, intro, r, i)
  BY SameIntroduction DEF AuthorityFor, Spared
<1>2. ASSUME NEW i \in Effective(v, r) PROVE i \in u.stmts
  <2>1. i \in v.stmts /\ Saying(At(v, i)).record = r
        /\ \E intro \in IntroductionIndex(v, r) : Signers[At(v, i)] \cap AuthorityFor(v, intro, r, i) # {}
    BY <1>2 DEF Effective, Triggers
  <2>2. ~Challenge(v, i)
    BY <2>1 DEF Challenge
  <2> QED BY <2>1, <2>2 DEF Spared
<1>3. ASSUME NEW i \in u.stmts PROVE i \in Effective(u, r) <=> i \in Effective(v, r)
  <2>1. i \in v.stmts /\ At(u, i) = At(v, i)
    BY DEF Spared
  <2>2. i \in Triggers(u, r) <=> i \in Triggers(v, r)
    BY <2>1 DEF Triggers
  <2> QED BY <1>1, <2>1, <2>2, SameIntroduction DEF Effective
<1>4. Effective(u, r) \subseteq u.stmts
  BY DEF Effective, Triggers
<1>5. Effective(u, r) = Effective(v, r)
  BY <1>2, <1>3, <1>4
<1> QED BY <1>2, <1>5 DEF GoverningTrigger, Greatest

LEMMA SameDerivations ==
  ASSUME NEW v, NEW u, Spared(v, u)
  PROVE  /\ \A S : DerivedFrom(u, S) = DerivedFrom(v, S) /\ RequiredTreeRoots(u, S) = RequiredTreeRoots(v, S)
         /\ \A r : Affected(u, r) = Affected(v, r)
<1>1. \A i \in v.stmts : Type(At(v, i)) = "derivation" => i \in u.stmts
  BY DEF Spared, Challenge, IsTrigger
<1>2. ASSUME NEW S
      PROVE  {j \in u.stmts : Type(At(u, j)) = "derivation" /\ Saying(At(u, j)).ins \cap S # {}}
               = {j \in v.stmts : Type(At(v, j)) = "derivation" /\ Saying(At(v, j)).ins \cap S # {}}
  BY <1>1 DEF Spared
<1>3. ASSUME NEW S
      PROVE  DerivedFrom(u, S) = DerivedFrom(v, S) /\ RequiredTreeRoots(u, S) = RequiredTreeRoots(v, S)
  <2> DEFINE D(w) == {j \in w.stmts : Type(At(w, j)) = "derivation" /\ Saying(At(w, j)).ins \cap S # {}}
  <2>1. D(u) = D(v) /\ \A i \in D(u) : At(u, i) = At(v, i)
    BY <1>2 DEF Spared
  <2>2. DerivedFrom(u, S) = UNION {Saying(At(u, i)).outs : i \in D(u)}
        /\ DerivedFrom(v, S) = UNION {Saying(At(v, i)).outs : i \in D(v)}
    BY DEF DerivedFrom
  <2>3. RequiredTreeRoots(u, S) = {Saying(At(u, i)).batch : i \in D(u)} \ {None}
        /\ RequiredTreeRoots(v, S) = {Saying(At(v, i)).batch : i \in D(v)} \ {None}
    BY DEF RequiredTreeRoots
  <2> HIDE DEF D
  <2> QED BY <2>1, <2>2, <2>3
<1>4. \A r : Affected(u, r) = Affected(v, r)
  BY <1>3 DEF Affected
<1> QED BY <1>3, <1>4

LEMMA SameClosure ==
  ASSUME NEW v, NEW u, Spared(v, u), NEW ref, NEW material
  PROVE  Authenticated(u, ref, material) = Authenticated(v, ref, material)
<1> DEFINE named(w) == {i \in ResolveTrigger(w, ref) : GovernsItsRecord(w, i)}
<1>1. ASSUME NEW i \in u.stmts PROVE i \in named(u) <=> i \in named(v)
  <2>1. i \in v.stmts /\ At(u, i) = At(v, i)
    BY DEF Spared
  <2> QED BY <2>1, SameGoverning DEF ResolveTrigger, GovernsItsRecord
<1>2. named(u) \subseteq u.stmts
  BY DEF ResolveTrigger
<1>3. named(v) \subseteq u.stmts
  BY SameGoverning DEF GovernsItsRecord
<1>4. named(u) = named(v)
  BY <1>1, <1>2, <1>3
<1>5. \A i \in named(u) : At(u, i) = At(v, i)
  BY <1>2 DEF Spared
<1> DEFINE affected(w) == UNION {Affected(w, Saying(At(w, i)).record) : i \in named(w)}
<1>6. \A w : Authenticated(w, ref, material) =
               IF named(w) # {} /\ RequiredTreeRoots(w, affected(w)) \subseteq material
                 THEN [outcome |-> "valid", says |-> "affected", set |-> affected(w)]
                 ELSE Missing
  BY DEF Authenticated
<1>7. affected(u) = affected(v)
  <2> HIDE DEF named
  <2> QED BY <1>4, <1>5, SameDerivations
<1> HIDE DEF named, affected
<1> QED BY <1>4, <1>6, <1>7, SameDerivations

\* What an outsider anchors verifies under no chain of the corpus.
LEMMA OutsidersAreNone ==
  ASSUME NEW tree \in Trees, NEW i \in 0..(Len(tree) - 1), ByOutsider(tree[i + 1])
  PROVE  ~Verifies(ChainOf(tree), tree, i)
BY ChainOfCorpus, CorpusKeys DEF Verifies, EnvelopeVerifiesAt, ByOutsider

LEMMA ClosureOfTheRest ==
  ASSUME NEW tree \in Trees, NEW other \in Trees, Len(other) = Len(tree),
         \A n \in 1..Len(tree) :
           \/ other[n] = tree[n]
           \/ /\ Broken(other[n])
              /\ \/ ByOutsider(tree[n])
                 \/ Challenge(ViewOf(tree), n - 1) /\ AnchoredOnce(ViewOf(tree), n - 1),
         NEW ref, NEW material
  PROVE  Authenticated(ViewOf(other), ref, material) = Authenticated(ViewOf(tree), ref, material)
<1> DEFINE v == ViewOf(tree)
<1> DEFINE u == ViewOf(other)
<1>1. Len(tree) \in Nat
  BY DEF Trees
<1>2. \A i : At(v, i) = tree[i + 1] /\ At(u, i) = other[i + 1]
  BY DEF At, ViewOf
<1>3. \A e : IsTrigger(e) => Payload(e).kind \notin {"manifest", "key"}
  BY DEF IsTrigger, Type
<1>4. SameGovernance(tree, other)
  <2>1. ASSUME NEW n \in 1..Len(tree), Challenge(v, n - 1) PROVE NoGovernance(tree[n])
    <3>1. (n - 1) + 1 = n
      BY <1>1
    <3> QED BY <1>2, <1>3, <2>1, <3>1 DEF Challenge, NoGovernance
  <2> QED BY <1>1, <2>1 DEF SameGovernance, Broken, NoGovernance
<1>5. ASSUME NEW i \in 0..(Len(tree) - 1)
      PROVE  \/ other[i + 1] = tree[i + 1]
             \/ /\ Payload(other[i + 1]).kind = "broken"
                /\ \/ ~Verifies(ChainOf(tree), tree, i)
                   \/ Challenge(v, i) /\ AnchoredOnce(v, i)
  <2>1. i + 1 \in 1..Len(tree) /\ (i + 1) - 1 = i
    BY <1>1
  <2> QED BY <2>1, OutsidersAreNone DEF Broken
<1>6. u.chain = v.chain /\ u.stmts = {i \in v.stmts : other[i + 1] = tree[i + 1]}
  BY <1>4, <1>5, StatementsLeft
<1>7. ASSUME NEW i \in v.stmts, i \notin u.stmts PROVE Challenge(v, i)
  <2>1. i \in 0..(Len(tree) - 1) /\ Verifies(ChainOf(tree), tree, i)
    BY DEF ViewOf, Statements
  <2> QED BY <1>5, <1>6, <1>7, <2>1
<1>8. Spared(v, u)
  <2> HIDE DEF v, u
  <2> QED BY <1>2, <1>6, <1>7 DEF Spared
<1> HIDE DEF v, u
<1>9. Authenticated(u, ref, material) = Authenticated(v, ref, material)
  BY <1>8, SameClosure
<1> QED BY <1>9 DEF u, v

\* What is established is a tree.
LEMMA EstablishedIsATree ==
  ASSUME CommandInv, Established
  PROVE  got \in Trees
BY CheckpointSizes DEF CommandInv, ViewInv, ViewTypeOK, Weighed

\* What anybody else anchors changes no closure, and neither does a challenge
\* that is no copy: governance.rs resolve, anchored.rs Statements::build and
\* governing_trigger.
THEOREM OnlyTheAuthorityCounts == Spec => []OnlyAuthorityCounts
<1>1. CommandInv => OnlyAuthorityCounts
  <2> DEFINE v == ViewOf(got)
  <2> DEFINE theirs(i) == ByOutsider(At(v, i))
  <2> DEFINE challenges(i) == Challenge(v, i) /\ AnchoredOnce(v, i)
  <2> DEFINE junk == CHOOSE e \in Envelopes : Broken(e)
  <2> SUFFICES ASSUME CommandInv, Established,
                      NEW u \in {ViewOf(Without(got, theirs)), ViewOf(Without(got, challenges))}
               PROVE  Authenticated(u, cmd.trigger, cmd.material) = Authenticated(v, cmd.trigger, cmd.material)
    BY DEF OnlyAuthorityCounts, Established
  <2>1. got \in Trees
    BY EstablishedIsATree
  <2>2. junk \in Envelopes /\ Broken(junk)
    BY BrokenAssumption
  <2> DEFINE rest == Without(got, theirs)
  <2> DEFINE unchallenged == Without(got, challenges)
  <2>3. got \in Seq(Envelopes) /\ DOMAIN got = 1..Len(got) /\ Len(got) \in Nat
    BY <2>1 DEF Trees
  <2>4. /\ rest \in Trees /\ Len(rest) = Len(got)
        /\ \A n \in 1..Len(got) : rest[n] = IF theirs(n - 1) THEN junk ELSE got[n]
    <3>1. rest = [n \in DOMAIN got |-> IF theirs(n - 1) THEN junk ELSE got[n]]
      BY DEF Without
    <3> HIDE DEF theirs, junk, rest
    <3>2. rest \in Seq(Envelopes) /\ Len(rest) = Len(got)
      BY <2>2, <2>3, <3>1
    <3> QED BY <2>1, <2>3, <3>1, <3>2 DEF Trees
  <2>5. /\ unchallenged \in Trees /\ Len(unchallenged) = Len(got)
        /\ \A n \in 1..Len(got) : unchallenged[n] = IF challenges(n - 1) THEN junk ELSE got[n]
    <3>1. unchallenged = [n \in DOMAIN got |-> IF challenges(n - 1) THEN junk ELSE got[n]]
      BY DEF Without
    <3> HIDE DEF challenges, junk, unchallenged
    <3>2. unchallenged \in Seq(Envelopes) /\ Len(unchallenged) = Len(got)
      BY <2>2, <2>3, <3>1
    <3> QED BY <2>1, <2>3, <3>1, <3>2 DEF Trees
  <2>6. \A n \in 1..Len(got) : theirs(n - 1) => ByOutsider(got[n])
    BY <2>3 DEF At, ViewOf
  <2>7. \A n \in 1..Len(got) : challenges(n - 1) => Challenge(ViewOf(got), n - 1) /\ AnchoredOnce(ViewOf(got), n - 1)
    OBVIOUS
  <2> HIDE DEF rest, unchallenged, junk, theirs, challenges
  <2>8. Authenticated(ViewOf(rest), cmd.trigger, cmd.material) = Authenticated(ViewOf(got), cmd.trigger, cmd.material)
    BY <2>1, <2>2, <2>4, <2>6, ClosureOfTheRest
  <2>9. Authenticated(ViewOf(unchallenged), cmd.trigger, cmd.material)
          = Authenticated(ViewOf(got), cmd.trigger, cmd.material)
    BY <2>1, <2>2, <2>5, <2>7, ClosureOfTheRest
  <2> QED BY <2>8, <2>9 DEF rest, unchallenged
<1> QED BY <1>1, CommandInvariant, PTL

-----------------------------------------------------------------------------
(***************************************************************************)
(* What the arithmetic of durations computes.                              *)
(***************************************************************************)

\* Induction up to a bound, over a set.
LEMMA Upwards ==
  ASSUME NEW N \in Nat, NEW S, 0 \in S, \A k \in 1..N : k - 1 \in S => k \in S
  PROVE  0..N \subseteq S
<1> DEFINE Lacking == {k \in 0..N : k \notin S}
<1> SUFFICES ASSUME Lacking # {} PROVE FALSE
  OBVIOUS
<1>1. PICK k \in Lacking : \A m \in Lacking : k <= m
  <2>1. Lacking \in SUBSET Nat
    OBVIOUS
  <2> HIDE DEF Lacking
  <2> QED BY <2>1, NatHasLeast
<1>2. k \in 1..N /\ k - 1 \in 0..N /\ k - 1 \notin Lacking
  BY <1>1
<1> QED BY <1>1, <1>2

\* f is where the steps from a value lead.
Accrues(f, N, value, step_) == f[0] = value /\ \A k \in 1..N : f[k] = step_[k][f[k - 1]]

LEMMA Recursion ==
  ASSUME NEW N \in Nat, NEW V, NEW z \in V, NEW F \in [1..N -> [V -> V]]
  PROVE  \E f \in [0..N -> V] : Accrues(f, N, z, F)
<1> DEFINE S == {n \in 0..N : \E f \in [0..n -> V] : Accrues(f, n, z, F)}
<1>1. 0 \in S
  <2> DEFINE f == [m \in 0..0 |-> z]
  <2>1. f \in [0..0 -> V] /\ Accrues(f, 0, z, F)
    BY DEF Accrues
  <2> HIDE DEF f
  <2> QED BY <2>1
<1>2. ASSUME NEW n \in 1..N, n - 1 \in S PROVE n \in S
  <2>1. PICK f \in [0..(n - 1) -> V] : Accrues(f, n - 1, z, F)
    BY <1>2
  <2> DEFINE next == F[n][f[n - 1]]
  <2>2. next \in V
    OBVIOUS
  <2> DEFINE g == [m \in 0..n |-> IF m = n THEN next ELSE f[m]]
  <2>3. g \in [0..n -> V] /\ g[0] = z /\ g[n] = next /\ \A m \in 0..(n - 1) : g[m] = f[m]
    <3> HIDE DEF next
    <3> QED BY <2>1, <2>2 DEF Accrues
  <2>4. ASSUME NEW k \in 1..n PROVE g[k] = F[k][g[k - 1]]
    <3>1. k - 1 \in 0..(n - 1) /\ (k = n \/ k \in 1..(n - 1))
      OBVIOUS
    <3> HIDE DEF g
    <3> QED BY <2>1, <2>3, <3>1 DEF Accrues
  <2>5. Accrues(g, n, z, F)
    BY <2>3, <2>4 DEF Accrues
  <2> HIDE DEF g
  <2> QED BY <2>3, <2>5
<1>3. \A n \in 1..N : n - 1 \in S => n \in S
  <2> HIDE DEF S
  <2> QED BY <1>2
<1>4. 0..N \subseteq S
  <2> HIDE DEF S
  <2> QED BY <1>1, <1>3, Upwards
<1>5. N \in S
  <2> HIDE DEF S
  <2> QED BY <1>4
<1> QED BY <1>5

\* Of such functions there is one.
Alike(f, g, N) == f[0] = g[0] /\ \A k \in 1..N : f[k - 1] = g[k - 1] => f[k] = g[k]

LEMMA OneRecursion ==
  ASSUME NEW N \in Nat, NEW f, NEW g, Alike(f, g, N)
  PROVE  \A k \in 0..N : f[k] = g[k]
<1> DEFINE S == {k \in 0..N : f[k] = g[k]}
<1>1. 0 \in S
  BY DEF Alike
<1>2. \A k \in 1..N : k - 1 \in S => k \in S
  BY DEF Alike
<1>3. 0..N \subseteq S
  <2> HIDE DEF S
  <2> QED BY <1>1, <1>2, Upwards
<1> QED BY <1>3

LEMMA PowersOfTen ==
  /\ TenTo[0] = 1
  /\ \A n \in 1..MaxDigits : TenTo[n] = 10 * TenTo[n - 1]
  /\ \A n \in 0..MaxDigits : TenTo[n] \in Nat
<1> DEFINE Is(g) == g = [n \in 0..MaxDigits |-> IF n = 0 THEN 1 ELSE 10 * g[n - 1]]
<1> DEFINE F == [k \in 1..MaxDigits |-> [x \in Nat |-> 10 * x]]
<1>1. F \in [1..MaxDigits -> [Nat -> Nat]] /\ \A k \in 1..MaxDigits, x \in Nat : F[k][x] = 10 * x
  OBVIOUS
<1>2. PICK f \in [0..MaxDigits -> Nat] : Accrues(f, MaxDigits, 1, F)
  <2> HIDE DEF F
  <2> QED BY <1>1, DurationsAssumption, Recursion
<1>3. f[0] = 1 /\ \A k \in 1..MaxDigits : f[k] = 10 * f[k - 1]
  <2> HIDE DEF F
  <2>1. f[0] = 1 /\ \A k \in 1..MaxDigits : f[k] = F[k][f[k - 1]]
    BY <1>2 DEF Accrues
  <2>2. \A k \in 1..MaxDigits : k - 1 \in 0..MaxDigits
    BY DurationsAssumption
  <2> QED BY <1>1, <2>1, <2>2
<1>4. Is(f)
  <2>1. ASSUME NEW n \in 0..MaxDigits PROVE f[n] = IF n = 0 THEN 1 ELSE 10 * f[n - 1]
    BY <1>2, <1>3, DurationsAssumption
  <2> QED BY <2>1
<1>5. TenTo = CHOOSE g : Is(g)
  BY DEF TenTo
<1>6. Is(TenTo)
  <2> HIDE DEF Is
  <2> QED BY <1>4, <1>5
<1>7. TenTo[0] = 1 /\ \A n \in 1..MaxDigits : TenTo[n] = 10 * TenTo[n - 1]
  <2>1. \A n \in 0..MaxDigits : TenTo[n] = IF n = 0 THEN 1 ELSE 10 * TenTo[n - 1]
    BY <1>6
  <2> QED BY <2>1, DurationsAssumption
<1>8. \A n \in 0..MaxDigits : f[n] = TenTo[n]
  <2>1. MaxDigits \in Nat /\ Alike(f, TenTo, MaxDigits)
    BY <1>3, <1>7, DurationsAssumption DEF Alike
  <2> HIDE DEF Is
  <2> QED BY <2>1, OneRecursion
<1> QED BY <1>7, <1>8

LEMMA DigitsAccumulate ==
  ASSUME NEW ds \in Seq(0..9)
  PROVE  \E f \in [0..Len(ds) -> Nat] : /\ f[0] = 0
                                        /\ \A n \in 1..Len(ds) : f[n] = f[n - 1] * 10 + ds[n]
                                        /\ Written(ds) = f[Len(ds)]
<1> DEFINE L == Len(ds)
<1> DEFINE Is(g) == g = [n \in 0..L |-> IF n = 0 THEN 0 ELSE g[n - 1] * 10 + ds[n]]
<1> DEFINE F == [k \in 1..L |-> [x \in Nat |-> x * 10 + ds[k]]]
<1> DEFINE w == CHOOSE g : Is(g)
<1>0. L \in Nat /\ \A n \in 1..L : ds[n] \in Nat
  OBVIOUS
<1>1. F \in [1..L -> [Nat -> Nat]] /\ \A k \in 1..L, x \in Nat : F[k][x] = x * 10 + ds[k]
  BY <1>0
<1>2. PICK f \in [0..L -> Nat] : Accrues(f, L, 0, F)
  <2> HIDE DEF F, L
  <2> QED BY <1>0, <1>1, Recursion
<1>3. f[0] = 0 /\ \A k \in 1..L : f[k] = f[k - 1] * 10 + ds[k]
  <2> HIDE DEF F
  <2>1. f[0] = 0 /\ \A k \in 1..L : f[k] = F[k][f[k - 1]]
    BY <1>2 DEF Accrues
  <2>2. \A k \in 1..L : k - 1 \in 0..L
    BY <1>0
  <2> QED BY <1>1, <2>1, <2>2
<1>4. Is(f)
  <2>1. ASSUME NEW n \in 0..L PROVE f[n] = IF n = 0 THEN 0 ELSE f[n - 1] * 10 + ds[n]
    BY <1>2, <1>3
  <2> QED BY <2>1
<1>5. Written(ds) = w[L]
  BY DEF Written
<1>6. Is(w)
  <2> HIDE DEF Is
  <2> QED BY <1>4
<1> HIDE DEF w
<1>7. w[0] = 0 /\ \A n \in 1..L : w[n] = w[n - 1] * 10 + ds[n]
  <2>1. \A n \in 0..L : w[n] = IF n = 0 THEN 0 ELSE w[n - 1] * 10 + ds[n]
    BY <1>6
  <2> QED BY <2>1, <1>0
<1>8. \A n \in 0..L : f[n] = w[n]
  <2>1. L \in Nat /\ Alike(f, w, L)
    BY <1>3, <1>7, <1>0 DEF Alike
  <2> HIDE DEF Is, L
  <2> QED BY <2>1, OneRecursion
<1>9. Written(ds) = f[L]
  BY <1>0, <1>5, <1>8
<1>10. f \in [0..Len(ds) -> Nat]
  OBVIOUS
<1> QED BY <1>3, <1>9, <1>10

LEMMA LengthsAccumulate ==
  ASSUME NEW N \in Nat, NEW lengths, DOMAIN lengths = 1..N, Len(lengths) = N, \A n \in 1..N : lengths[n] \in Int
  PROVE  \E f \in [0..N -> Int] : /\ f[0] = 0
                                  /\ \A n \in 1..N : f[n] = f[n - 1] + lengths[n]
                                  /\ Total(lengths) = f[N]
<1> DEFINE Is(g) == g = [n \in 0..N |-> IF n = 0 THEN 0 ELSE g[n - 1] + lengths[n]]
<1> DEFINE F == [k \in 1..N |-> [x \in Int |-> x + lengths[k]]]
<1> DEFINE w == CHOOSE g : Is(g)
<1>1. 0 \in Int /\ F \in [1..N -> [Int -> Int]] /\ \A k \in 1..N, x \in Int : F[k][x] = x + lengths[k]
  OBVIOUS
<1>2. PICK f \in [0..N -> Int] : Accrues(f, N, 0, F)
  <2> HIDE DEF F
  <2> QED BY <1>1, Recursion
<1>3. f[0] = 0 /\ \A k \in 1..N : f[k] = f[k - 1] + lengths[k]
  <2> HIDE DEF F
  <2>1. f[0] = 0 /\ \A k \in 1..N : f[k] = F[k][f[k - 1]]
    BY <1>2 DEF Accrues
  <2>2. \A k \in 1..N : k - 1 \in 0..N
    BY N \in Nat
  <2> QED BY <1>1, <2>1, <2>2
<1>4. Is(f)
  <2>1. ASSUME NEW n \in 0..N PROVE f[n] = IF n = 0 THEN 0 ELSE f[n - 1] + lengths[n]
    BY <1>2, <1>3
  <2> QED BY <2>1
<1>5. Total(lengths) = w[N]
  BY DEF Total
<1>6. Is(w)
  <2> HIDE DEF Is
  <2> QED BY <1>4
<1> HIDE DEF w
<1>7. w[0] = 0 /\ \A n \in 1..N : w[n] = w[n - 1] + lengths[n]
  <2>1. \A n \in 0..N : w[n] = IF n = 0 THEN 0 ELSE w[n - 1] + lengths[n]
    BY <1>6
  <2> QED BY <2>1
<1>8. \A n \in 0..N : f[n] = w[n]
  <2>1. N \in Nat /\ Alike(f, w, N)
    BY <1>3, <1>7 DEF Alike
  <2> HIDE DEF Is
  <2> QED BY <2>1, OneRecursion
<1>9. Total(lengths) = f[N]
  BY <1>5, <1>8
<1> QED BY <1>3, <1>9

LEMMA MovesADigit ==
  ASSUME NEW w \in Int, NEW d \in Int, NEW T \in Int
  PROVE  (w * 10 + d) * T = w * (10 * T) + d * T
OBVIOUS

\* The digits of a fraction, padded, are the nanoseconds they stand for.
LEMMA FractionsAreExact ==
  ASSUME NEW ds \in Seq(0..9), Len(ds) \in 1..MaxDigits
  PROVE  FractionLength(ds) \in Int /\ Written(ds) * TenTo[MaxDigits - Len(ds)] = FractionLength(ds)
<1> DEFINE L == Len(ds)
<1> DEFINE lengths == [k \in 1..L |-> ds[k] * TenTo[MaxDigits - k]]
<1>1. L \in Nat /\ MaxDigits \in Nat /\ L \in 1..MaxDigits /\ \A k \in 1..L : ds[k] \in Nat
  BY DurationsAssumption
<1>2. PICK w \in [0..L -> Nat] : /\ w[0] = 0 /\ \A n \in 1..L : w[n] = w[n - 1] * 10 + ds[n]
                                 /\ Written(ds) = w[L]
  BY DigitsAccumulate
<1>3. \A k \in 0..L : TenTo[MaxDigits - k] \in Nat
  <2> HIDE DEF L
  <2> QED BY <1>1, PowersOfTen
<1>4. \A k \in 1..L : TenTo[MaxDigits - (k - 1)] = 10 * TenTo[MaxDigits - k]
  <2> SUFFICES ASSUME NEW k \in 1..L PROVE TenTo[MaxDigits - (k - 1)] = 10 * TenTo[MaxDigits - k]
    OBVIOUS
  <2> DEFINE n == MaxDigits - (k - 1)
  <2>1. n \in 1..MaxDigits /\ n - 1 = MaxDigits - k
    <3> HIDE DEF L
    <3> QED BY <1>1
  <2> HIDE DEF n
  <2>2. TenTo[n] = 10 * TenTo[n - 1]
    BY <2>1, PowersOfTen
  <2> QED BY <2>1, <2>2 DEF n
<1>5. /\ DOMAIN lengths = 1..L /\ Len(lengths) = L
      /\ \A k \in 1..L : lengths[k] = ds[k] * TenTo[MaxDigits - k] /\ lengths[k] \in Int
  <2>1. \A k \in 1..L : ds[k] * TenTo[MaxDigits - k] \in Int
    <3> HIDE DEF L
    <3> QED BY <1>1, <1>3
  <2> QED BY <1>1, <2>1
<1>6. FractionLength(ds) = Total(lengths)
  BY DEF FractionLength
<1> HIDE DEF lengths, L
<1>7. PICK t \in [0..L -> Int] : /\ t[0] = 0 /\ \A n \in 1..L : t[n] = t[n - 1] + lengths[n]
                                 /\ Total(lengths) = t[L]
  BY <1>1, <1>5, LengthsAccumulate
<1> DEFINE S == {n \in 0..L : w[n] * TenTo[MaxDigits - n] = t[n]}
<1>8. 0 \in S
  BY <1>1, <1>2, <1>3, <1>7
<1>9. ASSUME NEW n \in 1..L, n - 1 \in S PROVE n \in S
  <2> DEFINE T == TenTo[MaxDigits - n]
  <2>0. n - 1 \in 0..L /\ n \in 0..L
    BY <1>1
  <2>1. n \in 0..L /\ T \in Int /\ w[n - 1] \in Int /\ ds[n] \in Int
    <3>1. w[n - 1] \in Nat /\ ds[n] \in Nat /\ T \in Nat
      BY <1>1, <1>3, <2>0
    <3> HIDE DEF T
    <3> QED BY <2>0, <3>1
  <2>2. TenTo[MaxDigits - (n - 1)] = 10 * T /\ w[n - 1] * TenTo[MaxDigits - (n - 1)] = t[n - 1]
    BY <1>4, <1>9
  <2>3. w[n] = w[n - 1] * 10 + ds[n] /\ t[n] = t[n - 1] + ds[n] * T
    BY <1>2, <1>5, <1>7
  <2> HIDE DEF T
  <2>4. (w[n - 1] * 10 + ds[n]) * T = w[n - 1] * (10 * T) + ds[n] * T
    BY <2>1, MovesADigit
  <2>5. w[n] * T = t[n]
    BY <2>2, <2>3, <2>4
  <2> QED BY <2>1, <2>5 DEF T
<1>10. L \in S
  <2>1. \A n \in 1..L : n - 1 \in S => n \in S
    <3> HIDE DEF S
    <3> QED BY <1>9
  <2>2. 0..L \subseteq S
    <3> HIDE DEF S
    <3> QED BY <1>1, <1>8, <2>1, Upwards
  <2> HIDE DEF S
  <2> QED BY <1>1, <2>2
<1> QED BY <1>1, <1>2, <1>6, <1>7, <1>10 DEF L

\* What is read of a component is its length, or nothing.
Units == {"D", "H", "M", "S"}

LEMMA ComponentsAreExact ==
  ASSUME NEW c \in Component, NEW units \in SUBSET Units, ComponentNanos(c, units) # Unread
  PROVE  ComponentNanos(c, units) \in Nat /\ ComponentLength(c) = ComponentNanos(c, units)
<1> DEFINE seconds == SecondsOf(c.unit)
<1> DEFINE whole == CheckedProduct(CheckedProduct(TakeNumber(c), seconds), NanosPerSecond)
<1> DEFINE fraction == IF HasFraction(c) THEN FractionalNanos(c.digits) ELSE 0
<1> DEFINE length == IF HasFraction(c) THEN FractionLength(c.digits) ELSE 0
<1>1. c.unit \in units /\ ComponentNanos(c, units) = CheckedSum(whole, fraction)
  BY DEF ComponentNanos
<1>2. seconds \in Nat /\ NanosPerSecond \in Nat
  BY <1>1, DurationsAssumption, PowersOfTen DEF Units, SecondsOf, NanosPerSecond
<1>3. fraction # Unread => fraction = length /\ fraction \in Nat
  <2>1. CASE ~HasFraction(c)
    BY <2>1
  <2>2. CASE HasFraction(c)
    <3> SUFFICES ASSUME fraction # Unread PROVE fraction = length /\ fraction \in Nat
      OBVIOUS
    <3>1. c.digits \in Seq(0..9) /\ Len(c.digits) \in 1..MaxDigits
      BY <2>2 DEF Component, HasFraction, FractionalNanos
    <3>2. fraction = Written(c.digits) * TenTo[MaxDigits - Len(c.digits)] /\ length = FractionLength(c.digits)
      BY <2>2, <3>1 DEF FractionalNanos
    <3>3. Written(c.digits) \in Nat
      <4>1. PICK f \in [0..Len(c.digits) -> Nat] : Written(c.digits) = f[Len(c.digits)]
        BY <3>1, DigitsAccumulate
      <4>2. Len(c.digits) \in 0..Len(c.digits)
        BY <3>1
      <4> QED BY <4>1, <4>2
    <3>4. TenTo[MaxDigits - Len(c.digits)] \in Nat
      BY <3>1, DurationsAssumption, PowersOfTen
    <3> QED BY <3>1, <3>2, <3>3, <3>4, FractionsAreExact
  <2> QED BY <2>1, <2>2
<1> HIDE DEF fraction, length, seconds
<1>4. TakeNumber(c) # Unread => TakeNumber(c) = c.number /\ c.number \in Nat
  BY DEF Component, TakeNumber, Checked, Unread, Nothing
<1>5. \A m, n \in Nat : m * n \in Nat
  OBVIOUS
<1>6. whole # Unread => whole = c.number * seconds * NanosPerSecond /\ whole \in Nat
  <2> DEFINE inner == CheckedProduct(TakeNumber(c), seconds)
  <2>1. inner # Unread => c.number \in Nat /\ inner = c.number * seconds
    BY <1>2, <1>4 DEF CheckedProduct
  <2>2. inner # Unread => inner \in Nat
    BY <1>2, <1>5, <2>1
  <2>3. whole = CheckedProduct(inner, NanosPerSecond)
    OBVIOUS
  <2> HIDE DEF inner, whole
  <2>4. whole # Unread => inner # Unread /\ whole = inner * NanosPerSecond
    BY <2>3 DEF CheckedProduct
  <2> QED BY <1>2, <1>5, <2>1, <2>2, <2>4
<1> HIDE DEF whole
<1>7. whole # Unread /\ fraction # Unread /\ ComponentNanos(c, units) = whole + fraction
  BY <1>1, <1>3, <1>6 DEF CheckedSum, Checked
<1>8. ComponentLength(c) = c.number * seconds * NanosPerSecond + length
  BY DEF ComponentLength, seconds, length
<1> QED BY <1>3, <1>6, <1>7, <1>8

\* What is read of a part is the length of its components, or nothing.
LEMMA PartsAreExact ==
  ASSUME NEW part \in Seq(Component), NEW units \in SUBSET Units
  PROVE  /\ PartNanos(part, units) \in Nat \cup {Unread}
         /\ PartNanos(part, units) # Unread =>
              PartLength(part) = PartNanos(part, units) /\ PartNanos(part, units) <= MaxNanos
<1> DEFINE L == Len(part)
<1> DEFINE Read == Nat \cup {Unread}
<1> DEFINE nanos(n) == ComponentNanos(part[n], units)
<1> DEFINE Is(g) == g = [n \in 0..L |-> IF n = 0 THEN 0 ELSE CheckedSum(g[n - 1], nanos(n))]
<1> DEFINE p == CHOOSE g : Is(g)
<1> DEFINE F == [k \in 1..L |-> [x \in Read |-> CheckedSum(x, nanos(k))]]
<1>1. L \in Nat /\ MaxNanos \in Nat /\ \A n \in 1..L : part[n] \in Component
  BY DurationsAssumption
<1>2. \A n \in 1..L : nanos(n) # Unread => nanos(n) \in Nat /\ ComponentLength(part[n]) = nanos(n)
  <2> HIDE DEF L
  <2> QED BY <1>1, ComponentsAreExact
<1> HIDE DEF nanos
<1>3. \A n \in 1..L, x \in Read : CheckedSum(x, nanos(n)) \in Read
  BY <1>2 DEF CheckedSum, Checked
<1>4. F \in [1..L -> [Read -> Read]] /\ \A k \in 1..L, x \in Read : F[k][x] = CheckedSum(x, nanos(k))
  <2> HIDE DEF L, Read
  <2> QED BY <1>3
<1>5. PICK f \in [0..L -> Read] : Accrues(f, L, 0, F)
  <2>1. 0 \in Read
    OBVIOUS
  <2> HIDE DEF F, L, Read
  <2> QED BY <1>1, <1>4, <2>1, Recursion
<1>6. f[0] = 0 /\ \A k \in 1..L : f[k] = CheckedSum(f[k - 1], nanos(k))
  <2> HIDE DEF F, Read
  <2>1. f[0] = 0 /\ \A k \in 1..L : f[k] = F[k][f[k - 1]]
    BY <1>5 DEF Accrues
  <2>2. \A k \in 1..L : k - 1 \in 0..L
    BY <1>1
  <2> QED BY <1>4, <2>1, <2>2
<1>7. Is(f)
  <2>1. ASSUME NEW n \in 0..L PROVE f[n] = IF n = 0 THEN 0 ELSE CheckedSum(f[n - 1], nanos(n))
    BY <1>1, <1>6
  <2> QED BY <2>1
<1>8. PartNanos(part, units) = p[L]
  BY DEF PartNanos, nanos
<1>9. Is(p)
  <2> HIDE DEF Is
  <2> QED BY <1>7
<1> HIDE DEF p
<1>10. p[0] = 0 /\ \A n \in 1..L : p[n] = CheckedSum(p[n - 1], nanos(n))
  <2>1. \A n \in 0..L : p[n] = IF n = 0 THEN 0 ELSE CheckedSum(p[n - 1], nanos(n))
    BY <1>9
  <2> QED BY <1>1, <2>1
<1>11. \A n \in 0..L : f[n] = p[n]
  <2>1. L \in Nat /\ Alike(f, p, L)
    BY <1>1, <1>6, <1>10 DEF Alike
  <2> HIDE DEF Is, L
  <2> QED BY <2>1, OneRecursion
<1>12. L \in 0..L /\ PartNanos(part, units) = f[L] /\ f[L] \in Read
  BY <1>1, <1>8, <1>11
<1> SUFFICES ASSUME f[L] # Unread PROVE PartLength(part) = f[L] /\ f[L] <= MaxNanos
  <2> HIDE DEF L
  <2> QED BY <1>12
<1>13. ASSUME NEW k \in 1..L, f[k] # Unread
       PROVE  /\ f[k - 1] \in Nat /\ nanos(k) \in Nat /\ ComponentLength(part[k]) = nanos(k)
              /\ f[k] = f[k - 1] + nanos(k) /\ f[k] <= MaxNanos
  <2>1. f[k - 1] # Unread /\ nanos(k) # Unread /\ f[k] = Checked(f[k - 1] + nanos(k))
    BY <1>6, <1>13 DEF CheckedSum
  <2>2. k - 1 \in 0..L
    BY <1>1
  <2>3. f[k - 1] \in Nat /\ nanos(k) \in Nat /\ ComponentLength(part[k]) = nanos(k)
    BY <1>2, <2>1, <2>2
  <2> HIDE DEF L
  <2> QED BY <1>1, <1>13, <2>1, <2>3 DEF Checked
<1>14. \A k \in 0..L : f[k] # Unread
  <2> DEFINE S == {n \in 0..L : f[L - n] # Unread}
  <2>1. L \in Nat
    BY <1>1
  <2> HIDE DEF L
  <2>2. 0 \in S
    BY <2>1
  <2>3. ASSUME NEW n \in 1..L, n - 1 \in S PROVE n \in S
    <3> DEFINE k == L - (n - 1)
    <3>1. k \in 1..L /\ k - 1 = L - n /\ n \in 0..L /\ f[k] # Unread
      BY <2>1, <2>3
    <3> HIDE DEF k
    <3>2. f[k - 1] \in Nat
      BY <1>13, <3>1
    <3> QED BY <3>1, <3>2 DEF Unread
  <2>4. \A n \in 1..L : n - 1 \in S => n \in S
    <3> HIDE DEF S
    <3> QED BY <2>3
  <2>5. 0..L \subseteq S
    <3> HIDE DEF S
    <3> QED BY <2>1, <2>2, <2>4, Upwards
  <2> TAKE k \in 0..L
  <2>6. L - k \in S /\ L - (L - k) = k
    <3> HIDE DEF S
    <3> QED BY <2>1, <2>5
  <2> QED BY <2>6
<1> DEFINE lengths == [n \in 1..L |-> ComponentLength(part[n])]
<1>15. PartLength(part) = Total(lengths)
  BY DEF PartLength
<1>16. DOMAIN lengths = 1..L /\ Len(lengths) = L /\ \A n \in 1..L : lengths[n] = ComponentLength(part[n])
  BY <1>1
<1> HIDE DEF lengths, L, F, Is
<1>17. \A n \in 1..L : /\ nanos(n) \in Nat /\ lengths[n] = nanos(n)
                       /\ f[n] = f[n - 1] + nanos(n) /\ f[n] <= MaxNanos
  <2> TAKE n \in 1..L
  <2>1. f[n] # Unread
    BY <1>1, <1>14
  <2> QED BY <1>13, <1>16, <2>1
<1>18. \A n \in 1..L : lengths[n] \in Int
  BY <1>17
<1>19. PICK t \in [0..L -> Int] : /\ t[0] = 0 /\ \A n \in 1..L : t[n] = t[n - 1] + lengths[n]
                                  /\ Total(lengths) = t[L]
  BY <1>1, <1>16, <1>18, LengthsAccumulate
<1>20. \A n \in 0..L : f[n] = t[n]
  <2>1. L \in Nat /\ Alike(f, t, L)
    BY <1>1, <1>6, <1>17, <1>19 DEF Alike
  <2> QED BY <2>1, OneRecursion
<1>21. f[L] <= MaxNanos
  <2>1. CASE L = 0
    BY <1>1, <1>6, <2>1
  <2>2. CASE L # 0
    BY <1>1, <1>17, <2>2
  <2> QED BY <2>1, <2>2
<1> QED BY <1>12, <1>15, <1>19, <1>20, <1>21

\* No duration is read as another length than it has.
LEMMA DurationsAreExact ==
  ASSUME NEW d \in Spellings
  PROVE  ParseDuration(d) \in Nat \cup {Unread} /\ ReadsExactly(d)
<1> DEFINE days == PartNanos(d.date, {"D"})
<1> DEFINE times == PartNanos(d.time, {"H", "M", "S"})
<1>1. d.date \in Seq(Component) /\ d.time \in Seq(Component) /\ (~d.timed => d.time = <<>>)
  BY DEF Spellings
<1>2. {"D"} \in SUBSET Units /\ {"H", "M", "S"} \in SUBSET Units
  BY DEF Units
<1>3. days \in Nat \cup {Unread} /\ (days # Unread => PartLength(d.date) = days /\ days <= MaxNanos)
  BY <1>1, <1>2, PartsAreExact
<1>4. times \in Nat \cup {Unread} /\ (times # Unread => PartLength(d.time) = times /\ times <= MaxNanos)
  BY <1>1, <1>2, PartsAreExact
<1>5. d.time = <<>> => PartLength(d.time) = 0
  <2> SUFFICES ASSUME d.time = <<>> PROVE PartLength(<<>>) = 0
    OBVIOUS
  <2> DEFINE lengths == [n \in 1..Len(<<>>) |-> ComponentLength(<<>>[n])]
  <2>1. DOMAIN lengths = 1..0 /\ Len(lengths) = 0
    OBVIOUS
  <2>2. PartLength(<<>>) = Total(lengths)
    BY DEF PartLength
  <2> HIDE DEF lengths
  <2> QED BY <2>1, <2>2, LengthsAccumulate
<1>6. ParseDuration(d) = WithDays(d, days)
  BY DEF ParseDuration
<1>7. WithDays(d, days) = IF ~d.timed THEN (IF days = 0 THEN Unread ELSE days)
                          ELSE IF d.time = <<>> THEN Unread ELSE CheckedSum(days, times)
  BY DEF WithDays
<1> HIDE DEF days, times
<1>8. CASE ~d.timed
  BY <1>1, <1>3, <1>5, <1>6, <1>7, <1>8 DEF ReadsExactly, Exactly, Length, Unread
<1>9. CASE d.timed
  <2>1. CASE d.time = <<>>
    BY <1>6, <1>7, <1>9, <2>1 DEF ReadsExactly, Exactly
  <2>2. CASE d.time # <<>>
    <3>1. ParseDuration(d) = CheckedSum(days, times)
      BY <1>6, <1>7, <1>9, <2>2
    <3> QED BY <1>3, <1>4, <3>1, DurationsAssumption DEF ReadsExactly, Exactly, Length, CheckedSum, Checked, Unread
  <2> QED BY <2>1, <2>2
<1> QED BY <1>8, <1>9

\* A receipt that is stale is stale for ever.
LEMMA AgeOnlyGrows ==
  ASSUME NEW a \in Artifacts, NEW v \in Verifiers, NEW o \in Verifiers,
         o = [v EXCEPT !.now = o.now], o.now >= v.now, Stale(a, v)
  PROVE  Stale(a, o)
<1>1. a.time \in Nat /\ a.cadence \in Spellings /\ a.grace \in Spellings /\ v.now \in Nat /\ o.now \in Nat
  BY ArtifactsAssumption, VerifiersAssumption DEF ReceiptsCarried
<1>2. CadenceAndGrace(a.cadence, a.grace) \in Nat \cup {Unread}
  <2>1. ParseDuration(a.cadence) \in Nat \cup {Unread} /\ ParseDuration(a.grace) \in Nat \cup {Unread}
    BY <1>1, DurationsAreExact
  <2> QED BY <2>1 DEF CadenceAndGrace, Obligation
<1> QED BY <1>1, <1>2 DEF Stale, OlderThan, NanosSince, Unread

-----------------------------------------------------------------------------
(***************************************************************************)
(* What follows for every run.                                             *)
(***************************************************************************)

\* Nothing is established where there is no log.
LEMMA EstablishedOfALog ==
  ASSUME CommandInv, Established
  PROVE  world \in Worlds
<1> SUFFICES ASSUME world = Nowhere PROVE FALSE
  BY DEF CommandInv
<1>1. world.history = <<>> /\ world.forged = {}
  BY DEF Nowhere
<1>2. upto \in 0..0 /\ cp \in series /\ series \subseteq Offered
  BY <1>1 DEF CommandInv, ViewInv, ViewTypeOK
<1> QED BY <1>1, <1>2 DEF Offered, Published

\* Every variable keeps to its values, and a run answers exactly when it is
\* over.
THEOREM CommandsAreTyped == Spec => []CommandsTypeOK
<1>1. CommandInv => CommandsTypeOK
  <2> SUFFICES ASSUME CommandInv PROVE CommandsTypeOK
    OBVIOUS
  <2>1. forward \in Cosigned => forward # NoEntry
    BY CheckpointSizes DEF Cosigned, NoEntry, NoCheckpoint, Size
  <2> QED BY <2>1 DEF CommandInv, CommandsTypeOK, Reaches, ViewInv
<1> QED BY <1>1, CommandInvariant, PTL

\* Whoever serves it and whoever may anchor entries, no run establishes a tree
\* that is not the one a checkpoint the log published commits.
THEOREM ViewsAreTheLogs == Spec => []GroundedInTheLog
<1>1. CommandInv => GroundedInTheLog
  <2> SUFFICES ASSUME CommandInv, Established PROVE GroundedInTheLog
    BY DEF GroundedInTheLog
  <2> QED BY EstablishedOfALog, ViewIsGrounded DEF CommandInv
<1> QED BY <1>1, CommandInvariant, PTL

\* No mirror hides a divergence behind a result, and none has an honest log
\* accused; no refusal a witness publishes is evidence of another reason.
THEOREM DivergenceIsHeldAgainstTheLog == Spec => []DivergenceIsWeighed
<1>1. CommandInv => DivergenceIsWeighed
  <2> SUFFICES ASSUME CommandInv PROVE DivergenceIsWeighed
    OBVIOUS
  <2>1. NothingBeyondDivergence
    <3> SUFFICES ASSUME Established PROVE NothingBeyondDivergence
      BY DEF NothingBeyondDivergence
    <3> QED BY EstablishedOfALog, ViewIsGrounded DEF CommandInv
  <2>2. NoFalseAccusation
    BY DEF CommandInv, ViewInv, NoFalseAccusation, RefusalIsEvidence
  <2> QED BY <2>1, <2>2 DEF DivergenceIsWeighed
<1> QED BY <1>1, CommandInvariant, PTL

\* Whatever a lying witness shows, what is reconstructed is of a checkpoint it
\* did cosign, unless a key in force at that checkpoint is stolen.
THEOREM ReconstructionsAreWitnessed == Spec => []WitnessedInTruth
<1>1. CommandInv => WitnessedInTruth
  BY DEF CommandInv
<1> QED BY <1>1, CommandInvariant, PTL

\* No server, whatever its name resolves to and whatever it sends, gets more
\* bytes read than the budget or a plain answer taken from another machine.
THEOREM EveryPeerIsChecked == Spec => []PeersAreChecked
<1>1. CommandInv => PeersAreChecked
  <2> SUFFICES ASSUME CommandInv, NEW url \in Asked, NEW x \in Place.servers PROVE ExchangeIsChecked(url, x, MaxBody)
    BY DEF PeersAreChecked
  <2>1. x \in Exchanges /\ MaxBody \in Nat
    BY InvocationsAssumption, PlacesAssumption DEF CommandInv, Place
  <2> QED BY <2>1, EveryExchangeIsChecked
<1> QED BY <1>1, CommandInvariant, PTL

\* An honest deployment is served: whatever it goes on publishing and however
\* often it signs one root again, a run that asks for a size its series holds,
\* within the limits and with a smaller member observed, establishes it.
THEOREM HonestDeploymentsAreServed == Spec => []HonestDeploymentServed
<1>1. Init => ServedInv
  BY DEF Init, ServedInv, Serving, Paid, NeededBefore, Within
<1>2. CommandInv /\ ServedInv /\ [Next]_vars => ServedInv'
  BY ServedByCommand
<1>3. ServedInv => HonestDeploymentServed
  BY DEF ServedInv, Serving, Within, HonestDeploymentServed
<1> QED BY <1>1, <1>2, <1>3, CommandInvariant, PTL DEF Spec

\* A process that ends with 0 has said all it had to say and has done what its
\* command is for, under a policy and profiles that are the operator's own.
THEOREM SuccessIsTrue == Spec => []ExitTellsTruth
<1>1. Init => Told
  BY DEF Init, Told
<1>2. CommandInv /\ Told /\ [Next]_vars => Told'
  BY ToldByCommand
<1>3. CommandInv /\ Told => ExitTellsTruth
  <2> SUFFICES ASSUME CommandInv, Told, phase = "done", cmd.name # "refusal", ~Place.help, Exit = 0
               PROVE  Place.stdout = "open" /\ HasDoneItsWork
    BY DEF ExitTellsTruth
  <2>1. answer.outcome \in Outcomes /\ (answer.outcome = "valid" => Dispatch = "ok" /\ HasDoneItsWork)
    BY DEF Told
  <2>2. ~(Printed /\ Place.stdout = "broken") /\ answer.outcome = "valid"
    BY <2>1 DEF Exit, ExitCode, Outcomes
  <2>3. Place.stdout \in {"open", "broken"}
    BY InvocationsAssumption, PlacesAssumption DEF CommandInv, Place
  <2> QED BY <2>1, <2>2, <2>3 DEF Printed
<1> QED BY <1>1, <1>2, <1>3, CommandInvariant, PTL DEF Spec

\* Of two verifiers of one receipt none calls valid what the other calls
\* invalid, whatever profile, version, time or policy each goes by.
THEOREM VerifiersNeverContradict ==
  \A a \in Artifacts, v \in Verifiers : NoContradiction(a, v)
<1> SUFFICES ASSUME NEW a \in Artifacts, NEW v \in Verifiers, NEW o \in Verifiers
             PROVE  {VerifyBytes(a, v).outcome, VerifyBytes(a, o).outcome} # {"valid", "invalid"}
  BY DEF NoContradiction
<1>1. \A w : VerifyBytes(a, w).outcome = "valid" => a.json /\ a.canonical /\ a.names /\ a.core = "verified"
  BY ArtifactsAssumption DEF ReceiptsCarried, VerifyBytes, Overlaid, Decided, AppliedOverlays, Status
<1>2. \A w : VerifyBytes(a, w).outcome = "invalid" => ~(a.json /\ a.canonical /\ a.names /\ a.core = "verified")
  BY DEF VerifyBytes, Overlaid, Decided, AppliedOverlays, Status
<1> QED BY <1>1, <1>2

\* No time brings back a receipt a verifier has refused for want of freshness,
\* and what it was held to is what its manifest spells, to the nanosecond.
THEOREM TimeOnlyTakes == Spec => []VerifiersAgree
<1>1. CommandInv => VerifiersAgree
  <2> SUFFICES ASSUME CommandInv, cmd.name = "verify", phase = "done"
               PROVE  /\ NoContradiction(cmd.artifact, cmd.verifier)
                      /\ StaleStaysStale(cmd.artifact, cmd.verifier)
                      /\ HeldAsSpelled(cmd.artifact)
    BY DEF VerifiersAgree
  <2>1. cmd.artifact \in Artifacts /\ cmd.verifier \in Verifiers
    BY InvocationsAssumption DEF CommandInv
  <2> DEFINE a == cmd.artifact
  <2> DEFINE v == cmd.verifier
  <2>2. StaleStaysStale(a, v)
    <3> SUFFICES ASSUME v.requireFresh, VerifyBytes(a, v).outcome = "unverifiable", VerifyBytes(a, v).says = "valid",
                        NEW o \in Verifiers, o = [v EXCEPT !.now = o.now], o.now >= v.now
                 PROVE  VerifyBytes(a, o).outcome # "valid"
      BY DEF StaleStaysStale
    <3> HIDE DEF a, v
    <3>1. Stale(a, v)
      BY DEF VerifyBytes, Overlaid, Decided, AppliedOverlays, PolicyOverlays
    <3>2. Stale(a, o)
      BY <2>1, <3>1, AgeOnlyGrows DEF a, v
    <3>3. o.requireFresh
      BY <2>1, VerifiersAssumption DEF v
    <3>4. PolicyOverlays(a, o) # {}
      BY <3>2, <3>3 DEF PolicyOverlays
    <3>5. \A s : AppliedOverlays(PolicyOverlays(a, o), s) # "valid"
      BY <3>4 DEF AppliedOverlays
    <3> QED BY <3>5 DEF VerifyBytes, Overlaid, Decided
  <2>3. HeldAsSpelled(a)
    BY <2>1, ArtifactsAssumption, DurationsAreExact DEF ReceiptsCarried, HeldAsSpelled
  <2> QED BY <2>1, <2>2, <2>3, VerifiersNeverContradict
<1> QED BY <1>1, CommandInvariant, PTL
=============================================================================
