------------------------------ MODULE Commands ------------------------------
(***************************************************************************)
(* The commands, from the arguments to the exit code: closure and          *)
(* reconstruct against a mirror (and a witness), closure over a file,      *)
(* verify and inspect over receipts, emit over a payload, issue with its   *)
(* exchanges taken as one step, and the check of a witness refusal the     *)
(* library offers.  A behaviour is one run of one of them; the log         *)
(* publishes meanwhile.                                                    *)
(***************************************************************************)
EXTENDS WitnessEvidence, TopologyWalk, Receipts, Emit, Claims

CONSTANTS
  Places,       \* what a run may find where it is started, in some order
  Invocations,  \* what the operator asks for, and in which place
  MaxBody       \* NetworkLimits.max_response_bytes

\* wrong     what is wrong with the options; help: only help is asked for
\* policy    of --policy, and transcript of --transcript, where given
\* mirror, witness: the endpoints given instead of the policy's
\* requests  max_subrange_requests of the policy; cache: of --cache-dir
\* file      what the artifact is read from
\* parses    a corpus is JSON; stdout: whether what is written is taken
\* servers   what may come of a request, besides the answers of the mirror
\* worlds    the deployments a run there is considered against
Mistakes == {"arguments", "evaluation time", "checkpoint", "valid time", "corpus"}

ASSUME PlacesAssumption ==
  \A n \in DOMAIN Places : LET p == Places[n] IN
    /\ p.wrong \subseteq Mistakes
    /\ {p.help, p.parses} \subseteq BOOLEAN
    /\ AtMostOne(p.policy) /\ AtMostOne(p.transcript)
    /\ \A q \in p.policy : IsPolicy(q)
    /\ {p.mirror, p.witness} \subseteq Schemes
    /\ p.requests \in Nat
    /\ p.cache \in {"none", "usable", "unusable"}
    /\ p.file \in Files
    /\ p.servers \subseteq Exchanges
    /\ p.stdout \in {"open", "broken"}
    /\ p.worlds \subseteq Worlds

Names == {"closure", "reconstruct", "topology", "verify", "inspect", "emit", "issue", "refusal"}

\* signed: of a refusal, the checkpoints the log did sign under the keys the
\* caller knows it by
ASSUME InvocationsAssumption ==
  /\ MaxBody \in Nat
  /\ \A c \in Invocations :
       /\ c.place \in DOMAIN Places
       /\ c.name \in Names
       /\ c.name \in {"closure", "reconstruct"} => c.size \in Nat
       /\ c.name \in {"verify", "inspect"} => c.artifact \in Artifacts
       /\ c.name = "topology" => IsCorpus(c.file)
       /\ c.name = "verify" => c.verifier \in Verifiers
       /\ c.name = "emit" => c.payload \in Payloads /\ c.out.at \in Targets
       /\ c.name = "issue" => IsRequest(c.request) /\ IsRequest(c.right) /\ IsDeployment(c.deployment)
       /\ c.name = "refusal" =>
            /\ c.refusal \in Refusals
            /\ \A m \in {c.refusal.retained, c.refusal.offered} :
                 m.log = c.log /\ m.signer \in c.logKeys => m \in c.signed

\* the deployment of a command that asks no server
Nowhere == [history |-> <<>>, cosigner |-> <<>>, stolen |-> {}, forged |-> {}, lying |-> FALSE]

VARIABLES
  cmd,      \* the command and its options
  phase,    \* "start", "local", "first", "second" view, "done"
  asof,     \* reconstruct: the checkpoint C and its tree
  forward,  \* reconstruct: the newest checkpoint of the witness
  answer    \* what the command decides

cmdVars == <<cmd, phase, asof, forward, answer>>
vars == <<envVars, estVars, cmdVars>>

NoView  == [cp |-> NoCheckpoint, tree |-> <<>>]
NoEntry == [cp |-> NoCheckpoint, over |-> NoCheckpoint, key |-> NoKey]

Answers(outcome) == [outcome |-> outcome, says |-> "nothing", set |-> {}]
NoAnswer == Answers("none")

Remote == cmd.name \in {"closure", "reconstruct"}
Place  == Places[cmd.place]

CommandsTypeOK ==
  /\ world \in Worlds \cup {Nowhere}
  /\ ViewTypeOK
  /\ cmd \in Invocations
  /\ phase \in {"start", "local", "first", "second", "done"}
  /\ asof \in [cp : Checkpoints, tree : Trees] \cup {NoView}
  /\ forward \in Cosigned \cup {NoEntry}
  /\ phase = "second" => asof # NoView /\ forward # NoEntry /\ target = Size(forward.cp)
  /\ (answer = NoAnswer) <=> (phase # "done")

Init ==
  /\ cmd \in Invocations
  /\ world \in IF Remote THEN Place.worlds ELSE {Nowhere}
  /\ upto = 0
  /\ limit = Place.requests
  /\ step = IF Remote THEN "series" ELSE "idle"
  /\ target = IF Remote THEN cmd.size ELSE 0
  /\ series = {}
  /\ cp = NoCheckpoint
  /\ got = <<>>
  /\ requests = 0
  /\ authentic = {}
  /\ notes = {}
  /\ verdict = "none"
  /\ sent = 0
  /\ phase = "start"
  /\ asof = NoView
  /\ forward = NoEntry
  /\ answer = NoAnswer

-----------------------------------------------------------------------------
Concludes(a) ==
  /\ phase' = "done"
  /\ answer' = a
  /\ UNCHANGED <<cmd, asof, forward>>

(***************************************************************************)
(* cli::dispatch: what stops a run before it has anything to report.       *)
(***************************************************************************)
Policy    == Given(Place.policy)
Stated(m) == Unless(m \notin Place.wrong, "usage")

\* load_policy; emit alone does without one.
PolicyLoads ==
  IF Place.policy # {} THEN LoadPolicy(Policy) ELSE Unless(cmd.name = "emit", "usage")

\* fetch_chain
ChainBuilds ==
  First(<<IF Place.transcript # {} THEN LoadTranscript(Given(Place.transcript)) ELSE "ok",
          Unless(Place.cache # "unusable", "output")>>)

Dispatch ==
  First(<<Stated("arguments"), Stated("evaluation time"), PolicyLoads,
          IF Remote \/ cmd.name = "issue" THEN ChainBuilds ELSE "ok">>)

\* A flag moves an endpoint without being checked as the policy's is.
Endpoint(flag, configured) == IF flag # "none" THEN flag ELSE configured
Mirror  == Endpoint(Place.mirror, Policy.mirror)
Witness == Endpoint(Place.witness, Policy.witness)

\* What each command asks of its options, once it can report.
Options ==
  CASE cmd.name = "closure" ->
         First(<<Stated("checkpoint"), Unless(Mirror # "none", "usage"), AnyProfile(Policy)>>)
    [] cmd.name = "reconstruct" ->
         First(<<Stated("checkpoint"), Unless("valid time" \notin Place.wrong, "malformed"),
                 Unless(Mirror # "none", "usage"), Unless(Witness # "none", "usage"), AnyProfile(Policy)>>)
    [] cmd.name = "issue" -> Unless(Mirror # "none", "usage")
    [] cmd.name = "topology" ->
         First(<<Stated("corpus"), ReadFile(Place.file, "artifact"), Unless(Place.parses, "unparseable")>>)
    [] OTHER -> "ok"

Fails(error) == Concludes(Answers(OutcomeOf(error)))

Ready(dispatched) == IF dispatched = "ok" THEN Options ELSE dispatched

Proceeds(ready) ==
  IF ready # "ok" THEN Fails(ready)
  ELSE /\ phase' = IF Remote THEN "first" ELSE "local"
       /\ UNCHANGED <<cmd, asof, forward, answer>>

Starts ==
  /\ phase = "start"
  /\ IF Place.help THEN Concludes(Answers("help")) ELSE Proceeds(Ready(Dispatch))
  /\ UNCHANGED <<envVars, estVars>>

\* The profile a run holds is what its policy resolves to.
Verifier == [cmd.verifier EXCEPT !.profile = Possession(Policy, cmd.pinned)]

AnswerTo(done, error) ==
  IF error = "ok" THEN [NoAnswer EXCEPT !.outcome = "valid", !.says = done] ELSE Answers(OutcomeOf(error))

\* inspect: a dump exists of whatever is a JSON object.
Inspect(a) ==
  AnswerTo("dump", First(<<ReadFile(Place.file, "artifact"), Unless(a.json /\ a.object, "malformed")>>))

Verify(a) ==
  LET read == ReadFile(Place.file, "artifact") IN
  IF read = "ok" THEN VerifyBytes(a, Verifier) ELSE Answers(OutcomeOf(read))

Emitted(p) == AnswerTo("emitted", EmitRun(Place.file, p, cmd.key, cmd.out))

Issued == IssueRun(cmd.request, cmd.deployment, Mirror, Witness)

\* A command that asks no server, or is one step of it.
Local ==
  /\ phase = "local"
  /\ Concludes(CASE cmd.name = "topology" -> Topology(cmd.file, cmd.trigger, cmd.material)
                 [] cmd.name = "verify" -> Verify(cmd.artifact)
                 [] cmd.name = "inspect" -> Inspect(cmd.artifact)
                 [] cmd.name = "emit" -> Emitted(cmd.payload)
                 [] cmd.name = "issue" -> AnswerTo("issued", Issued.error)
                 [] cmd.name = "refusal" -> CheckRefusal(cmd.refusal, cmd.log, cmd.witnessKeys, cmd.logKeys))
  /\ UNCHANGED <<envVars, estVars>>

Establishing ==
  /\ phase \in {"first", "second"}
  /\ EstablishStep(Place.cache = "usable")
  /\ UNCHANGED cmdVars

NotEstablished ==
  /\ phase \in {"first", "second"}
  /\ verdict \notin {"none", "established"}
  /\ Fails(verdict)
  /\ UNCHANGED <<envVars, estVars>>

Closure ==
  /\ phase = "first"
  /\ cmd.name = "closure"
  /\ verdict = "established"
  /\ Concludes(Authenticated(ViewOf(got), cmd.trigger, cmd.material))
  /\ UNCHANGED <<envVars, estVars>>

-----------------------------------------------------------------------------
(***************************************************************************)
(* reconstruct: C is witnessed, and consistent with the newest checkpoint  *)
(* the witness shows, whose witness keys its own view declares.            *)
(***************************************************************************)
AsksWitness == phase = "first" /\ cmd.name = "reconstruct" /\ verdict = "established"

WitnessSilent ==
  /\ world.lying
  /\ AsksWitness
  /\ Sends(1)
  /\ Concludes(Missing)
  /\ UNCHANGED <<envVars, viewVars>>

ReadHistory(h) ==
  /\ AsksWitness
  /\ Sends(1)
  /\ IF ~WitnessedBy(h, cp, WitnessKeysFor(ChainOf(got), target))
       THEN Concludes(Missing) /\ UNCHANGED viewVars
       ELSE \E n \in NewestOf(h) : \E first \in FirstLike(h, h[n].cp) :
              IF Size(h[n].cp) > target
                THEN /\ phase' = "second"
                     /\ asof' = [cp |-> cp, tree |-> got]
                     /\ forward' = [h[first] EXCEPT !.cp = h[n].cp]
                     /\ Begin(Size(h[n].cp))
                     /\ UNCHANGED <<cmd, answer>>
                ELSE /\ Concludes(Reconstruction(ViewOf(got), cmd.record, cmd.time))
                     /\ UNCHANGED viewVars
  /\ UNCHANGED envVars

\* Mutation: the newest checkpoint is checked under the witness keys of C.
HoldsForwardUnderC == CosignatureHolds(forward.cp, forward, WitnessKeysFor(ChainOf(asof.tree), Size(asof.cp)))

\* Under the keys its own view declares; the path is asked for only then.
HoldsForward == CosignatureHolds(forward.cp, forward, WitnessKeysFor(ChainOf(got), target))

AsksForward == phase = "second" /\ verdict = "established" /\ HoldsForward

ReadPath(given) ==
  /\ AsksForward
  /\ Sends(1)
  /\ Concludes(IF Proved(asof.cp, forward.cp, given)
                 THEN Reconstruction(ViewOf(asof.tree), cmd.record, cmd.time) ELSE Missing)
  /\ UNCHANGED <<envVars, viewVars>>

ForwardUnheld ==
  /\ phase = "second"
  /\ verdict = "established"
  /\ ~HoldsForward
  /\ Concludes(Missing)
  /\ UNCHANGED <<envVars, estVars>>

-----------------------------------------------------------------------------
(***************************************************************************)
(* A request that gets no answer ends the run, whichever it is.            *)
(***************************************************************************)

\* Whom it is made to.
AsksMirror == \/ phase \in {"first", "second"} /\ Costs(Place.cache = "usable") # {0} /\ verdict = "none"
              \/ AsksForward

Asked == (IF AsksMirror THEN {Mirror} ELSE {}) \cup (IF AsksWitness THEN {Witness} ELSE {})

\* The bytes and the time of a run are limited as well.
FetchFails ==
  /\ Sends(1)
  /\ \E url \in Asked :
       \E error \in {HttpFetch(url, x, MaxBody) : x \in Place.servers}
                    \cup {Replayed(r) : r \in UNION {t.records : t \in Place.transcript}} \cup {"limit"} :
         error # "ok" /\ Fails(error)
  /\ UNCHANGED <<envVars, viewVars>>

\* The witness and the path are asked for within the one count.
OverBudget ==
  /\ AsksWitness \/ AsksForward
  /\ sent = limit
  /\ Fails("limit")
  /\ UNCHANGED <<envVars, estVars>>

-----------------------------------------------------------------------------
(***************************************************************************)
(* emit_report, write_out and run: how the process ends.                   *)
(***************************************************************************)

\* What fails before there is a report is said on stderr alone.
Printed ==
  /\ ~Place.help
  /\ Dispatch = "ok"
  /\ cmd.name \in {"emit", "inspect", "issue"} => answer.outcome = "valid"

\* Mutation: the receipt's own status is what the process ends with.
ExitOfStatus ==
  IF Place.help THEN ExitCode.valid
  ELSE IF Printed /\ Place.stdout = "broken" THEN ExitCode.error
  ELSE ExitCode[IF cmd.name = "verify" /\ answer.says # "nothing" THEN answer.says ELSE answer.outcome]

Exit ==
  IF Place.help THEN ExitCode.valid
  ELSE IF Printed /\ Place.stdout = "broken" THEN ExitCode.error
  ELSE ExitCode[answer.outcome]

-----------------------------------------------------------------------------
Publishes == Publish /\ UNCHANGED cmdVars

Step ==
  \/ Starts
  \/ Local
  \/ Establishing
  \/ NotEstablished
  \/ Closure
  \/ WitnessSilent
  \/ \E h \in HistoryAnswers : ReadHistory(h)
  \/ \E given \in ProofAnswers : ReadPath(given)
  \/ ForwardUnheld
  \/ FetchFails
  \/ OverBudget

Next == Publishes \/ Step

Spec == Init /\ [][Next]_vars

-----------------------------------------------------------------------------
(***************************************************************************)
(* What the answers may be relied on for.                                  *)
(***************************************************************************)

\* No lying mirror, witness or forger makes a run accuse an honest log: what
\* is called equivocation is two roots the log signed for one size.  And no
\* refusal supports two reasons: none is read as another.
NoFalseAccusation ==
  /\ AccusedSignedTwoRoots
  /\ (cmd.name = "refusal" /\ answer # NoAnswer /\ answer.outcome = "supported") =>
       /\ cmd.refusal.reason = "equivocation" => Divergent(cmd.signed) # {}
       /\ \A reason \in RefusalReasons \ {cmd.refusal.reason} :
            CheckRefusal([cmd.refusal EXCEPT !.reason = reason], cmd.log, cmd.witnessKeys, cmd.logKeys) = Missing

\* Both weighings of one series: nothing established lies at or beyond a
\* divergence nobody resolved, and nothing but the log's own two roots is one.
DivergenceIsWeighed == NothingBeyondDivergence /\ NoFalseAccusation

\* A deployment where nobody lies, the log signs one tree under the keys it
\* has declared, and every statement is readable.
Honest(w) ==
  /\ ~w.lying
  /\ \A n \in DOMAIN w.history :
       LET m == w.history[n] IN
       /\ \A k \in 1..n : m.root = w.history[k].root
                          \/ (Size(w.history[k]) < Size(m) /\ ConsistencyVerifies(w.history[k], m))
       /\ LogIdFor(ChainOf(m.root), Size(m)) = {m.log}
       /\ SignatureVerifies(m, LogKeysFor(ChainOf(m.root), Size(m)))
       /\ ~Unreadable(ChainOf(m.root), m.root)

\* The requests a view of n entries may need, and a run with both its views.
Chunks(n) == (n + Chunk - 1) \div Chunk
Needed(n) == Chunks(n) + 3

NeededBefore == IF asof = NoView THEN 0 ELSE Needed(Size(asof.cp)) + 1

WithinLimits == target <= MaxEntries /\ NeededBefore + Needed(target) <= limit

\* Such a deployment is served, however often a quiet log signs its root again
\* and whatever it publishes meanwhile: the view of a size the series holds,
\* with a smaller one before it, is established, within the limits on entries
\* and on the requests of the whole run.
HonestDeploymentServed ==
  (/\ Remote
   /\ Honest(world)
   /\ step = "done"
   /\ AtSize(series) # {}
   /\ \E m \in series : Size(m) < target
   /\ WithinLimits) => verdict = "established"

\* Triggers of the corpus by a key that holds no authority over their record.
Challenge(v, i) ==
  /\ i \in v.stmts
  /\ IsTrigger(At(v, i))
  /\ \A j \in IntroductionIndex(v, Saying(At(v, i)).record) :
       Signers[At(v, i)] \cap AuthorityFor(v, j, Saying(At(v, i)).record, i) = {}

Broken(e) == Payload(e).kind = "broken"

\* A log takes what is no statement as well.
ASSUME BrokenAssumption == \E e \in Envelopes : Broken(e)

Without(tree, dropped(_)) ==
  [n \in DOMAIN tree |-> IF dropped(n - 1) THEN CHOOSE e \in Envelopes : Broken(e) ELSE tree[n]]

\* No other entry that verifies is of the same statement.
AnchoredOnce(v, i) ==
  \A j \in 0..(Len(v.tree) - 1) :
    j # i /\ Verifies(v.chain, v.tree, j) => StmtOf[At(v, j)] # StmtOf[At(v, i)]

\* What anybody else anchors changes no closure, and neither does a challenge,
\* but by a copy: of two entries that verify the first is the statement, also
\* where the second is signed by those who have authority.
OnlyAuthorityCounts ==
  (cmd.name = "closure" /\ verdict = "established") =>
    LET v == ViewOf(got)
        theirs(i) == ByOutsider(At(v, i))
        challenges(i) == Challenge(v, i) /\ AnchoredOnce(v, i)
    IN \A u \in {ViewOf(Without(got, theirs)), ViewOf(Without(got, challenges))} :
         Authenticated(u, cmd.trigger, cmd.material) = Authenticated(v, cmd.trigger, cmd.material)

\* What a record is reconstructed as, no challenge changes: only triggers of
\* those who hold authority govern it.
ChallengesReconstructNothing ==
  (cmd.name = "reconstruct" /\ verdict = "established") =>
    LET v == ViewOf(got)
        challenges(i) == Challenge(v, i)
    IN Reconstruction(v, cmd.record, cmd.time)
         = Reconstruction(ViewOf(Without(got, challenges)), cmd.record, cmd.time)

\* The witness in truth gave its cosignature to a checkpoint of this identity,
\* unless a key it may be given with is stolen.
CosignedInTruth(m, keys) ==
  \/ world.stolen \cap keys # {}
  \/ \E n \in 1..upto : SameIdentity(world.history[n], m) /\ world.cosigner[n] \in keys

\* A reconstruction is of a checkpoint the witness did cosign, and it reaches
\* forward to one it cosigned under the keys that govern that one: a key stolen
\* after the corpus replaced it carries nothing.
WitnessedInTruth ==
  (cmd.name = "reconstruct" /\ answer # NoAnswer /\ answer.outcome = "valid") =>
    LET keys == WitnessKeysFor(ChainOf(got), target) IN
    IF asof = NoView THEN CosignedInTruth(cp, keys)
    ELSE /\ CosignedInTruth(asof.cp, WitnessKeysFor(ChainOf(asof.tree), Size(asof.cp)))
         /\ CosignedInTruth(forward.cp, keys)

\* An honest deployment whose witness cosigns what the log publishes gets its
\* reconstruction, a quiet log's too.
HonestReconstructed ==
  (/\ cmd.name = "reconstruct"
   /\ Honest(world)
   /\ \A n \in DOMAIN world.history : world.cosigner[n] \in WitnessKeysFor(ChainOf(world.history[n].root), Size(world.history[n]))
   /\ verdict = "established"
   /\ answer # NoAnswer) => answer = Reconstruction(ViewOf(IF asof = NoView THEN got ELSE asof.tree), cmd.record, cmd.time)

\* Verifiers of one receipt never contradict one another, and time alone never
\* brings back a receipt it has taken.
VerifiersAgree ==
  (cmd.name = "verify" /\ phase = "done") =>
    /\ NoContradiction(cmd.artifact, cmd.verifier)
    /\ StaleStaysStale(cmd.artifact, cmd.verifier)
    /\ HeldAsSpelled(cmd.artifact)

\* The walk of a whole log reports what the verified view voids.
WalkReportsTheVoid == (cmd.name = "topology" /\ phase = "done") => WalkNamesTheVoid(cmd.file)

\* The policy a result rests on was its owner's alone to write, and every
\* profile document it goes by is the one it pins.
PolicyIsOwn(ids(_)) ==
  \A p \in Place.policy : /\ p.file.kind = "regular" /\ p.file.private /\ p.file.own
                          /\ p.genesis /\ p.keyIds = {TRUE}
                          /\ \A id \in ids(p) : id \in DOMAIN p.profiles /\ p.profiles[id].matches

\* What a run that succeeds has done.
HasDoneItsWork ==
  LET pinned(p) == {cmd.pinned} configured(p) == DOMAIN p.profiles none(p) == {} IN
  CASE cmd.name = "verify" ->
         /\ cmd.artifact.core = "verified"
         /\ cmd.artifact.canonical
         /\ cmd.verifier.requireFresh => ~Stale(cmd.artifact, cmd.verifier)
         /\ PolicyIsOwn(pinned)
    [] cmd.name \in {"closure", "reconstruct"} ->
         /\ Established
         /\ answer.says \notin {"nothing", "none"}
         /\ PolicyIsOwn(configured)
    [] cmd.name = "emit" ->
         /\ SignedIsReadable(cmd.payload)
         /\ cmd.payload.json = "object"
         /\ cmd.key.from = "file" => cmd.key.file.private /\ cmd.key.file.own
         /\ cmd.out.at = "taken" => cmd.out.force
         /\ PolicyIsOwn(none)
    [] cmd.name = "issue" ->
         /\ cmd.request.canonical
         /\ Issued.receipt # {}
         /\ cmd.request.out.at = "taken" => cmd.request.out.force
         /\ PolicyIsOwn(none)
    [] cmd.name = "inspect" -> cmd.artifact.object /\ PolicyIsOwn(none)
    [] OTHER -> FALSE

\* A process that ends with 0 has done what its command is for, under a policy
\* nobody else could have written, and has said so in full: no receipt stale
\* under --require-fresh, no file of an unauthenticated corpus, no half-written
\* report and no failure on the way is ever taken for success.
ExitTellsTruth ==
  (phase = "done" /\ cmd.name # "refusal" /\ ~Place.help /\ Exit = 0) =>
    Place.stdout = "open" /\ HasDoneItsWork

\* A receipt answers the claim it was asked for, and a request refused, even
\* after the log took its entry, can be put right and asked again.
Borne(ran) ==
  /\ AnswersItsClaim(cmd.request, cmd.deployment, ran)
  /\ RefusalIsRepaired(cmd.request, cmd.right, cmd.deployment, ran, Mirror, Witness)

IssuesWhatIsAsked == (cmd.name = "issue" /\ phase = "local") => Borne(Issued)

\* Whatever a server does, its answers are bounded and come from a peer that
\* was checked, and a failure of it is never held against the artifact.
PeersAreChecked ==
  (Remote /\ phase # "start" /\ phase # "done") =>
    \A url \in Asked, x \in Place.servers : ExchangeIsChecked(url, x, MaxBody)
=============================================================================
