# ahl-cli in TLA+

This directory specifies `ahl-cli`, the command-line tool of a system in which a corpus of
data publishes signed statements in an append-only log, mirrors serve that log to anybody,
witnesses cosign its checkpoints, and a verifier decides from a trust policy of its own what the
log establishes. The modules are model-checked with TLC; the theorems in the `_proofs` modules
are checked by TLAPS and hold for every value of the constants. Source paths are relative to the
crate (`src/cache.rs` is the file the map in `PROJECT.json` calls `src/src/cache.rs`).

## The system

The crate is one program with several commands. Each invocation is a sequential process; what is
concurrent is *invocations*, which share directories and endpoints, and *the rest of the world*,
which grows logs, serves stale or dishonest answers, and writes into the same files.

| component | state it keeps | operations | talks to | what is hard |
|---|---|---|---|---|
| cache (`cache.rs`, `net.rs::fetch_revalidating`) | an object directory named by digest, an index directory named by request key | `get`, `put`, `evict`, `enforce_quota`, `fetch_revalidating` | other invocations, through the directory | unlocked interleaving, crashes, failing writes, an equivocating log with two roots for one size |
| atomic install (`install.rs`) | one directory | `install` with and without `--force` | other invocations and programs | check-then-act on a name, three primitives with different failures |
| governance (`governance.rs`) | a chain of manifests and key statements by entry index | `resolve`, `structural_only`, the key and version queries | anchored view, producer, topology | anybody may anchor anything, in any order, any number of times |
| anchored view (`anchored.rs`) | a selected checkpoint, the entries under it, the statement view | `establish`, `establish_under`, `Statements::build`, `governing_trigger` | mirror | answers of several moments of a growing, untrusted mirror put together |
| enumeration (`enumerate.rs`) | the entries proven so far | `Enumerator`, `verify_range_response` | mirror | chunk boundaries, budgets, partial answers |
| checkpoints (`checkpoint.rs`) | none | identity, signatures, series order, consistency | everything above | ties, equivocation, key sets that changed |
| producer and issue (`producer.rs`, `commands/issue.rs`) | none of its own: state is in the log, mirror and witnesses | `anchor`, `stage`, `ingest`, `cosign`, `retrieve`, `assemble`, claim material | log, mirror, witnesses | two concurrent runs, a crash between two submissions, a retry after a late refusal |
| witness client (`witness.rs`) | none | history, cosignatures, refusals | witnesses | evidence that supports one reason and not another |
| closure (`commands/closure.rs`, `corpus.rs`) | the records reached | traversal from a trigger, walk of a file | anchored view | authority of a trigger at the index it acts, void and repeated statements |
| reconstruct (`commands/reconstruct.rs`) | a projection at a valid time | two views and a witness between them | anchored view, witness | a key replaced after the checkpoint, a quiet log, challenges |
| verify and outcomes (`commands/verify.rs`, `outcome.rs`, `report.rs`, `evaluation.rs`, `duration.rs`) | a list of checks | precedence of outcomes, policy overlays, freshness | `ahl-core` | two verifiers that disagree, time that brings a receipt back |
| command line (`cli.rs`, `error.rs`), policy and profile (`policy.rs`, `profile.rs`), secure files (`secure.rs`), keys (`keys.rs`), transcripts (`transcript.rs`), transport (`net.rs`) | none | parsing, dispatch, bounded and checked reads, requests | everything above | a failure anywhere that does not reach the exit code |
| emit and inspect (`commands/emit.rs`, `commands/inspect.rs`) | none | check, sign, install; dump | installs | a statement its writer accepts and its readers refuse |

What would make each correct, in one line each:

- *cache*: the cache may change what work is done and never what is accepted; and it is bounded.
- *install*: nobody's file is lost or seen half-written, and a refused install leaves nothing.
- *governance*: only what keys in force signed takes effect, once, and never retroactively.
- *anchored view*: what is established is the log's own tree; a divergence is neither hidden nor invented; an honest deployment is served.
- *closure, reconstruct*: nobody without authority over a record changes what is answered of it.
- *issue*: everything a receipt says is true of the log, whatever a mirror answered; runs that
  follow one another end alike; a refused request can be put right and asked again.
- *verify*: verifiers of one receipt never contradict one another.
- *command line*: exit code 0 means what it says, of every command.

## Modules

| module | models | kind |
|---|---|---|
| `CachedFetch` | `cache.rs`, `net.rs` (`fetch_revalidating`, `Budgeted`), directory steps of `install.rs` | one action per system call |
| `FetchPromise` | what a caller of `fetch_revalidating` relies on | abstract specification |
| `AtomicInstall` | `install.rs` (`Dir::install`, `install`) | one action per system call |
| `GovernanceRules` | the rules and queries of `governance.rs`, as operators on a chain | operators |
| `Governance` | `Governance::resolve`, one iteration per action | component |
| `GovernedLog` | `Governance` with `structural_only`, `Statements::build` and the receipt's view over one growing log | composition |
| `ReceiptKeys` | the second governance view, `producer.rs::Governance`, and the keys and rotations a receipt carries | operators |
| `Issue` | the requests of `commands/issue.rs` and `producer.rs`, with the log, mirror and witnesses they are sent to | one action per request |
| `Claims` | the options, checks and claim material of one `issue` run | operators |
| `StatementView` | a tree of entries, its chain and its verified statements; the governing trigger; closure and projection | operators |
| `AnchoredView` | `anchored.rs::establish`, `enumerate.rs`, `checkpoint.rs` against a mirror | one action per request |
| `WitnessEvidence` | `witness.rs`, and the witness of `reconstruct` | operators |
| `TopologyWalk` | `corpus.rs` and the topology mode of `closure` | operators |
| `Durations`, `Receipts` | `duration.rs`; the decision of `verify.rs` and its overlays | operators |
| `CommandLine` | arguments, files, policy, profiles, keys, errors and exit codes | operators |
| `Transport` | `net.rs` below the budget, `transcript.rs` | operators |
| `Emit` | `emit.rs` and how its statements are read back | operators |
| `Commands` | one run of any command, from its arguments to its exit code | composition |
| `MC…` | constants for TLC | instances |
| `…_proofs` | theorems about the module of that name | proofs |

`GovernanceRules`, which also says what the corpus is and what it never signs
(`CorpusAssumption`), is extended by `Governance` (so by `GovernedLog`), by `ReceiptKeys` and by
`StatementView`: the log of the proofs, the view of the commands and the receipts of the producer
are all read by the same rules. `CommandLine` is extended by `Transport` and `Emit`, and `Claims`
extends `Transport`. `Commands` extends `GovernanceRules` and the rows from `Claims` to `Emit`; the
other components have a run and a state of their own.

### CachedFetch

`Procs` are invocations, each under one of the `Roots` (a checkpoint identity, `cache.rs`'s
`RequestKey`) an equivocating log may have signed for one tree size. `objects` and `index` are
the two directories of `Cache::open`; `older` is the order of access times `enforce_quota` sorts
by, in which several files may share the latest moment, as file systems keep time in ticks
(`Accessed`); what is left is ordered by file name, as in the code (`GoesBefore`, `Rank`). Whether a
read renews the access time depends on how the file system is mounted, and is left open
(`ReadFile`). A clock that is set back is not modelled. Bytes are their own digest: SHA-256 is taken to have no collisions. A process walks
`fetch_revalidating` with `Begin`, then `GetIndex`/`GetObject` (`Cache::get`), `DropObject`/
`DropEntry` (bytes that do not match their digest), `Touch*` (the `replace` a hit performs to
renew its access time), `LiveFetch` (`Budgeted::fetch` around the transport), `Weigh` (the
caller's `verify` closure), `Evict*` (`Cache::evict`), `Put*` and `Entry*` (`Cache::put`) and
`Quota*`. Every system call on a file another invocation can see is an action of its own; the
temporary of `index.replace` is in a directory nothing lists, so it shares a step with the unlink.

Deliberate abstractions: the store refuses to cache answers whose status is not 200, and the
bodies here are those that reach it; byte and wall-clock budgets are the nondeterministic
outcome `"unavailable"`; a no-replace rename is one primitive, its hard-link fallback is in
`AtomicInstall`. `Tamper` is what else may write to the directory; `Crash` kills an invocation
between any two calls; `FsFaults` lets each write and install fail.

### FetchPromise

An asker gets an answer that verifies under the checkpoint it selected, at most two answers are
weighed for one request, and a request ends with one result. `CachedFetch!KeepsPromise` is the
refinement, under the mapping at the end of that module: what the cache holds is invisible in it.

### AtomicInstall

Temporaries, the three no-replace primitives (`renameat2`, `linkat`, neither), `--force`, and
another program that creates, replaces or removes the destination between any two steps.
Which of the installers are forced and which primitive the filesystem offers are part of the
initial state.

### Governance, GovernedLog and ReceiptKeys

`chain` is `Governance.manifests` and `.events` as one function from entry index to envelope.
`Read` is one iteration of `resolve`; every query (`ActiveFor`, `LogKeysFor`,
`SnapshotManifest`, `ProducerKeysAt`, …) is an operator on a chain, so that the same queries can
be asked of a chain that was resolved from something else. An envelope is its own entry id, a
statement its own digest, a key its own key id (`bind_key` refuses any other pairing: `usable`).
The manifest schema is the Boolean `sound`. `verify_envelope` of `ahl-core` refuses an envelope
without signatures, which is the assumption that `Signers` is never empty.

`GovernedLog` appends an arbitrary envelope at an arbitrary larger index in each step, as an
enumeration delivers them, and lets `resolve`, `structural_only` (`walk`) and `Statements::build`
(the operators `IsStatement` to `ViewFails`) read it. `calm` is a ghost: the chain the same log
gives without the entries of outsiders. `ReceiptKeys` reads the same log a third time as the
producer does, by rules of its own, with no signature looked at: `CarriedAsResolved` compares
what it puts into a receipt with what `resolve` would look for.

### Issue

A run keeps nothing but its receipt; what runs share is the log (`log`, `minted`), the mirror
(`staged`, `held`, `series`) and the histories of the witnesses (`seen`). The actions of a run
are its requests in the order of the code: `LookUp` (`published_index`), then `Place`
(`publish_existing`) or `Submit`, `Retrieve`, `Stage` and `Ingest`; `Enumerate`; `History` and
`Cosign` for each witness (`submit`); `Proof` and `Attest` for each rotation, a witness at a
time (`rotation_proofs`, `compose_rotation_proof`); `Series`, `Window`, `LaterHistory` and
`LaterCosign` (`continued_history`); and `Assemble`. Any other run may act between two requests,
and `Crash` ends a run at any of them. What a run carries from one request to the next is
unverified until the code verifies it: the prefix is used from `Enumerate` on and authenticated
in `Assemble`.

A tree is its own root and an envelope its own entry id, as a hash without collisions would have
it: `Authentic` is the comparison of a recomputed root, and a consistency path, which the mirror
can only fail to serve, is the relation `Extends`. A checkpoint is a size, a root and a time;
time 0 stands for one the log never signed. A receipt is *readable* when the log signed its
checkpoint, because `verify` accepts no other.

The servers are not in the repository and are modelled as the code relies on them. The log
appends what it is given and signs a fresh checkpoint for every request. An honest mirror calls a
checkpoint usable when it holds all entries below its size. A lying mirror answers each request
on its own with any index, with the tree, the tree an entry short or with one entry substituted,
and with any part of its series and one checkpoint that was never signed. It cannot serve a
consistency proof to a forged root of a tree the log does not extend; a run that meets it in
`continued_history` may fail. A witness refuses a checkpoint it holds, one smaller than another
it holds, and one that does not extend what it holds; whether it looks at the log's signature is
left open, as nothing in the code depends on it.

Not in this module: naming a rotation to a server and offering the mirror its anchor (both leave
every server's state as it is, as the mirror holds that checkpoint), rotations of the log's own
key set (a witness-set rotation takes the same path), and the second reading of the inclusion
path (implied once the root is compared). Options, files and claim material are in `Claims`, the
install of the receipt in `AtomicInstall`.

### Claims

`IssueRun` is a whole run as one step, in the order the run can be refused: the claim type
(`claim_shape`), `check_endpoints`, `read_envelope`, the position of the subject
(`published_index`, then `publish_existing` or the submission), then, with the entry already in
the log, `content_binding`, `record_subject`, `material`, `complete_material` (the leaf and its
inputs, the declared checkpoint of a propagation, the ranges to enumerate), `subject_block`,
`adaptor`, `claim_block` and the install. The exchanges themselves are `Issue`'s: here a
deployment answers, or fails at one of three points, and `Submitted` says what it then holds.
Trees are names for their leaves, and tree material a function from those names.

### StatementView, AnchoredView and WitnessEvidence

A tree is the sequence of its envelopes and its own root; an entry index counts from 0. `ViewOf`
is what `anchored.rs` calls `Anchored`: the tree, the chain `resolve` finds in it, and the
positions that are statements. `GoverningTrigger` is `governing_trigger`, `Affected` the traversal
of `ahl-core` (external; the least set closed under derivation), `Authenticated` the
closure command after its view is established,
`Reconstruction` the projection of `reconstruct.rs::assemble`.

`AnchoredView` is `establish` one request at a time: `ReadSeries` (the series and
`governing_member`), `ReadRange` (a chunk, `verify_range_response`), `Ground` (the
joint fixed point of checkpoint, governance and log key; then divergences), `Precede` and
`Succeed` (`check_neighbours`). `Publish` lets the log go on between any two of them, and
`Unanswered` is a request without an answer. `sent` is the count `Budgeted` keeps for the whole run
(`Sends`): the series, every subrange and every consistency proof are counted together, and so are,
in `Commands`, the witness, the second view and the path to it. It is held against `limit`, the
policy's `max_subrange_requests`, which the enumerator also holds its own count of one view
against (`requests`); past either the run ends (`Limited`, `OverBudget`). A subrange the cache
answers costs nothing, and one that was refused and fetched again may cost two (`RangeCosts`); the
series, the proofs and the witness are never cached. An honest mirror answers from what is published at
that moment; a lying one with any subset, any member and any entries of what was published or
forged. A forged checkpoint in the instances bears a key the log does not own. `WitnessEvidence`
has the witness's history, true or lying (cosignatures transplanted, or by stolen keys), and
`check_refusal`, in which a consistency proof that cannot be checked supports nothing.

### TopologyWalk, Receipts, Durations, Emit

These are pure. `TopologyWalk` loads a file as `corpus.rs` does (elements that are malformed or
repeat an index are findings), walks it and compares nothing; `WalkNamesTheVoid` is checked over
every corpus of four entries from eight kinds. `Receipts` takes what `ahl-core` says of a receipt
as a fact about the receipt, and models what `verify.rs` makes of it: versions, canonical form,
profile, the freshness overlay, `apply_policy_overlays`. `Durations` is the grammar with its
arithmetic at the width `MaxNanos`: a checked operation past it is unread, as in the code. `Emit`
has both tables of members: those `emit.rs` checks, and those the governance rules read.

### CommandLine, Transport and Commands

A step that can stop a run is the class of its error or "ok", and `First` the order of the code.
`OutcomeOf` and `ExitCode` are the tables of `error.rs` and `outcome.rs`. `Commands` composes
everything: `Starts` is `cli::dispatch` with the options of each command, `Local` a command that
asks no server (or `issue`, as one step), `Establishing` a step of `AnchoredView`, `FetchFails` a
request, to whoever is asked next (`Asked`), that ends the run through `Transport` or by its budget
of bytes or time, `ReadHistory`, `ReadPath` and `ForwardUnheld` the witness half of
`reconstruct`, which begins a *second* establishment at the newest checkpoint the witness
cosigned. `Exit` is `emit_report`, `write_out` and `run`. A behaviour is one run, in one *place*
(what the run finds: policy, files, transcript, endpoints, servers) and against one *world* (a
history the log publishes, with its witness).

## Runs

`PROJECT.json` lists the runs with the question each asks. Bounds, and why they are enough:

| run | instance | shows |
|---|---|---|
| `fetch_shared` | 2 invocations, 2 roots, 1 request, 2 bodies of sizes 1 and 2, quota 2, 1 foreign write, 1 crash | every interleaving of two operations on one directory: what is served from it, its quota, no overwriting |
| `fetch_solo` | 1 invocation, 2 requests, 3 bodies of sizes 1 and 2, quota 2 | the cache is useful, and a damaged one never turns an honest endpoint into an error |
| `fetch_faulty` | 2 invocations, failing writes, 1 foreign write, 1 crash, fairness | refinement of `FetchPromise`; every request returns |
| `install` | 3 installers, none or one forced, 3 primitives, 2 foreign writes | no file lost or torn, one winner, no litter, every install ends |
| `governance` | 13 envelopes of 12 statements, 3 keys, indexes 0..3 | who governs, what counts, nothing retroactive, receipts carry what resolves |
| `issue` | 2 runs, 2 witnesses, 2 manifests that rotate the witness, 1 other statement, logs of 1 and 3 entries; 3 starts against an honest mirror, 1 against a lying one; 1 crash | what a receipt says is true of the log; a repeated run ends the same way |
| `commands` | 9 worlds (quiet, challenged, derived, tampered with, unreadable, rotated, equivocating, lying, stolen key), 6 entries at most, chunks of 2, limits of 1 to 10 requests; 56 places, each with one thing broken or a limit of its own; about 16,000 initial states, one per invocation, place and world | every command from arguments to exit code |
| `fetch_evict`, `governance_void`, `issue_halves`, `reconstruct_challenge`, `reconstruct_quiet` | smallest instance showing it | a comment or finding text that the code does not bear out (below) |

Two invocations suffice for the cache: an operation on a name is disturbed only by what another
process does to that same name, and one other process may run any number of operations in
between. A crash and a foreign write are each followed by the whole state space of what may
happen next. Three installers are needed because the third can take a name between the unlink
and the rename of the second. Four log positions hold a genesis, a version or key statement, its
copy or forgery, and something afterwards that the order of the three could affect. Two runs of
`issue` overlap and a third follows them, over what they left; a lying mirror needs one run, since
its answers already range over what another run could have changed. Runs are interchangeable,
which is the symmetry `MCRuns`.

The worlds of `commands` are each a hazard: a quiet log signs one root twice and goes on; a
challenge and a copy come after the trigger they would displace; a record is derived and
withdrawn by whoever derived it; an outsider's manifest and a
trigger partly signed by an outsider lie in the middle; the log and witness keys are replaced at
an index; two roots are signed for one size; and everybody lies. Sizes asked for run from below
the hazard to past it, and chunks of 2 put a boundary into every enumeration. The places `tight`
allow 1, 2, 4, 5, 6 and 9 requests, with a cache and without: fewer than some view needs, exactly
what one needs, and what the first view of a reconstruction needs but the second or the witness does
not get; everywhere else 10 suffice for every run. 6 entries meet the limit on entries. Places break one thing each, since a
run stops at the first; the second of two broken things is never looked at. The arithmetic of
durations has a day of 8 seconds and a width of 250 with 10 units to a second, so that every
overflow the code checks for happens at a small number.

`MaxRequests`, `MaxTampers`, `MaxCrashes`, `MaxForeign`, `MaxIndex`, `MaxStarts`, `MaxHistory`,
`MaxEntries`, `MaxBody`, `MaxNanos`, `MaxDigits` and `Chunk` are the only bounds. `MaxRequests`
(of the cache; `limit` in `AnchoredView`), `MaxEntries`, `MaxBody` (`NetworkLimits`), `MaxNanos` (the width of `u128`), `MaxDigits`
(`MAX_FRACTIONAL_DIGITS`) and `Chunk` are in the code; `MaxHistory` bounds what a lying witness
serves.

`CHECK_DEADLOCK FALSE` is set everywhere because an invocation and an enumeration end.

Fairness is weak fairness of each invocation's own next step (`CachedFetch!FairSpec`,
`AtomicInstall`): an invocation is a sequential program that is never asked to wait for another,
and its next system call is enabled until it makes it. Nothing is fair about beginning another
request, crashing, foreign writes, or a particular outcome of a call. `Issue` and `Commands` have
no fairness and no liveness property: what they wait for is a server.

### What the properties of `commands` say

- `GroundedInTheLog`: an established view is of a root the log published, although the key that
  authenticates it is read from the very entries it commits.
- `DivergenceIsWeighed` has two sides: nothing is established at a size a divergence the run saw
  lies at or below, and the lowest one beyond it is reported; and nobody is accused of two roots
  but a log that signed two, and a refusal a witness serves supports one reason at most.
- `HonestDeploymentServed`: the other direction, that all these refusals do not refuse an honest,
  growing, quiet deployment, as long as the limit covers what a run may need (`WithinLimits`: the
  series, a subrange for every chunk and two neighbours for a view, and for the second view of a
  reconstruction what the first needed and the witness besides). That bound is exact: with one
  request less the model has a run that is refused.
- `OnlyAuthorityCounts`: replacing what outsiders and challengers anchored by junk changes no closure,
  unless the challenge is a copy of another verified entry's statement.
- `WitnessedInTruth`: a key stolen after it was replaced carries no reconstruction.
- `VerifiersAgree`: of two verifiers of a receipt none says valid where the other says invalid;
  what is refused for staleness stays refused; no two spellings of a length differ, and nothing
  is read that is not the length spelled.
- `WalkReportsTheVoid`: the unauthenticated walk and the verified view void the same positions.
- `PeersAreChecked`, `ExitTellsTruth`, `IssuesWhatIsAsked`: as the sections above.

### Disagreements between text and code

Each is a run that ends in a violation, and a finding with the quoted text.

1. `cache.rs` says an eviction means the refused answer was cached. The quota drops objects and
   leaves their index entries: a single invocation that stores one answer, then another for which
   the first object goes, and asks for the first again gets a live answer, and when it is refused
   the entry left behind is evicted and the endpoint asked again (`EvictionTellsCached`).
2. `anchored.rs` reports an entry as "excluded from every decision" that `resolve` has already
   let take effect: a key statement that retires its own signer (`VoidHasNoEffect`).
3. `producer.rs` expects the mirror and the witnesses of a healthy deployment to anchor a
   rotation at the same checkpoint. A checkpoint reaches the mirror before it reaches a witness,
   and another honest run may come between: the mirror then anchors the rotation at the first
   run's checkpoint, the witness at the second's, and composing the proof is refused
   (`RotationHalvesAgree`).
4. `reconstruct.rs` says the authority test decides the final answer. It takes the newest trigger
   that covers the time, whoever signed it, and drops it if it is not the governing one: a
   challenge turns a retracted record back into an asserted one (`ChallengesReconstructNothing`).
5. `checkpoint.rs` says that rejecting a quiet log would break honest deployments. `reconstruct`
   takes the last of the newest checkpoints and the cosignature of the first with that identity,
   which is over other bytes (`HonestReconstructed`).

Others are not runs, as no line of the text states them sharply enough: a second configured profile
document that is broken fails a `closure` that does not use it; `emit` accepts manifests and keys
whose inner form the reader refuses (`Unchecked` in `Emit`); `issue` refuses an option only after
the log has taken its entry, which is why `IssuesWhatIsAsked` asks that the request put right
still succeeds; a leaf is found by its record without its dataset.

`RunsInTurn` is about runs that neither overlap nor are killed, where every manifest version declares
a witness and no entry is in the log twice to begin with (`Provisioned`), and says so by its premise
`InTurn`; under the same premise the halves of a rotation proof agree (`HalvesAgreeInTurn`);
`AnchorStable` is about an honest mirror (`mirror = "honest"`). Overlapping runs may
anchor one envelope twice, because `published_index` and the submission are two requests, and may
be refused by a witness that another run showed a larger checkpoint; a run killed between the
log's answer and the ingest leaves an entry the mirror never holds. The code documents none of
these as excluded, and prevents none of them.

## Proofs

Every theorem is for any sets of processes, keys, envelopes, logs, worlds, places and invocations
and for any bounds. The assumptions are the named `ASSUME`s of the modules, and TLC evaluates each
of them in the run of that module. Most say that a bound is a natural number or that a constant has
its type; those with content are named below. Every invariant and every action property that a
passing run checks is stated by a theorem. TLC shows it on a small instance, where a mutant of the
code breaks it; the theorem shows it for every value of the constants.

| module | theorems | of the runs' properties |
|---|---|---|
| `CachedFetch_proofs` | `TypeCorrect`, `CacheServesVerified`, `Implements`, `NothingClobbered`, `RefusedLive`, `StoreFitsItsQuota`, `AcceptedStaysCached` | all but liveness |
| `AtomicInstall_proofs` | `InstallTypeCorrect`, `InstallNeverTorn`, `InstallOneWinner`, `InstallLeavesNothing`, `InstallReplacesOnlyByForce` | all but liveness |
| `GovernedLog_proofs` | `TypeCorrect`, `KeysOfTheCorpus`, `Noninterference`, `ActsOnce`, `NothingRetroactive`, `NoVerdictRevised`, `NothingIsRevised`, `StatementsSurvive`, `WalksAgree` | all but `CarriedAsResolved` |
| `ReceiptKeys_proofs` | `CarriesWhatResolves` | `CarriedAsResolved` |
| `Issue_proofs` | `TypeCorrect`, `SubjectsAreSubmitted`, `CosignaturesAreOver`, `CosignaturesAccounted`, `ContinuationsGrounded`, `RotationsAreProved`, `AnchorsStayPut`, `RunsTakeTurns`, `HalvesAgreeInTurn` | all |
| `Commands_proofs` | `CommandsAreTyped`, `ViewsAreTheLogs`, `DivergenceIsHeldAgainstTheLog`, `ReconstructionsAreWitnessed`, `EveryPeerIsChecked`, `HonestDeploymentsAreServed`, `SuccessIsTrue`, `IssueAnswersAndRepairs`, `WalkTellsTheVoid`, `OnlyTheAuthorityCounts`, `TimeOnlyTakes`, `VerifiersNeverContradict` | all |

`GovernanceRules_proofs` has the lemmas on the rules of governance that `GovernedLog_proofs` and
`AnchoredView_proofs` share; `ReceiptKeys_proofs` extends the former and `Commands_proofs` the
latter. The modules are extended by one another, so what is proved of a rule is proved of the one
definition every command uses.

**The cache.** `CachedAnswersVerify` speaks only of a process that is weighing a cached answer, so
it says nothing of the steps before. Its strengthening says where bytes come from: an index entry
names a digest that verifies for its key; a name that is a digest, unless a foreign write
intervened, holds the bytes of that digest; and a process that read a digest under its key or is
storing an answer holds one that verifies for it. `NothingClobbered` needs an invariant of its own,
`Tidy`: a temporary is there only while its process is about to rename it, or was killed then.

`RefusedLive` is about one foreign write and an invocation that is alone. `Blamed` says where that
write can be: as long as a refused answer can still come from the cache, its index entry is the
one written, nothing else is damaged, and the second attempt of a run that evicted it finds no entry.

`StoreFitsItsQuota` is hard because no lock is held: an invocation may drop what it chose a while
ago, and a touch takes an object away and puts it back. The invariant (`Fits`) counts what nobody
answers for: a process answers for its temporary, for the object of a hit until it has seen whether
it is still there, and for the victims it is about to drop (`Excused`). The rest fits the quota
unless somebody is about to list the directory (`Committed`: a store that has still to list, or one
whose entry is free to be taken by another store of its key, which then lists). No step of a process
adds to the rest but one by which it comes to owe a listing. What remains after a listing fits
(`QuotaFits`) since access times and, where they are equal, names put the files in one order
(`Sorted`, `GoesBefore`), so what is kept is some file and all that go after it. It says nothing of a
directory a killed invocation left something in: that stays, and counts, until a later store lists
it. The weight of a set of files is a sum over a finite set; what is needed of it (it
exists, it is monotone, a part may be set aside first) is proved by induction over the subsets of a
finite set with the library's facts on cardinality, by taking a least number that fails rather than
by an induction theorem.

`AcceptedStaysCached` follows a store through its last steps (`Filed`): what an invocation alone has
just renewed or stored is overtaken by no file, so the listing that follows chooses it only if
everything it keeps was accessed in that same moment and sorts after it, and what it keeps does not
leave room for it. That happens: two files stored within one tick of the clock, the second with the
smaller digest. The property therefore says what goes, not that nothing does.

**Installs.** A temporary past its write is complete, an installer that has won owns the
destination, and one that has not begun or has ended has no temporary.

**Governance.** `OnlyCorpusKeys` is not inductive: that a chain has only keys of the corpus depends
on every statement in it having been signed by such keys. `IInv` of `GovernedLog_proofs` is the
conjunction of `TypeOK`, `OfCorpus(chain)` (everything in the chain was signed by the corpus alone,
and names its keys only), `chain = calm`, `Rooted(chain)` (a nonempty chain begins with the pinned
genesis) and `EachActsOnce`. That the corpus signs only statements naming corpus keys is an
assumption on the constants (`CorpusAssumption`): a corpus that hands over its keys hands over its
log. `HistoryFixed` and `ViewFixed` follow because a chain only grows beyond `last`, and every query
about an index looks at the chain up to it. `Agreed` strengthens `CleanWalksAgree`: the two readers
agree as long as nothing has been reported, and neither reads on once `resolve` has answered.

**Receipts.** `CarriesWhatResolves` adds two facts about the chain: a checkpoint under which a
version is carried has one active (`Ranked`), and the log keys of every version carried under it are
carried too (`Covered`).

**Issue.** The properties of `Issue` speak of receipts, and nothing in one is true because of its
last step. `IInv` of `Issue_proofs` says what each run may rely on at each of its requests: it has
what the next one needs (`HasWhatItNeeds`), its cosignatures are over the checkpoint in hand and in
the histories of the witnesses that made them (`Cosigned`), the rotations proved and the rotations
still owed are those of its prefix (`Proving`), and a later checkpoint carries a window in which the
version in force did not change (`Continued`). None of this is about the log: the prefix may still
be a lie. The lemma `Assembled` is where it becomes so, since a prefix whose root is that of a
checkpoint the log signed *is* the log's. Each predicate takes the servers as arguments, and
`RunGrows` and `ReceiptGrows` say that no step of anybody takes one back: `log`, `minted` and `seen`
only grow, a prefix decides its own governance (`SamePrefix`), and a checkpoint that was never
signed never is. `NoneApart` sets `None` apart from the checkpoints and the indexes.

`AnchorsStayPut` holds for overlapping and killed runs too. An entry the mirror does not hold lies
beyond no usable checkpoint (a checkpoint is usable once all entries below it are held), and no two
runs enter the same index; so the checkpoints an ingest makes usable are all larger than those that
were, and the smallest usable one that covers an earlier entry stays the smallest (`AnchorInv`).

`RunsTakeTurns` needs an account of what a run leaves behind. Between runs (`TurnInv`) the mirror is
`Whole`: it holds every entry and was given a checkpoint of the whole log; and every witness was
`Shown` the whole series. While a run is under way, it is all that may be missing (`Settled`): the
last entry and the last checkpoint are its own, a witness that has not seen that checkpoint is still
to be asked, and once the witnesses have answered nothing is missing. With that, each refusal of the
code has a reason it cannot arise: a witness is only shown a checkpoint larger than all it knows, a
rotation is attested by a witness that anchors it where the mirror does, and a later checkpoint was
cosigned by whom it has to be. The premise `Provisioned` says that every manifest version declares a
witness and that no history the log starts with holds an entry twice. Without the first the
statement is false: a rotation out of a version that declares no witness (as `governance.rs` allows
for levels L1 and L2) can be attested by nobody, so issuing past it fails however quiet everything
is; the second is what `Once` is to preserve.

`HalvesAgreeInTurn` is the counterpart of finding 3. `issue_halves` shows that overlapping runs make
the mirror and a witness anchor a rotation at different checkpoints; the theorem shows that runs in
turn never do, since the log then signs one checkpoint for each tree (`SizesInv`) and every witness
has seen all the mirror has. So the comment in `producer.rs` is right of a deployment that
serializes its runs, and the code does not make one do so.

**Views.** An established view has come through a circle: the key that authenticates a checkpoint is
read from the entries that checkpoint commits. It is broken by what the policy pins and by
`CorpusAssumption`: whatever chain `ChainOf` finds in any tree has keys of the corpus only
(`GovernanceRules_proofs` again), so a checkpoint whose signature verifies under them was signed by
the corpus, and `WorldsAssumption` says that what a liar forges bears none of its keys. `ViewInv`
carries this through the requests: what a mirror has offered contains the series that was read,
and from `Ground` on the view is `Weighed` (the tree is that of the checkpoint, the checkpoint
verifies under the keys of its own size, the authentic members are those of the tree's own keys,
no divergence of the series lies at or below the target, and the lowest beyond it is noted). The
neighbours are read afterwards and may only stop the run.

**Commands.** `CommandInv` is `ViewInv` with the phases of a run. A run answers exactly when it
is done, only the two commands that ask servers are ever in a view, and between the two
views of `reconstruct` what the first left still holds (`Reaches`): the checkpoint was cosigned by
a key in force for it, and the cosignature the second view reaches forward to is one its witness
gave, or its key is a stolen one (`Testified`). `WitnessedInTruth` follows from `Reaches`, since the
second view is of the size of that cosignature. That whatever stops a run has an outcome is a
lemma for every length of `First` the code has. `ChainOf` and `TrueHistory` are recursive functions;
where a proof needs what they give for every prefix, it takes a least prefix for which it fails
(`NatHasLeast`) instead of an induction over an operator.

*Served.* `HonestDeploymentsAreServed` is the converse of the refusals. `Serving` is what an honest
deployment leaves a run with at each request: only what the log published, an exact prefix of the
enumeration with as many requests spent, and no divergence; `Paid` is what the run has sent by then,
step by step, in terms of what its views may need (`NeededBefore`, `Needed`), so that neither limit is
met within `WithinLimits`; `ChunksCover` says that a view needs no more subranges than tile it. An honest history is one tree seen at
several sizes with one identity for each (`HonestPair`), and a checkpoint it signed is authentic
under the chain of any larger tree, so neither `Ground` nor the neighbours find anything.

*Answers.* `SuccessIsTrue` carries `Told`: past its options a run has loaded the policy that is its
place's, and where it says valid, `HasDoneItsWork` holds of it, checked command by command.
`IssueAnswersAndRepairs` compares the deployment before and after: one that has changed has taken an
entry it did not hold, and a run asked again finds that entry exactly where this one would have
placed it.

*Counting.* `OnlyTheAuthorityCounts` removes entries from a tree and shows that the chain is the same
(`SameChain`), that the other statements stay what they are (`StatementsLeft`) and that every record
is introduced and governed where it was. `Affected`, the traversal of a closure, is the least set
closed under derivation, so it is enough that both logs have the same closed sets. The theorem says
what it cannot: a challenge may be a *copy* of somebody's statement, signed by the challenger. Of
two entries of one statement that verify, `anchored.rs` (rule 2, `Statements::build`) takes the first
and only then asks for authority, so removing it brings back the second. `AnchoredOnce` excludes that
case from the challenges; outsiders need no such exception, since what they sign does not verify.

*Walk.* `WalkTellsTheVoid` goes by the reasons: each finding of `corpus.rs` is one reason for which
`Statements` leaves an entry out, over any dependency graph, cyclic ones included.

*Time.* For `TimeOnlyTakes` a spelled duration is read digit by digit by a recursive function.
`Recursion` and `OneRecursion` say that up to a bound one function follows given steps, and only one,
and `Upwards` does the induction over a set of naturals in place of a predicate; from these, what is read
of a fraction, a component and a part is the length spelled, or nothing.

The assumptions with content, beside `CorpusAssumption`, `WorldsAssumption` and `NoneApart`:
`NamesApart` (a temporary has a name of its own), `RankAssumption` (no two names sort alike), `KeysAssumption` (`NoKey` is no key),
`EnvelopesAssumption` and `SaysAssumption` (a parsed entry says one thing), `BrokenAssumption` (a log
takes entries that are no statements), `InvocationsAssumption` (a command's arguments are of the shape
its parser gives them), `PlacesAssumption` (a place has one policy and one transcript at most),
`ArtifactsAssumption` (what verifies as a whole verifies in its parts, which stands for `ahl-core`)
and `DurationsAssumption`.

Model-checked and not proved: liveness (`RequestsReturn`, `InstallsEnd`), which is out of the
prover's reach, as `ENABLED` is; and the runs that end in a violation, which are refutations and
whose counterexamples TLC shows.

## What is left

Rotations of the log's own key set in `Issue` (a witness-set rotation takes the same path there
today); several concurrent readers in one `Commands` run, which today share nothing but what
`CachedFetch` says of the cache; and a proof that `Issue` implements an abstract log in which
issuing is one step, of which `RunsTakeTurns` is the safety half.

## Not modelled, and why

- Receipt verification, canonical forms, hashes and Merkle arithmetic are in `ahl-core`, which is not
  part of the repository: an accepted proof is a proof of what it says, a tree is its own root.
- The HTTP client and TLS below `net.rs`; what the crate decides about an exchange (addresses,
  redirects, sizes, status, budgets) is in `Transport` and `CachedFetch`.
- The grammars of TOML and JSON, and of the arguments: each is a Boolean, or a value that parses.
- The wording and layout of reports, of `--help` and of the dump of `inspect`.
- The walk of `Dir::create` along the components of a path. Its check on what it opened is a fault
  of the cache directory in `Commands` (`Place.cache`).
- `testing.rs`, `scripted.rs`, `test_corpus.rs` and `gen_fixtures.rs` build the fixtures of the tests.
