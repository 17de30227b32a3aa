---------------------------- MODULE AnchoredView ----------------------------
(***************************************************************************)
(* anchored.rs: establishing a view of a log from a mirror nobody trusts,  *)
(* with the enumeration of enumerate.rs and the checkpoints of             *)
(* checkpoint.rs.  The mirror is asked for the series, for the entries     *)
(* chunk by chunk, and for two consistency proofs; the log goes on         *)
(* publishing between any two requests.                                    *)
(*                                                                         *)
(* A tree is its own root, so a checkpoint's size is the length of its     *)
(* root and a proof verifies exactly when what it claims is so.  "time" is *)
(* a checkpoint's place among the members of one size: series_order_key    *)
(* after the tree size, that is a readable instant before an unreadable    *)
(* one, then the instant, the root and the signature.                      *)
(***************************************************************************)
EXTENDS StatementView

CONSTANTS
  Worlds,       \* the deployments considered
  Chunk,        \* DEFAULT_CHUNK, or what with_chunk narrowed it to
  MaxEntries    \* NetworkLimits.max_entries

Checkpoints == [log : LogIds, root : Trees, time : Nat, signer : Keys \cup {NoKey}]

Size(cp) == Len(cp.root)

\* history  the checkpoints the log signs and publishes, in order
\* cosigner the witness key that cosigned each, or NoKey
\* stolen   witness keys others hold as well
\* forged   what a lying mirror or witness has besides, by keys of its own
\* lying    whether they lie; if not, they answer what they hold
ASSUME WorldsAssumption ==
  \A w \in Worlds :
    /\ w.history \in Seq(Checkpoints)
    /\ w.cosigner \in [DOMAIN w.history -> Keys \cup {NoKey}]
    /\ w.stolen \subseteq Keys
    /\ w.forged \subseteq Checkpoints
    /\ \A m \in w.forged : m.signer \notin Corpus
    /\ \A n, k \in DOMAIN w.history :
         n < k => w.history[n].time # w.history[k].time \/ Size(w.history[n]) # Size(w.history[k])
    /\ w.lying \in BOOLEAN

ASSUME LimitsAssumption ==
  /\ Chunk \in Nat \ {0}
  /\ MaxEntries \in Nat

VARIABLES
  world,      \* the deployment a behaviour is about
  upto,       \* how much of its history is published
  limit,      \* NetworkLimits.max_subrange_requests of the policy
  step,       \* where establish is
  target,     \* the tree size it was asked for
  series,     \* the series as this run observed it
  cp,         \* the selected member
  got,        \* entries collected so far
  requests,   \* subranges asked for in this view
  authentic,  \* members whose signature verifies
  notes,      \* sizes it reports a divergence at
  verdict,    \* how it ended
  sent        \* live requests of the run so far (BudgetState.requests)

envVars  == <<world, upto, limit>>
viewVars == <<step, target, series, cp, got, requests, authentic, notes, verdict>>
estVars  == <<viewVars, sent>>

NoCheckpoint == [log |-> None, root |-> <<>>, time |-> 0, signer |-> NoKey]

Published == {world.history[n] : n \in 1..upto}
Offered   == Published \cup world.forged

Steps == {"idle", "series", "range", "ground", "precede", "succeed", "done"}
Verdicts == {"none", "established", "missing", "limit", "equivocation", "rule"}

ViewTypeOK ==
  /\ upto \in 0..Len(world.history)
  /\ step \in Steps
  /\ target \in Nat
  /\ series \subseteq Checkpoints
  /\ cp \in series \cup {NoCheckpoint}
  /\ got \in Seq(Envelopes)
  /\ step \in {"range", "ground", "precede", "succeed"} => cp \in series /\ Size(cp) = target
  /\ limit \in Nat
  /\ requests \in 0..limit
  /\ sent \in 0..limit
  /\ authentic \subseteq series
  /\ notes \subseteq Nat
  /\ verdict \in Verdicts
  /\ (verdict = "none") <=> (step # "done")

-----------------------------------------------------------------------------
(***************************************************************************)
(* Checkpoints.                                                            *)
(***************************************************************************)

\* Mutation: two checkpoints are the same only if they are the same object.
SameObject(a, b) == a = b

\* matches_identity: log, size and root; a quiet log signs a root repeatedly.
SameIdentity(a, b) == a.log = b.log /\ a.root = b.root

\* Mutation: a checkpoint authenticates itself.
SignatureUnchecked(m, keys) == TRUE

SignatureVerifies(m, keys) == m.signer \in keys

\* series_order_key.
Before(a, b) == Size(a) < Size(b) \/ (Size(a) = Size(b) /\ a.time < b.time)

Earliest(S) == {m \in S : \A k \in S : ~Before(k, m)}
Latest(S)   == {m \in S : \A k \in S : ~Before(m, k)}

Divergent(S) == {Size(a) : a \in {m \in S : \E k \in S : Size(k) = Size(m) /\ k.root # m.root}}

\* Mutation: members count without a signature that verifies.
EquivocationFloorAny(S) == Least(Divergent(series))

EquivocationFloor(S) == Least(Divergent(S))

\* Sizes with several roots of which the run confirmed one at most.
UnresolvedDivergences(published, confirmed) == Divergent(published) \ Divergent(confirmed)

ConsistencyVerifies(a, b) == Size(a) <= Size(b) /\ a.root = SubSeq(b.root, 1, Size(a))

\* consistency_path: the proof is fetched, and then it must verify.
Proved(a, b, given) == given /\ ConsistencyVerifies(a, b)

-----------------------------------------------------------------------------
(***************************************************************************)
(* The log, the mirror, and the start of a run.                            *)
(***************************************************************************)
Publish ==
  /\ upto < Len(world.history)
  /\ upto' = upto + 1
  /\ UNCHANGED <<world, limit, estVars>>

\* What GET /v1/checkpoints may answer.
SeriesAnswers == IF world.lying THEN SUBSET Offered ELSE {Published}

\* The members an answer to POST /v1/range may declare, and those whose
\* entries it may carry: an honest mirror knows the tree by its size only.
AtSize(S) == {m \in S : Size(m) = target}
RangeAnswers ==
  IF world.lying THEN Offered \X Offered ELSE {<<m, m>> : m \in AtSize(Published)}

\* Whether a proof the mirror could give is given.
ProofAnswers == IF world.lying THEN BOOLEAN ELSE {TRUE}

Begin(n) ==
  /\ step' = "series"
  /\ target' = n
  /\ series' = {}
  /\ cp' = NoCheckpoint
  /\ got' = <<>>
  /\ requests' = 0
  /\ authentic' = {}
  /\ notes' = {}
  /\ verdict' = "none"

Ends(v) ==
  /\ step' = "done"
  /\ verdict' = v
  /\ UNCHANGED <<target, series, cp, got, requests, authentic, notes>>

\* Budgeted::fetch: one count for all a run sends, through both views.
Sends(n) == sent + n <= limit /\ sent' = sent + n

-----------------------------------------------------------------------------
(***************************************************************************)
(* governing_member, and the enumeration under it.                         *)
(***************************************************************************)

\* Mutation: the first member that reaches the size governs.
GoverningMemberBeyond(S) == Earliest({m \in S : Size(m) >= target})

GoverningMember(S) == Earliest(AtSize(S))

ReadSeries(S) ==
  /\ step = "series"
  /\ Sends(1)
  /\ series' = S
  /\ IF GoverningMember(S) = {}
       THEN step' = "done" /\ verdict' = "missing" /\ UNCHANGED cp
       ELSE /\ cp' \in GoverningMember(S)
            /\ IF target > MaxEntries THEN step' = "done" /\ verdict' = "limit"
                                      ELSE step' = "range" /\ UNCHANGED verdict
  /\ UNCHANGED <<envVars, target, got, requests, authentic, notes>>

\* The next bound comes from the last one, never from the server.
Until == IF Len(got) + Chunk < target THEN Len(got) + Chunk ELSE target

Slice(tree) == SubSeq(tree, Len(got) + 1, IF Until < Len(tree) THEN Until ELSE Len(tree))

\* verify_range_response: the selected identity, the range asked for, and
\* entries that open the selected root there.
RangeVerifies(declared, entries) ==
  /\ SameIdentity(declared, cp)
  /\ entries = Slice(cp.root)

\* What a subrange costs: nothing when the cache answers, and twice when an
\* answer is refused for which there was an entry to evict.
RangeCosts(cached) ==
  {1} \cup {n \in {0, 2} : cached /\ (n = 2 => \E a \in RangeAnswers : ~RangeVerifies(a[1], Slice(a[2].root)))}

\* The enumerator has a count of its own, of the subranges of one view.
ReadRange(declared, tree, cost) ==
  /\ step = "range"
  /\ requests < limit
  /\ Sends(cost)
  /\ LET entries == Slice(tree) IN
       IF RangeVerifies(declared, entries)
         THEN /\ got' = got \o entries
              /\ requests' = requests + 1
              /\ step' = IF Until = target THEN "ground" ELSE step
              /\ UNCHANGED <<target, series, cp, authentic, notes, verdict>>
         ELSE Ends("missing")
  /\ UNCHANGED envVars

-----------------------------------------------------------------------------
(***************************************************************************)
(* The joint fixed point, and divergence.                                  *)
(***************************************************************************)

\* The root recomputed, the chain anchored to local policy, the log it names
\* and the signature under the keys it declares: all of them at once.
Grounded(c) ==
  /\ got = cp.root
  /\ Manifests(c) # {}
  /\ LogIdFor(c, target) = {cp.log}
  /\ SignatureVerifies(cp, LogKeysFor(c, target))

\* Every member whose signature verifies under the version for its own size.
AuthenticMembers(c) == {m \in series : SignatureVerifies(m, LogKeysFor(c, Size(m)))}

\* Mutation: only a divergence at the very size is held against a result.
AtOrBeyondOnly(S) == {n \in S : n = target}

\* A divergence at or below the size a result is grounded on.
AtOrBeyond(S) == {n \in S : n <= target}

Ground ==
  /\ step = "ground"
  /\ LET c == ChainOf(got)
         known == AuthenticMembers(c)
         floor == EquivocationFloor(known)
         open == UnresolvedDivergences(series, known)
     IN IF ~Grounded(c) THEN Ends("missing")
        ELSE IF AtOrBeyond(floor) # {} THEN Ends("equivocation")
        ELSE IF AtOrBeyond(open) # {} THEN Ends("missing")
        ELSE /\ step' = "precede"
             /\ authentic' = known
             /\ notes' = floor \cup open
             /\ UNCHANGED <<target, series, cp, got, requests, verdict>>
  /\ UNCHANGED <<envVars, sent>>

-----------------------------------------------------------------------------
(***************************************************************************)
(* check_neighbours: predecessor always, successor where one was observed. *)
(***************************************************************************)
Predecessor == Latest({m \in authentic : Before(m, cp)})
Successor   == Earliest({m \in authentic : Before(cp, m)})

\* Members of one size restate one tree; others need a proof, which is asked
\* for.
ProofCost(S) == IF \E m \in S : Size(m) # Size(cp) THEN 1 ELSE 0

NeighbourVerifies(a, b, given) ==
  IF Size(a) = Size(b) THEN a.root = b.root ELSE Proved(a, b, given)

Precede(given) ==
  /\ step = "precede"
  /\ Sends(ProofCost(Predecessor))
  /\ IF \E m \in Predecessor : NeighbourVerifies(m, cp, given)
       THEN step' = "succeed" /\ UNCHANGED <<target, series, cp, got, requests, authentic, notes, verdict>>
       ELSE Ends("missing")
  /\ UNCHANGED envVars

\* The statement view is built last; a statement it cannot read fails it.
Succeed(given) ==
  /\ step = "succeed"
  /\ Sends(ProofCost(Successor))
  /\ IF \E m \in Successor : ~NeighbourVerifies(cp, m, given) THEN Ends("missing")
     ELSE IF Unreadable(ChainOf(got), got) THEN Ends("rule")
     ELSE Ends("established")
  /\ UNCHANGED envVars

-----------------------------------------------------------------------------
\* What the next step may cost.
Costs(cached) ==
  CASE step = "series"  -> {1}
    [] step = "range"   -> RangeCosts(cached)
    [] step = "precede" -> {ProofCost(Predecessor)}
    [] step = "succeed" -> {ProofCost(Successor)}
    [] OTHER            -> {0}

\* FetchFailure::Budget, and the enumerator's own limit.
Limited(cached) ==
  /\ \/ \E n \in Costs(cached) : sent + n > limit
     \/ step = "range" /\ requests = limit
  /\ Ends("limit")
  /\ UNCHANGED <<envVars, sent>>

\* No answer in time, a status, a body nobody can read.
Unanswered(cached) ==
  /\ world.lying
  /\ \E n \in Costs(cached) \ {0} : Sends(n)
  /\ Ends("missing")
  /\ UNCHANGED envVars

\* cached: a cache stands before the network.
EstablishStep(cached) ==
  \/ \E S \in SeriesAnswers : ReadSeries(S)
  \/ \E a \in RangeAnswers, cost \in RangeCosts(cached) : ReadRange(a[1], a[2].root, cost)
  \/ Ground
  \/ \E given \in ProofAnswers : Precede(given) \/ Succeed(given)
  \/ Limited(cached)
  \/ Unanswered(cached)

-----------------------------------------------------------------------------
Established == verdict = "established"

\* What is established is a checkpoint the log published and the tree it
\* commits: neither a mirror nor anybody who may anchor entries can put a tree
\* of their own in its place, though the key that authenticates the checkpoint
\* is read from the entries the checkpoint commits.
GroundedInTheLog ==
  Established => got = cp.root /\ \E n \in 1..upto : SameIdentity(world.history[n], cp)

\* A mirror that shows two roots at a size no larger than the one asked for
\* gets no result out of the run, whether or not both are the log's; one that
\* shows them beyond it has the lowest such size reported.
NothingBeyondDivergence ==
  Established => /\ \A n \in Divergent(series) : n > target
                 /\ Least(Divergent(series)) \subseteq notes

\* A log is accused of equivocation only where it did sign two roots for one
\* size: no mirror can make the run accuse an honest log.
AccusedSignedTwoRoots ==
  verdict = "equivocation" => Divergent({world.history[n] : n \in 1..upto}) # {}
=============================================================================
