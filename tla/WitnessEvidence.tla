-------------------------- MODULE WitnessEvidence --------------------------
(***************************************************************************)
(* witness.rs, and witnessed of reconstruct.rs: what a witness holds about *)
(* checkpoints.  It serves the history of what it cosigned, and refusals.  *)
(***************************************************************************)
EXTENDS AnchoredView

CONSTANT MaxHistory   \* bound on what a lying witness serves

\* cp: the checkpoint an entry carries; over: the one its cosignature was
\* given over; key: the key that gave it, or NoKey
Cosigned == [cp : Checkpoints, over : Checkpoints, key : Keys \cup {NoKey}]

RefusalReasons == {"equivocation", "size-regression", "extension-failed"}

\* A consistency proof carried in a refusal: for which sizes, whether it is
\* one that can be checked at all, and whether its path is the right one.
Proofs == [from : Nat, to : Nat, checkable : BOOLEAN, right : BOOLEAN]

\* a reason may be none that can be rechecked; proof: of one element if carried
Refusals ==
  [signer : Keys \cup {NoKey}, log : LogIds, reason : RefusalReasons \cup {"missing-consistency-proof"},
   retained : Checkpoints, offered : Checkpoints, proof : SUBSET Proofs]

-----------------------------------------------------------------------------
(***************************************************************************)
(* Cosignatures.                                                           *)
(***************************************************************************)

\* cosignature_holds: over these very bytes, under a key of the corpus.
CosignatureHolds(m, entry, keys) == entry.over = m /\ entry.key \in keys

Entry(m, k) == [cp |-> m, over |-> m, key |-> k]

\* What an honest witness cosigned, oldest first.
TrueHistory ==
  LET grown[n \in 0..upto] ==
        IF n = 0 THEN <<>>
        ELSE IF world.cosigner[n] = NoKey THEN grown[n - 1]
             ELSE Append(grown[n - 1], Entry(world.history[n], world.cosigner[n]))
  IN grown[upto]

\* What a lying one may put together: its own cosignatures, whole or over a
\* checkpoint they were not given for, those of stolen keys, and junk.
LyingEntries ==
  {Entry(m, k) : m \in Offered, k \in world.stolen}
  \cup {[cp |-> m, over |-> world.history[n], key |-> world.cosigner[n]] : m \in Offered, n \in 1..upto}

HistoryAnswers ==
  IF world.lying THEN UNION {[1..n -> LyingEntries] : n \in 0..MaxHistory} ELSE {TrueHistory}

\* Some entry of the history carries the checkpoint, cosigned.
WitnessedBy(h, m, keys) ==
  \E n \in DOMAIN h : SameIdentity(h[n].cp, m) /\ CosignatureHolds(h[n].cp, h[n], keys)

\* max_by_key answers the last of the largest.
NewestOf(h) ==
  {n \in DOMAIN h : \A k \in DOMAIN h : Size(h[k].cp) < Size(h[n].cp)
                                        \/ (Size(h[k].cp) = Size(h[n].cp) /\ k <= n)}

\* find answers the first of one identity.
FirstLike(h, m) == Least({n \in DOMAIN h : SameIdentity(h[n].cp, m)})

-----------------------------------------------------------------------------
(***************************************************************************)
(* check_refusal.                                                          *)
(***************************************************************************)

\* Both carried checkpoints are of the bound log and signed by it.
Carried(f, log, logKeys) ==
  /\ f.log = log
  /\ \A m \in {f.retained, f.offered} : m.log = f.log /\ SignatureVerifies(m, logKeys)

\* The recheck of each reason: a proof is bound to the pair before it is
\* verified, belongs to no other reason, and shows nothing when it is none.
Supports(f) ==
  CASE f.reason = "equivocation" ->
         f.proof = {} /\ Size(f.retained) = Size(f.offered) /\ f.retained.root # f.offered.root
    [] f.reason = "size-regression" ->
         f.proof = {} /\ Size(f.offered) < Size(f.retained)
    [] f.reason = "extension-failed" ->
         \E p \in f.proof : /\ p.from = Size(f.retained) /\ p.to = Size(f.offered) /\ p.checkable
                            /\ ~(p.right /\ ConsistencyVerifies(f.retained, f.offered))
    [] OTHER -> FALSE

CheckRefusal(f, log, witnessKeys, logKeys) ==
  IF f.signer \in witnessKeys /\ Carried(f, log, logKeys) /\ Supports(f)
    THEN [outcome |-> "supported", says |-> f.reason, set |-> {}]
    ELSE Missing
=============================================================================
