---------------------------- MODULE GovernedLog ----------------------------
(***************************************************************************)
(* One enumerated log and everything that is read off it: the governance   *)
(* chain (Governance), the structural walk of topology mode                *)
(* (Governance::structural_only), the verified statement view              *)
(* (Statements::build of anchored.rs) and the keys a receipt is given      *)
(* (ReceiptKeys).                                                          *)
(*                                                                         *)
(* "calm" is no variable of the program: it is the chain resolve would     *)
(* build from the same log without the entries outsiders anchored.         *)
(***************************************************************************)
EXTENDS Governance, ReceiptKeys

VARIABLES
  log,         \* the enumeration
  calm,
  walk,        \* the chain of the structural walk
  walkStatus,
  excluded     \* the indexes it reports as excluded

vars == <<govVars, log, calm, walk, walkStatus, excluded>>

TypeOK ==
  /\ GovTypeOK
  /\ DOMAIN log \subseteq Indexes
  /\ \A n \in DOMAIN log : log[n] \in Envelopes /\ n <= last
  /\ \A n \in DOMAIN chain : n \in DOMAIN log /\ chain[n] = log[n]
  /\ \A n \in DOMAIN calm  : n \in DOMAIN log /\ calm[n] = log[n]
  /\ \A n \in DOMAIN walk  : n \in DOMAIN log /\ walk[n] = log[n]
  /\ walkStatus \in {"walking", "halted", "walked"}
  /\ excluded \subseteq DOMAIN log

-----------------------------------------------------------------------------
(***************************************************************************)
(* The loop of Governance::structural_only.                                *)
(***************************************************************************)

\* A defect excludes the entry, is reported, and never ends the walk.
WalkOn(i, e) ==
  /\ walk' = IF WalkAdmits(walk, e) THEN Extend(walk, i, e) ELSE walk
  /\ excluded' = IF WalkAdmits(walk, e) \/ Payload(e).kind \in {"other", "unknown"}
                   THEN excluded ELSE excluded \cup {i}
  /\ UNCHANGED walkStatus

\* The two limits that leave no chain keep what was found before them.
WalkEnds(disordered) ==
  /\ walkStatus' = IF disordered \/ Manifests(walk) = {} THEN "halted" ELSE "walked"
  /\ UNCHANGED <<walk, excluded>>

-----------------------------------------------------------------------------
(***************************************************************************)
(* Statements::build.                                                      *)
(***************************************************************************)

\* Rule 1: an envelope that does not verify at its own index is void ...
IsStatement(i) ==
  Payload(log[i]).kind # "broken" /\ EnvelopeVerifiesAt(chain, log[i], i)

\* Mutation: the raw enumeration is searched for copies.
FirstCopyRaw(i) == \A j \in DOMAIN log : j < i => StmtOf[log[j]] # StmtOf[log[i]]

\* ... and rule 2, of the copies of a statement that survive it only the
\* first is not.
FirstCopy(i) ==
  \A j \in DOMAIN log : j < i /\ IsStatement(j) => StmtOf[log[j]] # StmtOf[log[i]]

InView(i) == IsStatement(i) /\ FirstCopy(i)

\* A statement of a type this build does not know fails the whole view.
ViewFails == \E i \in DOMAIN log : IsStatement(i) /\ Payload(log[i]).kind \in {"untyped", "unknown"}

-----------------------------------------------------------------------------
\* The next entry of the enumeration, for every reader of it.
Enumerated(i, e) ==
  /\ walkStatus = "walking"
  /\ i > last
  /\ last' = i
  /\ log' = Extend(log, i, e)
  /\ \/ status = "walking" /\ Read(i, e)
     \/ Returned
  /\ calm' = IF status = "walking" /\ ~ByOutsider(e) /\ Admits(calm, i, e)
                THEN Extend(calm, i, e) ELSE calm
  /\ WalkOn(i, e)

Disordered(i) ==
  /\ walkStatus = "walking"
  /\ i <= last
  /\ \/ status = "walking" /\ OutOfOrder
     \/ Returned
  /\ WalkEnds(TRUE)
  /\ UNCHANGED <<last, log, calm>>

End ==
  /\ walkStatus = "walking"
  /\ \/ status = "walking" /\ Finish
     \/ Returned
  /\ WalkEnds(FALSE)
  /\ UNCHANGED <<last, log, calm>>

Init ==
  /\ GovInit
  /\ log = [n \in {} |-> None]
  /\ calm = [n \in {} |-> None]
  /\ walk = [n \in {} |-> None]
  /\ walkStatus = "walking"
  /\ excluded = {}

Next ==
  \/ \E i \in Indexes : Disordered(i) \/ \E e \in Envelopes : Enumerated(i, e)
  \/ End

Spec == Init /\ [][Next]_vars

-----------------------------------------------------------------------------
\* No key an outsider holds is ever in force, for a producer, a log or a
\* witness, at any index and for any checkpoint: anchoring a manifest or a
\* key statement, copying one or signing along with the corpus does not help.
OnlyCorpusKeys ==
  \A n \in 0..(MaxIndex + 1) :
    ProducerKeysAt(chain, n) \cup LogKeysFor(chain, n) \subseteq Corpus

\* What outsiders anchor is ignored, not reconciled: the chain is the one
\* the log would give without their entries.
OutsidersPowerless == chain = calm

\* No statement takes effect twice, so that no copy of an old one revives a
\* retired key or an old version.
EachActsOnce ==
  \A m, n \in DOMAIN chain : StmtOf[chain[m]] = StmtOf[chain[n]] => m = n

\* What a longer enumeration of the log says of an earlier index or a smaller
\* checkpoint is what a shorter one said: no later statement reaches back.
HistoryFixed ==
  [][\A n \in 0..last :
       /\ ProducerKeysAt(chain', n) = ProducerKeysAt(chain, n)
       /\ LogKeysFor(chain', n + 1) = LogKeysFor(chain, n + 1)]_vars

\* The same of the statement view: a statement is not voided, nor a void one
\* restored, by anything anchored after it.
ViewFixed == [][\A n \in DOMAIN log : InView(n)' <=> InView(n)]_vars

\* An outsider cannot void a statement of the corpus by anchoring a copy of
\* it first: whatever verifies is in the view, or an earlier copy of it is
\* that verifies too.
NoStatementLost ==
  \A i \in DOMAIN log : IsStatement(i) =>
    \E j \in DOMAIN log : j <= i /\ InView(j) /\ StmtOf[log[j]] = StmtOf[log[i]]

\* Where resolve has nothing to report, the walk that checks no signature
\* finds the same chain.
CleanWalksAgree == status = "resolved" /\ findings = {} => walk = chain

\* Neither.
NothingRevised == HistoryFixed /\ ViewFixed

\* A receipt carries what the verifier of it resolves.  In a log where every
\* manifest and key statement governs, and for every checkpoint and subject:
\*   - the producer keys are those in force, and the statement each is bound to
\*     had put it in force, and nothing took it out again before the subject;
\*   - no earlier checkpoint needs a log key that is not carried;
\*   - the key a rotation is anchored with is bound to the version it retires in.
CarriedAsResolved ==
  GovernanceRead(log) = chain =>
    \A size \in 1..(last + 1) :
      LET logKeys == LogKeysCarried(log, size) IN
      /\ \A i \in 0..(size - 1) :
           LET bound == BoundKeys(log, i, TRUE) IN
           /\ {b[1] : b \in bound} = ProducerKeysAt(chain, i)
           /\ \A b \in bound : \A j \in (b[2] + 1)..i : b[1] \in ProducerKeysAt(chain, j)
      /\ \A s \in 1..size : LogKeysFor(chain, s) \subseteq {b[1] : b \in logKeys}
      /\ \A k \in Keys : \A i \in AnchoredRotations(log, size, k) :
           \A m \in OutgoingOf(chain, i) : <<k, m>> \in logKeys

-----------------------------------------------------------------------------
(***************************************************************************)
(* What the comments say, and the code does not do.                        *)
(***************************************************************************)

\* "excluded from every decision", and "the smallest entry index govern[s] and
\* voids later copies": a position the statement view voids, for a signature
\* or as a later copy, has no effect on the chain every decision is made under.
VoidHasNoEffect == \A n \in DOMAIN chain : InView(n)
=============================================================================
