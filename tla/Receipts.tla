------------------------------ MODULE Receipts ------------------------------
(***************************************************************************)
(* verify.rs: from the bytes of a receipt, through the verification of     *)
(* ahl-core, to the decision of one run.  What the core finds is a fact    *)
(* about the receipt here; what this run adds (the profile it holds, the   *)
(* version it implements, the time it evaluates freshness at, the policy   *)
(* it was given) is a fact about the verifier.                             *)
(***************************************************************************)
EXTENDS Durations

CONSTANTS
  Artifacts,   \* the receipts considered
  Verifiers    \* the runs they are verified in

Versions == {"first", "second", "unreadable"}

\* json, object, canonical, names: of the bytes
\* versions  of the format and the specification, as declared, in that order
\* core      what ahl-core reduces the receipt's assertions to
\* carried, witnesses, checkpoint: whether a cosignature is carried, and the
\*           assertions about the witnesses and the checkpoint that verify
\* chain     its governance chain resolves
\* time      checkpoint_time, where it is dated readably
\* cadence, grace: as spelled in the version governing the checkpoint
ReceiptsCarried ==
  [json : BOOLEAN, object : BOOLEAN, versions : Versions \X Versions, canonical : BOOLEAN,
   names : BOOLEAN, core : {"verified", "invalid", "unverifiable"}, carried : BOOLEAN,
   witnesses : BOOLEAN, checkpoint : BOOLEAN, chain : BOOLEAN,
   dated : BOOLEAN, time : Nat, cadence : Spellings, grace : Spellings]

\* What verifies as a whole verifies in these parts; what is no object has no
\* members to read.
ASSUME ArtifactsAssumption ==
  \A a \in Artifacts : /\ a \in ReceiptsCarried
                       /\ a.core = "verified" => a.witnesses /\ a.checkpoint /\ "unreadable" \notin {a.versions[1], a.versions[2]}
                       /\ ~a.object => a.versions = <<"unreadable", "unreadable">> /\ ~a.names

\* implements: the versions a build has rules for
\* completes: no failure of the local environment ends the run
ASSUME VerifiersAssumption ==
  Verifiers \subseteq [implements : {"first", "second"} \X {"first", "second"}, profile : {"held", "broken", "absent"},
                       completes : BOOLEAN, now : Nat, requireFresh : BOOLEAN]

Outcomes == {"valid", "invalid", "error", "unverifiable"}

-----------------------------------------------------------------------------
\* A checkpoint of the future is no time old.
NanosSince(v, t) == IF v.now < t THEN 0 ELSE v.now - t

\* cosignature_established: carried, and both assertions about it verify.
CosignatureEstablished(a) == a.carried /\ a.witnesses /\ a.checkpoint

OlderThan(allowed, age) == allowed # Unread /\ age > allowed

\* freshness, where the chain resolves and its times can be read.  A manifest
\* whose durations cannot be read resolves no chain.
Stale(a, v) ==
  /\ CosignatureEstablished(a)
  /\ a.chain
  /\ a.dated
  /\ OlderThan(CadenceAndGrace(a.cadence, a.grace), NanosSince(v, a.time))

\* unsupported_version: the first member that is another version, or that is
\* none and leaves the receipt to the core.
UnsupportedVersion(a, v) ==
  \E n \in 1..2 : /\ a.versions[n] \notin {"unreadable", v.implements[n]}
                  /\ \A k \in 1..(n - 1) : a.versions[k] # "unreadable"

\* The receipt's own result, which no local policy rewrites: the reasons the
\* run ends before the core, in their order, then what the core says.
Status(a, v) ==
  IF ~a.json THEN "invalid"
  ELSE IF UnsupportedVersion(a, v) THEN "unverifiable"
  ELSE IF ~a.canonical \/ ~a.names THEN "invalid"
  ELSE IF v.profile = "absent" THEN "unverifiable"
  ELSE IF v.profile = "broken" \/ ~v.completes THEN "error"
  ELSE IF a.core = "verified" THEN "valid" ELSE a.core

\* policy_overlays: what the policy of this run finds.
PolicyOverlays(a, v) == IF v.requireFresh /\ Stale(a, v) THEN {"witness-freshness"} ELSE {}

\* Mutation: what the overlay finds is the result, whatever the receipt's is.
AppliedOverlaysAnyway(overlays, status) == IF overlays # {} THEN "invalid" ELSE status

\* apply_policy_overlays: only valid is moved, and only to unverifiable.
AppliedOverlays(overlays, status) == IF status = "valid" /\ overlays # {} THEN "unverifiable" ELSE status

\* What the run decides, and what it says of the receipt.
Decided(outcome, status) == [outcome |-> outcome, says |-> status, set |-> {}]

Overlaid(a, v, status) == Decided(AppliedOverlays(PolicyOverlays(a, v), status), status)

VerifyBytes(a, v) == Overlaid(a, v, Status(a, v))

-----------------------------------------------------------------------------
\* Two verifiers of one receipt never contradict one another, whatever each
\* holds, implements or requires: what one calls valid none calls invalid.
NoContradiction(a, v) ==
  LET mine == VerifyBytes(a, v).outcome IN
  \A o \in Verifiers : {mine, VerifyBytes(a, o).outcome} # {"valid", "invalid"}

\* Time runs one way: a run refused for want of freshness alone is not granted
\* to the same verifier later on.
StaleStaysStale(a, v) ==
  LET mine == VerifyBytes(a, v) IN
  (v.requireFresh /\ mine.outcome = "unverifiable" /\ mine.says = "valid") =>
    \A o \in Verifiers :
      (o = [v EXCEPT !.now = o.now] /\ o.now >= v.now) => VerifyBytes(a, o).outcome # "valid"

\* The obligation a receipt is held to is the one its manifest spells.
HeldAsSpelled(a) == ReadsExactly(a.cadence) /\ ReadsExactly(a.grace)
=============================================================================
