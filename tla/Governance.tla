----------------------------- MODULE Governance -----------------------------
(***************************************************************************)
(* governance.rs: Governance::resolve reads an enumerated log entry by     *)
(* entry and grows a chain of governance statements (manifests and key     *)
(* transitions) from the genesis manifest local policy pins, under the     *)
(* rules of GovernanceRules.                                               *)
(***************************************************************************)
EXTENDS GovernanceRules

VARIABLES
  chain,     \* Governance.manifests and .events: what governs, by entry index
  last,      \* previous_index
  status,    \* what resolve has answered
  findings   \* what it reports

govVars == <<chain, last, status, findings>>

Tags == {"structurally-invalid", "not-authorized", "anchored-twice", "schema-invalid"}

GovTypeOK ==
  /\ DOMAIN chain \subseteq Indexes
  /\ \A n \in DOMAIN chain : chain[n] \in Envelopes /\ Kind(chain, n) \in {"manifest", "key"}
  /\ \A n \in DOMAIN chain : n <= last
  /\ last \in Indexes \cup {-1}
  /\ status \in {"walking", "resolved", "rule_fired", "anchor_mismatch"}
  /\ findings \in SUBSET (Tags \X Indexes)

-----------------------------------------------------------------------------
(***************************************************************************)
(* The loop of resolve, one entry at a time.                               *)
(***************************************************************************)
Report(i, tag) ==
  /\ findings' = findings \cup {<<tag, i>>}
  /\ UNCHANGED <<chain, status>>

Answer(s) == status' = s /\ UNCHANGED <<chain, findings>>

\* Entries ascend by entry index or there is nothing to resolve.
OutOfOrder == Answer("rule_fired")

\* A broken envelope is excluded and its position kept.
Broken(i, e) == Payload(e).kind = "broken" /\ Report(i, "structurally-invalid")

NotGovernance(e) ==
  /\ Payload(e).kind \in {"untyped", "other", "unknown"}
  /\ UNCHANGED <<chain, status, findings>>

PrecedesAnyManifest(i, e) ==
  /\ Manifests(chain) = {}
  /\ Payload(e).kind = "key"
  /\ Report(i, "not-authorized")

\* The first manifest is the genesis or there is no trust anchor.
Genesis(i, e) ==
  /\ Manifests(chain) = {}
  /\ Payload(e).kind = "manifest"
  /\ IF WellAnchored(i, e) /\ Pinned(e) /\ SelfSigned(e)
       THEN chain' = Extend(chain, i, e) /\ UNCHANGED <<status, findings>>
       ELSE Answer(IF WellAnchored(i, e) /\ ~Pinned(e) THEN "anchor_mismatch" ELSE "rule_fired")

\* Every later statement, in the order of its tests.
Later(i, e) ==
  /\ Manifests(chain) # {}
  /\ Payload(e).kind \in {"manifest", "key"}
  /\ IF ~Authorized(chain, i, e) THEN Report(i, "not-authorized")
     ELSE IF DuplicateRefusal(chain, e) THEN Report(i, "anchored-twice")
     ELSE IF ~Fits(chain, e)
       THEN Report(i, IF Payload(e).kind = "manifest" /\ Linked(chain, e)
                        THEN "schema-invalid" ELSE "not-authorized")
     ELSE chain' = Extend(chain, i, e) /\ UNCHANGED <<status, findings>>

Read(i, e) ==
  \/ Broken(i, e) \/ NotGovernance(e) \/ PrecedesAnyManifest(i, e)
  \/ Genesis(i, e) \/ Later(i, e)

\* What an exhausted log leaves is resolved, if there is a manifest in it.
Finish == IF Manifests(chain) = {} THEN Answer("rule_fired") ELSE Answer("resolved")

\* resolve has returned with a failure; others go on reading.
Returned == status # "walking" /\ UNCHANGED <<chain, status, findings>>

GovInit ==
  /\ chain = [n \in {} |-> None]
  /\ last = -1
  /\ status = "walking"
  /\ findings = {}
=============================================================================
