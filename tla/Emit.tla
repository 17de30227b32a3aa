-------------------------------- MODULE Emit --------------------------------
(***************************************************************************)
(* emit.rs: the checks a candidate statement passes before it is signed,   *)
(* beside the rules by which governance.rs reads a statement back out of a *)
(* log.                                                                    *)
(*                                                                         *)
(* A payload is known by the members it does not carry and by those it     *)
(* carries in a form their own rule refuses.                               *)
(***************************************************************************)
EXTENDS CommandLine

\* STATEMENT_TYPES
StatementTypes == {"ingestion", "derivation", "retraction", "correction", "propagation", "manifest", "key"}

\* valid_time        an RFC 3339 instant, or an interval of them
\* record, replacement: a canonical commitment; inputs, outputs: of each
\* reason_code       of REASON_CODES; scope: effective_from and retroactive
\* corpus_checkpoint its log_id, root_hash and tree_size
\* log.keys          key objects bound to their ids and valid from an index;
\* keys, witnesses   likewise; adaptor.hash: a family string
\* epoch             cadence_epoch; cadence: read, and not of zero
\* key               an object with both its strings; binding: the id is its
\*                   public key's, which no payload lacks but by having it wrong
Members ==
  {"ahl_version", "producer", "valid_time", "issued_at", "manifest",
   "dataset", "record", "replacement", "reason_code", "scope",
   "pipeline", "inputs", "transform", "outputs", "outputs_root", "outputs_count", "leaf_format",
   "trigger", "corpus_checkpoint", "affected_root", "affected_count", "complete_relative_to_manifest",
   "keys", "datasets", "pipelines", "witnesses", "log", "log_id", "operator", "adaptor", "adaptor.hash",
   "cadence", "epoch", "grace", "log.keys", "action", "key", "binding", "valid_from"}

Payloads == [json : {"not", "other", "object"}, type : StatementTypes \cup {"other"},
             absent : SUBSET (Members \ {"binding"}), odd : SUBSET Members]

Present(p, ms) == ms \cap p.absent = {}
Formed(p, ms)  == Present(p, ms) /\ ms \cap p.odd = {}

-----------------------------------------------------------------------------
\* What every statement, and each type, is required to carry well formed, and
\* what it is required to carry at all.
FormedIn(type) ==
  {"ahl_version", "valid_time", "issued_at"} \cup
  CASE type = "ingestion"   -> {"dataset", "record"}
    [] type = "derivation"  -> {"pipeline", "inputs"}
    [] type = "retraction"  -> {"dataset", "record", "reason_code", "scope"}
    [] type = "correction"  -> {"dataset", "record", "reason_code", "scope", "replacement"}
    [] type = "propagation" -> {"trigger", "corpus_checkpoint", "affected_root", "affected_count",
                                "complete_relative_to_manifest"}
    [] type = "manifest"    -> {"log", "adaptor", "cadence", "epoch", "grace"}
    [] type = "key"         -> {"action", "key"}

PresentIn(type) ==
  {"producer"} \cup
  CASE type = "derivation" -> {"transform"}
    [] type = "manifest"   -> {"keys", "datasets", "pipelines", "log_id", "operator", "log.keys", "adaptor.hash"}
    [] type = "key"        -> {"valid_from"}
    [] OTHER               -> {}

\* Either the outputs or the commitment to a batch of them.
OutputsStated(p) ==
  \/ /\ ~Present(p, {"outputs"})
     /\ Present(p, {"outputs_root", "outputs_count"})
     /\ Formed(p, {"leaf_format"})
  \/ ~Present(p, {"outputs_root"}) /\ Formed(p, {"outputs"})

\* Mutation: a manifest is checked as any other statement, for its presence.
CheckPresence(p) ==
  Unless(/\ p.json = "object"
         /\ p.type \in StatementTypes
         /\ Present(p, FormedIn(p.type) \cup PresentIn(p.type))
         /\ Present(p, {"manifest"}) = (p.type # "manifest")
         /\ p.type = "derivation" => OutputsStated(p),
         "malformed")

\* check
Check(p) ==
  Unless(/\ p.json = "object"
         /\ p.type \in StatementTypes
         /\ Formed(p, FormedIn(p.type))
         /\ Present(p, PresentIn(p.type))
         /\ Present(p, {"manifest"}) = (p.type # "manifest")
         /\ p.type = "derivation" => OutputsStated(p),
         "malformed")

\* run: nothing is installed that was not signed, nor signed unchecked.
EmitRun(file, p, key, out) ==
  First(<<ReadFile(file, "artifact"), Check(p), LoadKey(key), Install(out.at, out.force)>>)

-----------------------------------------------------------------------------
\* validate_manifest_schema, producer_key_objects, key_objects, bind_key.
ManifestReads(p) ==
  /\ Formed(p, {"keys", "log", "log_id", "operator", "cadence", "epoch", "grace", "adaptor",
                "adaptor.hash", "log.keys"})
  /\ Formed(p, {"witnesses"}) \/ ~Present(p, {"witnesses"})

\* read_key_event
KeyEventReads(p) == Formed(p, {"action", "key", "binding"})

\* What the governance of a log makes of the statement once it is anchored.
GovernanceReads(p) ==
  CASE p.type = "manifest" -> ManifestReads(p)
    [] p.type = "key"      -> KeyEventReads(p)
    [] OTHER               -> p.type \in StatementTypes

\* What emit leaves to the operator: the form of these it never looks at.
Unchecked == {"keys", "log_id", "operator", "adaptor.hash", "log.keys", "witnesses", "binding"}

\* A statement emit signs is one the log's readers can read, unless what is
\* wrong with it is in the form of a member emit does not look into.
SignedIsReadable(p) == Check(p) = "ok" => GovernanceReads(p) \/ p.odd \cap Unchecked # {}
=============================================================================
