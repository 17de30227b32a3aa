----------------------------- MODULE CommandLine -----------------------------
(***************************************************************************)
(* What a run begins from and how it ends: the arguments (cli.rs), the     *)
(* files it opens (secure.rs), the trust policy (policy.rs), the adaptor   *)
(* profiles it holds (profile.rs), the key it signs with (keys.rs), and    *)
(* the outcome of every error (error.rs, outcome.rs).                      *)
(*                                                                         *)
(* Every step of a run that can stop it is one of these checks: "ok" or    *)
(* the class of its error, and the first that is not "ok" is the run's.    *)
(***************************************************************************)
EXTENDS Integers, Sequences, FiniteSets

CONSTANT Caps   \* the bytes a file of each use may have

Uses    == {"policy", "dataset key", "profile", "signing key", "transcript", "artifact"}
Secrets == {"policy", "dataset key", "signing key"}

ASSUME CapsAssumption == Caps \in [Uses -> Nat]

-----------------------------------------------------------------------------
(***************************************************************************)
(* CliError::outcome, Outcome::exit_code.                                  *)
(***************************************************************************)
CouldNotBegin == {"usage", "open", "unparseable", "policy", "profile-broken", "output",
                  "refused-target", "internal", "execution-failed"}
RuleFired == {"malformed", "rule", "equivocation"}
NotEstablishable == {"genesis-mismatch", "not-possessed", "profile-limitation", "limit", "missing", "topology"}

OutcomeOf(error) ==
  CASE error \in CouldNotBegin    -> "error"
    [] error \in RuleFired        -> "invalid"
    [] error \in NotEstablishable -> "unverifiable"

ExitCode == [valid |-> 0, invalid |-> 1, error |-> 2, unverifiable |-> 3]

\* an option that may be left out is a set of one element or none
AtMostOne(S) == \A x, y \in S : x = y
Given(S) == CHOOSE x \in S : TRUE

Unless(holds, error) == IF holds THEN "ok" ELSE error

\* The first check that fails is the one a run ends with.
First(checks) ==
  LET failed == {n \in DOMAIN checks : checks[n] # "ok"} IN
  IF failed = {} THEN "ok" ELSE checks[CHOOSE n \in failed : \A m \in failed : n <= m]

-----------------------------------------------------------------------------
(***************************************************************************)
(* Files, checked on the open handle.                                      *)
(***************************************************************************)

\* private: no bits beyond the owner's; own: the owner is who runs this
Files == [kind : {"absent", "link", "regular", "other"}, private : BOOLEAN, own : BOOLEAN, size : Nat]

\* Mutation: a secret is opened as an artifact is.
OpenCheckedLax(f, use) == Unless(f.kind = "regular", "open")

\* open_checked: regular, its last component no link; a secret its owner's alone.
OpenChecked(f, use) ==
  Unless(f.kind = "regular" /\ (use \in Secrets => f.private /\ f.own), "open")

\* read_regular, read_secret: one byte past the budget is one too many.
ReadFile(f, use) == First(<<OpenChecked(f, use), Unless(f.size <= Caps[use], "limit")>>)

-----------------------------------------------------------------------------
(***************************************************************************)
(* The trust policy: the anchor is checked before anything derived from it.*)
(***************************************************************************)

\* parses    UTF-8, TOML of these members and no others
\* genesis, keyIds, and the witnesses' and profiles' digests: TRUE for a
\*           family string
\* profiles  by id: the pinned digest, the document and whether it hashes to it
\* datasets  in order: what the key is given by, and whether it decodes
\* mirror, witness: the scheme of the endpoint
Profile == [pinned : BOOLEAN, file : Files, matches : BOOLEAN]
Dataset == [by : SUBSET {"file", "hex"}, file : Files, decodes : BOOLEAN]
Schemes == {"none", "https", "http", "odd"}

IsPolicy(p) ==
  /\ p.file \in Files
  /\ {p.parses, p.genesis} \cup p.keyIds \subseteq BOOLEAN
  /\ \A id \in DOMAIN p.profiles : p.profiles[id] \in Profile
  /\ p.datasets \in Seq(Dataset)
  /\ {p.mirror, p.witness} \subseteq Schemes

AnchorStated(p) == p.genesis /\ p.keyIds # {} /\ FALSE \notin p.keyIds

WitnessesStated(p) == \A w \in p.witnesses : w.id /\ w.pubkey /\ w.name

DatasetKey(d) ==
  First(<<Unless(Cardinality(d.by) = 1, "policy"),
          IF d.by = {"file"} THEN ReadFile(d.file, "dataset key") ELSE "ok",
          Unless(d.decodes, "policy")>>)

CheckEndpoint(scheme) == Unless(scheme # "odd", "policy")

\* policy::load, from_parsed.
LoadPolicy(p) ==
  First(<<ReadFile(p.file, "policy"),
          Unless(p.parses, "policy"),
          Unless(AnchorStated(p), "policy"),
          Unless(WitnessesStated(p), "policy"),
          Unless(\A id \in DOMAIN p.profiles : p.profiles[id].pinned, "policy"),
          First([n \in DOMAIN p.datasets |-> DatasetKey(p.datasets[n])]),
          CheckEndpoint(p.mirror),
          CheckEndpoint(p.witness)>>)

\* Mutation: the digest in the policy is taken for the document's.
ResolvedUnread(q) == Unless(ReadFile(q.file, "profile") = "ok", "profile-broken")

\* resolve_configured: a document that cannot be read or hashes to something
\* else is a broken configuration, whatever the reason.
Resolved(q) == Unless(ReadFile(q.file, "profile") = "ok" /\ q.matches, "profile-broken")

\* profile::resolve
Possession(p, id) ==
  IF id \notin DOMAIN p.profiles THEN "absent"
  ELSE IF Resolved(p.profiles[id]) = "ok" THEN "held" ELSE "broken"

\* profile::resolve_all; its first id is the one a command goes by.
ResolveAll(p) == Unless(\A id \in DOMAIN p.profiles : Resolved(p.profiles[id]) = "ok", "profile-broken")
AnyProfile(p) == First(<<ResolveAll(p), Unless(DOMAIN p.profiles # {}, "not-possessed")>>)

-----------------------------------------------------------------------------
\* KeyArgs::source, SigningMaterial::load.  from: a file or a variable.
LoadKey(k) ==
  First(<<IF k.from = "file" THEN ReadFile(k.file, "signing key") ELSE Unless(k.set, "usage"),
          Unless(k.seed, "malformed")>>)

\* TranscriptFetcher::load: every exchange is an answer or a failure.
LoadTranscript(t) == First(<<ReadFile(t.file, "transcript"), Unless(t.parses, "malformed")>>)

\* where --out points, where it is given
Targets == {"none", "free", "taken", "unwritable"}

\* install, at the destination of --out
Install(out, force) ==
  CASE out = "none" \/ out = "free" -> "ok"
    [] out = "taken" -> Unless(force, "output")
    [] out = "unwritable" -> "output"
=============================================================================
