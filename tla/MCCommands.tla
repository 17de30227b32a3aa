----------------------------- MODULE MCCommands -----------------------------
(***************************************************************************)
(* Commands for TLC: small logs of one corpus, honest and not, with the    *)
(* files, receipts, payloads and refusals the other commands are given,    *)
(* and the places they are run in.                                         *)
(***************************************************************************)
EXTENDS Commands, TLC

body == [kind |-> "other", pred |-> None, keys |-> {}, logKeys |-> {}, epoch |-> 0,
         sound |-> TRUE, action |-> "add", key |-> "kp", usable |-> TRUE]

StmtsDef     == {"G", "M2", "F", "Odd", "Bad", "I", "D", "V", "T", "X", "O", "Y"}
EnvelopesDef == {"g", "m2", "f", "i", "d", "v", "t", "t2", "x", "o", "y", "u", "bad"}

BodyDef ==
  [s \in StmtsDef |->
     CASE s = "G"   -> [body EXCEPT !.kind = "manifest", !.keys = {"kp", "kq"}, !.logKeys = {<<"kl", 0>>}]
       [] s = "M2"  -> [body EXCEPT !.kind = "manifest", !.keys = {"kp"}, !.pred = "g", !.logKeys = {<<"kl2", 1>>}]
       [] s = "F"   -> [body EXCEPT !.kind = "manifest", !.keys = {"ko"}, !.logKeys = {<<"ko", 0>>}]
       [] s = "Odd" -> [body EXCEPT !.kind = "unknown"]
       [] s = "Bad" -> [body EXCEPT !.kind = "broken"]
       [] OTHER     -> body]

saying == [type |-> "propagation", ins |-> {}, outs |-> {}, batch |-> None, record |-> "r",
           covers |-> {}, scoped |-> FALSE, replacement |-> None, logId |-> "L",
           witnessKeys |-> {}, authority |-> {}]
trigger == [saying EXCEPT !.type = "retraction", !.scoped = TRUE, !.covers = {1}]

SaysDef ==
  [s \in StmtsDef |->
     CASE s = "G"  -> [saying EXCEPT !.witnessKeys = {<<"kw", 0>>}, !.authority = {<<"r", "kp">>}]
       [] s = "M2" -> [saying EXCEPT !.witnessKeys = {<<"kw2", 1>>}, !.authority = {<<"r", "kp">>}]
       [] s = "F"  -> [saying EXCEPT !.witnessKeys = {<<"kw", 0>>}, !.authority = {<<"r", "ko">>}]
       [] s = "I"  -> [saying EXCEPT !.type = "ingestion", !.outs = {"r"}]
       [] s = "D"  -> [saying EXCEPT !.type = "derivation", !.ins = {"r"}, !.outs = {"s"}, !.batch = "b"]
       [] s = "V"  -> [saying EXCEPT !.type = "derivation", !.ins = {"r"}, !.outs = {"s"}]
       [] s = "T"  -> trigger
       [] s = "Y"  -> [trigger EXCEPT !.record = "s"]
       [] s = "X"  -> [trigger EXCEPT !.type = "correction", !.covers = {1, 2}, !.replacement = "s"]
       [] s = "O"  -> [trigger EXCEPT !.covers = {2}]
       [] OTHER    -> saying]

\* d derives a batch, v a record, which y is about; t2 copies t; x is a challenge; o is partly an outsider's; f is a forgery.
StmtOfDef ==
  [e \in EnvelopesDef |->
     CASE e = "g" -> "G" [] e = "m2" -> "M2" [] e = "f" -> "F" [] e = "i" -> "I" [] e = "d" -> "D" [] e = "v" -> "V" [] e = "y" -> "Y"
       [] e \in {"t", "t2"} -> "T" [] e = "x" -> "X" [] e = "o" -> "O" [] e = "u" -> "Odd" [] e = "bad" -> "Bad"]

SignersDef ==
  [e \in EnvelopesDef |->
     CASE e = "f" -> {"ko"} [] e \in {"d", "v", "x", "y"} -> {"kq"} [] e = "t2" -> {"kp", "kq"}
       [] e = "o" -> {"kp", "NoKey"} [] e = "bad" -> {"NoKey"} [] OTHER -> {"kp"}]

-----------------------------------------------------------------------------
mark(tree, time) == [log |-> "L", root |-> tree, time |-> time, signer |-> "kl"]
g == mark(<<"g">>, 0)

deployment(history, cosigner) ==
  [history |-> history, cosigner |-> cosigner, stolen |-> {}, forged |-> {}, lying |-> FALSE]

every(history, key) == [n \in DOMAIN history |-> key]

\* a quiet log signs one root twice before it goes on
Quiet ==
  LET h == <<g, mark(<<"g", "i">>, 0), mark(<<"g", "i", "d">>, 0), mark(<<"g", "i", "d">>, 1),
             mark(<<"g", "i", "d", "t">>, 0), mark(<<"g", "i", "d", "t", "x">>, 0)>>
  IN deployment(h, every(h, "kw"))

\* challenged, tampered with and copied before the end
Challenged ==
  LET h == <<g, mark(<<"g", "i", "t", "x">>, 0), mark(<<"g", "i", "t", "x", "o", "t2">>, 0)>>
  IN deployment(h, every(h, "kw"))

\* a record is derived, and withdrawn by whoever derived it
Derived ==
  LET h == <<g, mark(<<"g", "i", "v">>, 0), mark(<<"g", "i", "v", "y">>, 0)>>
  IN deployment(h, every(h, "kw"))

Tampered ==
  LET h == <<g, mark(<<"g", "f", "i">>, 0), mark(<<"g", "f", "i", "o">>, 0), mark(<<"g", "f", "i", "o", "t">>, 0)>>
  IN deployment(h, every(h, "kw"))

Unruly == LET h == <<g, mark(<<"g", "u">>, 0)>> IN deployment(h, every(h, "kw"))

\* the log and witness keys are replaced by the manifest at index 2
Rotated ==
  LET h == <<g, mark(<<"g", "i">>, 0), [mark(<<"g", "i", "m2">>, 0) EXCEPT !.signer = "kl2"],
             [mark(<<"g", "i", "m2", "t">>, 0) EXCEPT !.signer = "kl2"]>>
  IN deployment(h, [n \in 1..4 |-> IF n < 3 THEN "kw" ELSE "kw2"])

\* two roots at size 2, and the log of another corpus under the same key
Equivocating ==
  LET h == <<g, mark(<<"g", "i">>, 0), mark(<<"g", "t">>, 1), mark(<<"g", "i", "t">>, 0)>>
  IN [deployment(h, every(h, "kw")) EXCEPT !.lying = TRUE]

\* everyone lies about an honest log
Lying ==
  LET h == <<g, mark(<<"g", "i">>, 0), mark(<<"g", "i", "t">>, 0)>>
  IN [deployment(h, [every(h, "kw") EXCEPT ![2] = "NoKey"]) EXCEPT
        !.lying = TRUE,
        !.forged = {[mark(<<"g", "f">>, 1) EXCEPT !.signer = "ko"],
                    [mark(<<"g", "x">>, 2) EXCEPT !.signer = "NoKey"]}]

\* the witness key was stolen after it was replaced
Stolen ==
  LET h == <<g, mark(<<"g", "i">>, 0), [mark(<<"g", "i", "m2">>, 0) EXCEPT !.signer = "kl2"]>>
  IN [deployment(h, <<"kw", "kw", "NoKey">>) EXCEPT !.lying = TRUE, !.stolen = {"kw"}]

WorldsDef == {Quiet, Challenged, Derived, Tampered, Unruly, Rotated, Equivocating, Lying, Stolen}

-----------------------------------------------------------------------------
CapsDef == [u \in Uses |-> 1]

regular == [kind |-> "regular", private |-> TRUE, own |-> TRUE, size |-> 1]
faults(f) == <<[f EXCEPT !.kind = "absent"], [f EXCEPT !.kind = "link"], [f EXCEPT !.private = FALSE],
               [f EXCEPT !.own = FALSE], [f EXCEPT !.size = 2]>>
files(f) == {faults(f)[n] : n \in DOMAIN faults(f)}
profile == [pinned |-> TRUE, file |-> regular, matches |-> TRUE]
dataset == [by |-> {"file"}, file |-> regular, decodes |-> TRUE]
trusted == [id |-> TRUE, pubkey |-> TRUE, name |-> TRUE]
policy ==
  [file |-> regular, parses |-> TRUE, genesis |-> TRUE, keyIds |-> {TRUE}, witnesses |-> {trusted},
   profiles |-> "p" :> profile, datasets |-> <<dataset>>, mirror |-> "https", witness |-> "https"]

unheld == [policy EXCEPT !.profiles = [id \in {} |-> profile]]
rewritten == [policy EXCEPT !.profiles = "p" :> [profile EXCEPT !.matches = FALSE]]

policies ==
  [n \in DOMAIN faults(regular) |-> [policy EXCEPT !.file = faults(regular)[n]]]
  \o <<[policy EXCEPT !.parses = FALSE], [policy EXCEPT !.genesis = FALSE], [policy EXCEPT !.keyIds = {}],
       [policy EXCEPT !.keyIds = {TRUE, FALSE}], [policy EXCEPT !.witnesses = {trusted, [trusted EXCEPT !.name = FALSE]}],
       [policy EXCEPT !.mirror = "odd"], [policy EXCEPT !.mirror = "none"], [policy EXCEPT !.witness = "none"]>>
  \o LET q == <<[profile EXCEPT !.pinned = FALSE], [profile EXCEPT !.file.kind = "absent"],
                [profile EXCEPT !.matches = FALSE]>>
         d == <<[dataset EXCEPT !.by = {}], [dataset EXCEPT !.by = {"file", "hex"}],
                [dataset EXCEPT !.decodes = FALSE], [dataset EXCEPT !.file.private = FALSE],
                [dataset EXCEPT !.by = {"hex"}, !.file.kind = "absent"]>>
     IN [n \in DOMAIN q |-> [policy EXCEPT !.profiles = @ @@ "q" :> q[n]]]
        \o [n \in DOMAIN d |-> [policy EXCEPT !.datasets = <<dataset, d[n]>>]]

exchange == [names |-> <<{"lo"}, {"lo"}>>, connects |-> TRUE, status |-> "answer", location |-> <<"none", "none">>,
             wire |-> 1, body |-> 1, cut |-> FALSE]
peers == SUBSET {"lo", "far"}
exchanges ==
  {[exchange EXCEPT !.names = <<first, again>>] : first \in peers, again \in peers}
  \cup {[exchange EXCEPT !.connects = FALSE]}
  \cup {[exchange EXCEPT !.status = "redirect", !.location = l] : l \in Hosts \X Schemes}
  \cup {[exchange EXCEPT !.wire = w, !.body = b, !.cut = c] : w \in 1..3, b \in 0..3, c \in BOOLEAN}

transcript == [file |-> regular, parses |-> TRUE, records |-> {"answer", "refused", "none"}]

at == [wrong |-> {}, help |-> FALSE, policy |-> {policy}, transcript |-> {}, mirror |-> "none",
       witness |-> "none", requests |-> 10, cache |-> "none", file |-> regular, parses |-> TRUE, stdout |-> "open",
       servers |-> {}, worlds |-> {Quiet}]

\* fewer requests than some run needs, or just enough
tight ==
  LET n == <<1, 2, 4, 5, 6, 9>>
  IN [k \in DOMAIN n |-> [at EXCEPT !.requests = n[k]]]
     \o <<[at EXCEPT !.cache = "usable", !.requests = 1],
          [at EXCEPT !.cache = "usable", !.requests = 5, !.worlds = {Quiet, Lying}]>>

\* by number: what is in order, and what the policy's profile is not
home == 1  unheldAt == 2  brokenAt == 3

PlacesDef ==
  <<[at EXCEPT !.worlds = WorldsDef], [at EXCEPT !.policy = {unheld}], [at EXCEPT !.policy = {rewritten}],
    [at EXCEPT !.transcript = {transcript}], [at EXCEPT !.transcript = {[transcript EXCEPT !.parses = FALSE]}],
    [at EXCEPT !.transcript = {[transcript EXCEPT !.file.size = 2]}],
    [at EXCEPT !.stdout = "broken"], [at EXCEPT !.help = TRUE], [at EXCEPT !.policy = {}],
    [at EXCEPT !.cache = "unusable"], [at EXCEPT !.parses = FALSE]>>
  \o tight
  \o [n \in DOMAIN policies |-> [at EXCEPT !.policy = {policies[n]}]]
  \o [n \in DOMAIN faults(regular) |-> [at EXCEPT !.file = faults(regular)[n]]]
  \o LET w == <<"arguments", "evaluation time", "checkpoint", "valid time", "corpus">>
         served == [at EXCEPT !.servers = exchanges]
         m == <<"none", "http", "odd">>
     IN [n \in DOMAIN w |-> [at EXCEPT !.wrong = {w[n]}]]
        \o [n \in DOMAIN m |-> [served EXCEPT !.mirror = m[n], !.witness = m[n]]]
        \o [n \in DOMAIN m |-> [served EXCEPT !.policy = {[policy EXCEPT !.mirror = "http"]}, !.mirror = m[n], !.witness = m[n]]]

-----------------------------------------------------------------------------
triggers == {ByIndex(n) : n \in 1..3} \cup {ById("T"), ById("X")}

closures ==
  [name : {"closure"}, place : {home}, size : 2..6, trigger : triggers, material : {{}, {"b"}}]

reconstructs ==
  [name : {"reconstruct"}, place : {home}, size : 2..4, record : {"r", "s"}, time : {1, 2}]

item(n, e) == [index |-> n, envelope |-> e]
file(tree) == [n \in DOMAIN tree |-> item(n - 1, tree[n])]

corpora ==
  {file(<<"g">> \o rest) : rest \in [1..3 -> {"m2", "f", "i", "t", "t2", "o", "bad", "u"}]}
  \cup {<<item(1, "i"), item(0, "g"), item(1, "t"), item(2, "t"), item(NoIndex, "t"), item(3, None)>>,
        <<item(0, "g"), item(2, "t")>>}

topologies ==
  [name : {"topology"}, place : {home}, file : corpora, trigger : {ByIndex(2), ById("T")}, material : {{}}]

whole(n, u) == Spelled(<<>>, <<Plain(n, u)>>)
tenth == Spelled(<<>>, <<Fraction(0, <<1>>)>>)
none  == Spelled(<<>>, <<Plain(0, "S")>>)

\* two ways to say a second, ways to say what cannot be said, and too much
spellings ==
  {tenth, none, whole(1, "S"), whole(2, "S"), whole(1, "M"), whole(1, "H"), whole(9, "H"),
   Spelled(<<>>, <<Fraction(0, <<1, 0>>)>>), Spelled(<<>>, <<Fraction(0, <<0, 1>>)>>),
   Spelled(<<>>, <<Fraction(0, <<1, 0, 0>>)>>), Spelled(<<>>, <<Fraction(0, <<>>)>>),
   Spelled(<<>>, <<Plain(1, "S"), Fraction(1, <<5>>)>>), Spelled(<<>>, <<Plain(Nothing, "S")>>),
   Spelled(<<>>, <<Plain(1, "")>>), Spelled(<<>>, <<[Fraction(1, <<1>>) EXCEPT !.unit = "M"]>>),
   Spelled(<<Plain(0, "D")>>, <<Plain(1, "S")>>), Spelled(<<Plain(0, "D")>>, <<>>), Spelled(<<Plain(1, "D")>>, <<>>),
   Spelled(<<Plain(1, "M")>>, <<>>), [Spelled(<<Plain(0, "D")>>, <<>>) EXCEPT !.timed = TRUE]}

base == [json |-> TRUE, object |-> TRUE, versions |-> <<"first", "first">>, canonical |-> TRUE, names |-> TRUE, core |-> "verified",
         carried |-> TRUE, witnesses |-> TRUE, checkpoint |-> TRUE, chain |-> TRUE, dated |-> TRUE, time |-> 1,
         cadence |-> tenth, grace |-> none]

ArtifactsDef ==
  {[base EXCEPT !.json = FALSE], [base EXCEPT !.object = FALSE, !.versions = <<"unreadable", "unreadable">>, !.core = "invalid", !.names = FALSE], [base EXCEPT !.canonical = FALSE], [base EXCEPT !.names = FALSE]}
  \cup {[base EXCEPT !.versions = <<n, m>>, !.core = c, !.carried = k] :
          n \in {"first", "second"}, m \in {"first", "second"}, c \in {"verified", "invalid", "unverifiable"}, k \in BOOLEAN}
  \cup {[base EXCEPT !.versions = <<n, m>>, !.core = "invalid"] : n \in {"unreadable"}, m \in Versions}
  \cup {[base EXCEPT !.versions = <<n, m>>, !.core = "invalid"] : n \in Versions, m \in {"unreadable"}}
  \cup {[base EXCEPT !.time = t, !.dated = d, !.chain = h, !.grace = n] :
          t \in {0, 40}, d \in BOOLEAN, h \in BOOLEAN, n \in {none, tenth}}
  \cup {[base EXCEPT !.cadence = n] : n \in spellings} \cup {[base EXCEPT !.grace = n] : n \in spellings}
  \cup {[base EXCEPT !.core = "unverifiable", !.witnesses = w, !.checkpoint = ~w] : w \in BOOLEAN}

VerifiersDef ==
  [implements : {<<"first", "first">>}, profile : {"held"}, completes : {TRUE}, now : {0, 1, 10, 11, 12, 21, 60}, requireFresh : BOOLEAN]
  \cup [implements : {"first"} \X {"first", "second"}, profile : {"held", "broken", "absent"}, completes : BOOLEAN,
        now : {0}, requireFresh : {TRUE}]

\* Each in the place whose policy gives the verifier the profile it has.
placeOf == [held |-> home, broken |-> brokenAt, absent |-> unheldAt]
verifications ==
  UNION {[name : {"verify"}, place : {placeOf[p]}, pinned : {"p"}, artifact : ArtifactsDef,
          verifier : {v \in VerifiersDef : v.profile = p}] : p \in DOMAIN placeOf}

\* what is a fact of two members is never itself left out
payload(t, absent, odd) == [json |-> "object", type |-> t, absent |-> absent \ {"binding"}, odd |-> odd]
unlike(t) == IF t = "manifest" THEN {"manifest"} ELSE {}
outputs == {{"outputs"}, {"outputs_root", "outputs_count", "leaf_format"}, {"outputs", "outputs_root"}, {}}

payloads ==
  UNION {{payload(t, unlike(t), {m}), payload(t, unlike(t) \cup {m}, {})} : t \in StatementTypes, m \in Members}
  \cup UNION {{payload("derivation", o, {m}), payload("derivation", o \cup {m}, {})} : o \in outputs, m \in Members}
  \cup {[payload("key", {}, {}) EXCEPT !.json = j] : j \in {"not", "other"}}
  \cup {payload("other", {}, {}), payload("manifest", {}, {})}

key == [from |-> "file", file |-> regular, set |-> TRUE, seed |-> TRUE]
keys == {[key EXCEPT !.file = f] : f \in files(regular)}
        \cup {[key EXCEPT !.seed = FALSE], [key EXCEPT !.from = "variable"], [key EXCEPT !.from = "variable", !.set = FALSE]}
sound == payload("ingestion", {}, {})

emission(p, k, out) == [name |-> "emit", place |-> home, payload |-> p, key |-> k, out |-> out]
emissions ==
  {emission(p, key, [at |-> "none", force |-> FALSE]) : p \in payloads}
  \cup {emission(sound, k, [at |-> "free", force |-> FALSE]) : k \in keys}
  \cup {emission(sound, key, [at |-> a, force |-> f]) : a \in {"none", "free", "taken", "unwritable"}, f \in BOOLEAN}

said == [type |-> "ingestion", names |-> TRUE, pins |-> FALSE, outputs |-> "none", affected |-> "none", declares |-> {}]
genesis == [said EXCEPT !.type = "manifest", !.names = FALSE, !.pins = TRUE]
batch   == [said EXCEPT !.type = "derivation", !.outputs = "b"]
cleared == [said EXCEPT !.type = "propagation", !.affected = "a", !.declares = {2}]
subjects == {said, batch, cleared, genesis, [said EXCEPT !.names = FALSE], [batch EXCEPT !.outputs = "none"],
             [cleared EXCEPT !.affected = "none", !.declares = {}]}

leaf(n, inputs) == [dataset |-> "d", record |-> n, inputs |-> inputs]
leaves == [b |-> <<leaf("s", "none"), leaf("r", "i")>>, i |-> <<leaf("p", "none"), leaf("q", "none")>>,
           a |-> <<leaf("r", "none")>>]
material == [file |-> regular, json |-> TRUE, leaves |-> leaves]
narrowed(trees) == [material EXCEPT !.leaves = [t \in trees |-> leaves[t]]]

asking ==
  [claim |-> "statement-anchored", log |-> "https", witnesses |-> {"https"}, allowed |-> FALSE, names |-> {},
   envelope |-> regular, canonical |-> TRUE, entry |-> said, dataset |-> "none", record |-> "none", bytes |-> {},
   canonicalization |-> "none", embeds |-> <<>>, trees |-> {}, target |-> {}, continued |-> TRUE,
   out |-> [at |-> "free", force |-> FALSE]]

\* What a claim takes, where the statement bears it.
right(claim, e) ==
  LET narrow == claim \in DOMAIN ClaimShape /\ ClaimShape[claim].subject
  IN [asking EXCEPT !.claim = claim, !.entry = e, !.dataset = IF narrow THEN "d" ELSE "none",
                    !.record = IF narrow THEN "r" ELSE "none", !.trees = IF narrow THEN {material} ELSE {}]

deployed(trees, sizes, fails) ==
  {[tree |-> t, sizes |-> {n \in sizes : n <= Len(t)}, fails |-> f] : t \in trees, f \in fails}

fresh(e)  == {<<genesis>>}
usual(e)  == {<<genesis>>, <<genesis, said, e, batch, said>>}
variety(e) == usual(e) \cup {<<genesis, e>>, <<genesis, e, genesis, said>>, <<[genesis EXCEPT !.pins = FALSE], e>>, <<batch, e>>}

issues(r, good, ds) == {[name |-> "issue", place |-> home, request |-> r, right |-> good, deployment |-> d] : d \in ds}

\* each claim of each statement; a claim about a record asked for with less
claimed ==
  UNION {LET good == right(c, e) IN
         issues(good, good, deployed(variety(e), 1..5, {"never"}))
         \cup UNION {issues([good EXCEPT !.dataset = n, !.record = m], good, deployed(usual(e), 1..5, {"never"})) :
                       n \in {"none", "d"}, m \in {"none", "r", "x"}} :
         c \in DOMAIN ClaimShape \cup {"another"}, e \in subjects}
  \cup UNION {LET good == right(c, e) IN
               issues([good EXCEPT !.trees = {t}], good, deployed(fresh(e), 1..5, {"never"})) :
               c \in {"record-derived", "disposition-declared"}, e \in {batch, cleared},
               t \in {narrowed({"b"}), narrowed({"i"}), [material EXCEPT !.json = FALSE]}}

mistaken(r) ==
  {[r EXCEPT !.log = l, !.allowed = a, !.names = n] : l \in {"http", "odd"}, a \in BOOLEAN, n \in peers}
  \cup {[r EXCEPT !.witnesses = w] : w \in {{}, {"http"}, {"https", "odd"}}}
  \cup {[r EXCEPT !.envelope = f] : f \in files(regular)} \cup {[r EXCEPT !.canonical = FALSE]}
  \cup {[r EXCEPT !.bytes = b, !.canonicalization = c] :
           b \in {{}, {regular}, {[regular EXCEPT !.size = 2]}}, c \in {"none", "public", "x-"}}
  \cup {[r EXCEPT !.embeds = <<[file |-> regular, json |-> TRUE], [file |-> f, json |-> j]>>] :
           f \in files(regular) \cup {regular}, j \in BOOLEAN}
  \cup {[r EXCEPT !.target = {n}] : n \in {0, 2, 4, 9}} \cup {[r EXCEPT !.continued = FALSE]}
  \cup {[r EXCEPT !.out = [at |-> a, force |-> f]] : a \in {"free", "taken", "unwritable"}, f \in BOOLEAN}

mistakes ==
  UNION {UNION {issues(r, good, deployed(variety(good.entry), sizes, {"never", "after"})) :
                  r \in mistaken(good), sizes \in {1..5, {1, 5}}}
         \cup issues(good, good, deployed(variety(good.entry), 1..5, {"log", "mirror", "after"})) :
         good \in {right("statement-anchored", said), right("record-derived", batch), right("governance-state", cleared)}}

\* One command of each kind in every place.
everywhere ==
  LET some == {[name |-> "closure", size |-> 3, trigger |-> ByIndex(2), material |-> {}],
               [name |-> "closure", size |-> 4, trigger |-> ByIndex(3), material |-> {"b"}],
               [name |-> "reconstruct", size |-> 3, record |-> "r", time |-> 1],
               [name |-> "topology", file |-> file(<<"g", "i", "t">>), trigger |-> ByIndex(2), material |-> {}],
               [name |-> "inspect", artifact |-> base],
               [name |-> "verify", pinned |-> "p", artifact |-> base,
                verifier |-> CHOOSE v \in VerifiersDef : v.completes /\ v.now = 1 /\ v.implements = <<"first", "first">> /\ v.profile = "held"]}
              \cup {[name |-> "issue", request |-> asking, right |-> asking,
                      deployment |-> [tree |-> <<genesis>>, sizes |-> {1}, fails |-> "never"]]}
              \cup {[name |-> "emit", payload |-> sound, key |-> key, out |-> [at |-> "free", force |-> FALSE]]}
  IN {[place |-> p] @@ c : p \in DOMAIN PlacesDef, c \in some}

inspections == [name : {"inspect"}, place : {home}, artifact : ArtifactsDef]

other == [mark(<<"g", "t">>, 0) EXCEPT !.log = "L2"]
signedByLog == {mark(<<"g", "i">>, 0), mark(<<"g", "i", "t">>, 0)}
shown == signedByLog \cup {mark(<<"g", "t">>, 1), other, [mark(<<"g", "x">>, 0) EXCEPT !.signer = "ko"]}

refusals ==
  [name : {"refusal"}, place : {home}, log : {"L"}, witnessKeys : {{"kw"}}, logKeys : {{"kl"}},
   signed : {signedByLog, signedByLog \cup {mark(<<"g", "t">>, 1)}},
   refusal : [signer : {"kw", "NoKey"}, log : {"L", "L2"}, reason : RefusalReasons \cup {"missing-consistency-proof"},
              retained : shown, offered : shown,
              proof : {{}} \cup {{p} : p \in [from : {2}, to : {2, 3}, checkable : BOOLEAN, right : BOOLEAN]}]]

\* Only what the log signed bears its signature.
honestly(c) == \A m \in {c.refusal.retained, c.refusal.offered} :
                 (m.signer = "kl" /\ m.log = "L") => m \in c.signed

InvocationsDef ==
  closures \cup reconstructs \cup topologies \cup verifications \cup emissions \cup inspections \cup everywhere
  \cup claimed \cup mistakes
  \cup {c \in refusals : honestly(c)}

\* Reconstructions alone.
ReconstructionsDef == reconstructs
=============================================================================
