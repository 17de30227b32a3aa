---------------------------- MODULE TopologyWalk ----------------------------
(***************************************************************************)
(* Topology mode of closure: corpus.rs loads a file the operator hands     *)
(* over and walks it, reporting every violation and adjudicating none.     *)
(*                                                                         *)
(* A corpus is the sequence of the file's elements.  Nothing orders them,  *)
(* and nothing makes their entry indexes dense or distinct.                *)
(***************************************************************************)
EXTENDS StatementView

NoIndex == -1

\* index: entry_index, or NoIndex; envelope: the envelope object, or None
Items == [index : Indexes \cup {NoIndex}, envelope : Envelopes \cup {None}]

IsCorpus(f) == f \in Seq(Items)

-----------------------------------------------------------------------------
(***************************************************************************)
(* from_values, dense_envelopes.                                           *)
(***************************************************************************)
WellFormed(f, p) == f[p].index # NoIndex /\ f[p].envelope # None

\* The first well-formed element at an index is the entry there.
Loaded(f) ==
  {p \in DOMAIN f : WellFormed(f, p) /\ \A q \in 1..(p - 1) :
                      WellFormed(f, q) => f[q].index # f[p].index}

Entries(f) ==
  [n \in {f[p].index : p \in Loaded(f)} |->
     (CHOOSE e \in Envelopes : \E p \in Loaded(f) : f[p].index = n /\ f[p].envelope = e)]

Dense(f) == DOMAIN Entries(f) = 0..(Cardinality(DOMAIN Entries(f)) - 1)

DenseEnvelopes(f) == [n \in 1..Cardinality(DOMAIN Entries(f)) |-> Entries(f)[n - 1]]

LoadFindings(f) == {<<"corpus-element", p>> : p \in DOMAIN f \ Loaded(f)}

-----------------------------------------------------------------------------
(***************************************************************************)
(* walk.                                                                   *)
(***************************************************************************)

\* The chain structural_only finds, one entry after the other.
WalkChain(x) ==
  LET grown[n \in 0..(MaxIndex + 1)] ==
        IF n = 0 THEN [m \in {} |-> None]
        ELSE IF n - 1 \in DOMAIN x /\ WalkAdmits(grown[n - 1], x[n - 1])
               THEN Extend(grown[n - 1], n - 1, x[n - 1])
               ELSE grown[n - 1]
  IN grown[MaxIndex + 1]

HasPayload(x, n) == Payload(x[n]).kind # "broken"

\* Only against a chain that resolves can a signature fail.
DoesNotVerify(x, n) ==
  /\ Manifests(WalkChain(x)) # {}
  /\ HasPayload(x, n)
  /\ ~EnvelopeVerifiesAt(WalkChain(x), x[n], n)

\* Mutation: a void entry occupies the id of its statement.
RepeatsAny(x, n) ==
  /\ HasPayload(x, n)
  /\ ~DoesNotVerify(x, n)
  /\ \E k \in DOMAIN x : k < n /\ HasPayload(x, k) /\ StmtOf[x[k]] = StmtOf[x[n]]

\* A void entry occupies no statement id and repeats none.
Repeats(x, n) ==
  /\ HasPayload(x, n)
  /\ ~DoesNotVerify(x, n)
  /\ \E k \in DOMAIN x : /\ k < n
                         /\ HasPayload(x, k)
                         /\ ~DoesNotVerify(x, k)
                         /\ StmtOf[x[k]] = StmtOf[x[n]]

\* Every check is made of every entry, whatever an earlier one found.
WalkFindings(x) ==
  {<<"statement-unenveloped", n>> : n \in {k \in DOMAIN x : ~HasPayload(x, k)}}
  \cup {<<"signature-does-not-verify", n>> : n \in {k \in DOMAIN x : DoesNotVerify(x, k)}}
  \cup {<<"statement-id-not-unique", n>> : n \in {k \in DOMAIN x : Repeats(x, k)}}
  \cup {<<"unknown-statement-type", n>> : n \in {k \in DOMAIN x : Payload(x[k]).kind \in {"untyped", "unknown"}}}
  \cup {<<"trigger-without-scope", n>> : n \in {k \in DOMAIN x : IsTrigger(x[k]) /\ ~Saying(x[k]).scoped}}
  \cup {<<"correction-without-replacement", n>> :
          n \in {k \in DOMAIN x : Type(x[k]) = "correction" /\ Saying(x[k]).replacement = None}}

\* resolve_topology: the entry at an index, or the first with a statement id.
ResolveTopology(x, ref) ==
  IF ref.by = "index" THEN {ref.index} \cap DOMAIN x
  ELSE Least({n \in DOMAIN x : HasPayload(x, n) /\ StmtOf[x[n]] = ref.stmt})

\* The closure over the raw envelopes; no position is voided.
Topology(f, ref, material) ==
  LET x == Entries(f)
      raw == [tree |-> DenseEnvelopes(f), chain |-> WalkChain(x), stmts |-> DOMAIN x]
      named == {n \in ResolveTopology(x, ref) : IsTrigger(x[n])}
      affected == UNION {Affected(raw, Saying(x[n]).record) : n \in named}
  IN IF Dense(f) /\ named # {} /\ RequiredTreeRoots(raw, affected) \subseteq material
       THEN [outcome |-> "unverifiable", says |-> "topology", set |-> affected]
       ELSE Missing

-----------------------------------------------------------------------------
\* Where a corpus is a whole log and the walk finds the chain that governs it,
\* the walk reports exactly the positions the verified view voids: it neither
\* accuses a statement that counts nor passes over one that does not.
WalkNamesTheVoid(f) ==
  LET x == Entries(f)
      t == DenseEnvelopes(f)
      named == {n \in DOMAIN x : \E tag \in {"statement-unenveloped", "signature-does-not-verify",
                                              "statement-id-not-unique"} : <<tag, n>> \in WalkFindings(x)}
  IN (Dense(f) /\ x # <<>> /\ Resolves(t) /\ WalkChain(x) = ChainOf(t))
       => named = DOMAIN x \ Statements(ChainOf(t), t)
=============================================================================
