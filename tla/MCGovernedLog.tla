--------------------------- MODULE MCGovernedLog ---------------------------
(***************************************************************************)
(* GovernedLog for TLC: a corpus of two keys and two later manifest        *)
(* versions, an outsider, and the copies and forgeries one may anchor.     *)
(***************************************************************************)
EXTENDS GovernedLog, TLC

manifest == [kind |-> "manifest", pred |-> None, keys |-> {"k1"}, logKeys |-> {<<"k1", 0>>},
             epoch |-> 0, sound |-> TRUE, action |-> "add", key |-> "k1", usable |-> TRUE]
keyStmt  == [manifest EXCEPT !.kind = "key", !.keys = {}, !.logKeys = {}]

BodyDef ==
  "G"     :> manifest @@
  "M2"    :> [manifest EXCEPT !.pred = "g", !.keys = {"k1", "k2"}, !.logKeys = {<<"k2", 0>>, <<"k1", 3>>}] @@
  "M3"    :> [manifest EXCEPT !.pred = "m2", !.keys = {"k1"}] @@
  "Moved" :> [manifest EXCEPT !.pred = "g", !.epoch = 1] @@
  "Forged" :> [manifest EXCEPT !.pred = "g", !.keys = {"x"}, !.logKeys = {<<"x", 0>>}] @@
  "Add2"  :> [keyStmt EXCEPT !.key = "k2"] @@
  "Drop2" :> [keyStmt EXCEPT !.key = "k2", !.action = "retire"] @@
  "AddX"  :> [keyStmt EXCEPT !.key = "x"] @@
  "Bad"   :> [keyStmt EXCEPT !.usable = FALSE] @@
  "Data"  :> [keyStmt EXCEPT !.kind = "other"] @@
  "Odd"   :> [keyStmt EXCEPT !.kind = "untyped"] @@
  "Junk"  :> [keyStmt EXCEPT !.kind = "broken"]

\* statement and signers of each envelope
Signed ==
  "g"      :> <<"G", {"k1"}>> @@
  "m2"     :> <<"M2", {"k1"}>> @@
  "m2_sig" :> <<"M2", {"k1", "NoKey"}>> @@   \* an outsider's signature added
  "m3"     :> <<"M3", {"k1"}>> @@
  "moved"  :> <<"Moved", {"k1"}>> @@
  "forged" :> <<"Forged", {"x"}>> @@
  "add2"   :> <<"Add2", {"k1"}>> @@
  "drop2"  :> <<"Drop2", {"k1"}>> @@
  "quit2"  :> <<"Drop2", {"k2"}>> @@
  "addx"   :> <<"AddX", {"x"}>> @@
  "bad"    :> <<"Bad", {"k1"}>> @@
  "data"   :> <<"Data", {"k2"}>> @@
  "odd"    :> <<"Odd", {"x"}>> @@
  "junk"   :> <<"Junk", {"NoKey"}>>

StmtOfDef  == [e \in Envelopes |-> Signed[e][1]]
SignersDef == [e \in Envelopes |-> Signed[e][2]]
StmtsDef   == DOMAIN BodyDef
=============================================================================
