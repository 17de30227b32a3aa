------------------------------ MODULE MCIssue ------------------------------
(* Instances of Issue for TLC. *)
EXTENDS Issue, TLC

CONSTANTS genesis, second, entry, r1, r2, w1, w2

\* w1 attests the first version, w2 the second.
MCDeclared == genesis :> {w1} @@ second :> {w2}

\* A log that has only begun, and one with a second manifest.
MCHistories == {<<genesis>>, <<genesis, entry, second>>}

MCEndpoints == <<w1, w2>>

MCRuns == Permutations({r1, r2})

MCStarts == "honest" :> 3 @@ "lying" :> 1
=============================================================================
