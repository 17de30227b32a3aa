---------------------------- MODULE FetchPromise ----------------------------
(***************************************************************************)
(* What a caller of fetch_revalidating is promised, whatever the cache     *)
(* directory holds and whoever else is writing to it: the answer it is     *)
(* given verifies under the checkpoint it selected, at most two answers    *)
(* are weighed for one request, and a request ends with one result.        *)
(***************************************************************************)
CONSTANTS Procs, Keys, Bytes, NoFile, Verifies

VARIABLES
  phase,    \* "idle", "asked", "dead", or the result of the last request
  want,     \* the key of the request being made
  result,   \* the accepted body
  refused   \* answers refused for this request

vars == <<phase, want, result, refused>>

Results == {"accepted", "refused", "unavailable"}

Init ==
  /\ phase = [p \in Procs |-> "idle"]
  /\ want \in [Procs -> Keys]
  /\ result = [p \in Procs |-> NoFile]
  /\ refused = [p \in Procs |-> 0]

Ask(p, k) ==
  /\ phase[p] \in {"idle"} \cup Results
  /\ k[1] = want[p][1]   \* the selected checkpoint is the invocation's own
  /\ phase' = [phase EXCEPT ![p] = "asked"]
  /\ want' = [want EXCEPT ![p] = k]
  /\ result' = [result EXCEPT ![p] = NoFile]
  /\ refused' = [refused EXCEPT ![p] = 0]

AskAgain(p) ==
  /\ phase[p] = "asked"
  /\ refused[p] = 0
  /\ refused' = [refused EXCEPT ![p] = 1]
  /\ UNCHANGED <<phase, want, result>>

Accept(p, b) ==
  /\ phase[p] = "asked"
  /\ b \in Verifies[want[p]]
  /\ phase' = [phase EXCEPT ![p] = "accepted"]
  /\ result' = [result EXCEPT ![p] = b]
  /\ UNCHANGED <<want, refused>>

GiveUp(p) ==
  /\ phase[p] = "asked"
  /\ \E r \in {"refused", "unavailable", "dead"} :
       phase' = [phase EXCEPT ![p] = r]
  /\ UNCHANGED <<want, result, refused>>

Next == \E p \in Procs : \/ \E k \in Keys : Ask(p, k)
                         \/ AskAgain(p)
                         \/ \E b \in Bytes : Accept(p, b)
                         \/ GiveUp(p)

Spec == Init /\ [][Next]_vars
=============================================================================
