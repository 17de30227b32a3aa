----------------------------- MODULE Transport -----------------------------
(***************************************************************************)
(* net.rs below the budget, and transcript.rs in its place: one request,   *)
(* from its URL to the bytes of an answer or the class of a failure.  What *)
(* the name of a server resolves to may change between two questions.      *)
(***************************************************************************)
EXTENDS CommandLine

CONSTANTS
  Loopback,   \* the addresses of the machine itself
  Remotes     \* all the others

ASSUME TransportAssumption ==
  /\ Loopback \cap Remotes = {}
  /\ IsFiniteSet(Loopback) /\ IsFiniteSet(Remotes)

\* where a redirect points: "relative" names no host, "none" is no Location
Hosts == {"self", "elsewhere", "relative", "none"}

\* names     what the name resolves to when asked, and when asked again
\* connects  a peer is reached and answers in time
\* status    "redirect" for 3xx, "answer" for any other
\* location  of a redirect: the host and the scheme it names
\* wire, body: bytes received, and after decompression; cut: neither ends well
Exchanges ==
  [names : (SUBSET (Loopback \cup Remotes)) \X (SUBSET (Loopback \cup Remotes)),
   connects : BOOLEAN, status : {"redirect", "answer"},
   location : Hosts \X Schemes,
   wire : Nat, body : Nat, cut : BOOLEAN]

-----------------------------------------------------------------------------
\* pin: every address of a plain one must be of the machine itself.
Pin(url, x) ==
  IF url \notin {"https", "http"} THEN "refused-target"
  ELSE IF x.names[1] = {} THEN "missing"
  ELSE Unless(url = "http" => x.names[1] \subseteq Loopback, "refused-target")

\* Mutation: the connector resolves for itself.
PeersResolvedAgain(x) == x.names[2]

\* PinningResolver: the addresses that were checked and no others.  Which of
\* them is handed where they are too many, nothing fixes.
Peers(x) == x.names[1]

\* classify_redirect: the host by its name alone, whatever the port.
LeavesOrigin(url, x) ==
  /\ x.location[1] # "none"
  /\ \/ x.location[1] = "elsewhere"
     \/ x.location[2] = "odd"
     \/ x.location[2] = "http" /\ url # "http"

Redirected(url, x) == IF LeavesOrigin(url, x) THEN "refused-target" ELSE "missing"

\* The body, bounded on the wire and again as it is decompressed; one too long
\* is not read to where it is cut off.
ReadBody(x, cap) ==
  IF x.wire > cap \/ x.body > cap THEN "limit" ELSE Unless(~x.cut, "missing")

\* HttpFetcher::fetch, into_cli_error.
HttpFetch(url, x, cap) ==
  First(<<Pin(url, x),
          Unless(x.connects /\ Peers(x) # {}, "missing"),
          IF x.status = "redirect" THEN Redirected(url, x) ELSE ReadBody(x, cap)>>)

\* TranscriptFetcher::fetch: nothing is consumed, and what is not recorded is
\* an endpoint that did not answer.
Replayed(r) ==
  CASE r = "answer"  -> "ok"
    [] r = "refused" -> "refused-target"
    [] OTHER         -> "missing"

-----------------------------------------------------------------------------
\* Whoever answers was checked: the bytes of a plain exchange come from the
\* machine itself, however the name is resolved meanwhile, and there are no
\* more of them than the budget.  And no server, by failing, decides anything
\* about the artifact.
ExchangeIsChecked(url, x, cap) ==
  LET f == HttpFetch(url, x, cap) IN
  /\ f = "ok" => /\ url = "https" \/ Peers(x) \subseteq Loopback
                 /\ x.body <= cap /\ x.wire <= cap
                 /\ x.status # "redirect"
  /\ f # "ok" => OutcomeOf(f) \in {"error", "unverifiable"}
=============================================================================
