---------------------------- MODULE CachedFetch ----------------------------
(***************************************************************************)
(* Fetching through the two-layer cache: cache.rs (Cache, Caching),        *)
(* net.rs (fetch_revalidating, Budgeted) and the directory steps of        *)
(* install.rs they are made of.                                            *)
(*                                                                         *)
(* A process is one invocation of the CLI.  Invocations that name the same *)
(* --cache-dir share its two directories and nothing else, so every system *)
(* call on a file another process can see is a step of its own.  Nobody    *)
(* locks anything.                                                         *)
(*                                                                         *)
(* Bytes stand for their own digest (SHA-256 has no collision here): the   *)
(* object store is a directory whose names are digests and the temporary   *)
(* files of the processes, and process p's temporary is named p.           *)
(***************************************************************************)
EXTENDS Integers, FiniteSets, FiniteSetsExt

CONSTANTS
  Procs,        \* invocations of the CLI that share one cache directory
  Requests,     \* endpoint, range and body of a request
  Roots,        \* checkpoint identities an invocation may have selected
  Bytes,        \* response bodies
  NoFile,       \* absence of a directory entry
  Verifies,     \* the bodies the proof checks accept, for a root and a request
  Size,         \* length of a body
  Rank,         \* file names in their order: a temporary's begins with a dot
  Quota,        \* Cache.quota_bytes
  MaxRequests,  \* NetworkLimits.max_subrange_requests
  MaxTampers,   \* how often something other than the CLI writes to the cache
  MaxCrashes,   \* how many invocations are killed half way
  FsFaults      \* may creating, writing or installing a file fail?

ASSUME NamesApart == /\ Procs \cap Bytes = {}
                     /\ NoFile \notin Procs \cup Bytes
ASSUME VerifiesAssumption == Verifies \in [Roots \X Requests -> SUBSET Bytes]
ASSUME BoundsAssumption == /\ Size \in [Bytes -> Nat]
                           /\ Quota \in Nat
                           /\ MaxRequests \in Nat
                           /\ MaxTampers \in Nat
                           /\ MaxCrashes \in Nat
                           /\ FsFaults \in BOOLEAN

VARIABLES
  objects,   \* the object directory: what each name holds
  older,     \* <<m, n>>: the access time of m is before that of n
  index,     \* the index directory: the digest filed under each key
  tampers,   \* foreign writes so far
  pc,        \* where each process is
  root,      \* the checkpoint it selected
  req,       \* the request it is making
  dig,       \* the digest it read from the index
  ans,       \* the answer it holds
  from,      \* where that answer came from
  first,     \* "nowhere" on the first attempt; on the second, where the
             \* answer refused before came from
  spent,     \* live requests it has sent (BudgetState.requests)
  victims    \* names enforce_quota has still to drop

local == <<root, req, dig, ans, from, first, spent, victims>>
store == <<objects, older, index>>
vars  == <<store, tampers, pc, local>>

Keys   == Roots \X Requests
Names  == Bytes \cup Procs

ASSUME RankAssumption == /\ Rank \in [Names -> Nat]
                         /\ \A m, n \in Names : Rank[m] = Rank[n] => m = n

Origins == {"nowhere", "cache", "live"}
Ended  == {"accepted", "refused", "unavailable"}
Labels == Ended \cup
  {"idle", "get_index", "get_object", "drop_object", "drop_entry",
   "touch_temp", "touch_unlink", "touch_rename", "live", "weigh",
   "evict_index", "evict_object", "evict_entry",
   "put_check", "put_temp", "put_rename", "entry_unlink", "entry_rename",
   "quota_list", "quota_drop", "crashed"}

TypeOK ==
  /\ objects \in [Names -> Bytes \cup {NoFile}]
  /\ older \in SUBSET (Names \X Names)
  /\ index \in [Keys -> Bytes \cup {NoFile}]
  /\ tampers \in 0..MaxTampers
  /\ pc \in [Procs -> Labels]
  /\ root \in [Procs -> Roots]
  /\ req \in [Procs -> Requests]
  /\ dig \in [Procs -> Bytes \cup {NoFile}]
  /\ ans \in [Procs -> Bytes \cup {NoFile}]
  /\ from \in [Procs -> Origins]
  /\ first \in [Procs -> Origins]
  /\ spent \in [Procs -> 0..MaxRequests]
  /\ victims \in [Procs -> SUBSET Names]

(***************************************************************************)
(* The object directory.                                                   *)
(***************************************************************************)
Present == {n \in Names : objects[n] # NoFile}

\* Dir::read refuses an entry longer than its cap, and the cap is the quota.
Readable(n) == objects[n] # NoFile /\ Size[objects[n]] <= Quota

\* Files that were accessed before some other.
Overtaken == {m \in Present : \E n \in Present : <<m, n>> \in older}

\* The access time of n is now: later than every other one, or, as file
\* systems keep time in ticks, the same as the latest.
Accessed(n) ==
  \E before \in {Present, Overtaken} :
    older' = {e \in older : n \notin {e[1], e[2]}} \cup ((before \ {n}) \X {n})

CreateFile(n, b) ==
  /\ objects' = [objects EXCEPT ![n] = b]
  /\ Accessed(n)

\* Whether reading renews the access time is up to how the file system is
\* mounted.
ReadFile(n) == UNCHANGED older \/ (n \in Present /\ Accessed(n))

RemoveFile(n) ==
  /\ objects' = [objects EXCEPT ![n] = NoFile]
  /\ older' = {e \in older : n \notin {e[1], e[2]}}

\* A rename keeps the access time the temporary was created with.
RenameFile(t, n) ==
  LET renamed(m) == IF m = t THEN n ELSE m IN
  /\ objects' = [objects EXCEPT ![t] = NoFile, ![n] = objects[t]]
  /\ older' = {<<renamed(e[1]), renamed(e[2])>> : e \in older}

Weight(S) == MapThenSumSet(LAMBDA n : Size[objects[n]], S)

\* Least recently used first, and files of the same moment by their names.
GoesBefore(m, n) ==
  \/ <<m, n>> \in older
  \/ <<n, m>> \notin older /\ Rank[m] < Rank[n]

\* Mutation: the most recently used objects go first.
OverQuotaNewest ==
  {n \in Present : Weight({m \in Present : m = n \/ GoesBefore(m, n)}) > Quota}

\* Mutation: a file's own length is not counted.
OverQuotaShort ==
  {n \in Present : Weight({m \in Present : GoesBefore(n, m)}) > Quota}

\* What goes: a file goes when it and what would go after it exceed the quota.
OverQuota ==
  {n \in Present : Weight({m \in Present : m = n \/ GoesBefore(n, m)}) > Quota}

Goto(p, l) == pc' = [pc EXCEPT ![p] = l]

\* openat(O_EXCL), write and fsync of the temporary; failing leaves nothing.
WriteTemp(p, next, failed) ==
  \/ CreateFile(p, ans[p]) /\ Goto(p, next)
  \/ FsFaults /\ UNCHANGED <<objects, older>> /\ Goto(p, failed)

\* Mutation: an ordinary rename.
RenameOver(p, n, next, failed) ==
  IF objects[p] = NoFile THEN RemoveFile(p) /\ Goto(p, failed)
                         ELSE RenameFile(p, n) /\ Goto(p, next)

\* renameat2(RENAME_NOREPLACE): refused when the name is taken, or when the
\* temporary itself is gone; a refusal unlinks the temporary.
NoReplace(p, n, next, failed) ==
  \/ /\ objects[p] # NoFile
     /\ objects[n] = NoFile
     /\ RenameFile(p, n)
     /\ Goto(p, next)
  \/ /\ FsFaults \/ objects[p] = NoFile \/ objects[n] # NoFile
     /\ RemoveFile(p)
     /\ Goto(p, failed)

\* Mutation: the key is built from the request alone.
UnboundKey(p) == <<CHOOSE r \in Roots : TRUE, req[p]>>

\* The index key binds the selected checkpoint, not the request alone.
RequestKey(p) == <<root[p], req[p]>>

\* The caller's proof checks, against the checkpoint it selected.
Accepts(p, b) == b \in Verifies[<<root[p], req[p]>>]

-----------------------------------------------------------------------------
(***************************************************************************)
(* fetch_revalidating takes one request at a time, and Caching::fetch asks *)
(* the cache first.                                                        *)
(***************************************************************************)
Begin(p, r) ==
  /\ pc[p] \in {"idle"} \cup Ended
  /\ Goto(p, "get_index")
  /\ req' = [req EXCEPT ![p] = r]
  /\ first' = [first EXCEPT ![p] = "nowhere"]
  /\ dig' = [dig EXCEPT ![p] = NoFile]
  /\ ans' = [ans EXCEPT ![p] = NoFile]
  /\ from' = [from EXCEPT ![p] = "nowhere"]
  /\ UNCHANGED <<store, tampers, root, spent, victims>>

\* Cache::get, the index read: no entry is a miss.
GetIndex(p) ==
  /\ pc[p] = "get_index"
  /\ dig' = [dig EXCEPT ![p] = index[RequestKey(p)]]
  /\ Goto(p, IF index[RequestKey(p)] = NoFile THEN "live" ELSE "get_object")
  /\ UNCHANGED <<store, tampers, root, req, ans, from, first, spent, victims>>

\* Cache::get, the object read: an absent object is a miss that leaves the
\* index entry behind, bytes under a digest not theirs are dropped.
GetObject(p) ==
  /\ pc[p] = "get_object"
  /\ ReadFile(dig[p])
  /\ IF ~Readable(dig[p])
       THEN Goto(p, "live") /\ UNCHANGED <<ans, from>>
     ELSE IF objects[dig[p]] # dig[p]
       THEN Goto(p, "drop_object") /\ UNCHANGED <<ans, from>>
     ELSE /\ ans' = [ans EXCEPT ![p] = objects[dig[p]]]
          /\ from' = [from EXCEPT ![p] = "cache"]
          /\ Goto(p, "touch_temp")
  /\ UNCHANGED <<objects, index, tampers, root, req, dig, first, spent, victims>>

DropObject(p) ==
  /\ pc[p] = "drop_object"
  /\ RemoveFile(dig[p])
  /\ Goto(p, "drop_entry")
  /\ UNCHANGED <<index, tampers, local>>

DropEntry(p) ==
  /\ pc[p] = "drop_entry"
  /\ index' = [index EXCEPT ![RequestKey(p)] = NoFile]
  /\ Goto(p, "live")
  /\ UNCHANGED <<objects, older, tampers, local>>

\* The touch of a hit is objects.replace: temporary, unlink, no-replace
\* rename.  Whatever it does, the hit is returned.
TouchTemp(p) ==
  /\ pc[p] = "touch_temp"
  /\ WriteTemp(p, "touch_unlink", "weigh")
  /\ UNCHANGED <<index, tampers, local>>

TouchUnlink(p) ==
  /\ pc[p] = "touch_unlink"
  /\ RemoveFile(dig[p])
  /\ Goto(p, "touch_rename")
  /\ UNCHANGED <<index, tampers, local>>

TouchRename(p) ==
  /\ pc[p] = "touch_rename"
  /\ NoReplace(p, dig[p], "weigh", "weigh")
  /\ UNCHANGED <<index, tampers, local>>

\* Mutation: the request budget is off by one.
LiveFetchOver(p) ==
  /\ pc[p] = "live"
  /\ spent[p] <= MaxRequests
  /\ spent' = [spent EXCEPT ![p] = @ + 1]
  /\ Goto(p, "unavailable")
  /\ UNCHANGED <<store, tampers, root, req, dig, ans, from, first, victims>>

\* Budgeted::fetch around the transport: past the request budget, or when
\* the transport fails, there is no answer and no retry.
LiveFetch(p) ==
  /\ pc[p] = "live"
  /\ IF spent[p] < MaxRequests
       THEN /\ spent' = [spent EXCEPT ![p] = @ + 1]
            /\ \/ \E b \in Bytes :
                    /\ ans' = [ans EXCEPT ![p] = b]
                    /\ from' = [from EXCEPT ![p] = "live"]
                    /\ Goto(p, "weigh")
               \/ Goto(p, "unavailable") /\ UNCHANGED <<ans, from>>
       ELSE Goto(p, "unavailable") /\ UNCHANGED <<spent, ans, from>>
  /\ UNCHANGED <<store, tampers, root, req, dig, first, victims>>

\* Mutation: an answer from the cache is taken as verified already.
WeighTrusting(p) ==
  /\ pc[p] = "weigh"
  /\ IF from[p] = "cache" \/ Accepts(p, ans[p]) THEN Goto(p, "put_check")
     ELSE IF first[p] = "nowhere" THEN Goto(p, "evict_index")
     ELSE Goto(p, "refused")
  /\ UNCHANGED <<store, tampers, local>>

\* Mutation: a refusal is reported at once.
WeighOnce(p) ==
  /\ pc[p] = "weigh"
  /\ Goto(p, IF Accepts(p, ans[p]) THEN "put_check" ELSE "refused")
  /\ UNCHANGED <<store, tampers, local>>

\* verify(&response): accepted answers go to the store, a first refusal asks
\* the cache to evict, a second one is reported.
Weigh(p) ==
  /\ pc[p] = "weigh"
  /\ IF Accepts(p, ans[p]) THEN Goto(p, "put_check")
     ELSE IF first[p] = "nowhere" THEN Goto(p, "evict_index")
     ELSE Goto(p, "refused")
  /\ UNCHANGED <<store, tampers, local>>

\* Cache::evict: what it reads decides whether the answer was "cached".
EvictIndex(p) ==
  /\ pc[p] = "evict_index"
  /\ dig' = [dig EXCEPT ![p] = index[RequestKey(p)]]
  /\ Goto(p, IF index[RequestKey(p)] = NoFile THEN "refused" ELSE "evict_object")
  /\ UNCHANGED <<store, tampers, root, req, ans, from, first, spent, victims>>

EvictObject(p) ==
  /\ pc[p] = "evict_object"
  /\ RemoveFile(dig[p])
  /\ Goto(p, "evict_entry")
  /\ UNCHANGED <<index, tampers, local>>

EvictEntry(p) ==
  /\ pc[p] = "evict_entry"
  /\ index' = [index EXCEPT ![RequestKey(p)] = NoFile]
  /\ first' = [first EXCEPT ![p] = from[p]]
  /\ Goto(p, "get_index")
  /\ UNCHANGED <<objects, older, tampers, root, req, dig, ans, from, spent, victims>>

\* Cache::put: an object already there is taken to be the right one.
PutCheck(p) ==
  /\ pc[p] = "put_check"
  /\ ReadFile(ans[p])
  /\ Goto(p, IF Readable(ans[p]) THEN "entry_unlink" ELSE "put_temp")
  /\ UNCHANGED <<objects, index, tampers, local>>

PutTemp(p) ==
  /\ pc[p] = "put_temp"
  /\ WriteTemp(p, "put_rename", "accepted")
  /\ UNCHANGED <<index, tampers, local>>

PutRename(p) ==
  /\ pc[p] = "put_rename"
  /\ NoReplace(p, ans[p], "entry_unlink", "accepted")
  /\ UNCHANGED <<index, tampers, local>>

\* index.replace: its temporary is in the index directory, which nothing
\* lists, so writing it and the unlink are one step.
EntryUnlink(p) ==
  /\ pc[p] = "entry_unlink"
  /\ \/ /\ index' = [index EXCEPT ![RequestKey(p)] = NoFile]
        /\ Goto(p, "entry_rename")
     \/ FsFaults /\ UNCHANGED index /\ Goto(p, "accepted")
  /\ UNCHANGED <<objects, older, tampers, local>>

\* Mutation: index.replace is repeated until it succeeds.
EntryRenameInsist(p) ==
  /\ pc[p] = "entry_rename"
  /\ \/ /\ index[RequestKey(p)] = NoFile
        /\ index' = [index EXCEPT ![RequestKey(p)] = ans[p]]
        /\ Goto(p, "quota_list")
     \/ /\ FsFaults \/ index[RequestKey(p)] # NoFile
        /\ Goto(p, "entry_unlink")
        /\ UNCHANGED index
  /\ UNCHANGED <<objects, older, tampers, local>>

\* An entry another process installed meanwhile is kept, and put returns
\* before it enforces the quota.
EntryRename(p) ==
  /\ pc[p] = "entry_rename"
  /\ \/ /\ index[RequestKey(p)] = NoFile
        /\ index' = [index EXCEPT ![RequestKey(p)] = ans[p]]
        /\ Goto(p, "quota_list")
     \/ /\ FsFaults \/ index[RequestKey(p)] # NoFile
        /\ Goto(p, "accepted")
        /\ UNCHANGED index
  /\ UNCHANGED <<objects, older, tampers, local>>

\* enforce_quota lists the directory, temporaries of others included ...
QuotaList(p) ==
  /\ pc[p] = "quota_list"
  /\ victims' = [victims EXCEPT ![p] = OverQuota]
  /\ Goto(p, IF OverQuota = {} THEN "accepted" ELSE "quota_drop")
  /\ UNCHANGED <<store, tampers, root, req, dig, ans, from, first, spent>>

\* ... and unlinks what it chose then, by name and one at a time.
QuotaDrop(p) ==
  /\ pc[p] = "quota_drop"
  /\ \E n \in victims[p] :
       /\ RemoveFile(n)
       /\ victims' = [victims EXCEPT ![p] = @ \ {n}]
       /\ Goto(p, IF victims[p] = {n} THEN "accepted" ELSE "quota_drop")
  /\ UNCHANGED <<index, tampers, root, req, dig, ans, from, first, spent>>

Crash(p) ==
  /\ pc[p] \notin {"idle", "crashed"} \cup Ended
  /\ Cardinality({q \in Procs : pc[q] = "crashed"}) < MaxCrashes
  /\ Goto(p, "crashed")
  /\ UNCHANGED <<store, tampers, local>>

\* Something else writes to the directory (a damaged disk, a restored
\* backup, another program): an object changes or goes, or an entry is made
\* to point at an object filed under its own digest, or at nothing.
DamageObject(d) ==
  /\ UNCHANGED index
  /\ \/ \E b \in Bytes \ {d} : IF objects[d] = NoFile THEN CreateFile(d, b)
                               ELSE /\ objects' = [objects EXCEPT ![d] = b]
                                    /\ UNCHANGED older
     \/ RemoveFile(d)

RedirectEntry(k, d) ==
  /\ index' = [index EXCEPT ![k] = d]
  /\ IF d \in Bytes /\ objects[d] = NoFile
       THEN CreateFile(d, d) ELSE UNCHANGED <<objects, older>>

Tamper ==
  /\ tampers < MaxTampers
  /\ tampers' = tampers + 1
  /\ \/ \E d \in Bytes : DamageObject(d)
     \/ \E k \in Keys, d \in Bytes \cup {NoFile} : RedirectEntry(k, d)
  /\ UNCHANGED <<pc, local>>

Step(p) ==
  \/ GetIndex(p) \/ GetObject(p) \/ DropObject(p) \/ DropEntry(p)
  \/ TouchTemp(p) \/ TouchUnlink(p) \/ TouchRename(p)
  \/ LiveFetch(p) \/ Weigh(p)
  \/ EvictIndex(p) \/ EvictObject(p) \/ EvictEntry(p)
  \/ PutCheck(p) \/ PutTemp(p) \/ PutRename(p)
  \/ EntryUnlink(p) \/ EntryRename(p) \/ QuotaList(p) \/ QuotaDrop(p)

Init ==
  /\ objects = [n \in Names |-> NoFile]
  /\ older = {}
  /\ index = [k \in Keys |-> NoFile]
  /\ tampers = 0
  /\ pc = [p \in Procs |-> "idle"]
  /\ root \in [Procs -> Roots]
  /\ req \in [Procs -> Requests]
  /\ dig = [p \in Procs |-> NoFile]
  /\ ans = [p \in Procs |-> NoFile]
  /\ from = [p \in Procs |-> "nowhere"]
  /\ first = [p \in Procs |-> "nowhere"]
  /\ spent = [p \in Procs |-> 0]
  /\ victims = [p \in Procs |-> {}]

Next ==
  \/ \E p \in Procs : \/ \E r \in Requests : Begin(p, r)
                      \/ Step(p)
                      \/ Crash(p)
  \/ Tamper

Spec == Init /\ [][Next]_vars

\* An invocation keeps running; nothing obliges it to begin another request.
Fairness == \A p \in Procs : WF_vars(Step(p))

FairSpec == Spec /\ Fairness
-----------------------------------------------------------------------------
(***************************************************************************)
(* Properties.                                                             *)
(***************************************************************************)
Resting(p) == pc[p] \in {"idle"} \cup Ended

\* No other invocation has touched the directory.
Alone(p) == \A q \in Procs \ {p} : pc[q] = "idle"

\* As long as only the CLI writes to the directory, an answer served from
\* the cache verifies under the checkpoint of whoever asks: only verified
\* bodies are stored, under a key that names the root they verified under,
\* and no crash, failed write or concurrent eviction files one elsewhere.
CachedAnswersVerify ==
  tampers = 0 =>
    \A p \in Procs : pc[p] = "weigh" /\ from[p] = "cache" => Accepts(p, ans[p])

\* An invocation that has the directory to itself reports a refusal only
\* after refusing a live answer: one foreign write never turns an honest
\* endpoint into an error.
RefusalsAreLive ==
  \A p \in Procs :
    pc[p] = "refused" /\ Alone(p) /\ tampers <= 1
      => "live" \in {first[p], from[p]}

\* Between operations the object store fits its quota, however the stores
\* and evictions of several invocations interleaved.  Nothing is said once
\* an invocation was killed: what it leaves stays until a later store.
QuotaKept ==
  (\A p \in Procs : Resting(p)) /\ tampers = 0 /\ ~FsFaults
    => Weight(Present) <= Quota

\* An invocation that has an undamaged directory to itself finds what it
\* last accepted in the cache, if it fits: the entry names it, and enforcing
\* the quota drops it only when it was not accessed later than what is kept,
\* has an earlier name, and does not fit next to that.
AcceptedIsCached ==
  \A p \in Procs :
    Alone(p) /\ tampers = 0 /\ ~FsFaults /\ ans[p] # NoFile /\ Size[ans[p]] <= Quota
    => /\ pc[p] = "quota_drop" /\ ans[p] \in victims[p]
            => \A m \in Present \ victims[p] :
                 <<m, ans[p]>> \notin older /\ Rank[ans[p]] < Rank[m]
       /\ pc[p] = "accepted"
            => /\ index[RequestKey(p)] = ans[p]
               /\ objects[ans[p]] = ans[p] \/ Size[ans[p]] + Weight(Present) > Quota

\* Nobody else's object is ever overwritten in place: between two foreign
\* writes a name under which bytes are stored keeps them until unlinked.
NoClobber ==
  [][tampers' = tampers =>
       \A n \in Names : objects[n] # NoFile => objects'[n] \in {objects[n], NoFile}]_vars

\* The caller's view of all this.
PhaseOf(l) == IF l \in {"idle"} \cup Ended THEN l
              ELSE IF l = "crashed" THEN "dead" ELSE "asked"

Promise == INSTANCE FetchPromise WITH
  phase   <- [p \in Procs |-> PhaseOf(pc[p])],
  want    <- [p \in Procs |-> <<root[p], req[p]>>],
  result  <- [p \in Procs |-> IF pc[p] = "accepted" THEN ans[p] ELSE NoFile],
  refused <- [p \in Procs |-> IF first[p] = "nowhere" THEN 0 ELSE 1]

\* Whatever the cache holds and whoever writes to it, the caller gets what
\* FetchPromise promises: the cache changes what work happens, never what
\* is accepted.
KeepsPromise == Promise!Spec

\* Every request of an invocation that keeps running comes back: the retry
\* is not repeated and no loop of the cache waits on another process.
RequestsReturn ==
  \A p \in Procs : ~Resting(p) ~> (Resting(p) \/ pc[p] = "crashed")

-----------------------------------------------------------------------------
(***************************************************************************)
(* What the comments say, and the code does not do.                        *)
(***************************************************************************)

\* "`true` here means the refused answer really was a cached one": an eviction
\* that earns a retry follows an answer from the cache.
EvictionTellsCached == \A p \in Procs : pc[p] = "evict_entry" => from[p] = "cache"
=============================================================================
