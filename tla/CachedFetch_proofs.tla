------------------------- MODULE CachedFetch_proofs -------------------------
(***************************************************************************)
(* Proofs about CachedFetch: its type invariant, and that the cache serves *)
(* only verified answers as long as nothing but the CLI writes to it.      *)
(***************************************************************************)
EXTENDS CachedFetch, FiniteSetTheorems, NaturalsInduction, WellFoundedInduction, TLAPS

USE DEF Goto, store, local, Keys, Names, Ended, Origins, RequestKey

LEMMA TypeInit == Init => TypeOK
  BY BoundsAssumption, NamesApart DEF Init, TypeOK, Labels

LEMMA AccessTyped ==
  ASSUME TypeOK, NEW n \in Names, Accessed(n)
  PROVE  older' \in SUBSET (Names \X Names)
  <1>1. PICK before \in {Present, Overtaken} :
          older' = {e \in older : n \notin {e[1], e[2]}} \cup ((before \ {n}) \X {n})
    BY DEF Accessed
  <1>2. before \in SUBSET Names
    BY DEF Present, Overtaken
  <1> QED BY <1>1, <1>2 DEF TypeOK

LEMMA ReadTyped ==
  ASSUME TypeOK, NEW n, ReadFile(n)
  PROVE  older' \in SUBSET (Names \X Names)
  BY AccessTyped DEF TypeOK, ReadFile, Present

LEMMA CreateTyped ==
  ASSUME TypeOK, NEW n \in Names, NEW b \in Bytes \cup {NoFile}, CreateFile(n, b)
  PROVE  /\ objects' \in [Names -> Bytes \cup {NoFile}]
         /\ older' \in SUBSET (Names \X Names)
  BY AccessTyped DEF TypeOK, CreateFile

LEMMA RemoveTyped ==
  ASSUME TypeOK, NEW n \in Names \cup {NoFile}, RemoveFile(n)
  PROVE  /\ objects' \in [Names -> Bytes \cup {NoFile}]
         /\ older' \in SUBSET (Names \X Names)
  BY DEF TypeOK, RemoveFile

LEMMA RenameTyped ==
  ASSUME TypeOK, NEW t \in Names, NEW n \in Names, RenameFile(t, n)
  PROVE  /\ objects' \in [Names -> Bytes \cup {NoFile}]
         /\ older' \in SUBSET (Names \X Names)
  <1>1. objects' \in [Names -> Bytes \cup {NoFile}]
    BY DEF TypeOK, RenameFile
  <1>2. ASSUME NEW e \in older
        PROVE  <<IF e[1] = t THEN n ELSE e[1], IF e[2] = t THEN n ELSE e[2]>>
                 \in Names \X Names
    BY DEF TypeOK
  <1>3. older' \in SUBSET (Names \X Names)
    BY <1>2 DEF RenameFile
  <1> QED BY <1>1, <1>3

\* What every step that only moves the control of one process keeps.
LEMMA WriteTempTyped ==
  ASSUME TypeOK, NEW p \in Procs, NEW next \in Labels, NEW failed \in Labels,
         WriteTemp(p, next, failed)
  PROVE  /\ objects' \in [Names -> Bytes \cup {NoFile}]
         /\ older' \in SUBSET (Names \X Names)
         /\ pc' \in [Procs -> Labels]
  <1>1. ans[p] \in Bytes \cup {NoFile}
    BY DEF TypeOK
  <1>2. CASE CreateFile(p, ans[p]) /\ Goto(p, next)
    BY <1>1, <1>2, CreateTyped DEF TypeOK
  <1>3. CASE UNCHANGED <<objects, older>> /\ Goto(p, failed)
    BY <1>3 DEF TypeOK
  <1> QED BY <1>2, <1>3 DEF WriteTemp

LEMMA NoReplaceTyped ==
  ASSUME TypeOK, NEW p \in Procs, NEW n \in Names,
         NEW next \in Labels, NEW failed \in Labels, NoReplace(p, n, next, failed)
  PROVE  /\ objects' \in [Names -> Bytes \cup {NoFile}]
         /\ older' \in SUBSET (Names \X Names)
         /\ pc' \in [Procs -> Labels]
  <1>1. CASE RenameFile(p, n) /\ Goto(p, next)
    BY <1>1, RenameTyped DEF TypeOK
  <1>2. CASE RemoveFile(p) /\ Goto(p, failed)
    BY <1>2, RemoveTyped DEF TypeOK
  <1> QED BY <1>1, <1>2 DEF NoReplace

Reading  == {"get_object", "drop_object", "touch_temp", "touch_unlink",
             "touch_rename", "evict_object", "evict_entry"}
Touching == {"touch_temp", "touch_unlink", "touch_rename"}
Storing  == {"put_check", "put_temp", "put_rename", "entry_unlink", "entry_rename"}

\* Where a process uses the digest it read, or the answer it holds, it has
\* one: the part of its control flow the type invariant rests on.
Holding ==
  \A p \in Procs :
    /\ pc[p] \in Reading => dig[p] \in Bytes
    /\ pc[p] \in Touching \cup Storing \cup {"weigh"} => ans[p] \in Bytes

Typed == TypeOK /\ Holding

LEMMA TypedInit == Init => Typed
  BY TypeInit DEF Init, Typed, Holding, Reading, Touching, Storing

LEMMA TypedStep ==
  ASSUME Typed, NEW p \in Procs, Step(p)
  PROVE  Typed'
  <1> USE DEF Typed, Holding, Reading, Touching, Storing
  <1>1. CASE GetIndex(p)
    BY <1>1 DEF GetIndex, TypeOK, Labels
  <1>2. CASE GetObject(p)
    BY <1>2, NamesApart, ReadTyped DEF GetObject, TypeOK, Labels
  <1>3. CASE DropObject(p)
    BY <1>3, RemoveTyped DEF DropObject, TypeOK, Labels
  <1>4. CASE DropEntry(p)
    BY <1>4 DEF DropEntry, TypeOK, Labels
  <1>5. CASE TouchTemp(p)
    <2>1. WriteTemp(p, "touch_unlink", "weigh") BY <1>5 DEF TouchTemp
    <2>2. TypeOK' BY <1>5, <2>1, WriteTempTyped DEF TouchTemp, TypeOK, Labels
    <2>3. Holding' BY <1>5, <2>1 DEF TouchTemp, WriteTemp, TypeOK
    <2> QED BY <2>2, <2>3
  <1>6. CASE TouchUnlink(p)
    BY <1>6, RemoveTyped DEF TouchUnlink, TypeOK, Labels
  <1>7. CASE TouchRename(p)
    <2>1. NoReplace(p, dig[p], "weigh", "weigh") BY <1>7 DEF TouchRename
    <2>2. dig[p] \in Names BY <1>7 DEF TouchRename
    <2>3. TypeOK' BY <1>7, <2>1, <2>2, NoReplaceTyped DEF TouchRename, TypeOK, Labels
    <2>4. Holding' BY <1>7, <2>1 DEF TouchRename, NoReplace, TypeOK
    <2> QED BY <2>3, <2>4
  <1>8. CASE LiveFetch(p)
    <2>1. spent' \in [Procs -> 0..MaxRequests]
      BY <1>8, BoundsAssumption DEF LiveFetch, TypeOK
    <2>2. /\ ans' \in [Procs -> Bytes \cup {NoFile}]
          /\ from' \in [Procs -> Origins]
          /\ pc' \in [Procs -> Labels]
      BY <1>8 DEF LiveFetch, TypeOK, Labels
    <2>3. TypeOK' BY <1>8, <2>1, <2>2 DEF LiveFetch, TypeOK
    <2>4. Holding' BY <1>8 DEF LiveFetch, TypeOK
    <2> QED BY <2>3, <2>4
  <1>9. CASE Weigh(p)
    BY <1>9 DEF Weigh, TypeOK, Labels
  <1>10. CASE EvictIndex(p)
    BY <1>10 DEF EvictIndex, TypeOK, Labels
  <1>11. CASE EvictObject(p)
    BY <1>11, RemoveTyped DEF EvictObject, TypeOK, Labels
  <1>12. CASE EvictEntry(p)
    BY <1>12 DEF EvictEntry, TypeOK, Labels
  <1>13. CASE PutCheck(p)
    BY <1>13, ReadTyped DEF PutCheck, TypeOK, Labels
  <1>14. CASE PutTemp(p)
    <2>1. WriteTemp(p, "put_rename", "accepted") BY <1>14 DEF PutTemp
    <2>2. TypeOK' BY <1>14, <2>1, WriteTempTyped DEF PutTemp, TypeOK, Labels
    <2>3. Holding' BY <1>14, <2>1 DEF PutTemp, WriteTemp, TypeOK
    <2> QED BY <2>2, <2>3
  <1>15. CASE PutRename(p)
    <2>1. NoReplace(p, ans[p], "entry_unlink", "accepted") BY <1>15 DEF PutRename
    <2>2. ans[p] \in Names BY <1>15 DEF PutRename
    <2>3. TypeOK' BY <1>15, <2>1, <2>2, NoReplaceTyped DEF PutRename, TypeOK, Labels
    <2>4. Holding' BY <1>15, <2>1 DEF PutRename, NoReplace, TypeOK
    <2> QED BY <2>3, <2>4
  <1>16. CASE EntryUnlink(p)
    BY <1>16 DEF EntryUnlink, TypeOK, Labels
  <1>17. CASE EntryRename(p)
    BY <1>17 DEF EntryRename, TypeOK, Labels
  <1>18. CASE QuotaList(p)
    BY <1>18 DEF QuotaList, OverQuota, Present, TypeOK, Labels
  <1>19. CASE QuotaDrop(p)
    BY <1>19, RemoveTyped DEF QuotaDrop, TypeOK, Labels
  <1> QED
    BY <1>1, <1>2, <1>3, <1>4, <1>5, <1>6, <1>7, <1>8, <1>9, <1>10, <1>11,
       <1>12, <1>13, <1>14, <1>15, <1>16, <1>17, <1>18, <1>19 DEF Step

LEMMA TamperTyped ==
  ASSUME TypeOK, Tamper
  PROVE  /\ objects' \in [Names -> Bytes \cup {NoFile}]
         /\ older' \in SUBSET (Names \X Names)
         /\ index' \in [Keys -> Bytes \cup {NoFile}]
         /\ tampers' \in 0..MaxTampers
  <1>1. tampers' \in 0..MaxTampers
    BY BoundsAssumption DEF Tamper, TypeOK
  <1>2. CASE \E d \in Bytes : DamageObject(d)
    <2> PICK d \in Bytes : DamageObject(d) BY <1>2
    <2>1. UNCHANGED index BY DEF DamageObject
    <2>2. CASE RemoveFile(d)
      BY <1>1, <2>1, <2>2, RemoveTyped DEF TypeOK
    <2>3. CASE \E b \in Bytes \ {d} :
                 IF objects[d] = NoFile THEN CreateFile(d, b)
                 ELSE objects' = [objects EXCEPT ![d] = b] /\ UNCHANGED older
      BY <1>1, <2>1, <2>3, CreateTyped DEF TypeOK
    <2> QED BY <2>2, <2>3 DEF DamageObject
  <1>3. CASE \E k \in Keys, d \in Bytes \cup {NoFile} : RedirectEntry(k, d)
    BY <1>1, <1>3, CreateTyped DEF RedirectEntry, TypeOK
  <1> QED BY <1>2, <1>3 DEF Tamper

LEMMA TypedNext == Typed /\ [Next]_vars => Typed'
  <1> SUFFICES ASSUME Typed, [Next]_vars PROVE Typed'
    OBVIOUS
  <1> USE DEF Typed
  <1>1. ASSUME NEW p \in Procs, NEW r \in Requests, Begin(p, r) PROVE Typed'
    BY <1>1, NamesApart
    DEF Begin, TypeOK, Labels, Holding, Reading, Touching, Storing
  <1>2. ASSUME NEW p \in Procs, Step(p) PROVE Typed'
    BY <1>2, TypedStep
  <1>3. ASSUME NEW p \in Procs, Crash(p) PROVE Typed'
    BY <1>3 DEF Crash, TypeOK, Labels, Holding, Reading, Touching, Storing
  <1>4. CASE Tamper
    <2>1. UNCHANGED <<pc, local>> BY <1>4 DEF Tamper
    <2>2. TypeOK' BY <1>4, <2>1, TamperTyped DEF TypeOK
    <2>3. Holding' BY <2>1 DEF Holding
    <2> QED BY <2>2, <2>3
  <1>5. CASE UNCHANGED vars
    BY <1>5 DEF vars, TypeOK, Holding
  <1> QED BY <1>1, <1>2, <1>3, <1>4, <1>5 DEF Next

\* Every variable keeps its type, however many invocations, keys and bodies
\* there are (cache.rs and net.rs as CachedFetch models them).
THEOREM TypeCorrect == Spec => []TypeOK
  <1>1. Typed => TypeOK BY DEF Typed
  <1> QED BY <1>1, TypedInit, TypedNext, PTL DEF Spec

-----------------------------------------------------------------------------
(***************************************************************************)
(* What is stored, and what is returned, was verified.                     *)
(***************************************************************************)
Looking  == {"get_object", "drop_object"} \cup Touching
Temping  == {"touch_unlink", "touch_rename", "put_rename"}
Returning == Storing \cup {"quota_list", "quota_drop", "accepted"}

\* From the verification on, the answer is one that verified.
Vetted == \A p \in Procs : pc[p] \in Returning => Accepts(p, ans[p])

\* What the two directories and the processes reading them hold.
WellIndexed == \A k \in Keys : index[k] # NoFile => index[k] \in Verifies[k]
WellNamed   == \A d \in Bytes : objects[d] \in {d, NoFile}
WellRead(p) ==
  /\ pc[p] \in Looking => Accepts(p, dig[p])
  /\ pc[p] \in Touching => ans[p] = dig[p]
  /\ pc[p] \in Temping => objects[p] \in {ans[p], NoFile}
  /\ pc[p] = "weigh" /\ from[p] = "cache" => Accepts(p, ans[p])

Clean == tampers = 0 => /\ WellIndexed
                        /\ WellNamed
                        /\ \A p \in Procs : WellRead(p)

IInv == Typed /\ Vetted /\ Clean

LEMMA IInvInit == Init => IInv
  BY TypedInit, NamesApart
  DEF Init, IInv, Vetted, Clean, WellIndexed, WellNamed, WellRead,
      Looking, Touching, Temping, Returning, Storing

\* A step of p leaves alone what other processes remember, so only their
\* temporaries are to be looked at.
LEMMA OthersRead ==
  ASSUME Typed, NEW p \in Procs, NEW q \in Procs, p # q, WellRead(q),
         pc'[q] = pc[q], dig'[q] = dig[q], ans'[q] = ans[q], from'[q] = from[q],
         root'[q] = root[q], req'[q] = req[q],
         objects'[q] \in {objects[q], NoFile}
  PROVE  WellRead(q)'
  BY DEF WellRead, Accepts

LEMMA VettedNext ==
  ASSUME Typed, Vetted, [Next]_vars
  PROVE  Vetted'
  <1> USE DEF Vetted, Returning, Storing, Accepts, Typed, TypeOK
  <1>1. ASSUME NEW p \in Procs, NEW r \in Requests, Begin(p, r) PROVE Vetted'
    BY <1>1 DEF Begin
  <1>2. ASSUME NEW p \in Procs, Step(p) PROVE Vetted'
    <2>1. CASE GetIndex(p) BY <2>1 DEF GetIndex
    <2>2. CASE GetObject(p)
      <3>1. pc'[p] \notin Returning BY <2>2 DEF GetObject
      <3>2. \A q \in Procs \ {p} : pc'[q] = pc[q] /\ ans'[q] = ans[q]
        BY <2>2 DEF GetObject
      <3>3. root' = root /\ req' = req BY <2>2 DEF GetObject
      <3> QED BY <3>1, <3>2, <3>3
    <2>3. CASE DropObject(p) BY <2>3 DEF DropObject
    <2>4. CASE DropEntry(p) BY <2>4 DEF DropEntry
    <2>5. CASE TouchTemp(p) BY <2>5 DEF TouchTemp, WriteTemp
    <2>6. CASE TouchUnlink(p) BY <2>6 DEF TouchUnlink
    <2>7. CASE TouchRename(p) BY <2>7 DEF TouchRename, NoReplace
    <2>8. CASE LiveFetch(p)
      <3>1. pc'[p] \notin Returning BY <2>8 DEF LiveFetch
      <3>2. \A q \in Procs \ {p} : pc'[q] = pc[q] /\ ans'[q] = ans[q]
        BY <2>8 DEF LiveFetch
      <3>3. root' = root /\ req' = req BY <2>8 DEF LiveFetch
      <3> QED BY <3>1, <3>2, <3>3
    <2>9. CASE Weigh(p) BY <2>9 DEF Weigh
    <2>10. CASE EvictIndex(p) BY <2>10 DEF EvictIndex
    <2>11. CASE EvictObject(p) BY <2>11 DEF EvictObject
    <2>12. CASE EvictEntry(p) BY <2>12 DEF EvictEntry
    <2>13. CASE PutCheck(p) BY <2>13 DEF PutCheck
    <2>14. CASE PutTemp(p) BY <2>14 DEF PutTemp, WriteTemp
    <2>15. CASE PutRename(p) BY <2>15 DEF PutRename, NoReplace
    <2>16. CASE EntryUnlink(p) BY <2>16 DEF EntryUnlink
    <2>17. CASE EntryRename(p) BY <2>17 DEF EntryRename
    <2>18. CASE QuotaList(p) BY <2>18 DEF QuotaList
    <2>19. CASE QuotaDrop(p) BY <2>19 DEF QuotaDrop
    <2> QED
      BY <1>2, <2>1, <2>2, <2>3, <2>4, <2>5, <2>6, <2>7, <2>8, <2>9, <2>10, <2>11,
         <2>12, <2>13, <2>14, <2>15, <2>16, <2>17, <2>18, <2>19 DEF Step
  <1>3. ASSUME NEW p \in Procs, Crash(p) PROVE Vetted'
    BY <1>3 DEF Crash
  <1>4. CASE Tamper BY <1>4 DEF Tamper
  <1>5. CASE UNCHANGED vars BY <1>5 DEF vars
  <1> QED BY <1>1, <1>2, <1>3, <1>4, <1>5 DEF Next

\* The steps on the object directory, seen by a clean directory.
LEMMA RemoveClean ==
  ASSUME Typed, NEW n \in Names \cup {NoFile}, RemoveFile(n)
  PROVE  \A m \in Names : objects'[m] \in {objects[m], NoFile}
  BY NamesApart DEF RemoveFile, Typed, TypeOK

LEMMA WriteClean ==
  ASSUME Typed, NEW p \in Procs, NEW next \in Labels, NEW failed \in Labels,
         WriteTemp(p, next, failed)
  PROVE  /\ \A m \in Names \ {p} : objects'[m] = objects[m]
         /\ \/ pc'[p] = next /\ objects'[p] = ans[p]
            \/ pc'[p] = failed /\ UNCHANGED objects
         /\ \A q \in Procs \ {p} : pc'[q] = pc[q]
  <1>1. CASE CreateFile(p, ans[p]) /\ Goto(p, next)
    BY <1>1 DEF CreateFile, Typed, TypeOK
  <1>2. CASE UNCHANGED <<objects, older>> /\ Goto(p, failed)
    BY <1>2 DEF Typed, TypeOK
  <1> QED BY <1>1, <1>2 DEF WriteTemp

LEMMA InstallClean ==
  ASSUME Typed, NEW p \in Procs, NEW next \in Labels, NEW failed \in Labels,
         NEW n \in Bytes, NoReplace(p, n, next, failed)
  PROVE  /\ \A m \in Names \ {p, n} : objects'[m] = objects[m]
         /\ objects'[p] = NoFile
         /\ objects'[n] \in {objects[n], objects[p]}
         /\ pc'[p] \in {next, failed}
         /\ \A q \in Procs \ {p} : pc'[q] = pc[q]
  BY NamesApart DEF NoReplace, RenameFile, RemoveFile, Typed, TypeOK

\* One step of one process keeps the directories clean.
LEMMA CleanStep ==
  ASSUME IInv, tampers = 0, NEW p \in Procs, Step(p)
  PROVE  WellIndexed' /\ WellNamed' /\ \A q \in Procs : WellRead(q)'
  <1> DEFINE Others == \A q \in Procs \ {p} :
                         /\ pc'[q] = pc[q] /\ dig'[q] = dig[q] /\ ans'[q] = ans[q]
                         /\ from'[q] = from[q] /\ root'[q] = root[q]
                         /\ req'[q] = req[q]
                         /\ objects'[q] \in {objects[q], NoFile}
             Fixed == root' = root /\ req' = req
  <1>0. Typed /\ Vetted /\ WellIndexed /\ WellNamed /\ \A q \in Procs : WellRead(q)
    BY DEF IInv, Clean
  <1>a. SUFFICES WellIndexed' /\ WellNamed' /\ WellRead(p)' /\ Others
    BY <1>0, OthersRead
  <1> USE <1>0 DEF Accepts
  <1>1. CASE GetIndex(p)
    BY <1>1 DEF GetIndex, Typed, TypeOK, WellIndexed, WellNamed, WellRead,
                Looking, Touching, Temping
  <1>2. CASE GetObject(p)
    <2>1. WellIndexed' /\ WellNamed' /\ Others
      BY <1>2 DEF GetObject, Typed, TypeOK, WellIndexed, WellNamed
    <2>2. WellRead(p)'
      BY <1>2, NamesApart DEF GetObject, Typed, TypeOK, Holding, Reading, WellRead,
                  Looking, Touching, Temping, Readable
    <2> QED BY <2>1, <2>2
  <1>3. CASE DropObject(p)
    <2>1. \A m \in Names : objects'[m] \in {objects[m], NoFile}
      BY <1>3, RemoveClean DEF DropObject, Typed, TypeOK
    <2>2. WellIndexed' /\ WellNamed' /\ Others
      BY <1>3, <2>1 DEF DropObject, Typed, TypeOK, WellIndexed, WellNamed
    <2>3. WellRead(p)'
      BY <1>3 DEF DropObject, Typed, TypeOK, WellRead, Looking, Touching, Temping
    <2> QED BY <2>2, <2>3
  <1>4. CASE DropEntry(p)
    BY <1>4 DEF DropEntry, Typed, TypeOK, WellIndexed, WellNamed, WellRead,
                Looking, Touching, Temping
  <1>5. CASE TouchTemp(p)
    <2>1. WriteTemp(p, "touch_unlink", "weigh") /\ UNCHANGED <<index, tampers, local>>
      BY <1>5 DEF TouchTemp
    <2>2. /\ \A m \in Names \ {p} : objects'[m] = objects[m]
          /\ \/ pc'[p] = "touch_unlink" /\ objects'[p] = ans[p]
             \/ pc'[p] = "weigh" /\ UNCHANGED objects
          /\ \A q \in Procs \ {p} : pc'[q] = pc[q]
      BY <2>1, WriteClean DEF Labels
    <2>3. WellIndexed' /\ WellNamed'
      BY <2>1, <2>2, NamesApart DEF WellIndexed, WellNamed
    <2>4. Others
      BY <2>1, <2>2
    <2>5. WellRead(p)'
      BY <1>5, <2>1, <2>2 DEF TouchTemp, WellRead, Looking, Touching, Temping
    <2> QED BY <2>3, <2>4, <2>5
  <1>6. CASE TouchUnlink(p)
    <2>1. \A m \in Names : objects'[m] \in {objects[m], NoFile}
      BY <1>6, RemoveClean DEF TouchUnlink, Typed, TypeOK
    <2>2. WellIndexed' /\ WellNamed' /\ Others
      BY <1>6, <2>1 DEF TouchUnlink, Typed, TypeOK, WellIndexed, WellNamed
    <2>3. WellRead(p)'
      BY <1>6, <2>1 DEF TouchUnlink, Typed, TypeOK, WellRead, Looking, Touching, Temping
    <2> QED BY <2>2, <2>3
  <1>7. CASE TouchRename(p)
    <2>1. /\ NoReplace(p, dig[p], "weigh", "weigh")
          /\ UNCHANGED <<index, tampers, local>> /\ dig[p] \in Bytes
      BY <1>7 DEF TouchRename, Typed, Holding, Reading
    <2>2. objects[p] \in {dig[p], NoFile}
      BY <1>7 DEF TouchRename, WellRead, Touching, Temping
    <2>3. /\ \A m \in Names \ {p, dig[p]} : objects'[m] = objects[m]
          /\ objects'[p] = NoFile
          /\ objects'[dig[p]] \in {objects[dig[p]], objects[p]}
          /\ pc'[p] \in {"weigh", "weigh"}
          /\ \A q \in Procs \ {p} : pc'[q] = pc[q]
      BY <2>1, InstallClean DEF Labels
    <2>4. WellIndexed' /\ WellNamed'
      BY <2>1, <2>2, <2>3, NamesApart DEF WellIndexed, WellNamed
    <2>5. Others
      BY <2>1, <2>3, NamesApart
    <2>6. WellRead(p)'
      BY <1>7, <2>1, <2>3 DEF TouchRename, WellRead, Looking, Touching, Temping
    <2> QED BY <2>4, <2>5, <2>6
  <1>8. CASE LiveFetch(p)
    <2>1. WellIndexed' /\ WellNamed' /\ Others
      BY <1>8 DEF LiveFetch, Typed, TypeOK, WellIndexed, WellNamed
    <2>2. WellRead(p)'
      BY <1>8 DEF LiveFetch, Typed, TypeOK, WellRead, Looking, Touching, Temping
    <2> QED BY <2>1, <2>2
  <1>9. CASE Weigh(p)
    BY <1>9 DEF Weigh, Typed, TypeOK, WellIndexed, WellNamed, WellRead,
                Looking, Touching, Temping
  <1>10. CASE EvictIndex(p)
    BY <1>10 DEF EvictIndex, Typed, TypeOK, WellIndexed, WellNamed, WellRead,
                Looking, Touching, Temping
  <1>11. CASE EvictObject(p)
    <2>1. \A m \in Names : objects'[m] \in {objects[m], NoFile}
      BY <1>11, RemoveClean DEF EvictObject, Typed, TypeOK
    <2>2. WellIndexed' /\ WellNamed' /\ Others
      BY <1>11, <2>1 DEF EvictObject, Typed, TypeOK, WellIndexed, WellNamed
    <2>3. WellRead(p)'
      BY <1>11 DEF EvictObject, Typed, TypeOK, WellRead, Looking, Touching, Temping
    <2> QED BY <2>2, <2>3
  <1>12. CASE EvictEntry(p)
    BY <1>12 DEF EvictEntry, Typed, TypeOK, WellIndexed, WellNamed, WellRead,
                Looking, Touching, Temping
  <1>13. CASE PutCheck(p)
    BY <1>13 DEF PutCheck, Typed, TypeOK, WellIndexed, WellNamed, WellRead,
                Looking, Touching, Temping
  <1>14. CASE PutTemp(p)
    <2>1. WriteTemp(p, "put_rename", "accepted") /\ UNCHANGED <<index, tampers, local>>
      BY <1>14 DEF PutTemp
    <2>2. /\ \A m \in Names \ {p} : objects'[m] = objects[m]
          /\ \/ pc'[p] = "put_rename" /\ objects'[p] = ans[p]
             \/ pc'[p] = "accepted" /\ UNCHANGED objects
          /\ \A q \in Procs \ {p} : pc'[q] = pc[q]
      BY <2>1, WriteClean DEF Labels
    <2>3. WellIndexed' /\ WellNamed'
      BY <2>1, <2>2, NamesApart DEF WellIndexed, WellNamed
    <2>4. Others
      BY <2>1, <2>2
    <2>5. WellRead(p)'
      BY <1>14, <2>1, <2>2 DEF PutTemp, WellRead, Looking, Touching, Temping
    <2> QED BY <2>3, <2>4, <2>5
  <1>15. CASE PutRename(p)
    <2>1. /\ NoReplace(p, ans[p], "entry_unlink", "accepted")
          /\ UNCHANGED <<index, tampers, local>> /\ ans[p] \in Bytes
      BY <1>15 DEF PutRename, Typed, Holding, Storing
    <2>2. objects[p] \in {ans[p], NoFile}
      BY <1>15 DEF PutRename, WellRead, Temping
    <2>3. /\ \A m \in Names \ {p, ans[p]} : objects'[m] = objects[m]
          /\ objects'[p] = NoFile
          /\ objects'[ans[p]] \in {objects[ans[p]], objects[p]}
          /\ pc'[p] \in {"entry_unlink", "accepted"}
          /\ \A q \in Procs \ {p} : pc'[q] = pc[q]
      BY <2>1, InstallClean DEF Labels
    <2>4. WellIndexed' /\ WellNamed'
      BY <2>1, <2>2, <2>3, NamesApart DEF WellIndexed, WellNamed
    <2>5. Others
      BY <2>1, <2>3, NamesApart
    <2>6. WellRead(p)'
      BY <1>15, <2>1, <2>3 DEF PutRename, WellRead, Looking, Touching, Temping
    <2> QED BY <2>4, <2>5, <2>6
  <1>16. CASE EntryUnlink(p)
    BY <1>16 DEF EntryUnlink, Typed, TypeOK, WellIndexed, WellNamed, WellRead,
                Looking, Touching, Temping
  <1>17. CASE EntryRename(p)
    BY <1>17 DEF EntryRename, Typed, TypeOK, WellIndexed, WellNamed, WellRead,
                Looking, Touching, Temping, Vetted, Returning, Storing
  <1>18. CASE QuotaList(p)
    BY <1>18 DEF QuotaList, Typed, TypeOK, WellIndexed, WellNamed, WellRead,
                Looking, Touching, Temping
  <1>19. CASE QuotaDrop(p)
    <2>1. \A m \in Names : objects'[m] \in {objects[m], NoFile}
      BY <1>19, RemoveClean DEF QuotaDrop, Typed, TypeOK
    <2>2. WellIndexed' /\ WellNamed' /\ Others
      BY <1>19, <2>1 DEF QuotaDrop, Typed, TypeOK, WellIndexed, WellNamed
    <2>3. WellRead(p)'
      BY <1>19 DEF QuotaDrop, Typed, TypeOK, WellRead, Looking, Touching, Temping
    <2> QED BY <2>2, <2>3
  <1> QED
    BY <1>1, <1>2, <1>3, <1>4, <1>5, <1>6, <1>7, <1>8, <1>9, <1>10, <1>11,
       <1>12, <1>13, <1>14, <1>15, <1>16, <1>17, <1>18, <1>19 DEF Step

LEMMA IInvNext == IInv /\ [Next]_vars => IInv'
  <1> SUFFICES ASSUME IInv, [Next]_vars PROVE IInv'
    OBVIOUS
  <1>1. Typed' /\ Vetted'
    BY TypedNext, VettedNext DEF IInv
  <1>2. Clean'
    <2> SUFFICES ASSUME tampers' = 0
                 PROVE  WellIndexed' /\ WellNamed' /\ \A q \in Procs : WellRead(q)'
      BY DEF Clean
    <2> USE DEF IInv, Clean, WellIndexed, WellNamed, WellRead, Accepts
    <2>1. ASSUME NEW p \in Procs, NEW r \in Requests, Begin(p, r)
          PROVE  WellIndexed' /\ WellNamed' /\ \A q \in Procs : WellRead(q)'
      BY <2>1 DEF Begin, Typed, TypeOK, Looking, Touching, Temping
    <2>2. ASSUME NEW p \in Procs, Step(p)
          PROVE  WellIndexed' /\ WellNamed' /\ \A q \in Procs : WellRead(q)'
      <3>1. tampers' = tampers
        BY <2>2 DEF Step, GetIndex, GetObject, DropObject, DropEntry, TouchTemp,
          TouchUnlink, TouchRename, LiveFetch, Weigh, EvictIndex, EvictObject,
          EvictEntry, PutCheck, PutTemp, PutRename, EntryUnlink, EntryRename,
          QuotaList, QuotaDrop
      <3> QED BY <2>2, <3>1, CleanStep
    <2>3. ASSUME NEW p \in Procs, Crash(p)
          PROVE  WellIndexed' /\ WellNamed' /\ \A q \in Procs : WellRead(q)'
      BY <2>3 DEF Crash, Typed, TypeOK, Looking, Touching, Temping
    <2>4. ~Tamper
      BY DEF Tamper, Typed, TypeOK
    <2>5. CASE UNCHANGED vars
      BY <2>5 DEF vars
    <2> QED BY <2>1, <2>2, <2>3, <2>4, <2>5 DEF Next
  <1> QED BY <1>1, <1>2 DEF IInv

LEMMA Invariance == Spec => []IInv
  BY IInvInit, IInvNext, PTL DEF Spec

\* Whatever the number of invocations, keys and bodies, however their steps,
\* crashes and failed writes interleave: while only the CLI writes to the
\* cache directory, every answer it serves from there verifies under the
\* checkpoint of the asker (cache.rs get and put, net.rs fetch_revalidating).
THEOREM CacheServesVerified == Spec => []CachedAnswersVerify
  <1>1. IInv => CachedAnswersVerify
    BY DEF IInv, Clean, WellRead, CachedAnswersVerify
  <1> QED BY <1>1, Invariance, PTL

-----------------------------------------------------------------------------
(***************************************************************************)
(* CachedFetch implements FetchPromise.                                    *)
(***************************************************************************)
LEMMA PromiseInit == Init => Promise!Init
  BY DEF Init, Promise!Init, PhaseOf

\* Moving the control of p inside a request, with its answer not returned,
\* is invisible to the caller.
LEMMA Invisible ==
  ASSUME Typed, NEW p \in Procs,
         PhaseOf(pc[p]) = "asked", PhaseOf(pc'[p]) = "asked",
         \A q \in Procs \ {p} : pc'[q] = pc[q] /\ ans'[q] = ans[q],
         DOMAIN pc' = Procs,
         UNCHANGED <<root, req, first>>
  PROVE  UNCHANGED Promise!vars
  <1>1. \A q \in Procs : PhaseOf(pc'[q]) = PhaseOf(pc[q])
    OBVIOUS
  <1>2. pc[p] # "accepted" /\ pc'[p] # "accepted"
    BY DEF PhaseOf
  <1>3. \A q \in Procs : (IF pc'[q] = "accepted" THEN ans'[q] ELSE NoFile)
                        = (IF pc[q] = "accepted" THEN ans[q] ELSE NoFile)
    BY <1>2
  <1> QED BY <1>1, <1>3 DEF Promise!vars

LEMMA GivingUp ==
  ASSUME Typed, NEW p \in Procs, PhaseOf(pc[p]) = "asked",
         NEW l \in {"refused", "unavailable", "crashed"},
         pc' = [pc EXCEPT ![p] = l],
         \A q \in Procs \ {p} : ans'[q] = ans[q],
         UNCHANGED <<root, req, first>>
  PROVE  Promise!GiveUp(p)
  <1> DEFINE ph == [q \in Procs |-> PhaseOf(pc[q])]
             rs == [q \in Procs |-> IF pc[q] = "accepted" THEN ans[q] ELSE NoFile]
  <1>1. PhaseOf(l) \in {"refused", "unavailable", "dead"}
    BY DEF PhaseOf
  <1>2. ph' = [ph EXCEPT ![p] = PhaseOf(l)]
    BY DEF Typed, TypeOK
  <1>3. pc[p] # "accepted" /\ l # "accepted"
    BY DEF PhaseOf
  <1>4. rs' = rs
    BY <1>3 DEF Typed, TypeOK
  <1> QED BY <1>1, <1>2, <1>4 DEF Promise!GiveUp

LEMMA Accepting ==
  ASSUME Typed, Vetted, NEW p \in Procs, PhaseOf(pc[p]) = "asked",
         pc[p] \in Returning,
         pc' = [pc EXCEPT ![p] = "accepted"],
         UNCHANGED <<root, req, first, ans>>
  PROVE  \E b \in Bytes : Promise!Accept(p, b)
  <1> DEFINE ph == [q \in Procs |-> PhaseOf(pc[q])]
             rs == [q \in Procs |-> IF pc[q] = "accepted" THEN ans[q] ELSE NoFile]
  <1>1. ans[p] \in Verifies[<<root[p], req[p]>>]
    BY DEF Vetted, Accepts
  <1>2. ans[p] \in Bytes
    BY <1>1, VerifiesAssumption DEF Typed, TypeOK
  <1>3. ph' = [ph EXCEPT ![p] = "accepted"]
    BY DEF Typed, TypeOK, PhaseOf
  <1>4. rs' = [rs EXCEPT ![p] = ans[p]]
    BY DEF Typed, TypeOK
  <1>5. PICK b \in Bytes : b = ans[p]
    BY <1>2
  <1>6. Promise!Accept(p, b)
    BY <1>1, <1>3, <1>4, <1>5 DEF Promise!Accept
  <1> QED BY <1>6

\* On a second attempt there is no third, and an answer came from somewhere.
Evicting == {"evict_index", "evict_object", "evict_entry"}
Attempted ==
  \A p \in Procs :
    /\ pc[p] \in Evicting => first[p] = "nowhere"
    /\ pc[p] \in Evicting \cup Touching \cup {"weigh"} => from[p] # "nowhere"

LEMMA AttemptedNext == Typed /\ Attempted /\ [Next]_vars => Attempted'
  <1> SUFFICES ASSUME Typed, Attempted, [Next]_vars PROVE Attempted'
    OBVIOUS
  <1> USE DEF Typed, TypeOK, Attempted, Evicting, Touching
  <1>1. ASSUME NEW p \in Procs, NEW r \in Requests, Begin(p, r) PROVE Attempted'
    BY <1>1 DEF Begin
  <1>2. ASSUME NEW p \in Procs, Step(p) PROVE Attempted'
    <2>1. CASE GetIndex(p) BY <2>1 DEF GetIndex
    <2>2. CASE GetObject(p) BY <2>2 DEF GetObject
    <2>3. CASE DropObject(p) BY <2>3 DEF DropObject
    <2>4. CASE DropEntry(p) BY <2>4 DEF DropEntry
    <2>5. CASE TouchTemp(p) BY <2>5 DEF TouchTemp, WriteTemp
    <2>6. CASE TouchUnlink(p) BY <2>6 DEF TouchUnlink
    <2>7. CASE TouchRename(p) BY <2>7 DEF TouchRename, NoReplace
    <2>8. CASE LiveFetch(p) BY <2>8 DEF LiveFetch
    <2>9. CASE Weigh(p) BY <2>9 DEF Weigh
    <2>10. CASE EvictIndex(p) BY <2>10 DEF EvictIndex
    <2>11. CASE EvictObject(p) BY <2>11 DEF EvictObject
    <2>12. CASE EvictEntry(p) BY <2>12 DEF EvictEntry
    <2>13. CASE PutCheck(p) BY <2>13 DEF PutCheck
    <2>14. CASE PutTemp(p) BY <2>14 DEF PutTemp, WriteTemp
    <2>15. CASE PutRename(p) BY <2>15 DEF PutRename, NoReplace
    <2>16. CASE EntryUnlink(p) BY <2>16 DEF EntryUnlink
    <2>17. CASE EntryRename(p) BY <2>17 DEF EntryRename
    <2>18. CASE QuotaList(p) BY <2>18 DEF QuotaList
    <2>19. CASE QuotaDrop(p) BY <2>19 DEF QuotaDrop
    <2> QED
      BY <1>2, <2>1, <2>2, <2>3, <2>4, <2>5, <2>6, <2>7, <2>8, <2>9, <2>10, <2>11,
         <2>12, <2>13, <2>14, <2>15, <2>16, <2>17, <2>18, <2>19 DEF Step
  <1>3. ASSUME NEW p \in Procs, Crash(p) PROVE Attempted'
    BY <1>3 DEF Crash
  <1>4. CASE Tamper BY <1>4 DEF Tamper
  <1>5. CASE UNCHANGED vars BY <1>5 DEF vars
  <1> QED BY <1>1, <1>2, <1>3, <1>4, <1>5 DEF Next

LEMMA AttemptedAlways == Spec => [](Typed /\ Vetted /\ Attempted)
  <1>1. Init => Attempted
    BY DEF Init, Attempted, Evicting, Touching
  <1>2. IInv => Typed /\ Vetted
    BY DEF IInv
  <1> QED BY <1>1, <1>2, Invariance, AttemptedNext, PTL DEF Spec

LEMMA PromiseStep ==
  ASSUME Typed, Vetted, Attempted, NEW p \in Procs, Step(p)
  PROVE  Promise!Next \/ UNCHANGED Promise!vars
  <1> USE DEF Typed, TypeOK
  <1>0. /\ Promise!GiveUp(p) => Promise!Next
        /\ Promise!AskAgain(p) => Promise!Next
        /\ (\E b \in Bytes : Promise!Accept(p, b)) => Promise!Next
    BY DEF Promise!Next
  <1>1. CASE GetIndex(p) BY <1>1, Invisible DEF GetIndex, PhaseOf
  <1>2. CASE GetObject(p) BY <1>2, Invisible DEF GetObject, PhaseOf
  <1>3. CASE DropObject(p) BY <1>3, Invisible DEF DropObject, PhaseOf
  <1>4. CASE DropEntry(p) BY <1>4, Invisible DEF DropEntry, PhaseOf
  <1>5. CASE TouchTemp(p) BY <1>5, Invisible DEF TouchTemp, WriteTemp, PhaseOf
  <1>6. CASE TouchUnlink(p) BY <1>6, Invisible DEF TouchUnlink, PhaseOf
  <1>7. CASE TouchRename(p) BY <1>7, Invisible DEF TouchRename, NoReplace, PhaseOf
  <1>8. CASE LiveFetch(p)
    <2>1. PhaseOf(pc[p]) = "asked" BY <1>8 DEF LiveFetch, PhaseOf
    <2>2. /\ UNCHANGED <<root, req, first>>
          /\ \A q \in Procs \ {p} : ans'[q] = ans[q]
      BY <1>8 DEF LiveFetch
    <2>3. CASE Goto(p, "weigh") BY <2>1, <2>2, <2>3, Invisible DEF PhaseOf
    <2>4. CASE Goto(p, "unavailable") BY <1>0, <2>1, <2>2, <2>4, GivingUp
    <2> QED BY <1>8, <2>3, <2>4 DEF LiveFetch
  <1>9. CASE Weigh(p)
    <2>1. PhaseOf(pc[p]) = "asked" BY <1>9 DEF Weigh, PhaseOf
    <2>2. UNCHANGED <<root, req, first, ans>> BY <1>9 DEF Weigh
    <2>3. CASE Goto(p, "refused") BY <1>0, <2>1, <2>2, <2>3, GivingUp
    <2>4. CASE Goto(p, "put_check") \/ Goto(p, "evict_index")
      BY <2>1, <2>2, <2>4, Invisible DEF PhaseOf
    <2> QED BY <1>9, <2>3, <2>4 DEF Weigh
  <1>10. CASE EvictIndex(p)
    <2>1. PhaseOf(pc[p]) = "asked" BY <1>10 DEF EvictIndex, PhaseOf
    <2>2. UNCHANGED <<root, req, first, ans>> BY <1>10 DEF EvictIndex
    <2>3. CASE Goto(p, "refused") BY <1>0, <2>1, <2>2, <2>3, GivingUp
    <2>4. CASE Goto(p, "evict_object") BY <2>1, <2>2, <2>4, Invisible DEF PhaseOf
    <2> QED BY <1>10, <2>3, <2>4 DEF EvictIndex
  <1>11. CASE EvictObject(p) BY <1>11, Invisible DEF EvictObject, PhaseOf
  <1>12. CASE EvictEntry(p)
    <2>1. first[p] = "nowhere" /\ first' = [first EXCEPT ![p] = from[p]]
          /\ from[p] # "nowhere"
      BY <1>12 DEF EvictEntry, Attempted, Evicting
    <2>2. /\ \A q \in Procs : PhaseOf(pc'[q]) = PhaseOf(pc[q])
          /\ \A q \in Procs : pc[q] = "accepted" <=> pc'[q] = "accepted"
          /\ UNCHANGED <<root, req, ans>>
      BY <1>12 DEF EvictEntry, PhaseOf
    <2>3. PhaseOf(pc[p]) = "asked" BY <1>12 DEF EvictEntry, PhaseOf
    <2>4. [q \in Procs |-> IF first[q] = "nowhere" THEN 0 ELSE 1]'
            = [[q \in Procs |-> IF first[q] = "nowhere" THEN 0 ELSE 1] EXCEPT ![p] = 1]
      BY <2>1
    <2>5. Promise!AskAgain(p) BY <2>1, <2>2, <2>3, <2>4 DEF Promise!AskAgain
    <2> QED BY <1>0, <2>5
  <1>13. CASE PutCheck(p) BY <1>13, Invisible DEF PutCheck, PhaseOf
  <1>14. ASSUME PutTemp(p) \/ PutRename(p) \/ EntryUnlink(p) \/ EntryRename(p)
                \/ QuotaList(p) \/ QuotaDrop(p)
         PROVE  Promise!Next \/ UNCHANGED Promise!vars
    <2>1. PhaseOf(pc[p]) = "asked" /\ pc[p] \in Returning
      BY <1>14 DEF PutTemp, PutRename, EntryUnlink, EntryRename, QuotaList,
                   QuotaDrop, PhaseOf, Returning, Storing
    <2>2. UNCHANGED <<root, req, first, ans>>
      BY <1>14 DEF PutTemp, PutRename, EntryUnlink, EntryRename, QuotaList, QuotaDrop
    <2>3. \E l \in {"accepted", "put_rename", "entry_unlink", "entry_rename",
                    "quota_list", "quota_drop"} : Goto(p, l)
      BY <1>14 DEF PutTemp, PutRename, EntryUnlink, EntryRename, QuotaList,
                   QuotaDrop, WriteTemp, NoReplace
    <2>4. CASE Goto(p, "accepted") BY <1>0, <2>1, <2>2, <2>4, Accepting
    <2>5. CASE ~Goto(p, "accepted") BY <2>1, <2>2, <2>3, <2>5, Invisible DEF PhaseOf
    <2> QED BY <2>4, <2>5
  <1> QED
    BY <1>1, <1>2, <1>3, <1>4, <1>5, <1>6, <1>7, <1>8, <1>9, <1>10, <1>11,
       <1>12, <1>13, <1>14 DEF Step

\* Whatever the cache holds and whoever writes to it, what fetch_revalidating
\* returns verified under the checkpoint its caller selected, after at most
\* two answers weighed (net.rs fetch_revalidating over cache.rs Caching).
THEOREM Implements == Spec => KeepsPromise
  <1>1. ASSUME Typed, Vetted, Attempted, [Next]_vars
        PROVE  [Promise!Next]_(Promise!vars)
    <2> USE <1>1
    <2>1. ASSUME NEW p \in Procs, NEW r \in Requests, Begin(p, r)
          PROVE  Promise!Next
      <3>1. PICK k \in Keys : k = <<root[p], r>> BY DEF Typed, TypeOK
      <3>2. Promise!Ask(p, k)
        BY <2>1, <3>1, NamesApart DEF Begin, Promise!Ask, Promise!Results, PhaseOf, Typed, TypeOK
      <3> QED BY <3>2 DEF Promise!Next
    <2>2. ASSUME NEW p \in Procs, Step(p)
          PROVE  Promise!Next \/ UNCHANGED Promise!vars
      BY <2>2, PromiseStep
    <2>3. ASSUME NEW p \in Procs, Crash(p) PROVE Promise!Next
      <3>1. PhaseOf(pc[p]) = "asked" BY <2>3 DEF Crash, PhaseOf, Typed, TypeOK, Labels
      <3>2. Promise!GiveUp(p) BY <2>3, <3>1, GivingUp DEF Crash
      <3> QED BY <3>2 DEF Promise!Next
    <2>4. CASE Tamper BY <2>4 DEF Tamper, Promise!vars
    <2>5. CASE UNCHANGED vars BY <2>5 DEF vars, Promise!vars
    <2> QED BY <2>1, <2>2, <2>3, <2>4, <2>5 DEF Next
  <1> QED BY <1>1, PromiseInit, AttemptedAlways, PTL DEF Spec, KeepsPromise, Promise!Spec

-----------------------------------------------------------------------------
(***************************************************************************)
(* Nothing is overwritten.                                                 *)
(***************************************************************************)
\* A temporary exists only while its process is about to rename it, or was
\* killed then: so the one it creates next takes no name that is in use.
Tidy == \A p \in Procs : pc[p] \notin Temping \cup {"crashed"} => objects[p] = NoFile

\* What one step of p may do to the object directory.
Careful(p) ==
  /\ \A n \in Names : objects[n] # NoFile => objects'[n] \in {objects[n], NoFile}
  /\ \A q \in Procs \ {p} : objects'[q] \in {objects[q], NoFile} /\ pc'[q] = pc[q]
  /\ pc'[p] \notin Temping \cup {"crashed"} => objects'[p] = NoFile

LEMMA RemoveCareful ==
  ASSUME Typed, NEW p \in Procs, NEW n \in Names \cup {NoFile}, RemoveFile(n),
         \A q \in Procs \ {p} : pc'[q] = pc[q],
         pc'[p] \notin Temping \cup {"crashed"} => objects[p] = NoFile \/ n = p
  PROVE  Careful(p)
  <1>1. \A m \in Names : objects'[m] \in {objects[m], NoFile}
    BY RemoveClean
  <1>2. n = p => objects'[p] = NoFile
    BY DEF RemoveFile, Typed, TypeOK
  <1> QED BY <1>1, <1>2 DEF Careful

LEMMA CreateCareful ==
  ASSUME Typed, NEW p \in Procs, NEW next \in Labels, NEW failed \in Labels,
         objects[p] = NoFile, next \in Temping, WriteTemp(p, next, failed)
  PROVE  Careful(p)
  <1>1. /\ \A m \in Names \ {p} : objects'[m] = objects[m]
        /\ \/ pc'[p] = next
           \/ pc'[p] = failed /\ UNCHANGED objects
        /\ \A q \in Procs \ {p} : pc'[q] = pc[q]
    BY WriteClean
  <1> QED BY <1>1 DEF Careful

LEMMA RenameCareful ==
  ASSUME Typed, NEW p \in Procs, NEW next \in Labels, NEW failed \in Labels,
         NEW n \in Bytes, NoReplace(p, n, next, failed)
  PROVE  Careful(p)
  <1>1. /\ \A m \in Names \ {p, n} : objects'[m] = objects[m]
        /\ objects'[p] = NoFile
        /\ \A q \in Procs \ {p} : pc'[q] = pc[q]
    BY InstallClean
  <1>2. n \notin Procs
    BY NamesApart
  <1>3. objects[n] # NoFile => objects'[n] = objects[n]
    BY <1>2 DEF NoReplace, RenameFile, RemoveFile, Typed, TypeOK
  <1> QED BY <1>1, <1>2, <1>3 DEF Careful

LEMMA StepCareful ==
  ASSUME Typed, Tidy, NEW p \in Procs, Step(p)
  PROVE  Careful(p)
  <1> USE DEF Typed, TypeOK, Holding, Tidy, Temping
  <1>1. CASE GetIndex(p) BY <1>1 DEF GetIndex, Careful
  <1>2. CASE GetObject(p) BY <1>2 DEF GetObject, Careful
  <1>3. CASE DropObject(p) BY <1>3, RemoveCareful DEF DropObject
  <1>4. CASE DropEntry(p) BY <1>4 DEF DropEntry, Careful
  <1>5. CASE TouchTemp(p) BY <1>5, CreateCareful DEF TouchTemp, Labels
  <1>6. CASE TouchUnlink(p)
    <2>1. pc'[p] = "touch_rename" /\ \A q \in Procs \ {p} : pc'[q] = pc[q]
      BY <1>6 DEF TouchUnlink
    <2> QED BY <1>6, <2>1, RemoveCareful DEF TouchUnlink
  <1>7. CASE TouchRename(p)
    BY <1>7, RenameCareful DEF TouchRename, Reading, Labels
  <1>8. CASE LiveFetch(p) BY <1>8 DEF LiveFetch, Careful
  <1>9. CASE Weigh(p) BY <1>9 DEF Weigh, Careful
  <1>10. CASE EvictIndex(p) BY <1>10 DEF EvictIndex, Careful
  <1>11. CASE EvictObject(p) BY <1>11, RemoveCareful DEF EvictObject
  <1>12. CASE EvictEntry(p) BY <1>12 DEF EvictEntry, Careful
  <1>13. CASE PutCheck(p) BY <1>13 DEF PutCheck, Careful
  <1>14. CASE PutTemp(p) BY <1>14, CreateCareful DEF PutTemp, Labels
  <1>15. CASE PutRename(p)
    BY <1>15, RenameCareful DEF PutRename, Storing, Labels
  <1>16. CASE EntryUnlink(p) BY <1>16 DEF EntryUnlink, Careful
  <1>17. CASE EntryRename(p) BY <1>17 DEF EntryRename, Careful
  <1>18. CASE QuotaList(p) BY <1>18 DEF QuotaList, Careful
  <1>19. CASE QuotaDrop(p) BY <1>19, RemoveCareful DEF QuotaDrop
  <1> QED
    BY <1>1, <1>2, <1>3, <1>4, <1>5, <1>6, <1>7, <1>8, <1>9, <1>10, <1>11,
       <1>12, <1>13, <1>14, <1>15, <1>16, <1>17, <1>18, <1>19 DEF Step

LEMMA TidyNext == Typed /\ Tidy /\ [Next]_vars => Tidy'
  <1> SUFFICES ASSUME Typed, Tidy, [Next]_vars PROVE Tidy'
    OBVIOUS
  <1> USE DEF Tidy, Typed, TypeOK, Temping
  <1>1. ASSUME NEW p \in Procs, NEW r \in Requests, Begin(p, r) PROVE Tidy'
    BY <1>1 DEF Begin, Resting
  <1>2. ASSUME NEW p \in Procs, Step(p) PROVE Tidy'
    BY <1>2, StepCareful DEF Careful
  <1>3. ASSUME NEW p \in Procs, Crash(p) PROVE Tidy'
    BY <1>3 DEF Crash
  <1>4. CASE Tamper
    <2>1. \A p \in Procs : objects'[p] = objects[p] /\ pc'[p] = pc[p]
      BY <1>4, NamesApart DEF Tamper, DamageObject, RedirectEntry, CreateFile, RemoveFile
    <2> QED BY <2>1
  <1>5. CASE UNCHANGED vars BY <1>5 DEF vars
  <1> QED BY <1>1, <1>2, <1>3, <1>4, <1>5 DEF Next

\* No interleaving of invocations overwrites an object under its name, be it
\* another's temporary or the one a touch is renewing: a name that holds bytes
\* keeps them until it is unlinked (cache.rs Cache::put and replace).
THEOREM NothingClobbered == Spec => NoClobber
  <1> DEFINE A == tampers' = tampers =>
                    \A n \in Names : objects[n] # NoFile => objects'[n] \in {objects[n], NoFile}
  <1>1. Init => Typed /\ Tidy
    BY TypedInit DEF Init, Tidy
  <1>2. Typed /\ Tidy /\ [Next]_vars => [A]_vars
    <2> SUFFICES ASSUME Typed, Tidy, [Next]_vars PROVE A \/ UNCHANGED vars
      OBVIOUS
    <2>1. ASSUME NEW p \in Procs, NEW r \in Requests, Begin(p, r) PROVE A
      BY <2>1 DEF Begin
    <2>2. ASSUME NEW p \in Procs, Step(p) PROVE A
      BY <2>2, StepCareful DEF Careful
    <2>3. ASSUME NEW p \in Procs, Crash(p) PROVE A
      BY <2>3 DEF Crash
    <2>4. ASSUME Tamper PROVE A
      BY <2>4 DEF Tamper, Typed, TypeOK
    <2> QED BY <2>1, <2>2, <2>3, <2>4 DEF Next
  <1> QED BY <1>1, <1>2, TypedNext, TidyNext, PTL DEF Spec, NoClobber
-----------------------------------------------------------------------------
(***************************************************************************)
(* A refusal is a live one.                                                *)
(***************************************************************************)

\* What an invocation with the directory to itself knows after one foreign
\* write: an answer from the cache is the object it read the digest of, a bad
\* one is still indexed when it is weighed, and the second attempt of one that
\* was evicted finds no entry.
Blamed(p) ==
  /\ pc[p] \in Touching => ans[p] = dig[p] /\ from[p] = "cache"
  /\ pc[p] = "weigh" /\ from[p] = "cache" => ans[p] = dig[p]
  /\ (pc[p] \in Looking \/ (pc[p] = "weigh" /\ from[p] = "cache")) /\ ~Accepts(p, dig[p]) =>
       tampers = 1 /\ index[RequestKey(p)] = dig[p] /\ first[p] # "cache"
  /\ pc[p] \in Evicting /\ from[p] = "cache" =>
       tampers = 1 /\ (pc[p] = "evict_index" => index[RequestKey(p)] # NoFile)
  /\ first[p] = "cache" /\ ~Resting(p) =>
       /\ tampers = 1 /\ pc[p] \notin Looking \cup {"drop_entry"}
       /\ pc[p] = "get_index" => index[RequestKey(p)] = NoFile
       /\ pc[p] = "weigh" => from[p] = "live"
  /\ pc[p] = "refused" => "live" \in {first[p], from[p]}

Answerable == \A p \in Procs : Alone(p) /\ tampers <= 1 => Blamed(p)

LEMMA BlamedStep ==
  ASSUME IInv, Attempted, NEW p \in Procs, Blamed(p), tampers <= 1, Step(p)
  PROVE  Blamed(p)'
  <1> USE DEF IInv, Typed, TypeOK, Blamed, Accepts, Looking, Touching, Evicting, Resting
  <1>0. tampers \in {0, 1}
    BY BoundsAssumption
  <1>1. CASE GetIndex(p)
    <2>1. tampers = 0 => \A k \in Keys : index[k] # NoFile => index[k] \in Verifies[k]
      BY DEF Clean, WellIndexed
    <2> QED BY <1>0, <1>1, <2>1 DEF GetIndex
  <1>2. CASE GetObject(p) BY <1>2 DEF GetObject
  <1>3. CASE DropObject(p) BY <1>3 DEF DropObject
  <1>4. CASE DropEntry(p) BY <1>4 DEF DropEntry
  <1>5. CASE TouchTemp(p) BY <1>5 DEF TouchTemp, WriteTemp
  <1>6. CASE TouchUnlink(p) BY <1>6 DEF TouchUnlink
  <1>7. CASE TouchRename(p) BY <1>7 DEF TouchRename, NoReplace
  <1>8. CASE LiveFetch(p) BY <1>8 DEF LiveFetch
  <1>9. CASE Weigh(p) BY <1>9, NamesApart DEF Weigh, Holding, Attempted
  <1>10. CASE EvictIndex(p) BY <1>10 DEF EvictIndex, Attempted
  <1>11. CASE EvictObject(p) BY <1>11 DEF EvictObject, Attempted
  <1>12. CASE EvictEntry(p) BY <1>12 DEF EvictEntry, Attempted
  <1>13. CASE PutCheck(p) BY <1>13 DEF PutCheck
  <1>14. CASE PutTemp(p) BY <1>14 DEF PutTemp, WriteTemp
  <1>15. CASE PutRename(p) BY <1>15 DEF PutRename, NoReplace
  <1>16. CASE EntryUnlink(p) BY <1>16 DEF EntryUnlink
  <1>17. CASE EntryRename(p) BY <1>17 DEF EntryRename
  <1>18. CASE QuotaList(p) BY <1>18 DEF QuotaList
  <1>19. CASE QuotaDrop(p) BY <1>19 DEF QuotaDrop
  <1> QED
    BY <1>1, <1>2, <1>3, <1>4, <1>5, <1>6, <1>7, <1>8, <1>9, <1>10, <1>11,
       <1>12, <1>13, <1>14, <1>15, <1>16, <1>17, <1>18, <1>19 DEF Step

\* Whoever takes a step is no longer idle, and leaves the others where they are.
LEMMA StepsOfOne ==
  ASSUME Typed, NEW p \in Procs, Step(p)
  PROVE  /\ \A q \in Procs \ {p} : pc'[q] = pc[q]
         /\ pc'[p] # "idle" /\ pc'[p] # "crashed" /\ pc[p] \notin {"idle", "crashed"} \cup Ended
         /\ UNCHANGED <<tampers, root, req>>
  <1> USE DEF Typed, TypeOK
  <1>1. CASE GetIndex(p) BY <1>1 DEF GetIndex
  <1>2. CASE GetObject(p) BY <1>2 DEF GetObject
  <1>3. CASE DropObject(p) BY <1>3 DEF DropObject
  <1>4. CASE DropEntry(p) BY <1>4 DEF DropEntry
  <1>5. CASE TouchTemp(p) BY <1>5 DEF TouchTemp, WriteTemp
  <1>6. CASE TouchUnlink(p) BY <1>6 DEF TouchUnlink
  <1>7. CASE TouchRename(p) BY <1>7 DEF TouchRename, NoReplace
  <1>8. CASE LiveFetch(p) BY <1>8 DEF LiveFetch
  <1>9. CASE Weigh(p) BY <1>9 DEF Weigh
  <1>10. CASE EvictIndex(p) BY <1>10 DEF EvictIndex
  <1>11. CASE EvictObject(p) BY <1>11 DEF EvictObject
  <1>12. CASE EvictEntry(p) BY <1>12 DEF EvictEntry
  <1>13. CASE PutCheck(p) BY <1>13 DEF PutCheck
  <1>14. CASE PutTemp(p) BY <1>14 DEF PutTemp, WriteTemp
  <1>15. CASE PutRename(p) BY <1>15 DEF PutRename, NoReplace
  <1>16. CASE EntryUnlink(p) BY <1>16 DEF EntryUnlink
  <1>17. CASE EntryRename(p) BY <1>17 DEF EntryRename
  <1>18. CASE QuotaList(p) BY <1>18 DEF QuotaList
  <1>19. CASE QuotaDrop(p) BY <1>19 DEF QuotaDrop
  <1> QED
    BY <1>1, <1>2, <1>3, <1>4, <1>5, <1>6, <1>7, <1>8, <1>9, <1>10, <1>11,
       <1>12, <1>13, <1>14, <1>15, <1>16, <1>17, <1>18, <1>19 DEF Step

LEMMA AnswerableNext == IInv /\ Attempted /\ Answerable /\ [Next]_vars => Answerable'
  <1> SUFFICES ASSUME IInv, Attempted, Answerable, [Next]_vars,
                      NEW p \in Procs, Alone(p)', tampers' <= 1
               PROVE  Blamed(p)'
    BY DEF Answerable
  <1>1. Typed
    BY DEF IInv
  <1>2. ASSUME NEW q \in Procs, NEW r \in Requests, Begin(q, r) PROVE Blamed(p)'
    <2>1. q = p
      BY <1>1, <1>2 DEF Begin, Alone, Typed, TypeOK
    <2> QED BY <1>1, <1>2, <2>1 DEF Begin, Blamed, Typed, TypeOK, Looking, Touching, Evicting, Resting
  <1>3. ASSUME NEW q \in Procs, Step(q) PROVE Blamed(p)'
    <2>1. q = p
      BY <1>1, <1>3, StepsOfOne DEF Alone
    <2>2. Alone(p) /\ tampers <= 1
      BY <1>1, <1>3, <2>1, StepsOfOne DEF Alone
    <2> QED BY <1>3, <2>1, <2>2, BlamedStep DEF Answerable
  <1>4. ASSUME NEW q \in Procs, Crash(q) PROVE Blamed(p)'
    <2>1. q = p
      BY <1>1, <1>4 DEF Crash, Alone, Typed, TypeOK
    <2>2. Blamed(p)
      BY <1>1, <1>4, <2>1 DEF Crash, Alone, Answerable, Typed, TypeOK
    <2> QED BY <1>1, <1>4, <2>1, <2>2 DEF Crash, Blamed, Typed, TypeOK, Looking, Touching, Evicting, Resting
  <1>5. CASE Tamper
    <2>1. tampers = 0 /\ UNCHANGED <<pc, local>>
      BY <1>1, <1>5, BoundsAssumption DEF Tamper, Typed, TypeOK
    <2>2. Blamed(p) /\ WellRead(p)
      BY <2>1 DEF Alone, Answerable, IInv, Clean
    <2> QED BY <2>1, <2>2 DEF Blamed, WellRead, Accepts, Looking, Touching, Resting
  <1>6. CASE UNCHANGED vars
    BY <1>6 DEF vars, Alone, Answerable, Blamed, Accepts, Resting
  <1> QED BY <1>2, <1>3, <1>4, <1>5, <1>6 DEF Next

\* One foreign write to the cache never turns an honest endpoint into an error:
\* an invocation that has the directory to itself refuses only after it has
\* weighed a live answer (net.rs fetch_revalidating over cache.rs evict).
THEOREM RefusedLive == Spec => []RefusalsAreLive
  <1>1. Init => Answerable
    BY DEF Init, Answerable, Blamed, Looking, Touching, Evicting, Resting
  <1>2. Answerable => RefusalsAreLive
    BY DEF Answerable, Blamed, RefusalsAreLive
  <1> QED BY <1>1, <1>2, Invariance, AttemptedAlways, AnswerableNext, PTL DEF Spec

-----------------------------------------------------------------------------
(***************************************************************************)
(* What a set of files weighs.                                             *)
(***************************************************************************)
LEMMA NatHasLeast ==
  ASSUME NEW S \in SUBSET Nat, S # {}
  PROVE  \E n \in S : \A m \in S : n <= m
  <1> DEFINE R == OpToRel(<, Nat)
  <1>1. IsWellFoundedOn(R, Nat)
    BY NatLessThanWellFounded
  <1>2. \A x, y \in Nat : <<y, x>> \in R <=> y < x
    BY DEF OpToRel
  <1> HIDE DEF R
  <1>3. PICK x \in S : \A y \in S : ~ (<<y, x>> \in R)
    BY <1>1, WFMin
  <1>4. \A y \in S : ~ (y < x)
    BY <1>2, <1>3
  <1> QED BY <1>4

LEMMA Upwards ==
  ASSUME NEW N \in Nat, NEW S, 0 \in S, \A k \in 1..N : k - 1 \in S => k \in S
  PROVE  0..N \subseteq S
  <1> DEFINE Fails == {k \in 0..N : k \notin S}
  <1> SUFFICES ASSUME Fails # {} PROVE FALSE
    OBVIOUS
  <1>1. PICK k \in Fails : \A m \in Fails : k <= m
    <2>1. Fails \in SUBSET Nat
      OBVIOUS
    <2> HIDE DEF Fails
    <2> QED BY <2>1, NatHasLeast
  <1>2. k \in 1..N /\ k - 1 \in 0..N /\ k - 1 \notin Fails
    BY <1>1
  <1> QED BY <1>1, <1>2

WeightOf(obj, S) == MapThenSumSet(LAMBDA n : Size[obj[n]], S)

Picked(s) == CHOOSE x \in s : TRUE
Summed(f, s, obj) == IF s = {} THEN 0 ELSE Size[obj[Picked(s)]] + f[s \ {Picked(s)}]
SumsUp(f, S, obj) == \A s \in SUBSET S : f[s] = Summed(f, s, obj)

\* A set of at most so many elements, without one of them.
LEMMA OneLess ==
  ASSUME NEW S, IsFiniteSet(S), NEW s \in SUBSET S, NEW x \in s
  PROVE  /\ IsFiniteSet(s) /\ Cardinality(s) \in 1..Cardinality(S) /\ Cardinality(S) \in Nat
         /\ s \ {x} \in SUBSET S /\ Cardinality(s \ {x}) = Cardinality(s) - 1
  <1>1. IsFiniteSet(s) /\ Cardinality(s) <= Cardinality(S)
    BY FS_Subset
  <1>2. Cardinality(s) \in Nat /\ Cardinality(S) \in Nat /\ Cardinality(s) # 0
    BY <1>1, FS_CardinalityType, FS_EmptySet
  <1>3. Cardinality(s \ {x}) = Cardinality(s) - 1
    BY <1>1, FS_RemoveElement
  <1> QED BY <1>1, <1>2, <1>3

LEMMA PickedIsIn ==
  ASSUME NEW s, s # {}
  PROVE  Picked(s) \in s
  BY DEF Picked

\* Induction over the subsets of a finite set, by how many they have.
LEMMA SubsetInduction ==
  ASSUME NEW S, IsFiniteSet(S), NEW Good \in SUBSET SUBSET S, {} \in Good,
         \A s \in SUBSET S : s # {} /\ (\A x \in s : s \ {x} \in Good) => s \in Good
  PROVE  SUBSET S \subseteq Good
  <1> DEFINE N == Cardinality(S)
  <1> DEFINE Upto == {n \in 0..N : \A s \in SUBSET S : Cardinality(s) <= n => s \in Good}
  <1>1. N \in Nat
    BY FS_CardinalityType
  <1>2. \A s \in SUBSET S : IsFiniteSet(s) /\ Cardinality(s) \in 0..N /\ (Cardinality(s) = 0 => s = {})
    BY <1>1, FS_Subset, FS_CardinalityType, FS_EmptySet
  <1>3. 0 \in Upto
    <2>1. ASSUME NEW s \in SUBSET S, Cardinality(s) <= 0 PROVE s \in Good
      <3>1. Cardinality(s) = 0
        <4> HIDE DEF N
        <4> QED BY <1>1, <1>2, <2>1
      <3> QED BY <1>2, <3>1
    <2> QED BY <1>1, <2>1
  <1>4. ASSUME NEW n \in 1..N, n - 1 \in Upto PROVE n \in Upto
    <2>1. ASSUME NEW s \in SUBSET S, Cardinality(s) <= n PROVE s \in Good
      <3>1. ASSUME NEW x \in s PROVE s \ {x} \in Good
        <4>1. s \ {x} \in SUBSET S /\ Cardinality(s \ {x}) = Cardinality(s) - 1 /\ Cardinality(s) \in Nat
          BY <1>1, <1>2, OneLess
        <4> QED BY <1>1, <1>4, <2>1, <4>1
      <3> QED BY <3>1, <2>1
    <2>2. n \in 0..N
      BY <1>1
    <2> QED BY <2>1, <2>2
  <1>5. N \in Upto
    <2>1. \A n \in 1..N : n - 1 \in Upto => n \in Upto
      <3> HIDE DEF Upto
      <3> QED BY <1>4
    <2>2. 0..N \subseteq Upto
      <3> HIDE DEF Upto, N
      <3> QED BY <1>1, <1>3, <2>1, Upwards
    <2> HIDE DEF Upto
    <2> QED BY <1>1, <2>2
  <1> QED BY <1>1, <1>2, <1>5

\* Sums over the same files are the same.
LEMMA SameSums ==
  ASSUME NEW S, NEW T \in SUBSET S, IsFiniteSet(S), NEW obj, NEW other, \A n \in T : obj[n] = other[n],
         NEW f, NEW h, SumsUp(f, S, obj), SumsUp(h, T, other)
  PROVE  \A s \in SUBSET T : f[s] = h[s]
  <1> DEFINE Good == {s \in SUBSET T : f[s] = h[s]}
  <1>1. IsFiniteSet(T) /\ \A s \in SUBSET T : s \in SUBSET S
    BY FS_Subset
  <1>2. {} \in Good
    BY DEF SumsUp, Summed
  <1>3. ASSUME NEW s \in SUBSET T, s # {}, \A x \in s : s \ {x} \in Good PROVE s \in Good
    <2>1. Picked(s) \in s /\ s \ {Picked(s)} \in Good
      BY <1>3, PickedIsIn
    <2>2. f[s] = Size[obj[Picked(s)]] + f[s \ {Picked(s)}] /\ h[s] = Size[other[Picked(s)]] + h[s \ {Picked(s)}]
      BY <1>1, <1>3 DEF SumsUp, Summed
    <2> QED BY <2>1, <2>2
  <1>4. \A s \in SUBSET T : s # {} /\ (\A x \in s : s \ {x} \in Good) => s \in Good
    <2> HIDE DEF Good
    <2> QED BY <1>3
  <1>5. Good \in SUBSET SUBSET T
    OBVIOUS
  <1>6. SUBSET T \subseteq Good
    <2> HIDE DEF Good
    <2> QED BY <1>1, <1>2, <1>4, <1>5, SubsetInduction
  <1> QED BY <1>6

\* There is a sum over every finite set.
LEMMA SumsExist ==
  ASSUME NEW S, IsFiniteSet(S), NEW obj, \A n \in S : Size[obj[n]] \in Nat
  PROVE  \E f \in [SUBSET S -> Nat] : SumsUp(f, S, obj)
  <1> DEFINE N == Cardinality(S)
  <1> DEFINE Sums(f, n) == \A s \in SUBSET S : Cardinality(s) <= n => f[s] = Summed(f, s, obj)
  <1> DEFINE Upto == {n \in 0..N : \E f \in [SUBSET S -> Nat] : Sums(f, n)}
  <1>1. N \in Nat
    BY FS_CardinalityType
  <1>2. \A s \in SUBSET S : IsFiniteSet(s) /\ Cardinality(s) \in 0..N /\ (Cardinality(s) = 0 => s = {})
    BY <1>1, FS_Subset, FS_CardinalityType, FS_EmptySet
  <1>3. 0 \in Upto
    <2> DEFINE f == [s \in SUBSET S |-> 0]
    <2>1. f \in [SUBSET S -> Nat] /\ Sums(f, 0)
      BY <1>2 DEF Summed
    <2> HIDE DEF f, Sums
    <2> QED BY <1>1, <2>1
  <1>4. ASSUME NEW n \in 1..N, n - 1 \in Upto PROVE n \in Upto
    <2>1. PICK f \in [SUBSET S -> Nat] : Sums(f, n - 1)
      BY <1>4
    <2> DEFINE g == [s \in SUBSET S |-> IF Cardinality(s) <= n - 1 THEN f[s] ELSE Summed(f, s, obj)]
    <2>2. ASSUME NEW s \in SUBSET S PROVE Summed(f, s, obj) \in Nat
      <3>1. CASE s = {}
        BY <3>1 DEF Summed
      <3>2. CASE s # {}
        <4>1. Picked(s) \in s /\ s \ {Picked(s)} \in SUBSET S
          BY <3>2, PickedIsIn
        <4>2. Size[obj[Picked(s)]] \in Nat /\ f[s \ {Picked(s)}] \in Nat
          BY <4>1
        <4> QED BY <3>2, <4>2 DEF Summed
      <3> QED BY <3>1, <3>2
    <2>3. g \in [SUBSET S -> Nat]
      BY <2>2
    <2>4. ASSUME NEW s \in SUBSET S, Cardinality(s) <= n PROVE g[s] = Summed(g, s, obj)
      <3>1. g[s] = Summed(f, s, obj)
        BY <2>1
      <3>2. CASE s = {}
        BY <3>1, <3>2 DEF Summed
      <3>3. CASE s # {}
        <4>1. Picked(s) \in s
          BY <3>3, PickedIsIn
        <4>2. s \ {Picked(s)} \in SUBSET S /\ Cardinality(s \ {Picked(s)}) <= n - 1
          BY <1>1, <1>2, <2>4, <4>1, OneLess
        <4>3. g[s \ {Picked(s)}] = f[s \ {Picked(s)}]
          BY <4>2
        <4> HIDE DEF g
        <4> QED BY <3>1, <4>3 DEF Summed
      <3> QED BY <3>2, <3>3
    <2>5. Sums(g, n)
      <3> HIDE DEF g
      <3> QED BY <2>4
    <2> HIDE DEF g, Sums
    <2> QED BY <1>1, <2>3, <2>5
  <1>5. N \in Upto
    <2>1. \A n \in 1..N : n - 1 \in Upto => n \in Upto
      <3> HIDE DEF Upto
      <3> QED BY <1>4
    <2>2. 0..N \subseteq Upto
      <3> HIDE DEF Upto, N
      <3> QED BY <1>1, <1>3, <2>1, Upwards
    <2> HIDE DEF Upto
    <2> QED BY <1>1, <2>2
  <1>6. PICK f \in [SUBSET S -> Nat] : Sums(f, N)
    BY <1>5
  <1> QED BY <1>1, <1>2, <1>6 DEF SumsUp

\* Weight is such a sum.
LEMMA WeightSums ==
  ASSUME NEW S, IsFiniteSet(S), NEW obj, \A n \in S : Size[obj[n]] \in Nat
  PROVE  \E f \in [SUBSET S -> Nat] : SumsUp(f, S, obj) /\ WeightOf(obj, S) = f[S]
  <1> DEFINE Is(g) == g = [s \in SUBSET S |->
                            IF s = {} THEN 0
                            ELSE Size[obj[CHOOSE x \in s : TRUE]] + g[s \ {CHOOSE x \in s : TRUE}]]
  <1> DEFINE iter == CHOOSE g : Is(g)
  <1>1. PICK f \in [SUBSET S -> Nat] : SumsUp(f, S, obj)
    BY SumsExist
  <1>2. Is(f)
    <2>1. ASSUME NEW s \in SUBSET S
          PROVE  f[s] = IF s = {} THEN 0
                        ELSE Size[obj[CHOOSE x \in s : TRUE]] + f[s \ {CHOOSE x \in s : TRUE}]
      BY <1>1 DEF SumsUp, Summed, Picked
    <2> QED BY <2>1
  <1>3. WeightOf(obj, S) = iter[S]
    BY DEF WeightOf, MapThenSumSet, MapThenFoldSet
  <1>4. Is(iter)
    <2> HIDE DEF Is
    <2> QED BY <1>2
  <1> HIDE DEF iter
  <1>5. SumsUp(iter, S, obj)
    <2>1. \A s \in SUBSET S : iter[s] = IF s = {} THEN 0
                        ELSE Size[obj[CHOOSE x \in s : TRUE]] + iter[s \ {CHOOSE x \in s : TRUE}]
      BY <1>4
    <2> QED BY <2>1 DEF SumsUp, Summed, Picked
  <1>6. f[S] = iter[S]
    <2> HIDE DEF Is
    <2> QED BY <1>1, <1>5, SameSums
  <1> QED BY <1>1, <1>3, <1>6

\* The files of S have lengths, and f is the sum of those of every part of S.
Measured(obj, S) == \A n \in S : Size[obj[n]] \in Nat
IsSum(f, S, obj) == f \in [SUBSET S -> Nat] /\ SumsUp(f, S, obj)

\* Whichever file is set aside first.
LEMMA SumsApart ==
  ASSUME NEW S, IsFiniteSet(S), NEW obj, Measured(obj, S), NEW f, IsSum(f, S, obj), NEW r \in SUBSET S, NEW z \in r
  PROVE  f[r] = Size[obj[z]] + f[r \ {z}]
  <1> USE DEF Measured, IsSum
  <1> DEFINE Good == {s \in SUBSET S : \A y \in s : f[s] = Size[obj[y]] + f[s \ {y}]}
  <1>1. {} \in Good /\ Good \in SUBSET SUBSET S
    OBVIOUS
  <1>2. ASSUME NEW s \in SUBSET S, s # {}, \A x \in s : s \ {x} \in Good PROVE s \in Good
    <2> DEFINE x == Picked(s)
    <2>1. x \in s
      BY <1>2, PickedIsIn
    <2> HIDE DEF x
    <2>2. f[s] = Size[obj[x]] + f[s \ {x}]
      BY <1>2 DEF SumsUp, Summed, x
    <2>3. ASSUME NEW y \in s, y # x PROVE f[s] = Size[obj[y]] + f[s \ {y}]
      <3>1. s \ {x} \in Good /\ s \ {y} \in Good /\ y \in s \ {x} /\ x \in s \ {y}
        BY <1>2, <2>1, <2>3
      <3> DEFINE rest == (s \ {x}) \ {y}
      <3>2. rest = (s \ {y}) \ {x} /\ rest \in SUBSET S
        OBVIOUS
      <3>3. f[s \ {x}] = Size[obj[y]] + f[rest] /\ f[s \ {y}] = Size[obj[x]] + f[rest]
        BY <3>1, <3>2
      <3>4. f[rest] \in Nat /\ Size[obj[x]] \in Nat /\ Size[obj[y]] \in Nat
        BY <2>1, <3>2
      <3> HIDE DEF rest, Good
      <3> QED BY <2>2, <3>3, <3>4
    <2> QED BY <2>2, <2>3
  <1>3. \A s \in SUBSET S : s # {} /\ (\A x \in s : s \ {x} \in Good) => s \in Good
    <2> HIDE DEF Good
    <2> QED BY <1>2
  <1>4. SUBSET S \subseteq Good
    <2> HIDE DEF Good
    <2> QED BY <1>1, <1>3, SubsetInduction
  <1>5. r \in Good
    <2> HIDE DEF Good
    <2> QED BY <1>4
  <1> QED BY <1>5

LEMMA WeightLess ==
  ASSUME NEW S, IsFiniteSet(S), NEW obj, Measured(obj, S), NEW y \in S
  PROVE  WeightOf(obj, S) = Size[obj[y]] + WeightOf(obj, S \ {y})
  <1> DEFINE T == S \ {y}
  <1>1. T \in SUBSET S /\ IsFiniteSet(T) /\ S \in SUBSET S
    BY FS_Subset
  <1>2. PICK f : IsSum(f, S, obj) /\ WeightOf(obj, S) = f[S]
    BY WeightSums DEF Measured, IsSum
  <1>3. Measured(obj, T)
    BY DEF Measured
  <1>4. f[S] = Size[obj[y]] + f[T]
    BY <1>1, <1>2, SumsApart
  <1> HIDE DEF T
  <1>5. PICK h : IsSum(h, T, obj) /\ WeightOf(obj, T) = h[T]
    BY <1>1, <1>3, WeightSums DEF Measured, IsSum
  <1>6. f[T] = h[T]
    BY <1>1, <1>2, <1>5, SameSums DEF IsSum
  <1> QED BY <1>2, <1>4, <1>5, <1>6 DEF T

LEMMA WeightIsNat ==
  ASSUME NEW S, IsFiniteSet(S), NEW obj, Measured(obj, S)
  PROVE  WeightOf(obj, S) \in Nat /\ (S = {} => WeightOf(obj, S) = 0)
  <1>1. PICK f : IsSum(f, S, obj) /\ WeightOf(obj, S) = f[S]
    BY WeightSums DEF Measured, IsSum
  <1> QED BY <1>1 DEF IsSum, SumsUp, Summed

LEMMA WeightOfOne ==
  ASSUME NEW obj, NEW n, Measured(obj, {n})
  PROVE  WeightOf(obj, {n}) = Size[obj[n]]
  <1>1. IsFiniteSet({n}) /\ IsFiniteSet({}) /\ {n} \ {n} = {}
    BY FS_Singleton, FS_EmptySet
  <1>2. WeightOf(obj, {n}) = Size[obj[n]] + WeightOf(obj, {n} \ {n})
    BY <1>1, WeightLess
  <1>3. WeightOf(obj, {}) = 0
    BY <1>1, WeightIsNat DEF Measured
  <1> QED BY <1>1, <1>2, <1>3 DEF Measured

\* Fewer of the same files weigh no more.
LEMMA WeightGrows ==
  ASSUME NEW S, IsFiniteSet(S), NEW obj, Measured(obj, S),
         NEW T \in SUBSET S, NEW other, \A n \in T : obj[n] = other[n]
  PROVE  WeightOf(other, T) <= WeightOf(obj, S)
  <1>1. PICK f : IsSum(f, S, obj) /\ WeightOf(obj, S) = f[S]
    BY WeightSums DEF Measured, IsSum
  <1> DEFINE Good == {s \in SUBSET S : \A t \in SUBSET s : f[t] <= f[s]}
  <1>2. {} \in Good /\ Good \in SUBSET SUBSET S
    <2>1. {} \in SUBSET S /\ f[{}] \in Nat
      BY <1>1 DEF IsSum
    <2>2. \A t \in SUBSET {} : f[t] <= f[{}]
      <3>1. ASSUME NEW t \in SUBSET {} PROVE t = {}
        OBVIOUS
      <3>2. f[{}] <= f[{}]
        BY <2>1
      <3> QED BY <3>1, <3>2
    <2>3. {} \in Good
      BY <2>1, <2>2
    <2> QED BY <2>3
  <1>3. ASSUME NEW s \in SUBSET S, s # {}, \A x \in s : s \ {x} \in Good PROVE s \in Good
    <2>1. ASSUME NEW t \in SUBSET s, t # s PROVE f[t] <= f[s]
      <3>1. PICK y \in s : y \notin t
        BY <2>1
      <3>2. f[t] <= f[s \ {y}]
        BY <1>3, <3>1
      <3>3. f[s] = Size[obj[y]] + f[s \ {y}]
        BY <1>1, <3>1, SumsApart
      <3>4. f[t] \in Nat /\ f[s] \in Nat /\ f[s \ {y}] \in Nat /\ Size[obj[y]] \in Nat
        <4>1. s \ {y} \in SUBSET S /\ t \in SUBSET S /\ y \in S
          OBVIOUS
        <4>2. f \in [SUBSET S -> Nat]
          BY <1>1 DEF IsSum
        <4> QED BY <4>1, <4>2 DEF Measured
      <3> HIDE DEF Good
      <3> QED BY <3>2, <3>3, <3>4
    <2>2. f[s] <= f[s]
      BY <1>1 DEF IsSum
    <2> QED BY <2>1, <2>2
  <1>4. \A s \in SUBSET S : s # {} /\ (\A x \in s : s \ {x} \in Good) => s \in Good
    <2> HIDE DEF Good
    <2> QED BY <1>3
  <1>5. SUBSET S \subseteq Good
    <2> HIDE DEF Good
    <2> QED BY <1>2, <1>4, SubsetInduction
  <1>6. f[T] <= f[S]
    <2>1. S \in Good
      BY <1>5
    <2> QED BY <2>1
  <1>7. IsFiniteSet(T) /\ Measured(other, T)
    <2>1. \A n \in T : Size[other[n]] = Size[obj[n]]
      OBVIOUS
    <2> QED BY <2>1, FS_Subset DEF Measured
  <1>8. PICK h : IsSum(h, T, other) /\ WeightOf(other, T) = h[T]
    BY <1>7, WeightSums DEF IsSum, Measured
  <1>9. f[T] = h[T]
    BY <1>1, <1>8, SameSums DEF IsSum
  <1> QED BY <1>1, <1>6, <1>8, <1>9

-----------------------------------------------------------------------------
(***************************************************************************)
(* The quota.                                                              *)
(***************************************************************************)

\* The access times order the files that are there, but for those of the same
\* moment.
Ordered ==
  /\ older \subseteq Present \X Present
  /\ \A m, n \in Present : <<m, n>> \in older => <<n, m>> \notin older
  /\ \A l, m, n \in Present : <<l, n>> \in older => <<l, m>> \in older \/ <<m, n>> \in older

Sorted == IsFiniteSet(Present) /\ Ordered

LEMMA AccessOrdered ==
  ASSUME Ordered, NEW n \in Names, Accessed(n), Present' = Present \cup {n}
  PROVE  Ordered'
  <1>1. PICK before \in {Present, Overtaken} :
          older' = {e \in older : n \notin {e[1], e[2]}} \cup ((before \ {n}) \X {n})
    BY DEF Accessed
  <1>2. older \subseteq Present \X Present /\ before \in SUBSET Present
    BY <1>1 DEF Ordered, Overtaken
  <1>3. \A l, m \in Present' :
          <<l, m>> \in older' <=> (<<l, m>> \in older /\ l # n /\ m # n) \/ (l \in before /\ l # n /\ m = n)
    <2> SUFFICES ASSUME NEW l \in Present', NEW m \in Present'
                 PROVE  <<l, m>> \in older'
                          <=> (<<l, m>> \in older /\ l # n /\ m # n) \/ (l \in before /\ l # n /\ m = n)
      OBVIOUS
    <2> DEFINE kept == {e \in older : n \notin {e[1], e[2]}}
    <2> DEFINE added == (before \ {n}) \X {n}
    <2>1. <<l, m>> \in kept <=> <<l, m>> \in older /\ l # n /\ m # n
      OBVIOUS
    <2>2. <<l, m>> \in added <=> l \in before /\ l # n /\ m = n
      OBVIOUS
    <2>3. older' = kept \cup added
      BY <1>1
    <2> HIDE DEF kept, added
    <2>4. <<l, m>> \in older' <=> <<l, m>> \in kept \/ <<l, m>> \in added
      BY <2>3
    <2> QED BY <2>1, <2>2, <2>4
  <1>4. older' \subseteq Present' \X Present'
    BY <1>1, <1>2
  <1>5. ASSUME NEW l \in Present, NEW m \in Present, <<l, m>> \in older, m \in before
        PROVE  l \in before
    BY <1>1, <1>5 DEF Overtaken
  <1>6. ASSUME NEW l \in Present, NEW m \in Present, l \in before
        PROVE  m \in before \/ <<l, m>> \in older
    <2>1. CASE before = Present
      BY <2>1
    <2>2. CASE before = Overtaken
      <3>1. PICK k \in Present : <<l, k>> \in older
        BY <1>6, <2>2 DEF Overtaken
      <3>2. <<l, m>> \in older \/ <<m, k>> \in older
        BY <3>1 DEF Ordered
      <3> QED BY <2>2, <3>2 DEF Overtaken
    <2> QED BY <1>1, <2>1, <2>2
  <1>7. ASSUME NEW l \in Present, NEW m \in Present, <<l, m>> \in older
        PROVE  l \in before
    BY <1>1, <1>7 DEF Overtaken
  <1>8. \A l, m \in Present' : <<l, m>> \in older' => <<m, l>> \notin older'
    BY <1>3 DEF Ordered
  <1>9. \A l, m, k \in Present' : <<l, k>> \in older' => <<l, m>> \in older' \/ <<m, k>> \in older'
    <2> SUFFICES ASSUME NEW l \in Present', NEW m \in Present', NEW k \in Present', <<l, k>> \in older'
                 PROVE  <<l, m>> \in older' \/ <<m, k>> \in older'
      OBVIOUS
    <2>1. CASE k = n
      <3>1. l \in before /\ l # n
        BY <1>3, <2>1
      <3>2. CASE m = n
        BY <2>1, <3>2
      <3>3. CASE m # n
        <4>1. l \in Present /\ m \in Present
          BY <1>2, <3>1, <3>3
        <4>2. m \in before \/ <<l, m>> \in older
          BY <1>6, <3>1, <4>1
        <4>3. <<l, m>> \in older => <<l, m>> \in older'
          BY <1>3, <3>1, <3>3
        <4>4. m \in before => <<m, k>> \in older'
          BY <1>3, <2>1, <3>3
        <4> QED BY <4>2, <4>3, <4>4
      <3> QED BY <3>2, <3>3
    <2>2. CASE k # n
      <3>1. <<l, k>> \in older /\ l # n
        BY <1>3, <2>2
      <3>2. CASE m = n
        BY <1>2, <1>3, <1>7, <3>1, <3>2
      <3>3. CASE m # n
        BY <1>2, <1>3, <2>2, <3>1, <3>3 DEF Ordered
      <3> QED BY <3>2, <3>3
    <2> QED BY <2>1, <2>2
  <1> QED BY <1>4, <1>8, <1>9 DEF Ordered

LEMMA ReadSorted ==
  ASSUME Typed, Sorted, NEW n, ReadFile(n), UNCHANGED objects
  PROVE  Sorted'
  <1>1. Present' = Present
    BY DEF Present
  <1>2. CASE UNCHANGED older
    BY <1>1, <1>2 DEF Sorted, Ordered
  <1>3. CASE n \in Present /\ Accessed(n)
    <2>1. n \in Names /\ Present' = Present \cup {n}
      BY <1>1, <1>3 DEF Present
    <2> QED BY <1>1, <1>3, <2>1, AccessOrdered DEF Sorted
  <1> QED BY <1>2, <1>3 DEF ReadFile

LEMMA CreateSorted ==
  ASSUME Typed, Sorted, NEW n \in Names, NEW b \in Bytes, objects[n] = NoFile, CreateFile(n, b)
  PROVE  Sorted' /\ Present' = Present \cup {n}
  <1>1. Present' = Present \cup {n}
    BY NamesApart DEF Present, CreateFile, Typed, TypeOK
  <1>2. IsFiniteSet(Present \cup {n})
    BY FS_AddElement DEF Sorted
  <1>3. Ordered'
    BY <1>1, AccessOrdered DEF CreateFile, Sorted
  <1> QED BY <1>1, <1>2, <1>3 DEF Sorted

LEMMA RemoveSorted ==
  ASSUME Typed, Sorted, NEW n, RemoveFile(n)
  PROVE  Sorted' /\ Present' = Present \ {n}
  <1>1. Present' = Present \ {n}
    BY DEF Present, RemoveFile, Typed, TypeOK
  <1>2. IsFiniteSet(Present')
    BY <1>1, FS_Subset DEF Sorted
  <1>3. \A l, m \in Names : <<l, m>> \in older' <=> <<l, m>> \in older /\ l # n /\ m # n
    BY DEF RemoveFile
  <1>4. older' \subseteq Present' \X Present'
    BY <1>1 DEF RemoveFile, Sorted, Ordered
  <1>5. Present' \subseteq Names /\ Present' \subseteq Present
    BY <1>1 DEF Present
  <1>6. Ordered'
    BY <1>1, <1>3, <1>4, <1>5 DEF Sorted, Ordered
  <1> QED BY <1>1, <1>2, <1>6 DEF Sorted

LEMMA RenameSorted ==
  ASSUME Typed, Sorted, NEW t \in Names, NEW n \in Names,
         objects[t] # NoFile, objects[n] = NoFile, RenameFile(t, n)
  PROVE  Sorted' /\ Present' = (Present \ {t}) \cup {n}
  <1> DEFINE renamed(m) == IF m = t THEN n ELSE m
  <1> DEFINE was(m) == IF m = n THEN t ELSE m
  <1>1. Present' = (Present \ {t}) \cup {n} /\ t \in Present /\ n \notin Present /\ t # n
    BY DEF Present, RenameFile, Typed, TypeOK
  <1>2. IsFiniteSet(Present')
    <2>1. IsFiniteSet(Present \ {t})
      BY FS_Subset DEF Sorted
    <2> QED BY <1>1, <2>1, FS_AddElement
  <1>3. older' = {<<renamed(e[1]), renamed(e[2])>> : e \in older}
    BY DEF RenameFile
  <1>4. \A e \in older : e = <<e[1], e[2]>> /\ e[1] \in Present /\ e[2] \in Present
    BY DEF Sorted, Ordered
  <1>5. older' \subseteq Present' \X Present'
    BY <1>1, <1>3, <1>4
  <1>6. ASSUME NEW l \in Present', NEW m \in Present'
        PROVE  <<l, m>> \in older' <=> <<was(l), was(m)>> \in older
    <2>1. ASSUME <<l, m>> \in older' PROVE <<was(l), was(m)>> \in older
      <3>1. PICK e \in older : <<l, m>> = <<renamed(e[1]), renamed(e[2])>>
        BY <1>3, <2>1
      <3>2. e[1] = was(l) /\ e[2] = was(m)
        BY <1>1, <1>4, <3>1
      <3> QED BY <1>4, <3>2
    <2>2. ASSUME <<was(l), was(m)>> \in older PROVE <<l, m>> \in older'
      <3>1. renamed(was(l)) = l /\ renamed(was(m)) = m
        BY <1>1
      <3> DEFINE e == <<was(l), was(m)>>
      <3>2. <<renamed(e[1]), renamed(e[2])>> \in older'
        BY <1>3, <2>2
      <3> QED BY <3>1, <3>2
    <2> QED BY <2>1, <2>2
  <1>7. \A m \in Present' : was(m) \in Present
    BY <1>1
  <1> HIDE DEF was
  <1>8. Ordered'
    <2>1. \A m, k \in Present' : <<m, k>> \in older' => <<k, m>> \notin older'
      BY <1>6, <1>7 DEF Sorted, Ordered
    <2>2. \A l, m, k \in Present' : <<l, k>> \in older' => <<l, m>> \in older' \/ <<m, k>> \in older'
      BY <1>6, <1>7 DEF Sorted, Ordered
    <2> QED BY <1>5, <2>1, <2>2 DEF Ordered
  <1> QED BY <1>1, <1>2, <1>8 DEF Sorted

LEMMA SortedStep ==
  ASSUME Typed, Tidy, Sorted, NEW p \in Procs, Step(p)
  PROVE  Sorted'
  <1>1. CASE UNCHANGED <<objects, older>>
    BY <1>1 DEF Sorted, Ordered, Present
  <1>2. CASE DropObject(p) \/ TouchUnlink(p) \/ EvictObject(p) \/ QuotaDrop(p)
    BY <1>2, RemoveSorted DEF DropObject, TouchUnlink, EvictObject, QuotaDrop
  <1>3. CASE TouchTemp(p) \/ PutTemp(p)
    <2>1. objects[p] = NoFile /\ ans[p] \in Bytes
      BY <1>3 DEF TouchTemp, PutTemp, Tidy, Temping, Typed, Holding, Storing, Touching
    <2>2. CreateFile(p, ans[p]) \/ UNCHANGED <<objects, older>>
      BY <1>3 DEF TouchTemp, PutTemp, WriteTemp
    <2> QED BY <1>1, <2>1, <2>2, CreateSorted
  <1>4. CASE TouchRename(p) \/ PutRename(p)
    <2> DEFINE n == IF pc[p] = "touch_rename" THEN dig[p] ELSE ans[p]
    <2>1. n \in Bytes
      BY <1>4 DEF TouchRename, PutRename, Typed, Holding, Storing, Reading
    <2>2. (objects[p] # NoFile /\ objects[n] = NoFile /\ RenameFile(p, n)) \/ RemoveFile(p)
      BY <1>4 DEF TouchRename, PutRename, NoReplace
    <2> HIDE DEF n
    <2> QED BY <2>1, <2>2, RenameSorted, RemoveSorted
  <1>5. CASE GetObject(p) \/ PutCheck(p)
    BY <1>5, ReadSorted DEF GetObject, PutCheck
  <1> QED
    BY <1>1, <1>2, <1>3, <1>4, <1>5 DEF Step, GetIndex, DropEntry, LiveFetch, Weigh, EvictIndex, EvictEntry,
       EntryUnlink, EntryRename, QuotaList

LEMMA SortedNext == Typed /\ Tidy /\ Sorted /\ [Next]_vars => Sorted'
  <1> SUFFICES ASSUME Typed, Tidy, Sorted, [Next]_vars PROVE Sorted'
    OBVIOUS
  <1>1. CASE UNCHANGED <<objects, older>>
    BY <1>1 DEF Sorted, Ordered, Present
  <1>2. CASE Tamper
    <2>1. ASSUME NEW d \in Bytes, NEW b \in Bytes, objects[d] = NoFile, CreateFile(d, b) PROVE Sorted'
      BY <2>1, CreateSorted
    <2>2. ASSUME NEW d \in Bytes, RemoveFile(d) PROVE Sorted'
      BY <2>2, RemoveSorted
    <2>3. ASSUME NEW d \in Bytes, NEW b \in Bytes, objects[d] # NoFile,
                 objects' = [objects EXCEPT ![d] = b], UNCHANGED older
          PROVE  Sorted'
      <3>1. Present' = Present
        BY <2>3, NamesApart DEF Present, Typed, TypeOK
      <3> QED BY <2>3, <3>1 DEF Sorted, Ordered
    <2> QED BY <1>1, <1>2, <2>1, <2>2, <2>3 DEF Tamper, DamageObject, RedirectEntry
  <1>3. ASSUME NEW p \in Procs, Step(p) PROVE Sorted'
    BY <1>3, SortedStep
  <1> QED BY <1>1, <1>2, <1>3 DEF Next, Begin, Crash, vars

-----------------------------------------------------------------------------
\* With their names the files have one order.
LEMMA DropOrder ==
  ASSUME Typed, Sorted
  PROVE  /\ \A m, n \in Present : m # n => GoesBefore(m, n) \/ GoesBefore(n, m)
         /\ \A m, n \in Present : GoesBefore(m, n) => m # n /\ ~GoesBefore(n, m)
         /\ \A l, m, n \in Present : GoesBefore(l, m) /\ GoesBefore(m, n) => GoesBefore(l, n)
  <1>1. \A m \in Present : m \in Names /\ Rank[m] \in Nat
    BY RankAssumption DEF Present
  <1>2. \A m, n \in Present : Rank[m] = Rank[n] => m = n
    BY <1>1, RankAssumption
  <1>3. \A m, n \in Present : m # n => GoesBefore(m, n) \/ GoesBefore(n, m)
    BY <1>1, <1>2 DEF GoesBefore
  <1>4. \A m, n \in Present : GoesBefore(m, n) => m # n /\ ~GoesBefore(n, m)
    <2> SUFFICES ASSUME NEW m \in Present, NEW n \in Present, GoesBefore(m, n)
                 PROVE  m # n /\ ~GoesBefore(n, m)
      OBVIOUS
    <2>1. Rank[m] \in Nat /\ Rank[n] \in Nat
      BY <1>1
    <2>2. CASE <<m, n>> \in older
      <3>1. <<n, m>> \notin older
        BY <2>2 DEF Sorted, Ordered
      <3> QED BY <2>2, <3>1 DEF GoesBefore
    <2>3. CASE <<n, m>> \notin older /\ Rank[m] < Rank[n]
      BY <2>1, <2>3 DEF GoesBefore
    <2> QED BY <2>2, <2>3 DEF GoesBefore
  <1>5. ASSUME NEW l \in Present, NEW m \in Present, NEW n \in Present, GoesBefore(l, m), GoesBefore(m, n)
        PROVE  GoesBefore(l, n)
    <2>1. CASE <<l, m>> \in older
      <3>1. <<l, n>> \in older \/ <<n, m>> \in older
        BY <2>1 DEF Sorted, Ordered
      <3>2. <<n, m>> \notin older
        BY <1>5 DEF GoesBefore, Sorted, Ordered
      <3> QED BY <3>1, <3>2 DEF GoesBefore
    <2>2. CASE <<l, m>> \notin older /\ <<m, n>> \in older
      <3>1. <<m, l>> \notin older
        BY <1>5, <2>2 DEF GoesBefore
      <3>2. <<l, n>> \in older
        BY <2>2, <3>1 DEF Sorted, Ordered
      <3> QED BY <3>2 DEF GoesBefore
    <2>3. CASE <<l, m>> \notin older /\ <<m, n>> \notin older
      <3>1. <<m, l>> \notin older /\ <<n, m>> \notin older /\ Rank[l] < Rank[m] /\ Rank[m] < Rank[n]
        BY <1>5, <2>3 DEF GoesBefore
      <3>2. <<n, l>> \notin older
        BY <3>1 DEF Sorted, Ordered
      <3> QED BY <1>1, <3>1, <3>2 DEF GoesBefore
    <2> QED BY <2>1, <2>2, <2>3
  <1> QED BY <1>3, <1>4, <1>5

\* What is left of a directory once the quota has been enforced fits it: the
\* first of the files left was kept, and every other goes after it.
LEMMA QuotaFits ==
  ASSUME Typed, Sorted
  PROVE  WeightOf(objects, Present \ OverQuota) <= Quota
  <1> DEFINE Kept == Present \ OverQuota
  <1> DEFINE From(n) == {m \in Present : m = n \/ GoesBefore(n, m)}
  <1>1. IsFiniteSet(Present) /\ IsFiniteSet(Kept) /\ Kept \in SUBSET Present
    BY FS_Subset DEF Sorted
  <1>2. Measured(objects, Present)
    BY BoundsAssumption DEF Measured, Present, Typed, TypeOK
  <1>3. \A n \in Kept : WeightOf(objects, From(n)) <= Quota
    <2>1. \A n \in Present : n \notin OverQuota => ~ (Weight(From(n)) > Quota)
      BY DEF OverQuota
    <2>2. ASSUME NEW n \in Kept PROVE WeightOf(objects, From(n)) <= Quota
      <3>1. IsFiniteSet(From(n)) /\ Measured(objects, From(n))
        BY <1>1, <1>2, FS_Subset DEF Measured
      <3>2. Weight(From(n)) = WeightOf(objects, From(n))
        BY DEF Weight, WeightOf
      <3> HIDE DEF From
      <3>3. WeightOf(objects, From(n)) \in Nat
        BY <3>1, WeightIsNat
      <3> QED BY <2>1, <3>2, <3>3, BoundsAssumption
    <2> QED BY <2>2
  <1> DEFINE First(s, n) == n \in s /\ \A m \in s : m = n \/ GoesBefore(n, m)
  <1> DEFINE Good == {s \in SUBSET Kept : s # {} => \E n \in s : First(s, n)}
  <1> HIDE DEF Kept
  <1>4. {} \in Good /\ Good \in SUBSET SUBSET Kept
    OBVIOUS
  <1>5. ASSUME NEW s \in SUBSET Kept, s # {}, \A x \in s : s \ {x} \in Good PROVE s \in Good
    <2>1. PICK x \in s : TRUE
      BY <1>5
    <2>2. CASE s \ {x} = {}
      <3>1. First(s, x)
        BY <2>2
      <3> QED BY <3>1
    <2>3. CASE s \ {x} # {}
      <3>1. PICK n \in s \ {x} : First(s \ {x}, n)
        BY <1>5, <2>3
      <3>2. GoesBefore(n, x) \/ GoesBefore(x, n)
        BY <1>1, <2>1, <3>1, DropOrder
      <3>3. CASE GoesBefore(n, x)
        BY <3>1, <3>3
      <3>4. CASE GoesBefore(x, n)
        <4>1. First(s, x)
          BY <1>1, <2>1, <3>1, <3>4, DropOrder
        <4> QED BY <4>1
      <3> QED BY <3>2, <3>3, <3>4
    <2> QED BY <2>2, <2>3
  <1>6. Kept \in Good
    <2>1. \A s \in SUBSET Kept : s # {} /\ (\A x \in s : s \ {x} \in Good) => s \in Good
      <3> HIDE DEF Good
      <3> QED BY <1>5
    <2> HIDE DEF Good
    <2> QED BY <1>1, <1>4, <2>1, SubsetInduction
  <1>7. CASE Kept = {}
    <2>1. WeightOf(objects, Kept) = 0
      BY <1>1, <1>7, WeightIsNat DEF Measured
    <2> QED BY <2>1, BoundsAssumption DEF Kept
  <1>8. CASE Kept # {}
    <2>1. PICK n \in Kept : First(Kept, n)
      BY <1>6, <1>8
    <2>2. Kept \in SUBSET From(n)
      BY <1>1, <2>1
    <2>3. IsFiniteSet(From(n)) /\ Measured(objects, From(n))
      BY <1>1, <1>2, FS_Subset DEF Measured
    <2>4. WeightOf(objects, From(n)) <= Quota
      BY <1>3
    <2> HIDE DEF From
    <2>5. WeightOf(objects, Kept) <= WeightOf(objects, From(n))
      BY <2>2, <2>3, WeightGrows
    <2>6. WeightOf(objects, Kept) \in Nat /\ WeightOf(objects, From(n)) \in Nat
      <3>1. Measured(objects, Kept)
        BY <2>2, <2>3 DEF Measured
      <3> QED BY <1>1, <2>3, <3>1, WeightIsNat
    <2> QED BY <2>4, <2>5, <2>6, BoundsAssumption DEF Kept
  <1> QED BY <1>7, <1>8

-----------------------------------------------------------------------------
\* Who is sure to list the directory, or to be relieved of it by whoever files
\* an entry under its key.
Committed(p) ==
  \/ pc[p] \in {"entry_unlink", "quota_list"}
  \/ pc[p] = "entry_rename" /\ index[RequestKey(p)] = NoFile

\* What a process answers for otherwise: the temporary it is to rename or to
\* unlink, the object of a hit until it has seen whether it is still there,
\* and what it is to drop.
Excused(p) ==
  IF pc[p] \in {"touch_unlink", "touch_rename"} THEN {p, dig[p]}
  ELSE IF pc[p] \in {"weigh", "put_check"} /\ from[p] = "cache" THEN {ans[p]}
  ELSE IF pc[p] = "put_rename" THEN {p}
  ELSE IF pc[p] = "quota_drop" THEN victims[p]
  ELSE {}

\* A hit is the object whose digest was read, and no longer than the quota.
Hit(p) ==
  /\ pc[p] \in Touching => ans[p] = dig[p] /\ from[p] = "cache"
  /\ pc[p] \in Touching \cup {"weigh", "put_check"} /\ from[p] = "cache" => Size[ans[p]] <= Quota

\* What nobody answers for fits the quota, unless somebody is about to list it.
Settled == Present \ UNION {Excused(p) : p \in Procs}

Fits == WeightOf(objects, Settled) <= Quota

QuotaInv ==
  /\ Sorted
  /\ \A p \in Procs : Hit(p)
  /\ tampers = 0 /\ ~FsFaults => Fits \/ \E p \in Procs : pc[p] = "crashed" \/ Committed(p)

\* What a step of p leaves to the others.
Private(p) ==
  /\ \A q \in Procs \ {p} : /\ pc'[q] = pc[q] /\ dig'[q] = dig[q] /\ ans'[q] = ans[q]
                            /\ from'[q] = from[q] /\ victims'[q] = victims[q]
  /\ \A k \in Keys : index'[k] \in {index[k], NoFile} \/ pc'[p] = "quota_list"

LEMMA PrivateStep ==
  ASSUME Typed, NEW p \in Procs, Step(p)
  PROVE  Private(p)
  <1> USE DEF Typed, TypeOK, Private
  <1>1. CASE GetIndex(p) BY <1>1 DEF GetIndex
  <1>2. CASE GetObject(p) BY <1>2 DEF GetObject
  <1>3. CASE DropObject(p) BY <1>3 DEF DropObject
  <1>4. CASE DropEntry(p) BY <1>4 DEF DropEntry
  <1>5. CASE TouchTemp(p) BY <1>5 DEF TouchTemp, WriteTemp
  <1>6. CASE TouchUnlink(p) BY <1>6 DEF TouchUnlink
  <1>7. CASE TouchRename(p) BY <1>7 DEF TouchRename, NoReplace
  <1>8. CASE LiveFetch(p) BY <1>8 DEF LiveFetch
  <1>9. CASE Weigh(p) BY <1>9 DEF Weigh
  <1>10. CASE EvictIndex(p) BY <1>10 DEF EvictIndex
  <1>11. CASE EvictObject(p) BY <1>11 DEF EvictObject
  <1>12. CASE EvictEntry(p) BY <1>12 DEF EvictEntry
  <1>13. CASE PutCheck(p) BY <1>13 DEF PutCheck
  <1>14. CASE PutTemp(p) BY <1>14 DEF PutTemp, WriteTemp
  <1>15. CASE PutRename(p) BY <1>15 DEF PutRename, NoReplace
  <1>16. CASE EntryUnlink(p) BY <1>16 DEF EntryUnlink
  <1>17. CASE EntryRename(p) BY <1>17 DEF EntryRename
  <1>18. CASE QuotaList(p) BY <1>18 DEF QuotaList
  <1>19. CASE QuotaDrop(p) BY <1>19 DEF QuotaDrop
  <1> QED
    BY <1>1, <1>2, <1>3, <1>4, <1>5, <1>6, <1>7, <1>8, <1>9, <1>10, <1>11,
       <1>12, <1>13, <1>14, <1>15, <1>16, <1>17, <1>18, <1>19 DEF Step

LEMMA HitStep ==
  ASSUME Typed, NEW p \in Procs, Hit(p), Step(p)
  PROVE  Hit(p)'
  <1> USE DEF Typed, TypeOK, Hit, Touching
  <1>1. CASE GetIndex(p) BY <1>1 DEF GetIndex
  <1>2. CASE GetObject(p) BY <1>2 DEF GetObject, Readable
  <1>3. CASE DropObject(p) BY <1>3 DEF DropObject
  <1>4. CASE DropEntry(p) BY <1>4 DEF DropEntry
  <1>5. CASE TouchTemp(p) BY <1>5 DEF TouchTemp, WriteTemp
  <1>6. CASE TouchUnlink(p) BY <1>6 DEF TouchUnlink
  <1>7. CASE TouchRename(p) BY <1>7 DEF TouchRename, NoReplace
  <1>8. CASE LiveFetch(p) BY <1>8 DEF LiveFetch
  <1>9. CASE Weigh(p) BY <1>9 DEF Weigh
  <1>10. CASE EvictIndex(p) BY <1>10 DEF EvictIndex
  <1>11. CASE EvictObject(p) BY <1>11 DEF EvictObject
  <1>12. CASE EvictEntry(p) BY <1>12 DEF EvictEntry
  <1>13. CASE PutCheck(p) BY <1>13 DEF PutCheck
  <1>14. CASE PutTemp(p) BY <1>14 DEF PutTemp, WriteTemp
  <1>15. CASE PutRename(p) BY <1>15 DEF PutRename, NoReplace
  <1>16. CASE EntryUnlink(p) BY <1>16 DEF EntryUnlink
  <1>17. CASE EntryRename(p) BY <1>17 DEF EntryRename
  <1>18. CASE QuotaList(p) BY <1>18 DEF QuotaList
  <1>19. CASE QuotaDrop(p) BY <1>19 DEF QuotaDrop
  <1> QED
    BY <1>1, <1>2, <1>3, <1>4, <1>5, <1>6, <1>7, <1>8, <1>9, <1>10, <1>11,
       <1>12, <1>13, <1>14, <1>15, <1>16, <1>17, <1>18, <1>19 DEF Step

\* No step of p settles a file.
Shrinks(p) == \A n \in Present' \ Excused(p)' : n \in Present \ Excused(p) /\ objects'[n] = objects[n]

LEMMA SettledShrinks ==
  ASSUME Typed, Sorted, Sorted', NEW p \in Procs, Private(p), Shrinks(p), Fits
  PROVE  Fits'
  <1>1. \A q \in Procs \ {p} : Excused(q)' = Excused(q)
    BY DEF Private, Excused
  <1>2. Settled' \in SUBSET Settled /\ \A n \in Settled' : objects[n] = objects'[n]
    <2>1. ASSUME NEW n \in Settled' PROVE n \in Settled /\ objects[n] = objects'[n]
      <3>1. n \in Present' /\ \A q \in Procs : n \notin Excused(q)'
        BY DEF Settled
      <3>2. n \in Present /\ n \notin Excused(p) /\ objects'[n] = objects[n]
        BY <3>1 DEF Shrinks
      <3>3. \A q \in Procs : n \notin Excused(q)
        BY <1>1, <3>1, <3>2
      <3> QED BY <3>2, <3>3 DEF Settled
    <2> QED BY <2>1
  <1>3. IsFiniteSet(Settled) /\ Measured(objects, Settled)
    <2>1. Settled \in SUBSET Present
      BY DEF Settled
    <2>2. \A n \in Present : Size[objects[n]] \in Nat
      BY BoundsAssumption DEF Present, Typed, TypeOK
    <2> QED BY <2>1, <2>2, FS_Subset DEF Sorted, Measured
  <1>4. WeightOf(objects', Settled') <= WeightOf(objects, Settled)
    BY <1>2, <1>3, WeightGrows
  <1>5. WeightOf(objects, Settled) \in Nat /\ WeightOf(objects', Settled') \in Nat
    <2>1. IsFiniteSet(Settled') /\ Measured(objects', Settled')
      <3>1. \A n \in Settled' : Size[objects'[n]] = Size[objects[n]]
        BY <1>2
      <3> QED BY <1>2, <1>3, <3>1, FS_Subset DEF Measured
    <2> QED BY <1>3, <2>1, WeightIsNat
  <1> QED BY <1>4, <1>5, BoundsAssumption DEF Fits

\* A step of a process that owes nothing settles no file, unless it is the step
\* by which it comes to owe.
LEMMA SettledStep ==
  ASSUME IInv, NEW p \in Procs, Hit(p), Step(p), tampers = 0, ~FsFaults, ~Committed(p)
  PROVE  Shrinks(p) \/ Committed(p)'
  <1>0. Typed /\ Vetted /\ WellNamed /\ WellRead(p)
    BY DEF IInv, Clean
  <1> USE <1>0 DEF Typed, TypeOK
  <1>1. CASE UNCHANGED objects /\ Excused(p)' = Excused(p)
    BY <1>1 DEF Shrinks, Present
  <1>2. CASE GetIndex(p) BY <1>1, <1>2 DEF GetIndex, Excused
  <1>3. CASE GetObject(p) BY <1>1, <1>3 DEF GetObject, Excused
  <1>4. CASE DropEntry(p) BY <1>1, <1>4 DEF DropEntry, Excused
  <1>5. CASE LiveFetch(p) BY <1>1, <1>5 DEF LiveFetch, Excused
  <1>6. CASE EvictIndex(p) BY <1>1, <1>6 DEF EvictIndex, Excused
  <1>7. CASE EvictEntry(p) BY <1>1, <1>7 DEF EvictEntry, Excused
  <1>8. CASE EntryRename(p) BY <1>1, <1>8 DEF EntryRename, Excused, Committed
  <1>9. CASE EntryUnlink(p) \/ QuotaList(p) BY <1>9 DEF EntryUnlink, QuotaList, Committed
  <1>10. CASE Weigh(p)
    <2>1. CASE from[p] = "cache"
      <3>1. Accepts(p, ans[p])
        BY <1>10, <2>1 DEF Weigh, WellRead
      <3> QED BY <1>1, <1>10, <2>1, <3>1 DEF Weigh, Excused
    <2>2. CASE from[p] # "cache"
      BY <1>1, <1>10, <2>2 DEF Weigh, Excused
    <2> QED BY <2>1, <2>2
  <1>11. CASE PutCheck(p)
    <2>1. CASE Readable(ans[p])
      BY <1>11, <2>1 DEF PutCheck, Committed
    <2>2. CASE ~Readable(ans[p])
      <3>1. pc'[p] = "put_temp" /\ UNCHANGED <<objects, from, ans>> /\ Excused(p)' = {}
        BY <1>11, <2>2 DEF PutCheck, Excused
      <3>2. ans[p] \in Bytes
        BY <1>11 DEF PutCheck, Holding, Storing
      <3>3. Excused(p) \cap Present = {}
        <4>1. CASE from[p] = "cache"
          <5>1. Size[ans[p]] <= Quota
            BY <1>11, <4>1 DEF PutCheck, Hit
          <5>2. objects[ans[p]] # ans[p]
            BY <2>2, <3>2, <5>1, NamesApart DEF Readable
          <5>3. ans[p] \notin Present
            BY <3>2, <5>2 DEF WellNamed, Present
          <5> QED BY <1>11, <5>3 DEF PutCheck, Excused
        <4>2. CASE from[p] # "cache"
          BY <1>11, <4>2 DEF PutCheck, Excused
        <4> QED BY <4>1, <4>2
      <3> QED BY <3>1, <3>3 DEF Shrinks, Present
    <2> QED BY <2>1, <2>2
  <1>12. CASE DropObject(p)
    BY <1>12 DEF DropObject, RemoveFile, Shrinks, Present, Excused
  <1>13. CASE EvictObject(p)
    BY <1>13 DEF EvictObject, RemoveFile, Shrinks, Present, Excused
  <1>14. CASE TouchUnlink(p)
    BY <1>14 DEF TouchUnlink, RemoveFile, Shrinks, Present, Excused
  <1>15. CASE QuotaDrop(p)
    BY <1>15 DEF QuotaDrop, RemoveFile, Shrinks, Present, Excused
  <1>16. CASE TouchTemp(p)
    BY <1>16 DEF TouchTemp, WriteTemp, CreateFile, Shrinks, Present, Excused
  <1>17. CASE PutTemp(p)
    BY <1>17 DEF PutTemp, WriteTemp, CreateFile, Shrinks, Present, Excused
  <1>18. CASE TouchRename(p)
    <2>1. pc'[p] = "weigh" /\ UNCHANGED local /\ pc[p] = "touch_rename"
      BY <1>18 DEF TouchRename, NoReplace
    <2>2. dig[p] \in Bytes /\ ans[p] = dig[p] /\ from[p] = "cache" /\ dig[p] # p
      BY <1>18, NamesApart DEF TouchRename, Hit, Touching, Holding, Reading
    <2>3. Excused(p) = {p, dig[p]} /\ Excused(p)' = {dig[p]}
      BY <2>1, <2>2 DEF Excused
    <2>4. objects'[p] = NoFile /\ \A m \in Names \ {p, dig[p]} : objects'[m] = objects[m]
      <3>1. NoReplace(p, dig[p], "weigh", "weigh") /\ "weigh" \in Labels
        BY <1>18 DEF TouchRename, Labels
      <3> QED BY <2>2, <3>1, InstallClean
    <2> QED BY <2>3, <2>4 DEF Shrinks, Present
  <1>19. CASE PutRename(p)
    <2>1. CASE pc'[p] = "entry_unlink"
      BY <2>1 DEF Committed
    <2>2. CASE pc'[p] # "entry_unlink"
      <3>1. RemoveFile(p) /\ pc'[p] = "accepted" /\ pc[p] = "put_rename"
        BY <1>19, <2>2 DEF PutRename, NoReplace
      <3> QED BY <3>1 DEF RemoveFile, Shrinks, Present, Excused
    <2> QED BY <2>1, <2>2
  <1> QED
    BY <1>2, <1>3, <1>4, <1>5, <1>6, <1>7, <1>8, <1>9, <1>10, <1>11,
       <1>12, <1>13, <1>14, <1>15, <1>16, <1>17, <1>18, <1>19 DEF Step

\* Whoever owes the listing goes on to owe it until it has listed.
LEMMA CommittedStep ==
  ASSUME IInv, Sorted, NEW p \in Procs, Step(p), ~FsFaults, Committed(p)
  PROVE  Committed(p)' \/ Fits'
  <1> USE DEF IInv, Typed, TypeOK
  <1>1. CASE EntryUnlink(p)
    BY <1>1 DEF EntryUnlink, Committed
  <1>2. CASE EntryRename(p)
    BY <1>2 DEF EntryRename, Committed
  <1>3. CASE QuotaList(p)
    <2>1. UNCHANGED objects
      BY <1>3 DEF QuotaList
    <2>2. Excused(p)' = OverQuota
      BY <1>3 DEF QuotaList, Excused
    <2>3. Settled' \in SUBSET (Present \ OverQuota)
      BY <2>1, <2>2 DEF Settled, Present
    <2>4. IsFiniteSet(Present \ OverQuota) /\ Measured(objects, Present \ OverQuota)
      <3>1. Present \ OverQuota \in SUBSET Present
        OBVIOUS
      <3>2. \A n \in Present : Size[objects[n]] \in Nat
        BY BoundsAssumption DEF Present
      <3> QED BY <3>1, <3>2, FS_Subset DEF Sorted, Measured
    <2>5. WeightOf(objects', Settled') <= WeightOf(objects, Present \ OverQuota)
      <3>1. \A n \in Settled' : objects[n] = objects'[n]
        BY <2>1
      <3> QED BY <2>3, <2>4, <3>1, WeightGrows
    <2>6. WeightOf(objects, Present \ OverQuota) \in Nat /\ WeightOf(objects', Settled') \in Nat
      <3>1. IsFiniteSet(Settled') /\ Measured(objects', Settled')
        BY <2>1, <2>3, <2>4, FS_Subset DEF Measured
      <3> QED BY <2>4, <3>1, WeightIsNat
    <2> QED BY <2>5, <2>6, QuotaFits, BoundsAssumption DEF Fits
  <1> QED
    BY <1>1, <1>2, <1>3 DEF Committed, Step, GetIndex, GetObject, DropObject, DropEntry, TouchTemp, TouchUnlink, TouchRename,
       LiveFetch, Weigh, EvictIndex, EvictObject, EvictEntry, PutCheck, PutTemp, PutRename, QuotaDrop

LEMMA QuotaNext == IInv /\ Tidy /\ QuotaInv /\ [Next]_vars => QuotaInv'
  <1> SUFFICES ASSUME IInv, Tidy, QuotaInv, [Next]_vars PROVE QuotaInv'
    OBVIOUS
  <1>0. Typed /\ Sorted /\ Sorted' /\ \A p \in Procs : Hit(p)
    BY SortedNext DEF QuotaInv, IInv
  <1> DEFINE Owing == \E p \in Procs : pc[p] = "crashed" \/ Committed(p)
  <1>1. CASE UNCHANGED vars
    BY <1>0, <1>1 DEF vars, QuotaInv, Hit, Fits, Settled, Excused, Committed, Present
  <1>2. CASE Tamper
    <2>1. tampers' # 0 /\ UNCHANGED <<pc, local>>
      BY <1>0, <1>2 DEF Tamper, Typed, TypeOK
    <2> QED BY <1>0, <2>1 DEF QuotaInv, Hit
  <1>3. ASSUME NEW p \in Procs, Crash(p) PROVE QuotaInv'
    <2>1. pc'[p] = "crashed" /\ \A q \in Procs \ {p} : pc'[q] = pc[q]
      BY <1>0, <1>3 DEF Crash, Typed, TypeOK
    <2>2. \A q \in Procs : Hit(q)'
      BY <1>0, <1>3, <2>1 DEF Crash, Hit, Touching
    <2> QED BY <1>0, <2>1, <2>2 DEF QuotaInv
  <1>4. ASSUME NEW p \in Procs, NEW r \in Requests, Begin(p, r) PROVE QuotaInv'
    <2>1. pc'[p] = "get_index" /\ pc[p] \notin Touching \cup Temping \cup {"weigh", "put_check", "quota_drop"}
      BY <1>0, <1>4 DEF Begin, Typed, TypeOK, Touching, Temping
    <2>2. Private(p) /\ UNCHANGED <<objects, tampers, index>>
      BY <1>0, <1>4 DEF Begin, Private, Typed, TypeOK
    <2>3. \A q \in Procs : Hit(q)'
      BY <1>0, <2>1, <2>2 DEF Hit, Touching, Private
    <2>4. Shrinks(p)
      BY <2>1, <2>2 DEF Shrinks, Excused, Present, Touching, Temping
    <2>5. Fits => Fits'
      BY <1>0, <2>2, <2>4, SettledShrinks
    <2>6. ASSUME NEW q \in Procs, pc[q] = "crashed" \/ Committed(q) PROVE pc'[q] = "crashed" \/ Committed(q)'
      <3>1. q # p
        BY <1>4, <2>6 DEF Begin, Committed
      <3>2. RequestKey(q)' = RequestKey(q) /\ pc'[q] = pc[q]
        BY <1>0, <1>4, <3>1 DEF Begin, Typed, TypeOK
      <3> QED BY <2>2, <2>6, <3>2 DEF Committed
    <2> QED BY <1>0, <2>2, <2>3, <2>5, <2>6 DEF QuotaInv
  <1>5. ASSUME NEW p \in Procs, Step(p) PROVE QuotaInv'
    <2>1. Private(p) /\ UNCHANGED <<tampers, root, req>> /\ pc'[p] # "crashed" /\ pc[p] # "crashed"
      BY <1>0, <1>5, PrivateStep, StepsOfOne
    <2>2. \A q \in Procs : Hit(q)'
      <3>1. Hit(p)'
        BY <1>0, <1>5, HitStep
      <3>2. \A q \in Procs \ {p} : Hit(q)'
        BY <1>0, <2>1 DEF Hit, Private
      <3> QED BY <3>1, <3>2
    <2>3. ASSUME tampers = 0, ~FsFaults PROVE Fits' \/ Owing'
      <3>1. ASSUME NEW q \in Procs \ {p}, pc[q] = "crashed" \/ Committed(q) PROVE Owing'
        <4>1. pc'[q] = pc[q] /\ RequestKey(q)' = RequestKey(q) /\ RequestKey(q) \in Keys
          BY <1>0, <2>1 DEF Private, Typed, TypeOK
        <4>2. CASE pc'[p] = "quota_list"
          BY <4>2 DEF Committed
        <4>3. CASE index'[RequestKey(q)] \in {index[RequestKey(q)], NoFile}
          <5>1. pc'[q] = "crashed" \/ Committed(q)'
            BY <3>1, <4>1, <4>3 DEF Committed
          <5> QED BY <5>1
        <4> QED BY <2>1, <4>1, <4>2, <4>3 DEF Private
      <3>2. CASE Committed(p)
        BY <1>0, <1>5, <2>3, <3>2, CommittedStep
      <3>3. CASE Fits /\ ~Committed(p)
        <4>1. Shrinks(p) \/ Committed(p)'
          BY <1>0, <1>5, <2>3, <3>3, SettledStep
        <4> QED BY <1>0, <2>1, <3>3, <4>1, SettledShrinks
      <3> QED BY <2>1, <2>3, <3>1, <3>2, <3>3 DEF QuotaInv
    <2> QED BY <1>0, <2>1, <2>2, <2>3 DEF QuotaInv
  <1> QED BY <1>1, <1>2, <1>3, <1>4, <1>5 DEF Next

LEMMA QuotaInit == Init => QuotaInv
  <1> SUFFICES ASSUME Init PROVE QuotaInv
    OBVIOUS
  <1>1. Present = {}
    BY DEF Init, Present
  <1>2. Sorted
    BY <1>1, FS_EmptySet DEF Sorted, Ordered, Init
  <1>3. Settled = {}
    BY <1>1 DEF Settled
  <1>4. WeightOf(objects, {}) = 0
    BY FS_EmptySet, WeightIsNat DEF Measured
  <1>5. Fits
    BY <1>3, <1>4, BoundsAssumption DEF Fits
  <1> QED BY <1>2, <1>5 DEF Init, QuotaInv, Hit, Touching

LEMMA QuotaAlways == Spec => [](IInv /\ Tidy /\ QuotaInv)
  <1>1. Init => IInv /\ Tidy /\ QuotaInv
    BY IInvInit, QuotaInit DEF Init, Tidy
  <1>2. IInv /\ Tidy /\ QuotaInv /\ [Next]_vars => (IInv /\ Tidy /\ QuotaInv)'
    BY IInvNext, TidyNext, QuotaNext DEF IInv
  <1> QED BY <1>1, <1>2, PTL DEF Spec

\* Between operations the object store fits its quota, for any number of
\* invocations and any interleaving of their stores, touches and evictions,
\* though each lists the directory without a lock and drops what it chose then
\* (cache.rs enforce_quota).
THEOREM StoreFitsItsQuota == Spec => []QuotaKept
  <1>1. QuotaInv => QuotaKept
    <2> SUFFICES ASSUME QuotaInv, \A p \in Procs : Resting(p), tampers = 0, ~FsFaults
                 PROVE  Weight(Present) <= Quota
      BY DEF QuotaKept
    <2>1. ASSUME NEW p \in Procs PROVE Excused(p) = {} /\ pc[p] # "crashed" /\ ~Committed(p)
      BY DEF Resting, Excused, Committed
    <2>2. Settled = Present
      BY <2>1 DEF Settled
    <2>3. Fits
      BY <2>1 DEF QuotaInv
    <2> QED BY <2>2, <2>3 DEF Fits, Weight, WeightOf
  <1> QED BY <1>1, QuotaAlways, PTL

-----------------------------------------------------------------------------
(***************************************************************************)
(* What was accepted is filed.                                             *)
(***************************************************************************)
\* No file was accessed later, though some may have been at the same moment.
Newest(n) == objects[n] # NoFile /\ \A m \in Names : <<n, m>> \notin older

Fitting(p) == Size[ans[p]] <= Quota

\* The object to be filed is there, next to others that fit; and it is of the
\* latest moment, or nothing has to go.
Placed(p) ==
  /\ objects[ans[p]] = ans[p]
  /\ WeightOf(objects, Present \ {ans[p]}) <= Quota
  /\ Newest(ans[p]) \/ WeightOf(objects, Present) <= Quota

\* It is to go, or gone, for objects of the same moment with later names.
Yields(p) ==
  /\ ans[p] \in victims[p] =>
       \A m \in Present \ victims[p] : <<m, ans[p]>> \notin older /\ Rank[ans[p]] < Rank[m]
  /\ Size[ans[p]] + WeightOf(objects, Present \ (victims[p] \cup {ans[p]})) > Quota

\* What a process with an undamaged directory to itself has left there: its
\* temporary, and then the object it names, is of the latest moment, so that
\* the quota takes everything before it; or nothing has to go.
Filed(p) ==
  /\ pc[p] \in {"touch_unlink", "touch_rename"} => Newest(p)
  /\ pc[p] = "touch_rename" => objects[dig[p]] = NoFile
  /\ pc[p] \in {"weigh", "put_check"} /\ from[p] = "cache" => Newest(ans[p])
  /\ pc[p] \in {"put_temp", "put_rename"} /\ Fitting(p) => objects[ans[p]] = NoFile
  /\ pc[p] = "put_rename" => Newest(p) /\ objects[p] = ans[p]
  /\ pc[p] \in {"entry_unlink", "entry_rename", "quota_list"} => Placed(p)
  /\ pc[p] = "entry_rename" => index[RequestKey(p)] = NoFile
  /\ pc[p] = "quota_list" => index[RequestKey(p)] = ans[p]
  /\ pc[p] \in {"quota_drop", "accepted"} /\ Fitting(p) =>
       /\ index[RequestKey(p)] = ans[p]
       /\ (objects[ans[p]] = ans[p] /\ ans[p] \notin victims[p]) \/ Yields(p)
       /\ pc[p] = "accepted" => victims[p] = {}

FiledInv == \A p \in Procs : Alone(p) /\ tampers = 0 /\ ~FsFaults => Filed(p)

\* Files that are left alone weigh what they did.
LEMMA SameWeight ==
  ASSUME NEW S, IsFiniteSet(S), NEW obj, NEW other, Measured(obj, S), \A n \in S : obj[n] = other[n]
  PROVE  WeightOf(other, S) = WeightOf(obj, S)
  <1>1. Measured(other, S)
    <2>1. \A n \in S : Size[other[n]] = Size[obj[n]]
      OBVIOUS
    <2> QED BY <2>1 DEF Measured
  <1>2. WeightOf(other, S) <= WeightOf(obj, S) /\ WeightOf(obj, S) <= WeightOf(other, S)
    BY <1>1, WeightGrows
  <1>3. WeightOf(other, S) \in Nat /\ WeightOf(obj, S) \in Nat
    BY <1>1, WeightIsNat
  <1> QED BY <1>2, <1>3

\* Every part of the directory can be weighed.
LEMMA PartsWeigh ==
  ASSUME Typed, Sorted, NEW S \in SUBSET Present
  PROVE  IsFiniteSet(S) /\ Measured(objects, S) /\ WeightOf(objects, S) \in Nat
  <1>1. IsFiniteSet(S)
    BY FS_Subset DEF Sorted
  <1>2. Measured(objects, S)
    BY BoundsAssumption DEF Measured, Present, Typed, TypeOK
  <1> QED BY <1>1, <1>2, WeightIsNat

\* The files that go no earlier than n.
Rest(n) == {m \in Present : m = n \/ GoesBefore(n, m)}

LEMMA QuotaDecides ==
  ASSUME Typed, Sorted, NEW n \in Present
  PROVE  n \in OverQuota <=> WeightOf(objects, Rest(n)) > Quota
  <1>1. Weight(Rest(n)) = WeightOf(objects, Rest(n))
    BY DEF Weight, WeightOf
  <1>2. n \in OverQuota <=> Weight(Rest(n)) > Quota
    BY DEF OverQuota, Rest
  <1> QED BY <1>1, <1>2

\* The quota takes nothing when everything fits.
LEMMA QuotaSpares ==
  ASSUME Typed, Sorted, NEW n \in Present, WeightOf(objects, Present) <= Quota
  PROVE  n \notin OverQuota
  <1>1. Rest(n) \in SUBSET Present
    BY DEF Rest
  <1>2. WeightOf(objects, Rest(n)) <= WeightOf(objects, Present)
    BY <1>1, PartsWeigh, WeightGrows
  <1> QED BY <1>1, <1>2, PartsWeigh, QuotaDecides, BoundsAssumption

\* It takes a file of the latest moment, when the others fit, for files of the
\* same moment with later names, next to which it does not fit.
LEMMA QuotaTakes ==
  ASSUME Typed, Sorted, NEW n \in OverQuota, Newest(n), WeightOf(objects, Present \ {n}) <= Quota
  PROVE  /\ \A m \in Present \ OverQuota : <<m, n>> \notin older /\ Rank[n] < Rank[m]
         /\ Size[objects[n]] + WeightOf(objects, Present \ OverQuota) > Quota
  <1>1. n \in Present /\ OverQuota \in SUBSET Present
    BY DEF OverQuota
  <1>2. \A m \in Present : Rest(m) \in SUBSET Present
    BY DEF Rest
  <1>3. ASSUME NEW m \in Present \ OverQuota PROVE <<m, n>> \notin older /\ Rank[n] < Rank[m]
    <2>1. m # n /\ m \in Names
      BY DEF Present
    <2>2. ~GoesBefore(m, n)
      <3> SUFFICES ASSUME GoesBefore(m, n) PROVE FALSE
        OBVIOUS
      <3>1. Rest(n) \in SUBSET Rest(m)
        BY <1>1, DropOrder DEF Rest
      <3>2. WeightOf(objects, Rest(n)) <= WeightOf(objects, Rest(m))
        BY <1>2, <3>1, PartsWeigh, WeightGrows
      <3>3. WeightOf(objects, Rest(n)) > Quota /\ ~(WeightOf(objects, Rest(m)) > Quota)
        BY <1>1, QuotaDecides
      <3>4. WeightOf(objects, Rest(n)) \in Nat /\ WeightOf(objects, Rest(m)) \in Nat
        BY <1>1, <1>2, PartsWeigh
      <3> QED BY <3>2, <3>3, <3>4, BoundsAssumption
    <2>3. GoesBefore(n, m)
      BY <1>1, <2>1, <2>2, DropOrder
    <2> QED BY <2>1, <2>2, <2>3 DEF Newest, GoesBefore
  <1>4. ASSUME NEW m \in Rest(n) \ {n} PROVE m \in Present \ OverQuota
    <2>1. m \in Present /\ GoesBefore(n, m)
      BY DEF Rest
    <2>2. n \notin Rest(m)
      BY <1>1, <2>1, DropOrder DEF Rest
    <2>3. Rest(m) \in SUBSET (Present \ {n})
      BY <2>2 DEF Rest
    <2>4. Present \ {n} \in SUBSET Present
      OBVIOUS
    <2>5. WeightOf(objects, Rest(m)) <= WeightOf(objects, Present \ {n})
      BY <2>3, <2>4, PartsWeigh, WeightGrows
    <2>6. WeightOf(objects, Rest(m)) \in Nat /\ WeightOf(objects, Present \ {n}) \in Nat
      BY <1>2, <2>1, <2>4, PartsWeigh
    <2>7. ~(WeightOf(objects, Rest(m)) > Quota)
      BY <2>5, <2>6, BoundsAssumption
    <2> QED BY <2>1, <2>7, QuotaDecides
  <1>5. WeightOf(objects, Rest(n)) = Size[objects[n]] + WeightOf(objects, Rest(n) \ {n})
    <2>1. n \in Rest(n)
      BY <1>1 DEF Rest
    <2> QED BY <1>1, <1>2, <2>1, PartsWeigh, WeightLess
  <1>6. Present \ OverQuota \in SUBSET Present /\ Rest(n) \ {n} \in SUBSET (Present \ OverQuota)
    BY <1>4
  <1>7. WeightOf(objects, Rest(n) \ {n}) <= WeightOf(objects, Present \ OverQuota)
    BY <1>6, PartsWeigh, WeightGrows
  <1>8. WeightOf(objects, Rest(n)) > Quota
    BY <1>1, QuotaDecides
  <1>9. /\ WeightOf(objects, Rest(n)) \in Nat /\ WeightOf(objects, Present \ OverQuota) \in Nat
        /\ WeightOf(objects, Rest(n) \ {n}) \in Nat /\ Size[objects[n]] \in Nat
    <2>1. Rest(n) \ {n} \in SUBSET Present
      BY <1>6
    <2>2. Size[objects[n]] \in Nat
      BY <1>1, BoundsAssumption DEF Present, Typed, TypeOK
    <2> QED BY <1>1, <1>2, <1>6, <2>1, <2>2, PartsWeigh
  <1>10. Size[objects[n]] + WeightOf(objects, Present \ OverQuota) > Quota
    BY <1>5, <1>7, <1>8, <1>9, BoundsAssumption
  <1> QED BY <1>3, <1>10

LEMMA NewestAccessed ==
  ASSUME NEW n, Accessed(n)
  PROVE  \A m \in Names : <<n, m>> \notin older'
  <1>1. PICK before \in {Present, Overtaken} :
          older' = {e \in older : n \notin {e[1], e[2]}} \cup ((before \ {n}) \X {n})
    BY DEF Accessed
  <1> SUFFICES ASSUME NEW m \in Names, <<n, m>> \in older' PROVE FALSE
    OBVIOUS
  <1> DEFINE kept == {e \in older : n \notin {e[1], e[2]}}
  <1> DEFINE added == (before \ {n}) \X {n}
  <1>2. <<n, m>> \notin kept /\ <<n, m>> \notin added
    OBVIOUS
  <1>3. older' = kept \cup added
    BY <1>1
  <1> HIDE DEF kept, added
  <1> QED BY <1>2, <1>3

LEMMA NewestRead ==
  ASSUME NEW n, Newest(n), ReadFile(n), UNCHANGED objects
  PROVE  Newest(n)'
  BY NewestAccessed DEF Newest, ReadFile

LEMMA NewestCreated ==
  ASSUME Typed, NEW n \in Names, NEW b \in Bytes, CreateFile(n, b)
  PROVE  Newest(n)' /\ objects'[n] = b
  <1>1. objects'[n] = b /\ b # NoFile
    BY NamesApart DEF CreateFile, Typed, TypeOK
  <1> QED BY <1>1, NewestAccessed DEF Newest, CreateFile

LEMMA NewestRemaining ==
  ASSUME Typed, NEW n \in Names, NEW m, m # n, Newest(n), RemoveFile(m)
  PROVE  Newest(n)' /\ objects'[n] = objects[n]
  BY DEF Newest, RemoveFile, Typed, TypeOK

LEMMA NewestRenamed ==
  ASSUME Typed, Sorted, NEW t \in Names, NEW n \in Names, t # n, Newest(t), objects[n] = NoFile, RenameFile(t, n)
  PROVE  Newest(n)' /\ objects'[n] = objects[t]
  <1> DEFINE renamed(m) == IF m = t THEN n ELSE m
  <1>1. objects'[n] = objects[t] /\ objects[t] # NoFile
    BY DEF Newest, RenameFile, Typed, TypeOK
  <1>2. older' = {<<renamed(e[1]), renamed(e[2])>> : e \in older}
    BY DEF RenameFile
  <1>3. \A e \in older : e = <<e[1], e[2]>> /\ e[1] \in Present /\ e[2] \in Names
    BY DEF Sorted, Ordered, Present
  <1>4. ASSUME NEW m \in Names, <<n, m>> \in older' PROVE FALSE
    <2>1. PICK e \in older : <<n, m>> = <<renamed(e[1]), renamed(e[2])>>
      BY <1>2, <1>4
    <2>2. renamed(e[1]) = n /\ e[1] # n
      BY <1>3, <2>1 DEF Present
    <2>3. e[1] = t /\ <<t, e[2]>> \in older
      BY <1>3, <2>2
    <2> QED BY <1>3, <2>3 DEF Newest
  <1> QED BY <1>1, <1>4 DEF Newest

\* What the only process that runs does not answer for fits.
LEMMA AloneFits ==
  ASSUME QuotaInv, NEW p \in Procs, Alone(p), tampers = 0, ~FsFaults, pc[p] # "crashed", ~Committed(p)
  PROVE  WeightOf(objects, Present \ Excused(p)) <= Quota
  <1>1. \A q \in Procs \ {p} : Excused(q) = {} /\ pc[q] # "crashed" /\ ~Committed(q)
    BY DEF Alone, Excused, Committed
  <1>2. Settled = Present \ Excused(p)
    BY <1>1 DEF Settled
  <1> QED BY <1>1, <1>2 DEF QuotaInv, Fits

LEMMA FiledStep ==
  ASSUME IInv, Tidy, QuotaInv, NEW p \in Procs, Alone(p), Filed(p), tampers = 0, ~FsFaults, Step(p)
  PROVE  Filed(p)'
  <1>0. Typed /\ WellNamed /\ WellRead(p) /\ Sorted /\ Hit(p)
    BY DEF IInv, Clean, QuotaInv
  <1> USE <1>0 DEF Typed, TypeOK
  <1>1. CASE /\ pc'[p] \in {"get_index", "get_object", "drop_object", "drop_entry", "touch_temp", "live",
                           "evict_index", "evict_object", "evict_entry", "refused", "unavailable"}
    BY <1>1 DEF Filed
  <1>2. CASE GetIndex(p) \/ GetObject(p) \/ DropObject(p) \/ DropEntry(p)
             \/ EvictIndex(p) \/ EvictObject(p) \/ EvictEntry(p)
    BY <1>1, <1>2 DEF GetIndex, GetObject, DropObject, DropEntry, EvictIndex, EvictObject, EvictEntry
  <1>3. CASE LiveFetch(p)
    BY <1>3 DEF LiveFetch, Filed
  <1>4. CASE Weigh(p)
    BY <1>4 DEF Weigh, Filed, Newest
  <1>5. CASE TouchTemp(p)
    <2>1. objects[p] = NoFile /\ ans[p] \in Bytes /\ CreateFile(p, ans[p]) /\ pc'[p] = "touch_unlink"
      BY <1>5 DEF TouchTemp, WriteTemp, Tidy, Temping, Holding, Touching
    <2>2. Newest(p)'
      BY <2>1, NewestCreated
    <2> QED BY <2>1, <2>2 DEF Filed
  <1>6. CASE TouchUnlink(p)
    <2>1. dig[p] \in Bytes /\ dig[p] # p /\ Newest(p) /\ RemoveFile(dig[p]) /\ pc'[p] = "touch_rename" /\ UNCHANGED dig
      BY <1>6, NamesApart DEF TouchUnlink, Holding, Reading, Filed
    <2>2. Newest(p)' /\ objects'[dig[p]] = NoFile
      BY <2>1, NewestRemaining DEF RemoveFile
    <2> QED BY <2>1, <2>2 DEF Filed
  <1>7. CASE TouchRename(p)
    <2>1. dig[p] \in Bytes /\ dig[p] # p /\ ans[p] = dig[p] /\ Newest(p) /\ objects[dig[p]] = NoFile
      BY <1>7, NamesApart DEF TouchRename, Holding, Reading, Touching, Hit, Filed
    <2>2. RenameFile(p, dig[p]) /\ pc'[p] = "weigh" /\ UNCHANGED <<ans, dig>>
      BY <1>7, <2>1 DEF TouchRename, NoReplace, Newest
    <2>3. Newest(dig[p])'
      BY <2>1, <2>2, NewestRenamed
    <2> QED BY <2>1, <2>2, <2>3 DEF Filed
  <1>8. CASE PutCheck(p)
    <2>0. pc[p] = "put_check" /\ UNCHANGED <<objects, index, ans, from, victims>> /\ ans[p] \in Bytes
      BY <1>8 DEF PutCheck, Holding, Storing
    <2>1. CASE Readable(ans[p])
      <3>1. pc'[p] = "entry_unlink" /\ objects[ans[p]] = ans[p]
        BY <1>8, <2>0, <2>1 DEF PutCheck, Readable, WellNamed
      <3>2. WeightOf(objects, Present \ Excused(p)) <= Quota /\ Present' = Present
        BY <2>0, AloneFits DEF Committed, Present
      <3>3. CASE from[p] = "cache"
        <4>1. Newest(ans[p])'
          BY <1>8, <2>0, <3>3, NewestRead DEF PutCheck, Filed
        <4>2. Excused(p) = {ans[p]}
          BY <2>0, <3>3 DEF Excused
        <4>3. Placed(p)'
          BY <2>0, <3>1, <3>2, <4>1, <4>2 DEF Placed
        <4> QED BY <2>0, <3>1, <4>3 DEF Filed
      <3>4. CASE from[p] # "cache"
        <4>1. Excused(p) = {}
          BY <2>0, <3>4 DEF Excused
        <4>2. WeightOf(objects, Present) <= Quota
          BY <3>2, <4>1
        <4>3. Present \ {ans[p]} \in SUBSET Present /\ Present \in SUBSET Present
          OBVIOUS
        <4>4. WeightOf(objects, Present \ {ans[p]}) <= WeightOf(objects, Present)
          BY <4>3, PartsWeigh, WeightGrows
        <4>5. WeightOf(objects, Present \ {ans[p]}) <= Quota
          BY <4>2, <4>3, <4>4, PartsWeigh, BoundsAssumption
        <4>6. Placed(p)'
          BY <2>0, <3>1, <3>2, <4>2, <4>5 DEF Placed
        <4> QED BY <2>0, <3>1, <4>6 DEF Filed
      <3> QED BY <3>3, <3>4
    <2>2. CASE ~Readable(ans[p])
      <3>1. pc'[p] = "put_temp"
        BY <1>8, <2>2 DEF PutCheck
      <3>2. Fitting(p) => objects[ans[p]] = NoFile
        BY <2>0, <2>2 DEF Fitting, Readable, WellNamed
      <3> QED BY <2>0, <3>1, <3>2 DEF Filed, Fitting
    <2> QED BY <2>1, <2>2
  <1>9. CASE PutTemp(p)
    <2>1. /\ objects[p] = NoFile /\ ans[p] \in Bytes /\ ans[p] # p /\ CreateFile(p, ans[p])
          /\ pc'[p] = "put_rename" /\ UNCHANGED ans /\ pc[p] = "put_temp"
      BY <1>9, NamesApart DEF PutTemp, WriteTemp, Tidy, Temping, Holding, Storing
    <2>2. Newest(p)' /\ objects'[p] = ans[p]
      BY <2>1, NewestCreated
    <2>3. objects'[ans[p]] = objects[ans[p]]
      BY <2>1 DEF CreateFile
    <2> QED BY <2>1, <2>2, <2>3 DEF Filed, Fitting
  <1>10. CASE PutRename(p)
    <2>1. /\ ans[p] \in Bytes /\ ans[p] # p /\ Newest(p) /\ objects[p] = ans[p]
          /\ pc[p] = "put_rename" /\ UNCHANGED <<ans, index, victims>>
      BY <1>10, NamesApart DEF PutRename, Holding, Storing, Filed
    <2>2. CASE objects[ans[p]] = NoFile
      <3>1. RenameFile(p, ans[p]) /\ pc'[p] = "entry_unlink"
        BY <1>10, <2>1, <2>2 DEF PutRename, NoReplace, Newest
      <3>2. Newest(ans[p])' /\ objects'[ans[p]] = ans[p]
        BY <2>1, <2>2, <3>1, NewestRenamed
      <3>3. Present' \ {ans[p]} = Present \ {p} /\ \A m \in Present \ {p} : objects[m] = objects'[m]
        BY <2>1, <2>2, <3>1 DEF RenameFile, Present
      <3>4. WeightOf(objects, Present \ {p}) <= Quota
        <4>1. Excused(p) = {p} /\ ~Committed(p)
          BY <2>1 DEF Excused, Committed
        <4> QED BY <2>1, <4>1, AloneFits
      <3>5. WeightOf(objects', Present \ {p}) = WeightOf(objects, Present \ {p})
        <4>1. Present \ {p} \in SUBSET Present
          OBVIOUS
        <4> QED BY <3>3, <4>1, PartsWeigh, SameWeight
      <3>6. Placed(p)'
        BY <2>1, <3>2, <3>3, <3>4, <3>5 DEF Placed
      <3> QED BY <2>1, <3>1, <3>6 DEF Filed
    <2>3. CASE objects[ans[p]] # NoFile
      <3>1. pc'[p] = "accepted" /\ ~Fitting(p)
        BY <1>10, <2>1, <2>3 DEF PutRename, NoReplace, Filed
      <3> QED BY <2>1, <3>1 DEF Filed, Fitting
    <2> QED BY <2>2, <2>3
  <1>11. CASE EntryUnlink(p)
    <2>1. /\ pc[p] = "entry_unlink" /\ pc'[p] = "entry_rename" /\ UNCHANGED <<objects, older, ans, root, req>>
          /\ index'[RequestKey(p)] = NoFile
      BY <1>11 DEF EntryUnlink
    <2>2. Placed(p)'
      BY <2>1 DEF Filed, Placed, Newest, Present
    <2> QED BY <2>1, <2>2 DEF Filed
  <1>12. CASE EntryRename(p)
    <2>1. /\ pc[p] = "entry_rename" /\ pc'[p] = "quota_list" /\ UNCHANGED <<objects, older, ans, root, req>>
          /\ index'[RequestKey(p)] = ans[p]
      BY <1>12 DEF EntryRename, Filed
    <2>2. Placed(p)'
      BY <2>1 DEF Filed, Placed, Newest, Present
    <2> QED BY <2>1, <2>2 DEF Filed
  <1>13. CASE QuotaList(p)
    <2>1. /\ pc[p] = "quota_list" /\ pc'[p] \in {"quota_drop", "accepted"} /\ victims'[p] = OverQuota
          /\ UNCHANGED <<store, ans, root, req>>
      BY <1>13 DEF QuotaList
    <2>2. Placed(p) /\ index[RequestKey(p)] = ans[p] /\ Present' = Present
      BY <2>1 DEF Filed, Present
    <2>3. CASE ans[p] \notin OverQuota
      BY <2>1, <2>2, <2>3, <1>13 DEF Filed, Fitting, Placed, QuotaList
    <2>4. CASE ans[p] \in OverQuota
      <3>1. ans[p] \in Present
        BY <2>4 DEF OverQuota
      <3>2. Newest(ans[p])
        BY <2>2, <2>4, <3>1, QuotaSpares DEF Placed
      <3>3. /\ \A m \in Present \ OverQuota : <<m, ans[p]>> \notin older /\ Rank[ans[p]] < Rank[m]
            /\ Size[ans[p]] + WeightOf(objects, Present \ OverQuota) > Quota
        BY <2>2, <2>4, <3>2, QuotaTakes DEF Placed
      <3>4. OverQuota \cup {ans[p]} = OverQuota
        BY <2>4
      <3>5. Yields(p)'
        BY <2>1, <2>2, <3>3, <3>4 DEF Yields
      <3>6. pc'[p] = "quota_drop"
        BY <1>13, <2>4 DEF QuotaList
      <3> QED BY <2>1, <2>2, <3>5, <3>6 DEF Filed, Fitting
    <2> QED BY <2>3, <2>4
  <1>14. CASE QuotaDrop(p)
    <2>1. PICK n \in victims[p] : /\ RemoveFile(n) /\ victims' = [victims EXCEPT ![p] = @ \ {n}]
                                  /\ pc'[p] = IF victims[p] = {n} THEN "accepted" ELSE "quota_drop"
      BY <1>14 DEF QuotaDrop
    <2>2. /\ pc[p] = "quota_drop" /\ UNCHANGED <<index, ans, root, req>>
          /\ victims'[p] = victims[p] \ {n}
      BY <1>14, <2>1 DEF QuotaDrop
    <2>3. Present' = Present \ {n}
      BY <2>1, RemoveSorted
    <2>4. \A m \in Present \ {n} : objects[m] = objects'[m]
      BY <2>1 DEF RemoveFile, Present
    <2>5. ASSUME Fitting(p)
          PROVE  (objects'[ans[p]] = ans[p] /\ ans[p] \notin victims'[p]) \/ Yields(p)'
      <3>1. CASE objects[ans[p]] = ans[p] /\ ans[p] \notin victims[p]
        BY <2>1, <2>2, <3>1 DEF RemoveFile
      <3>2. CASE Yields(p)
        <4> DEFINE Kept == Present \ (victims[p] \cup {ans[p]})
        <4>1. /\ Present' \ (victims'[p] \cup {ans'[p]}) = Kept
              /\ Present' \ victims'[p] = Present \ victims[p]
          BY <2>2, <2>3
        <4>2. Kept \in SUBSET Present /\ \A m \in Kept : objects[m] = objects'[m]
          BY <2>4
        <4> HIDE DEF Kept
        <4>3. WeightOf(objects', Kept) = WeightOf(objects, Kept)
          BY <4>2, PartsWeigh, SameWeight
        <4>4. Size[ans'[p]] + WeightOf(objects', Present' \ (victims'[p] \cup {ans'[p]})) > Quota
          BY <2>2, <3>2, <4>1, <4>3 DEF Yields, Kept
        <4>5. ASSUME ans'[p] \in victims'[p], NEW m \in Present' \ victims'[p]
              PROVE  <<m, ans'[p]>> \notin older' /\ Rank[ans'[p]] < Rank[m]
          <5>1. ans[p] \in victims[p] /\ m \in Present \ victims[p]
            BY <2>2, <4>1, <4>5
          <5>2. <<m, ans[p]>> \notin older /\ Rank[ans[p]] < Rank[m]
            BY <3>2, <5>1 DEF Yields
          <5> QED BY <2>1, <2>2, <5>2 DEF RemoveFile
        <4> QED BY <4>4, <4>5 DEF Yields
      <3> QED BY <2>2, <2>5, <3>1, <3>2 DEF Filed
    <2> QED BY <2>1, <2>2, <2>5 DEF Filed, Fitting
  <1> QED
    BY <1>2, <1>3, <1>4, <1>5, <1>6, <1>7, <1>8, <1>9, <1>10, <1>11, <1>12, <1>13, <1>14 DEF Step

LEMMA FiledNext == IInv /\ Tidy /\ QuotaInv /\ FiledInv /\ [Next]_vars => FiledInv'
  <1> SUFFICES ASSUME IInv, Tidy, QuotaInv, FiledInv, [Next]_vars,
                      NEW p \in Procs, Alone(p)', tampers' = 0, ~FsFaults
               PROVE  Filed(p)'
    BY DEF FiledInv
  <1>1. Typed
    BY DEF IInv
  <1>2. ASSUME NEW q \in Procs, NEW r \in Requests, Begin(q, r) PROVE Filed(p)'
    <2>1. q = p
      BY <1>1, <1>2 DEF Begin, Alone, Typed, TypeOK
    <2>2. pc'[p] = "get_index"
      BY <1>1, <1>2, <2>1 DEF Begin, Typed, TypeOK
    <2> QED BY <2>2 DEF Filed
  <1>3. ASSUME NEW q \in Procs, Step(q) PROVE Filed(p)'
    <2>1. q = p
      BY <1>1, <1>3, StepsOfOne DEF Alone
    <2>2. Alone(p) /\ tampers = 0
      BY <1>1, <1>3, <2>1, StepsOfOne DEF Alone
    <2> QED BY <1>3, <2>1, <2>2, FiledStep DEF FiledInv
  <1>4. ASSUME NEW q \in Procs, Crash(q) PROVE Filed(p)'
    <2>1. q = p
      BY <1>1, <1>4 DEF Crash, Alone, Typed, TypeOK
    <2>2. pc'[p] = "crashed"
      BY <1>1, <1>4, <2>1 DEF Crash, Typed, TypeOK
    <2> QED BY <2>2 DEF Filed
  <1>5. CASE Tamper
    BY <1>1, <1>5 DEF Tamper, Typed, TypeOK
  <1>6. CASE UNCHANGED vars
    <2>1. Filed(p)
      BY <1>6 DEF vars, FiledInv, Alone
    <2>2. Newest(p)' = Newest(p) /\ Newest(ans[p])' = Newest(ans[p])
          /\ Placed(p)' = Placed(p) /\ Yields(p)' = Yields(p)
      BY <1>6 DEF vars, Newest, Present, Placed, Yields
    <2> QED BY <1>6, <2>1, <2>2 DEF vars, Filed, Fitting
  <1> QED BY <1>2, <1>3, <1>4, <1>5, <1>6 DEF Next

\* What an invocation with an undamaged directory to itself accepted is in the
\* cache afterwards, if it fits: it was renewed or stored last, so enforcing the
\* quota takes everything accessed before it first, and takes it only for
\* objects of the same moment with later names, next to which it does not fit
\* (cache.rs Cache::put, enforce_quota).
THEOREM AcceptedStaysCached == Spec => []AcceptedIsCached
  <1>1. Init => FiledInv
    BY DEF Init, FiledInv, Filed
  <1>2. IInv /\ FiledInv => AcceptedIsCached
    <2> SUFFICES ASSUME IInv, FiledInv, NEW p \in Procs, Alone(p), tampers = 0, ~FsFaults,
                        ans[p] # NoFile, Fitting(p)
                 PROVE  /\ pc[p] = "quota_drop" /\ ans[p] \in victims[p]
                             => \A m \in Present \ victims[p] :
                                  <<m, ans[p]>> \notin older /\ Rank[ans[p]] < Rank[m]
                        /\ pc[p] = "accepted"
                             => /\ index[RequestKey(p)] = ans[p]
                                /\ objects[ans[p]] = ans[p] \/ Size[ans[p]] + Weight(Present) > Quota
      BY DEF AcceptedIsCached, Fitting
    <2>1. Filed(p) /\ objects[ans[p]] \in {ans[p], NoFile}
      BY DEF FiledInv, IInv, Clean, WellNamed, Typed, TypeOK
    <2>2. ASSUME pc[p] = "accepted"
          PROVE  /\ index[RequestKey(p)] = ans[p]
                 /\ objects[ans[p]] = ans[p] \/ Size[ans[p]] + Weight(Present) > Quota
      <3>1. /\ index[RequestKey(p)] = ans[p] /\ victims[p] = {}
            /\ objects[ans[p]] = ans[p] \/ Yields(p)
        BY <2>1, <2>2 DEF Filed
      <3>2. objects[ans[p]] = NoFile => Present \ (victims[p] \cup {ans[p]}) = Present
        BY <3>1 DEF Present
      <3>3. WeightOf(objects, Present) = Weight(Present)
        BY DEF WeightOf, Weight
      <3> QED BY <2>1, <3>1, <3>2, <3>3 DEF Yields
    <2> QED BY <2>1, <2>2 DEF Filed, Yields
  <1> QED BY <1>1, <1>2, QuotaAlways, FiledNext, PTL DEF Spec

=============================================================================
