-------------------------- MODULE HostToolsProofs --------------------------
(***************************************************************************)
(* Proofs about HostTools: about Nethogs for any bound of the package      *)
(* history, about Recording for any recordings, dialogs and hours.         *)
(***************************************************************************)
EXTENDS HostTools, TLAPS

-----------------------------------------------------------------------------
(* Nethogs: a note of the session is about a transaction of this program.  *)

Ours(t) == t \in 1 .. Len(txs) /\ txs[t] = Tx("us", "nethogs")

Txs == [who : {"us", "admin"}, what : {"nethogs", "other", "undo", "remove"}]

\* What the note, the installation under way and the history of undone transactions
\* know of the package history.
NhInv ==
  /\ txs \in Seq(Txs)
  /\ package \in 0 .. Len(txs)
  /\ package # 0 => txs[package].what = "nethogs"
  /\ byUs => package = 0 \/ Ours(package)
  /\ txID = 0 \/ Ours(txID)
  /\ install = "absent" => package = 0
  /\ install = "installed" => Ours(Len(txs)) /\ package = Len(txs)
  /\ \A t \in undone : Ours(t)

\* A transaction more changes nothing of those before.
LEMMA AppendTx ==
  ASSUME txs \in Seq(Txs), NEW x \in Txs
  PROVE  /\ Append(txs, x) \in Seq(Txs)
         /\ Len(Append(txs, x)) = Len(txs) + 1
         /\ \A t \in 1 .. Len(txs) : Append(txs, x)[t] = txs[t]
         /\ Append(txs, x)[Len(txs) + 1] = x
  OBVIOUS

LEMMA NhStep ==
  ASSUME NhInv, "otherTx" \notin NhFaults, "takeover" \notin NhFaults, NhNext
  PROVE  NhInv'
<1> USE DEF NhInv, Ours
<1>1. CASE FindsNethogs
  BY <1>1 DEF FindsNethogs
<1>2. CASE Installs
  <2>1. CASE package = 0
    <3>1. Tx("us", "nethogs") \in Txs
      BY DEF Tx, Txs
    <3>2. txs' = Append(txs, Tx("us", "nethogs")) /\ package' = Len(txs')
      BY <1>2, <2>1 DEF Installs
    <3> QED
      BY <1>2, <2>1, <3>1, <3>2, AppendTx DEF Installs, Tx
  <2>2. CASE package # 0
    BY <1>2, <2>2 DEF Installs
  <2> QED
    BY <2>1, <2>2
<1>3. CASE InstallFails \/ Starts \/ StartFails \/ ProcDies
  BY <1>3 DEF InstallFails, Starts, StartFails, ProcDies
<1>4. ASSUME NEW answered \in BOOLEAN, NotesTransaction(answered) PROVE NhInv'
  BY <1>4 DEF NotesTransaction
<1>5. ASSUME NEW s \in {"cur", "old"}, ReaderEnds(s) PROVE NhInv'
  BY <1>5 DEF ReaderEnds
<1>6. CASE RollbackOnlyStops \/ RollbackFails
  BY <1>6 DEF RollbackOnlyStops, RollbackFails, Rolls
<1>7. CASE RollbackUndoes
  <2> DEFINE takesNethogs == Target # 0 /\ txs[Target].what = "nethogs"
  <2>1. Tx("us", "undo") \in Txs
    BY DEF Tx, Txs
  <2>2. txs' = Append(txs, Tx("us", "undo")) /\ install = "idle" /\ byUs
    BY <1>7 DEF RollbackUndoes, Rolls
  <2>3. \A t \in 1 .. Len(txs) : Ours(t) => t \in 1 .. Len(txs') /\ txs'[t] = Tx("us", "nethogs")
    BY <2>1, <2>2, AppendTx
  <2>4. \A t \in undone' : Ours(t)
    BY <1>7, <2>2 DEF RollbackUndoes, Target
  <2>5. package' \in {0, package} /\ byUs' = FALSE /\ txID' = 0 /\ install' = install
    BY <1>7 DEF RollbackUndoes
  <2> QED
    BY <2>1, <2>2, <2>3, <2>4, <2>5, AppendTx
<1>8. ASSUME NEW what \in {"nethogs", "other"}, AdminInstalls(what) PROVE NhInv'
  <2>1. Tx("admin", what) \in Txs /\ txs' = Append(txs, Tx("admin", what))
    BY <1>8 DEF Tx, Txs, AdminInstalls
  <2>2. install \notin {"absent", "installed"} /\ (what = "nethogs" => ~byUs)
    BY <1>8 DEF AdminInstalls, AdminMayAct
  <2>3. \A t \in 1 .. Len(txs) : txs'[t] = txs[t]
    BY <2>1, AppendTx
  <2>4. /\ package' = (IF what = "nethogs" THEN Len(txs') ELSE package)
        /\ UNCHANGED <<byUs, txID, install, undone>>
    BY <1>8 DEF AdminInstalls
  <2> QED
    BY <2>1, <2>2, <2>3, <2>4, AppendTx DEF Tx
<1>9. CASE AdminRemoves
  <2>1. Tx("admin", "remove") \in Txs /\ txs' = Append(txs, Tx("admin", "remove"))
    BY <1>9 DEF Tx, Txs, AdminRemoves
  <2>2. install \notin {"absent", "installed"} /\ package' = 0
    BY <1>9 DEF AdminRemoves, AdminMayAct
  <2>3. \A t \in 1 .. Len(txs) : txs'[t] = txs[t]
    BY <2>1, AppendTx
  <2> QED
    BY <1>9, <2>1, <2>2, <2>3, AppendTx DEF AdminRemoves
<1>10. CASE NhCut \/ NhConnect \/ NhReboot
  BY <1>10 DEF NhCut, NhConnect, NhReboot, Fresh
<1> QED
  BY <1>1, <1>2, <1>3, <1>4, <1>5, <1>6, <1>7, <1>8, <1>9, <1>10 DEF NhNext

\* A rollback undoes this program's own installation and nothing else, over any number of
\* reinstallations, failed rollbacks and lost sessions (InstallNethogs, RollbackNethogs), as
\* long as administrators stay out of its two looks and of its package.
THEOREM RollbackIsOurs ==
  ASSUME "otherTx" \notin NhFaults, "takeover" \notin NhFaults
  PROVE  Spec => []OnlyOursUndone
<1>1. Init => NhInv
  <2> SUFFICES ASSUME NhInit PROVE NhInv
    BY DEF Init
  <2>1. Tx("admin", "other") \in Txs /\ Tx("admin", "nethogs") \in Txs
    BY DEF Tx, Txs
  <2>2. CASE txs = <<Tx("admin", "other")>> /\ package = 0
    BY <2>1, <2>2 DEF NhInit, NhInv
  <2>3. CASE txs = <<Tx("admin", "nethogs")>> /\ package = 1
    <3>1. Tx("admin", "nethogs").what = "nethogs"
      BY DEF Tx
    <3> QED
      BY <2>1, <2>3, <3>1 DEF NhInit, NhInv
  <2> QED
    BY <2>2, <2>3 DEF NhInit
<1>2. NhInv /\ [Next]_vars => NhInv'
  <2> SUFFICES ASSUME NhInv, [Next]_vars PROVE NhInv'
    OBVIOUS
  <2>1. CASE Records \/ UNCHANGED vars
    BY <2>1 DEF NhInv, Ours, Records, vars, nhVars
  <2>2. CASE Overlays
    BY <2>2, NhStep DEF Overlays
  <2> QED
    BY <2>1, <2>2 DEF Next
<1>3. NhInv => OnlyOursUndone
  BY DEF NhInv, Ours, OnlyOursUndone
<1> QED
  BY <1>1, <1>2, <1>3, PTL DEF Spec

-----------------------------------------------------------------------------
(* Recording: what is left on the disk tells how the sampler ended.        *)

Reasons == {"deadline", "low-disk", "signal"}

Processes ==
  /\ sampler \in [Recs -> {"none", "unborn", "gone"} \cup Alive]
  /\ disk \in [Recs -> [meta : BOOLEAN, gz : {"none", "open", "whole", "torn"},
                        marker : {"none", "died", "no"} \cup Reasons]]
  /\ ended \in [Recs -> {"no", "died"} \cup Reasons]

RecTypes ==
  /\ Processes
  /\ look \in [Recs -> {"idle", "alive", "dead"}]
  /\ status \in [Recs -> {"unlisted", "running", "interrupted", "done", "stopped", "low-disk"}]

\* The stages of a sampler and the files each leaves; a marker is the last thing it writes.
Stages(r) ==
  /\ sampler[r] = "none" => ~disk[r].meta
  /\ sampler[r] \in {"none", "unborn", "forked", "up"} => disk[r].gz = "none"
  /\ disk[r].gz = "torn" => sampler[r] = "gone"
  /\ sampler[r] \in {"none", "unborn", "forked", "up", "writing"} => ended[r] = "no"
  /\ sampler[r] \in {"closing", "closed", "marked"} => ended[r] \in Reasons
  /\ sampler[r] \in {"closed", "marked"} => disk[r].gz \in {"whole", "none"}
  /\ disk[r].marker # "none" =>
       /\ sampler[r] \in {"marked", "gone"} /\ ended[r] \in Reasons
       /\ disk[r].marker = ended[r] /\ disk[r].gz \in {"whole", "none"}
  /\ sampler[r] \in {"marked", "gone"} /\ disk[r].meta /\ disk[r].marker = "none" =>
       ended[r] = "died"

\* What listings found is about samplers that are gone.
Listed(r) ==
  /\ look[r] = "dead" => sampler[r] = "gone"
  /\ status[r] = "interrupted" => sampler[r] = "gone" /\ ended[r] = "died"
  /\ status[r] \in {"done", "stopped", "low-disk"} =>
       /\ sampler[r] = "gone" /\ status[r] = StatusOf(FALSE, ended[r])
       /\ disk[r].gz \in {"whole", "none"}

StatusInv == RecTypes /\ \A r \in Recs : Stages(r) /\ Listed(r)

LEMMA StatusStep == ASSUME StatusInv, "early" \notin RecFaults, RecNext PROVE StatusInv'
<1> USE DEF StatusInv, RecTypes, Processes, Stages, Listed, Alive, Seen, Reasons, Become, StatusOf
<1>1. ASSUME NEW r \in Recs, StartScheduled(r) PROVE StatusInv'
  <2>1. RecTypes'
    <3>1. disk' = [disk EXCEPT ![r].meta = TRUE] /\ sampler' = [sampler EXCEPT ![r] = "unborn"]
      BY <1>1 DEF StartScheduled
    <3>2. disk[r] \in [meta : BOOLEAN, gz : {"none", "open", "whole", "torn"},
                       marker : {"none", "died", "no"} \cup Reasons]
      OBVIOUS
    <3>3. [disk[r] EXCEPT !.meta = TRUE] \in
            [meta : BOOLEAN, gz : {"none", "open", "whole", "torn"},
             marker : {"none", "died", "no"} \cup Reasons]
      BY <3>2
    <3>4. UNCHANGED <<ended, look, status>>
      BY <1>1 DEF StartScheduled
    <3> QED
      BY <3>1, <3>3, <3>4
  <2>2. ASSUME NEW q \in Recs PROVE Stages(q)' /\ Listed(q)'
    BY <1>1, <2>2 DEF StartScheduled
  <2> QED
    BY <2>1, <2>2
<1>2. ASSUME NEW r \in Recs, Launch(r) PROVE StatusInv'
  BY <1>2 DEF Launch
<1>3. ASSUME NEW r \in Recs, LaunchFails(r) PROVE StatusInv'
  <2>1. RecTypes'
    BY <1>3 DEF LaunchFails
  <2>2. ASSUME NEW q \in Recs PROVE Stages(q)' /\ Listed(q)'
    BY <1>3, <2>2 DEF LaunchFails
  <2> QED
    BY <2>1, <2>2
<1>4. ASSUME NEW r \in Recs, Exec(r) PROVE StatusInv'
  BY <1>4 DEF Exec
<1>5. ASSUME NEW r \in Recs, OpenOutput(r) PROVE StatusInv'
  <2>1. RecTypes'
    BY <1>5 DEF OpenOutput
  <2>2. ASSUME NEW q \in Recs PROVE Stages(q)' /\ Listed(q)'
    BY <1>5, <2>2 DEF OpenOutput
  <2> QED
    BY <2>1, <2>2
<1>6. ASSUME NEW r \in Recs, NEW t \in 0 .. MaxT, TakesFrame(r, t) PROVE StatusInv'
  BY <1>6 DEF TakesFrame
<1>7. ASSUME NEW r \in Recs, NEW why \in Reasons, Ends(r, why) PROVE StatusInv'
  BY <1>7 DEF Ends
<1>8. ASSUME NEW r \in Recs, Finalizes(r) PROVE StatusInv'
  <2>1. RecTypes'
    BY <1>8 DEF Finalizes, Written
  <2>2. ASSUME NEW q \in Recs PROVE Stages(q)' /\ Listed(q)'
    <3>1. CASE q = r
      <4>1. sampler[r] = "closing" /\ sampler'[r] = "closed" /\ UNCHANGED <<ended, look, status>>
        BY <1>8 DEF Finalizes, Written
      <4>2. /\ disk'[r].gz = IF disk[r].gz = "open" THEN "whole" ELSE disk[r].gz
            /\ disk'[r].meta = disk[r].meta /\ disk'[r].marker = disk[r].marker
        BY <1>8 DEF Finalizes
      <4>3. disk[r].marker = "none" /\ disk[r].gz \in {"none", "open", "whole", "torn"}
        BY <4>1
      <4> QED
        BY <3>1, <4>1, <4>2, <4>3
    <3>2. CASE q # r
      BY <1>8, <2>2, <3>2 DEF Finalizes
    <3> QED
      BY <3>1, <3>2
  <2> QED
    BY <2>1, <2>2
<1>9. ASSUME NEW r \in Recs, Marks(r) PROVE StatusInv'
  BY <1>9 DEF Marks, Marked
<1>10. ASSUME NEW r \in Recs, Exits(r) PROVE StatusInv'
  BY <1>10 DEF Exits
<1>11. ASSUME NEW r \in Recs, Dies(r) PROVE StatusInv'
  BY <1>11 DEF Dies, Cutting
<1>12. ASSUME NEW r \in Recs, ListLooks(r) PROVE StatusInv'
  BY <1>12 DEF ListLooks
<1>13. ASSUME NEW r \in Recs, ListReads(r) PROVE StatusInv'
  <2>1. status'[r] = (IF disk[r].meta THEN StatusOf(look[r] = "alive", disk[r].marker) ELSE "unlisted")
    BY <1>13 DEF ListReads, MarkerSeen
  <2>2. CASE look[r] = "alive"
    <3>1. status'[r] \in {"running", "unlisted"}
      BY <2>1, <2>2
    <3> QED
      BY <1>13, <3>1 DEF ListReads
  <2>3. CASE look[r] = "dead"
    BY <1>13, <2>1, <2>3 DEF ListReads, StatusOf
  <2> QED
    BY <1>13, <2>2, <2>3 DEF ListReads
<1>14. ASSUME NEW r \in Recs, StopScheduled(r) \/ StopIsOver(r) PROVE StatusInv'
  BY <1>14 DEF StopScheduled, StopIsOver
<1>15. ASSUME NEW r \in Recs, StopKills(r) PROVE StatusInv'
  BY <1>15 DEF StopKills, Cutting
<1>16. ASSUME NEW r \in Recs, DeleteScheduled(r) PROVE StatusInv'
  BY <1>16 DEF DeleteScheduled, Resolves, NoFiles
<1>17. ASSUME NEW w \in Splitters, NEW r \in Recs, PrepareScheduledSlices(w, r) PROVE StatusInv'
  BY <1>17 DEF PrepareScheduledSlices
<1>18. ASSUME NEW w \in Splitters, SplitClears(w) \/ SplitReads(w) \/ ZcatDies(w) \/ SplitEnds(w)
                                 \/ SplitDies(w)
       PROVE StatusInv'
  BY <1>18 DEF SplitClears, SplitReads, ZcatDies, SplitEnds, SplitDies
<1>19. CASE RecReboot
  <2>1. RecTypes'
    <3>1. \A q \in Recs : [disk[q] EXCEPT !.gz = IF @ = "open" THEN "torn" ELSE @] \in
            [meta : BOOLEAN, gz : {"none", "open", "whole", "torn"},
             marker : {"none", "died", "no"} \cup Reasons]
      OBVIOUS
    <3>2. disk' \in [Recs -> [meta : BOOLEAN, gz : {"none", "open", "whole", "torn"},
                              marker : {"none", "died", "no"} \cup Reasons]]
      BY <1>19, <3>1 DEF RecReboot
    <3> QED
      BY <1>19, <3>2 DEF RecReboot
  <2>2. ASSUME NEW q \in Recs PROVE Stages(q)' /\ Listed(q)'
    <3>1. Stages(q)'
      <4>1. /\ sampler'[q] = (IF sampler[q] = "none" THEN "none" ELSE "gone")
            /\ ended'[q] = (IF sampler[q] \in {"none", "gone", "marked"} THEN ended[q] ELSE "died")
        BY <1>19, <2>2 DEF RecReboot
      <4>2. /\ disk'[q].gz = (IF disk[q].gz = "open" THEN "torn" ELSE disk[q].gz)
            /\ disk'[q].meta = disk[q].meta /\ disk'[q].marker = disk[q].marker
        BY <1>19, <2>2 DEF RecReboot
      <4> QED
        BY <2>2, <4>1, <4>2
    <3>2. Listed(q)'
      BY <1>19, <2>2 DEF RecReboot
    <3> QED
      BY <3>1, <3>2
  <2> QED
    BY <2>1, <2>2
<1>20. CASE RecCut
  BY <1>20 DEF RecCut
<1> QED
  BY <1>1, <1>2, <1>3, <1>4, <1>5, <1>6, <1>7, <1>8, <1>9, <1>10, <1>11, <1>12,
    <1>13, <1>14, <1>15, <1>16, <1>17, <1>18, <1>19, <1>20 DEF RecNext

\* A row shown as interrupted is a sampler that died without its marker, one shown as
\* complete has its trailer and ended as it says, whenever the listing fell between the
\* sampler's last steps (ListScheduled against the sampler's stop).
THEOREM ListingTells == ASSUME "early" \notin RecFaults PROVE Spec => []StatusTells
<1>1. Init => StatusInv
  BY DEF Init, RecInit, StatusInv, RecTypes, Processes, Stages, Listed, Alive, Seen, Reasons, NoFiles
<1>2. StatusInv /\ [Next]_vars => StatusInv'
  <2> SUFFICES ASSUME StatusInv, [Next]_vars PROVE StatusInv'
    OBVIOUS
  <2>1. CASE Overlays \/ UNCHANGED vars
    BY <2>1 DEF StatusInv, RecTypes, Processes, Stages, Listed, StatusOf, Overlays, vars, recVars
  <2>2. CASE Records
    BY <2>2, StatusStep DEF Records
  <2> QED
    BY <2>1, <2>2 DEF Next
<1>3. StatusInv => StatusTells
  BY DEF StatusInv, Listed, StatusTells
<1> QED
  BY <1>1, <1>2, <1>3, PTL DEF Spec
-----------------------------------------------------------------------------
(* Recording: the slices of a recording hold what the file holds.          *)

\* Times of frames go up, so that an hour is one stretch of the file.
Rising(s) == \A i, j \in 1 .. Len(s) : i < j => s[i] < s[j]

Busy(w) == split[w] # NoSplit

First(r, n) == {frames[r][i] : i \in 1 .. n}

Stations == {"begun", "reading", "starved"}

SliceTypes ==
  /\ Processes
  /\ frames \in [Recs -> Seq(Nat)]
  /\ slices \in [Recs -> [dir : BOOLEAN, held : SUBSET Nat, done : BOOLEAN, cut : BOOLEAN]]
  /\ split \in [Splitters -> {NoSplit} \cup [at : Stations, rec : Recs, pos : Nat]]
  /\ served \subseteq Recs

\* A split is the only one of a finished recording, and is as far as it says.
Works(w) ==
  LET r == split[w].rec
  IN  Busy(w) =>
        /\ sampler[r] = "gone" /\ slices[r].done = FALSE
        /\ \A x \in Splitters \ {w} : split[x].rec # r
        /\ split[w].at = "begun" => split[w].pos = 0
        /\ split[w].at # "begun" /\ disk[r].gz # "none" =>
             /\ slices[r].dir = TRUE /\ split[w].pos <= Len(frames[r])
             /\ slices[r].held = First(r, split[w].pos)

Finished(r) ==
  /\ r \in served => slices[r].done = TRUE
  /\ slices[r].done = TRUE =>
       /\ sampler[r] = "gone"
       /\ disk[r].gz # "none" =>
            \E n \in 0 .. Len(frames[r]) :
              slices[r].held = First(r, n) /\ (n < Len(frames[r]) => slices[r].cut)

SliceInv ==
  /\ SliceTypes
  /\ \A r \in Recs : Rising(frames[r]) /\ Finished(r)
  /\ \A w \in Splitters : Works(w)

\* What the steps of samplers and listings leave alone.
Aside ==
  /\ UNCHANGED <<frames, slices, split, served>>
  /\ Processes'
  /\ \A r \in Recs : sampler[r] = "gone" =>
       sampler'[r] = "gone" /\ (disk'[r].gz = "none" <=> disk[r].gz = "none")

LEMMA AsideKeeps == ASSUME SliceInv, Aside PROVE SliceInv'
<1>1. SliceTypes'
  BY DEF SliceInv, SliceTypes, Aside
<1>2. ASSUME NEW r \in Recs PROVE Rising(frames[r])' /\ Finished(r)'
  <2>1. Rising(frames[r]) /\ Finished(r) /\ frames' = frames
    BY DEF SliceInv, Aside
  <2> QED
    BY <2>1 DEF Aside, Rising, Finished, First
<1>3. ASSUME NEW w \in Splitters PROVE Works(w)'
  <2>1. Works(w) /\ split' = split /\ split[w] \in {NoSplit} \cup [at : Stations, rec : Recs, pos : Nat]
    BY DEF SliceInv, SliceTypes, Aside
  <2> QED
    BY <2>1 DEF Aside, Works, Busy, First
<1> QED
  BY <1>1, <1>2, <1>3 DEF SliceInv

\* Only a sampler that lives changes its own files.
Alone(r) ==
  /\ UNCHANGED <<frames, slices, split, served>>
  /\ Processes'
  /\ UNCHANGED <<sampler, disk>>
     \/ /\ sampler[r] # "gone"
        /\ \A q \in Recs \ {r} : sampler'[q] = sampler[q] /\ disk'[q] = disk[q]

LEMMA AloneAside == ASSUME NEW r, Alone(r) PROVE Aside
BY DEF Alone, Aside

LEMMA StepsAside ==
  ASSUME SliceInv, NEW r \in Recs,
         \/ StartScheduled(r) \/ Launch(r) \/ LaunchFails(r) \/ Exec(r) \/ OpenOutput(r)
         \/ \E why \in {"deadline", "low-disk", "signal"} : Ends(r, why)
         \/ Finalizes(r) \/ Marks(r) \/ Exits(r) \/ Dies(r)
         \/ ListLooks(r) \/ ListReads(r) \/ StopScheduled(r) \/ StopIsOver(r) \/ StopKills(r)
  PROVE  Aside
<1>0. Processes
  BY DEF SliceInv, SliceTypes
<1> USE DEF Processes, Alone, Alive, Seen, Reasons, Become
<1>1. ASSUME StartScheduled(r) PROVE Alone(r)
  BY <1>0, <1>1 DEF StartScheduled
<1>2. ASSUME Launch(r) \/ LaunchFails(r) \/ Exec(r) PROVE Alone(r)
  BY <1>0, <1>2 DEF Launch, LaunchFails, Exec
<1>3. ASSUME OpenOutput(r) PROVE Alone(r)
  BY <1>0, <1>3 DEF OpenOutput
<1>4. ASSUME \E why \in {"deadline", "low-disk", "signal"} : Ends(r, why) PROVE Alone(r)
  BY <1>0, <1>4 DEF Ends
<1>5. ASSUME Finalizes(r) PROVE Alone(r)
  BY <1>0, <1>5 DEF Finalizes, Written
<1>6. ASSUME Marks(r) PROVE Alone(r)
  BY <1>0, <1>6 DEF Marks, Marked
<1>7. ASSUME Exits(r) PROVE Alone(r)
  BY <1>0, <1>7 DEF Exits
<1>8. ASSUME Dies(r) PROVE Alone(r)
  BY <1>0, <1>8 DEF Dies, Cutting
<1>9. ASSUME ListLooks(r) \/ ListReads(r) \/ StopScheduled(r) \/ StopIsOver(r) PROVE Alone(r)
  BY <1>0, <1>9 DEF ListLooks, ListReads, StopScheduled, StopIsOver
<1>10. ASSUME StopKills(r) PROVE Alone(r)
  BY <1>0, <1>10 DEF StopKills, Cutting
<1> QED
  BY AloneAside, <1>1, <1>2, <1>3, <1>4, <1>5, <1>6, <1>7,
    <1>8, <1>9, <1>10

LEMMA FrameKeeps ==
  ASSUME SliceInv, "clockBack" \notin RecFaults,
         NEW r \in Recs, NEW t \in 0 .. MaxT, TakesFrame(r, t)
  PROVE  SliceInv'
<1>1. /\ sampler[r] = "writing" /\ frames' = [frames EXCEPT ![r] = Append(@, t)]
      /\ UNCHANGED <<sampler, disk, slices, ended, split, served>>
      /\ \A u \in ToSet(frames[r]) : u < t
  <2>1. ToSet(frames[r]) \subseteq Nat
    BY DEF SliceInv, SliceTypes, ToSet
  <2> QED
    BY <2>1, RecordingAssumption DEF TakesFrame
<1>2. frames[r] \in Seq(Nat) /\ t \in Nat
  BY RecordingAssumption DEF SliceInv, SliceTypes
<1>3. SliceTypes'
  <2>1. frames' \in [Recs -> Seq(Nat)]
    BY <1>1, <1>2 DEF SliceInv, SliceTypes
  <2> QED
    BY <1>1, <2>1 DEF SliceInv, SliceTypes, Processes
<1>4. Rising(frames'[r])
  <2>1. frames'[r] = Append(frames[r], t)
    BY <1>1 DEF SliceInv, SliceTypes
  <2>2. \A i \in 1 .. Len(frames[r]) : frames[r][i] < t
    BY <1>1, <1>2 DEF ToSet
  <2> QED
    BY <1>2, <2>1, <2>2 DEF SliceInv, Rising
<1>5. \A q \in Recs \ {r} : frames'[q] = frames[q]
  BY <1>1 DEF SliceInv, SliceTypes
<1>6. ASSUME NEW q \in Recs PROVE Rising(frames[q])' /\ Finished(q)'
  <2>1. Rising(frames[q]) /\ Finished(q)
    BY DEF SliceInv
  <2> QED
    BY <1>1, <1>4, <1>5, <2>1 DEF Rising, Finished, First
<1>7. ASSUME NEW w \in Splitters PROVE Works(w)'
  <2>1. Works(w) /\ (Busy(w) => split[w].rec \in Recs)
    BY DEF SliceInv, SliceTypes, Busy
  <2> QED
    BY <1>1, <1>5, <2>1 DEF Works, Busy, First
<1> QED
  BY <1>3, <1>6, <1>7 DEF SliceInv

LEMMA DeleteKeeps == ASSUME SliceInv, NEW r \in Recs, DeleteScheduled(r) PROVE SliceInv'
<1>1. /\ disk' = [disk EXCEPT ![r] = NoFiles] /\ slices' = [slices EXCEPT ![r] = NoSlices]
      /\ served' = served \ {r} /\ UNCHANGED <<sampler, frames, ended, split>>
  BY DEF DeleteScheduled
<1>2. SliceTypes'
  BY <1>1 DEF SliceInv, SliceTypes, Processes, NoFiles, NoSlices
<1>3. /\ disk'[r] = NoFiles /\ slices'[r] = NoSlices
      /\ \A q \in Recs \ {r} : disk'[q] = disk[q] /\ slices'[q] = slices[q]
  BY <1>1 DEF SliceInv, SliceTypes, Processes
<1>4. ASSUME NEW q \in Recs PROVE Rising(frames[q])' /\ Finished(q)'
  <2>1. Rising(frames[q]) /\ Finished(q)
    BY DEF SliceInv
  <2> QED
    BY <1>1, <1>3, <2>1 DEF Rising, Finished, First, NoFiles, NoSlices
<1>5. ASSUME NEW w \in Splitters PROVE Works(w)'
  <2>1. Works(w) /\ (Busy(w) => split[w].rec \in Recs)
    BY DEF SliceInv, SliceTypes, Busy
  <2> QED
    BY <1>1, <1>3, <2>1 DEF Works, Busy, First, NoFiles, NoSlices
<1> QED
  BY <1>2, <1>4, <1>5 DEF SliceInv

LEMMA RebootKeeps == ASSUME SliceInv, RecReboot PROVE SliceInv'
<1>1. /\ \A w \in Splitters : split'[w] = NoSplit
      /\ \A r \in Recs : /\ sampler[r] = "gone" => sampler'[r] = "gone"
                         /\ disk'[r].gz = "none" <=> disk[r].gz = "none"
      /\ UNCHANGED <<frames, slices, served>>
  BY DEF RecReboot, SliceInv, SliceTypes, Processes
<1>2. SliceTypes'
  <2>1. Processes'
    <3>1. Processes
      BY DEF SliceInv, SliceTypes
    <3>2. ASSUME NEW r \in Recs
          PROVE  [disk[r] EXCEPT !.gz = IF @ = "open" THEN "torn" ELSE @]
                   \in [meta : BOOLEAN, gz : {"none", "open", "whole", "torn"},
                       marker : {"none", "died", "no"} \cup Reasons]
      BY <3>1 DEF Processes
    <3>3. ended' \in [Recs -> {"no", "died"} \cup Reasons]
      BY <3>1 DEF Processes, RecReboot
    <3>4. sampler' \in [Recs -> {"none", "unborn", "gone"} \cup Alive]
      BY <3>1 DEF RecReboot
    <3> QED
      BY <3>2, <3>3, <3>4 DEF Processes, RecReboot
  <2> QED
    BY <2>1 DEF RecReboot, SliceInv, SliceTypes
<1>3. ASSUME NEW r \in Recs PROVE Rising(frames[r])' /\ Finished(r)'
  <2>1. Rising(frames[r]) /\ Finished(r)
    BY DEF SliceInv
  <2> QED
    BY <1>1, <2>1 DEF Rising, Finished, First
<1>4. ASSUME NEW w \in Splitters PROVE Works(w)'
  BY <1>1 DEF Works, Busy, NoSplit
<1> QED
  BY <1>2, <1>3, <1>4 DEF SliceInv

-----------------------------------------------------------------------------
(* The steps of a split.                                                   *)

LEMMA HoursRise ==
  ASSUME NEW s \in Int, NEW t \in Int, s <= t PROVE Hour(s) \in Int /\ Hour(s) <= Hour(t)
BY RecordingAssumption DEF Hour

LEMMA ElementNat == ASSUME NEW s \in Seq(Nat), NEW n \in 1 .. Len(s) PROVE s[n] \in Nat
OBVIOUS

LEMMA FirstOf ==
  ASSUME NEW s \in Seq(Nat), NEW n \in 0 .. Len(s)
  PROVE  ToSet(SubSeq(s, 1, n)) = {s[i] : i \in 1 .. n}
<1>1. Len(SubSeq(s, 1, n)) = n /\ \A i \in 1 .. n : SubSeq(s, 1, n)[i] = s[i]
  OBVIOUS
<1>2. ToSet(SubSeq(s, 1, n)) = {SubSeq(s, 1, n)[i] : i \in 1 .. n}
  BY <1>1 DEF ToSet
<1> QED
  BY <1>1, <1>2

LEMMA PrepareKeeps ==
  ASSUME SliceInv, "splitRunning" \notin RecFaults, "splitTwice" \notin RecFaults,
         NEW w \in Splitters, NEW r \in Recs, PrepareScheduledSlices(w, r)
  PROVE  SliceInv'
<1>1. /\ sampler[r] = "gone" /\ \A x \in Splitters : split[x].rec # r
      /\ UNCHANGED <<sampler, frames, disk, slices, ended>>
  BY DEF PrepareScheduledSlices, Splitting
<1>2. CASE slices[r].done = TRUE
  <2>1. served' = served \cup {r} /\ split' = split
    BY <1>2 DEF PrepareScheduledSlices, AlreadySplit
  <2>2. ASSUME NEW q \in Recs PROVE Rising(frames[q])' /\ Finished(q)'
    <3>1. Rising(frames[q]) /\ Finished(q)
      BY DEF SliceInv
    <3> QED
      BY <1>1, <1>2, <2>1, <3>1 DEF Rising, Finished, First
  <2>3. ASSUME NEW x \in Splitters PROVE Works(x)'
    <3>1. Works(x)
      BY DEF SliceInv
    <3> QED
      BY <1>1, <2>1, <3>1 DEF Works, Busy, First
  <2> QED
    BY <1>1, <2>1, <2>2, <2>3 DEF SliceInv, SliceTypes, Processes
<1>3. CASE slices[r].done = FALSE
  <2>1. /\ split' = [split EXCEPT ![w] = [at |-> "begun", rec |-> r, pos |-> 0]]
        /\ served' = served /\ Busy(w) = FALSE
    BY <1>3 DEF PrepareScheduledSlices, AlreadySplit, SplitTo, Busy
  <2>2. /\ split'[w] = [at |-> "begun", rec |-> r, pos |-> 0]
        /\ \A x \in Splitters \ {w} : split'[x] = split[x]
    BY <2>1 DEF SliceInv, SliceTypes
  <2>3. ASSUME NEW q \in Recs PROVE Rising(frames[q])' /\ Finished(q)'
    <3>1. Rising(frames[q]) /\ Finished(q)
      BY DEF SliceInv
    <3> QED
      BY <1>1, <2>1, <3>1 DEF Rising, Finished, First
  <2>4. ASSUME NEW x \in Splitters PROVE Works(x)'
    <3>1. Works(x)
      BY DEF SliceInv
    <3>2. CASE x = w
      BY <1>1, <1>3, <2>2, <3>2 DEF Works
    <3>3. CASE x # w
      BY <1>1, <2>2, <3>1, <3>3 DEF Works, Busy, First
    <3> QED
      BY <3>2, <3>3
  <2>5. SliceTypes'
    BY <1>1, <2>1 DEF Stations, SliceInv, SliceTypes, Processes
  <2> QED
    BY <2>3, <2>4, <2>5 DEF SliceInv
<1> QED
  BY <1>2, <1>3 DEF SliceInv, SliceTypes

\* A step of one split that leaves the other recordings and calls alone.
LEMMA OneSplit ==
  ASSUME SliceInv, NEW w \in Splitters, Busy(w), NEW r, r = split[w].rec, SliceTypes',
         UNCHANGED <<sampler, frames, disk, ended>>,
         \A q \in Recs \ {r} : slices'[q] = slices[q] /\ (q \in served' => q \in served),
         \A x \in Splitters \ {w} : split'[x] = split[x],
         split'[w] = NoSplit \/ split'[w].rec = r,
         Works(w)', Finished(r)'
  PROVE  SliceInv'
<1>1. ASSUME NEW q \in Recs PROVE Rising(frames[q])' /\ Finished(q)'
  <2>1. Rising(frames[q]) /\ Finished(q)
    BY DEF SliceInv
  <2> QED
    BY <2>1 DEF Rising, Finished, First
<1>2. ASSUME NEW x \in Splitters, x # w PROVE Works(x)'
  <2>1. Works(x) /\ Works(w) /\ split'[x] = split[x] /\ (Busy(x) => split[x].rec \in Recs)
    BY <1>2 DEF SliceInv, SliceTypes, Busy
  <2>2. CASE Busy(x)
    <3>1. split[x].rec # r /\ slices'[split[x].rec] = slices[split[x].rec]
      BY <1>2, <2>1, <2>2 DEF Works
    <3>2. \A y \in Splitters \ {x} : split'[y].rec # split[x].rec
      <4>1. \A y \in Splitters \ {x, w} : split'[y].rec # split[x].rec
        BY <2>1, <2>2 DEF Works
      <4>2. split'[w].rec # split[x].rec
        BY <2>1, <2>2, <3>1, RecordingAssumption DEF NoSplit
      <4> QED
        BY <4>1, <4>2
    <3> QED
      BY <2>1, <2>2, <3>1, <3>2 DEF Works, Busy, First
  <2> QED
    BY <2>1, <2>2 DEF Works, Busy
<1> QED
  BY <1>1, <1>2 DEF SliceInv

LEMMA SplitFacts ==
  ASSUME SliceInv, NEW w \in Splitters, Busy(w)
  PROVE  /\ split[w] \in [at : Stations, rec : Recs, pos : Nat]
         /\ split[w].rec \in Recs /\ Works(w) /\ Finished(split[w].rec)
         /\ slices[split[w].rec] \in [dir : BOOLEAN, held : SUBSET Nat, done : BOOLEAN, cut : BOOLEAN]
BY DEF SliceInv, SliceTypes, Busy

LEMMA ClearsKeeps == ASSUME SliceInv, NEW w \in Splitters, SplitClears(w) PROVE SliceInv'
<1>1. Busy(w)
  BY DEF SplitClears, Busy, NoSplit
<1> PICK r \in Recs : r = split[w].rec
  BY <1>1, SplitFacts
<1>2. /\ slices' = [slices EXCEPT ![r] = [NoSlices EXCEPT !.dir = TRUE]]
      /\ split' = [split EXCEPT ![w] = [split[w] EXCEPT !.at = "reading"]]
      /\ split[w].at = "begun" /\ UNCHANGED <<sampler, frames, disk, ended, served>>
  BY DEF SplitClears, SplitTo
<1>3. slices'[r] = [dir |-> TRUE, held |-> {}, done |-> FALSE, cut |-> FALSE] /\ split[w] # NoSplit
  BY <1>1, <1>2, SplitFacts DEF SliceInv, SliceTypes, NoSlices, Busy
<1>4. /\ split'[w] = [split[w] EXCEPT !.at = "reading"]
      /\ split'[w] \in [at : Stations, rec : Recs, pos : Nat] /\ split'[w].rec = r
  BY <1>1, <1>2, SplitFacts DEF Stations, SliceInv, SliceTypes
<1>5. First(r, 0) = {}
  BY DEF First
<1>6. SliceTypes'
  <2>1. slices' \in [Recs -> [dir : BOOLEAN, held : SUBSET Nat, done : BOOLEAN, cut : BOOLEAN]]
    BY <1>1, <1>2, SplitFacts DEF SliceInv, SliceTypes, NoSlices
  <2> QED
    BY <1>2, <1>4, <2>1 DEF SliceInv, SliceTypes, Processes
<1>7. Works(w)'
  <2>1. Works(w) /\ frames[r] \in Seq(Nat)
    BY <1>1, SplitFacts DEF SliceInv, SliceTypes
  <2>2. split'[w].pos = 0 /\ \A x \in Splitters \ {w} : split'[x] = split[x]
    BY <1>1, <1>2, <1>4, <2>1, SplitFacts DEF Works, SliceInv, SliceTypes
  <2> QED
    BY <1>1, <1>2, <1>3, <1>4, <1>5, <2>1, <2>2 DEF Works, Busy, First
<1>8. Finished(r)'
  <2>1. r \notin served
    BY <1>1, SplitFacts DEF Works, Finished
  <2> QED
    BY <1>2, <1>3, <2>1 DEF Finished
<1> QED
  BY <1>1, <1>2, <1>4, <1>6, <1>7, <1>8, OneSplit DEF SliceInv, SliceTypes

LEMMA ReadsKeeps == ASSUME SliceInv, NEW w \in Splitters, SplitReads(w) PROVE SliceInv'
<1>1. Busy(w)
  BY DEF SplitReads, Busy, NoSplit
<1> PICK r \in Recs : r = split[w].rec
  BY <1>1, SplitFacts
<1> PICK i \in Nat : i = split[w].pos + 1
  BY <1>1, SplitFacts
<1> DEFINE t == frames[r][i]
<1> DEFINE before == IF i = 1 THEN -1 ELSE frames[r][i - 1]
<1>2. /\ split[w].at = "reading" /\ disk[r].gz # "none" /\ i <= Len(frames[r])
      /\ slices' = [slices EXCEPT ![r].held = IF slices[r].dir THEN Filed(@, t, before) ELSE @]
      /\ split' = [split EXCEPT ![w] = [split[w] EXCEPT !.pos = i]]
      /\ UNCHANGED <<sampler, frames, disk, ended, served>>
  BY DEF SplitReads, SplitTo
<1>3. /\ Works(w) /\ r \in Recs /\ i \in 1 .. Len(frames[r])
      /\ frames[r] \in Seq(Nat) /\ Rising(frames[r])
  BY <1>1, <1>2, SplitFacts DEF SliceInv, SliceTypes
<1>4. /\ slices[r].dir = TRUE /\ slices[r].done = FALSE
      /\ slices[r].held = First(r, split[w].pos)
  BY <1>1, <1>2, <1>3 DEF Works
<1>5. Filed(First(r, split[w].pos), t, before) = First(r, i)
  <2>1. ASSUME NEW u \in First(r, split[w].pos), Hour(u) = Hour(t)
        PROVE  before # -1 /\ Hour(before) = Hour(t)
    <3>1. PICK j \in 1 .. split[w].pos : u = frames[r][j]
      BY DEF First
    <3>2. split[w].pos \in Nat \ {0} /\ i - 1 = split[w].pos /\ i # 1
      BY <1>1, <3>1, SplitFacts
    <3>0. i - 1 \in 1 .. Len(frames[r]) /\ j \in 1 .. Len(frames[r]) /\ j <= i - 1
      <4>1. PICK n : n = Len(frames[r])
        OBVIOUS
      <4>2. n \in Nat /\ i \in 1 .. n
        BY <1>3, <4>1
      <4>3. j \in 1 .. i - 1
        BY <3>2
      <4> QED
        BY <3>2, <4>1, <4>2, <4>3, SMTT(30)
    <3>3. before = frames[r][i - 1] /\ before \in Nat /\ u \in Int /\ t \in Int
      <4>1. \A n \in 1 .. Len(frames[r]) : frames[r][n] \in Nat
        BY <1>3, ElementNat
      <4>2. before = frames[r][i - 1]
        BY <3>2
      <4>3. u \in Int
        BY <3>0, <3>1, <4>1
      <4>4. t \in Int
        BY <1>3, <4>1
      <4>5. before \in Nat
        BY <3>0, <4>1, <4>2
      <4> QED
        BY <4>2, <4>3, <4>4, <4>5
    <3>4. before < t
      <4>1. i - 1 < i
        OBVIOUS
      <4>2. frames[r][i - 1] < frames[r][i]
        BY <1>3, <3>0, <4>1 DEF Rising
      <4> QED
        BY <3>3, <4>2
    <3>5. u <= before
      <4>1. CASE j = i - 1
        BY <3>1, <3>3, <4>1
      <4>2. CASE j < i - 1
        <5>1. frames[r][j] < frames[r][i - 1]
          BY <1>3, <3>0, <4>2 DEF Rising
        <5> QED
          BY <3>1, <3>3, <5>1
      <4> QED
        BY <3>0, <4>1, <4>2
    <3>6. Hour(u) <= Hour(before) /\ Hour(before) <= Hour(t) /\ Hour(before) \in Int /\ Hour(t) \in Int
      BY <3>3, <3>4, <3>5, HoursRise
    <3> QED
      BY <2>1, <3>3, <3>6
  <2>2. First(r, i) = First(r, split[w].pos) \cup {t}
    BY <1>1, SplitFacts DEF First
  <2> QED
    BY <2>1, <2>2 DEF Filed
<1>6. slices'[r] = [slices[r] EXCEPT !.held = First(r, i)]
  BY <1>1, <1>2, <1>4, <1>5, SplitFacts DEF SliceInv, SliceTypes
<1>7. /\ split'[w] = [split[w] EXCEPT !.pos = i]
      /\ split'[w] \in [at : Stations, rec : Recs, pos : Nat] /\ split'[w].rec = r
      /\ split'[w].at = "reading" /\ split'[w].pos = i
      /\ \A x \in Splitters \ {w} : split'[x] = split[x]
  <2>1. /\ split'[w] = [split[w] EXCEPT !.pos = i]
        /\ \A x \in Splitters \ {w} : split'[x] = split[x]
    BY <1>2 DEF SliceInv, SliceTypes
  <2>2. split[w] \in [at : Stations, rec : Recs, pos : Nat]
    BY <1>1, SplitFacts
  <2> QED
    BY <1>2, <2>1, <2>2, SMTT(30)
<1>8. First(r, i) \subseteq Nat
  <2>1. \A n \in 1 .. Len(frames[r]) : frames[r][n] \in Nat
    BY <1>3, ElementNat
  <2>2. 1 .. i \subseteq 1 .. Len(frames[r])
    BY <1>3
  <2> QED
    BY <2>1, <2>2 DEF First
<1>9. SliceTypes'
  <2>1. slices'[r] \in [dir : BOOLEAN, held : SUBSET Nat, done : BOOLEAN, cut : BOOLEAN]
    BY <1>1, <1>6, <1>8, SplitFacts
  <2>2. slices' \in [Recs -> [dir : BOOLEAN, held : SUBSET Nat, done : BOOLEAN, cut : BOOLEAN]]
    BY <1>2, <2>1 DEF SliceInv, SliceTypes
  <2>3. split' \in [Splitters -> {NoSplit} \cup [at : Stations, rec : Recs, pos : Nat]]
    BY <1>2, <1>7 DEF SliceInv, SliceTypes
  <2> QED
    BY <1>2, <2>2, <2>3 DEF SliceInv, SliceTypes, Processes
<1>10. slices'[r].dir = TRUE /\ slices'[r].done = FALSE /\ slices'[r].held = First(r, i)
  BY <1>1, <1>4, <1>6, SplitFacts
<1>11. Works(w)'
  <2>1. First(r, i)' = First(r, i)
    BY <1>2 DEF First
  <2> QED
    BY <1>1, <1>2, <1>3, <1>7, <1>10, <2>1 DEF Works, Busy, First
<1>12. Finished(r)'
  <2>1. r \notin served
    BY <1>1, <1>4, SplitFacts DEF Finished
  <2> QED
    BY <1>2, <1>10, <2>1 DEF Finished
<1> QED
  BY <1>1, <1>2, <1>7, <1>9, <1>11, <1>12, OneSplit DEF SliceInv, SliceTypes

LEMMA StarvesKeeps == ASSUME SliceInv, NEW w \in Splitters, ZcatDies(w) PROVE SliceInv'
<1>1. Busy(w)
  BY DEF ZcatDies, Busy, NoSplit
<1> PICK r \in Recs : r = split[w].rec
  BY <1>1, SplitFacts
<1>2. /\ split' = [split EXCEPT ![w] = [split[w] EXCEPT !.at = "starved"]]
      /\ split[w].at = "reading" /\ UNCHANGED <<sampler, frames, disk, slices, ended, served>>
  BY DEF ZcatDies, SplitTo
<1>3. /\ split'[w] = [split[w] EXCEPT !.at = "starved"]
      /\ \A x \in Splitters \ {w} : split'[x] = split[x]
  BY <1>2 DEF SliceInv, SliceTypes
<1>4. split'[w] \in [at : Stations, rec : Recs, pos : Nat] /\ split'[w].rec = r
  BY <1>1, <1>3, SplitFacts DEF Stations
<1>5. split'[w].at = "starved" /\ split'[w].pos = split[w].pos
  BY <1>1, <1>3, SplitFacts
<1>6. SliceTypes'
  BY <1>2, <1>4 DEF SliceInv, SliceTypes, Processes
<1>7. Works(w)'
  <2>1. Works(w)
    BY <1>1, SplitFacts
  <2>2. First(r, split[w].pos)' = First(r, split[w].pos)
    BY <1>2 DEF First
  <2> QED
    BY <1>1, <1>2, <1>3, <1>4, <1>5, <2>1, <2>2 DEF Works, Busy
<1>8. Finished(r)'
  <2>1. Finished(r)
    BY <1>1, SplitFacts
  <2>2. \A n \in 0 .. Len(frames[r]) : First(r, n)' = First(r, n)
    BY <1>2 DEF First
  <2> QED
    BY <1>2, <2>1, <2>2 DEF Finished
<1> QED
  BY <1>1, <1>2, <1>3, <1>4, <1>6, <1>7, <1>8, OneSplit DEF SliceInv, SliceTypes

LEMMA EndsKeeps == ASSUME SliceInv, NEW w \in Splitters, SplitEnds(w) \/ SplitDies(w) PROVE SliceInv'
<1>1. Busy(w)
  BY DEF SplitEnds, SplitDies, AtEnd, Busy, NoSplit
<1> PICK r \in Recs : r = split[w].rec
  BY <1>1, SplitFacts
<1> DEFINE cut == slices[r].dir /\ split[w].at = "starved"
<1> DEFINE Ended == [slices[r] EXCEPT !.done = slices[r].dir, !.cut = cut]
<1>2. /\ split' = [split EXCEPT ![w] = NoSplit]
      /\ UNCHANGED <<sampler, frames, disk, ended>>
      /\ \/ UNCHANGED <<slices, served>>
         \/ /\ split[w].at # "begun" /\ AtEnd(w) /\ slices' = [slices EXCEPT ![r] = Ended]
            /\ served' = IF slices[r].dir THEN served \cup {r} ELSE served
  <2>1. CASE SplitEnds(w)
    <3>1. /\ AtEnd(w) /\ split[w].at # "begun" /\ split' = [split EXCEPT ![w] = NoSplit]
          /\ UNCHANGED <<sampler, frames, disk, ended>>
          /\ served' = IF slices[r].dir THEN served \cup {r} ELSE served
      BY <2>1 DEF SplitEnds, SplitTo, AtEnd
    <3>2. slices' = [slices EXCEPT ![r] = Ended]
      BY <2>1 DEF SplitEnds
    <3> QED
      BY <3>1, <3>2
  <2>2. CASE SplitDies(w)
    BY <2>2 DEF SplitDies, SplitTo
  <2> QED
    BY <2>1, <2>2
<1>3. split'[w] = NoSplit /\ \A x \in Splitters \ {w} : split'[x] = split[x]
  BY <1>2 DEF SliceInv, SliceTypes
<1>4. Finished(r)'
  <2>1. Finished(r) /\ Works(w) /\ sampler[r] = "gone" /\ slices[r].dir \in BOOLEAN
    BY <1>1, SplitFacts DEF Works
  <2>2. CASE UNCHANGED <<slices, served>>
    BY <1>2, <2>1, <2>2 DEF Finished, First
  <2>3. CASE /\ split[w].at # "begun" /\ AtEnd(w) /\ slices' = [slices EXCEPT ![r] = Ended]
             /\ served' = IF slices[r].dir THEN served \cup {r} ELSE served
    <3>1. /\ slices'[r].done = slices[r].dir /\ slices'[r].held = slices[r].held
          /\ slices'[r].cut = cut
      BY <1>1, <2>3, SplitFacts DEF SliceInv, SliceTypes
    <3>2. disk[r].gz # "none" =>
            \E n \in 0 .. Len(frames[r]) :
              slices[r].held = First(r, n) /\ (n < Len(frames[r]) => cut)
      <4>1. frames[r] \in Seq(Nat) /\ split[w].pos \in Nat
        BY <1>1, SplitFacts DEF SliceInv, SliceTypes
      <4>2. SUFFICES ASSUME disk[r].gz # "none"
                     PROVE  \E n \in 0 .. Len(frames[r]) :
                              slices[r].held = First(r, n) /\ (n < Len(frames[r]) => cut)
        OBVIOUS
      <4>3. /\ slices[r].dir = TRUE /\ split[w].pos <= Len(frames[r])
            /\ slices[r].held = First(r, split[w].pos)
        BY <1>1, <2>1, <2>3, <4>2 DEF Works
      <4>4. split[w].pos < Len(frames[r]) => cut
        BY <2>3, <4>1, <4>2, <4>3 DEF AtEnd
      <4>5. split[w].pos \in 0 .. Len(frames[r])
        BY <4>1, <4>3
      <4> QED
        BY <4>3, <4>4, <4>5
    <3>3. r \notin served
      BY <1>1, <2>1 DEF Works, Finished
    <3> QED
      BY <1>2, <2>1, <2>3, <3>1, <3>2, <3>3 DEF Finished, First
  <2> QED
    BY <1>2, <2>2, <2>3
<1>5. Works(w)'
  BY <1>3 DEF Works, Busy
<1>6. SliceTypes'
  <2>1. Ended \in [dir : BOOLEAN, held : SUBSET Nat, done : BOOLEAN, cut : BOOLEAN]
    BY <1>1, SplitFacts
  <2>2. slices' \in [Recs -> [dir : BOOLEAN, held : SUBSET Nat, done : BOOLEAN, cut : BOOLEAN]]
    <3>1. slices \in [Recs -> [dir : BOOLEAN, held : SUBSET Nat, done : BOOLEAN, cut : BOOLEAN]]
      BY DEF SliceInv, SliceTypes
    <3>2. CASE slices' = slices
      BY <3>1, <3>2
    <3>3. CASE slices' = [slices EXCEPT ![r] = Ended]
      BY <2>1, <3>1, <3>3
    <3> QED
      BY <1>2, <3>2, <3>3
  <2>3. served' \subseteq Recs
    BY <1>2 DEF SliceInv, SliceTypes
  <2> QED
    BY <1>2, <2>2, <2>3 DEF SliceInv, SliceTypes, Processes
<1>7. \A q \in Recs \ {r} : slices'[q] = slices[q] /\ (q \in served' => q \in served)
  BY <1>2 DEF SliceInv, SliceTypes
<1> QED
  BY <1>1, <1>2, <1>3, <1>4, <1>5, <1>6, <1>7, OneSplit

\* Whatever window is played from finished slices, it is what a scan of the file's first n
\* frames finds, and n is all of them unless the zcat of that split died under its awk: for
\* any recordings, windows and length of an hour, though splits die and are begun again and
\* recordings are deleted under them (PrepareScheduledSlices, DownloadScheduledSlices), as
\* long as one call at a time splits a recording that has ended, and the clock is not set back.
THEOREM SlicesAreWhole ==
  ASSUME "splitRunning" \notin RecFaults, "splitTwice" \notin RecFaults,
         "clockBack" \notin RecFaults
  PROVE  Spec => []SlicesWhole
<1>1. Init => SliceInv
  <2> SUFFICES ASSUME RecInit PROVE SliceInv
    BY DEF Init
  <2>1. SliceTypes
    BY DEF RecInit, SliceTypes, Processes, NoFiles, NoSlices, Alive, Seen, Reasons
  <2>2. ASSUME NEW r \in Recs PROVE Rising(frames[r]) /\ Finished(r)
    BY DEF RecInit, Rising, Finished, NoSlices
  <2>3. ASSUME NEW w \in Splitters PROVE Works(w)
    BY DEF RecInit, Works, Busy
  <2> QED
    BY <2>1, <2>2, <2>3 DEF SliceInv
<1>2. SliceInv /\ [Next]_vars => SliceInv'
  <2> SUFFICES ASSUME SliceInv, [Next]_vars PROVE SliceInv'
    OBVIOUS
  <2>1. CASE UNCHANGED recVars
    BY <2>1, AsideKeeps DEF Aside, SliceInv, SliceTypes, Processes, recVars
  <2>2. ASSUME RecNext PROVE SliceInv'
    <3>1. ASSUME NEW r \in Recs, NEW t \in 0 .. MaxT, TakesFrame(r, t) PROVE SliceInv'
      BY <3>1, FrameKeeps
    <3>2. ASSUME NEW r \in Recs, DeleteScheduled(r) PROVE SliceInv'
      BY <3>2, DeleteKeeps
    <3>3. ASSUME NEW w \in Splitters, NEW r \in Recs, PrepareScheduledSlices(w, r) PROVE SliceInv'
      BY <3>3, PrepareKeeps
    <3>4. ASSUME NEW w \in Splitters, SplitClears(w) \/ SplitReads(w) \/ ZcatDies(w)
                                   \/ SplitEnds(w) \/ SplitDies(w)
          PROVE  SliceInv'
      BY <3>4, ClearsKeeps, ReadsKeeps, StarvesKeeps, EndsKeeps
    <3>5. CASE RecCut
      BY <3>5, AsideKeeps DEF RecCut, Aside, SliceInv, SliceTypes, Processes
    <3> QED
      BY <2>2, <3>1, <3>2, <3>3, <3>4, <3>5, RebootKeeps, StepsAside, AsideKeeps DEF RecNext
  <2> QED
    BY <2>1, <2>2 DEF Next, Records, Overlays, vars
<1>3. SliceInv => SlicesWhole
  <2> SUFFICES ASSUME SliceInv, NEW r \in Recs, Resolves(r), r \in served \/ slices[r].done
               PROVE  \E n \in 0 .. Len(frames[r]) :
                        /\ n < Len(frames[r]) => slices[r].cut
                        /\ \A a \in 0 .. MaxT, b \in 1 .. MaxT + 1 : a < b =>
                             DownloadScheduledSlices(r, a, b) = DownloadScheduledDay(r, a, b, n)
    BY DEF SlicesWhole
  <2>1. Finished(r) /\ frames[r] \in Seq(Nat) /\ slices[r].done \in BOOLEAN
    BY DEF SliceInv, SliceTypes
  <2>2. PICK n \in 0 .. Len(frames[r]) :
          slices[r].held = First(r, n) /\ (n < Len(frames[r]) => slices[r].cut)
    BY <2>1 DEF Finished, Resolves
  <2>3. ToSet(SubSeq(frames[r], 1, n)) = First(r, n)
    BY <2>1, <2>2, FirstOf DEF First
  <2>4. ASSUME NEW a \in 0 .. MaxT, NEW b \in 1 .. MaxT + 1, a < b
        PROVE  DownloadScheduledSlices(r, a, b) = DownloadScheduledDay(r, a, b, n)
    <3>1. a \in Int /\ b - 1 \in Int
      BY RecordingAssumption
    <3>2. ASSUME NEW t \in First(r, n), a <= t, t < b PROVE Hour(t) \in SliceKeys(a, b)
      <4>1. t \in Int
        <5>1. \A i \in 1 .. n : frames[r][i] \in Nat
          BY <2>1, <2>2, ElementNat
        <5> QED
          BY <3>2, <5>1 DEF First
      <4>2. t <= b - 1
        BY <3>1, <3>2, <4>1
      <4>3. Hour(a) <= Hour(t) /\ Hour(a) \in Int /\ Hour(t) \in Int
        BY <3>1, <3>2, <4>1, HoursRise
      <4>4. Hour(t) <= Hour(b - 1) /\ Hour(b - 1) \in Int
        <5>1. PICK e \in Int : e = b - 1
          BY <3>1
        <5>2. Hour(t) <= Hour(e)
          BY <4>1, <4>2, <5>1, HoursRise
        <5>3. Hour(e) \in Int
          BY HoursRise
        <5> QED
          BY <5>1, <5>2, <5>3
      <4> QED
        BY <4>3, <4>4 DEF SliceKeys
    <3> QED
      BY <2>2, <2>3, <3>2 DEF DownloadScheduledSlices, DownloadScheduledDay
  <2> QED
    BY <2>2, <2>4
<1> QED
  BY <1>1, <1>2, <1>3, PTL DEF Spec
=============================================================================
