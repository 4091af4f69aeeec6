------------------------------- MODULE Manage -------------------------------
(***************************************************************************)
(* Renaming and deleting registered devices (internal/statsreg/manage.go,  *)
(* manage_delete.go, manage_orphan.go, manage_record.go).  One operation   *)
(* at a time is a saga over four stores: a record on the PC's disk, the    *)
(* product database, the collector's notices and the values in Redis.  It  *)
(* may stop anywhere and is taken up again from its record, while the web  *)
(* console writes to the same rows.                                        *)
(*                                                                         *)
(* Abstractions.  A device has one checkpoint and one value key.  Interval *)
(* and display name change as the name does.  Refusals (a locked device, a *)
(* policy, a used name, a server out of reach) leave everything as it was  *)
(* and are steps that do not happen.  What a preview saw is checked again, row *)
(* by row, in the transaction, so that one that passes is as good as one   *)
(* made at that moment: previews have no state here.  Audit rows, learned  *)
(* names and the watch of the collection only inform.                      *)
(***************************************************************************)
EXTENDS Integers, Sequences, FiniteSets, SequencesExt

CONSTANTS
  Devs,    \* devices
  Names,   \* what a device or checkpoint may be called
  First,   \* the name each has in the beginning
  Ops,     \* ids of operations; each is used for one at most
  MaxOthers,  \* bound: changes made by the console
  Edits,   \* sets of items one rename may change
  None,
  Faults   \* what may go wrong, see AllFaults

AllFaults ==
  {"fooled",     \* a row of a record whose COMMIT is unknown is changed again before it is resumed
   "meanwhile",  \* the console deletes a device while a notice that names it is on its way
   "slow"}       \* the collector applies a notice later than the waits of a deletion

Items == {"point", "device"} \X Devs

NoticeTypes == {"POINTS", "SPECIFY", "DEVICES", "DELETED"}
Notices == [type : NoticeTypes, devs : SUBSET Devs]

\* manageRecord, as it is on disk
RecordSet ==
  [kind : {"rename", "delete"}, items : SUBSET Items, to : Names \cup {None}, devs : SUBSET Devs,
   points : SUBSET Devs, whole : BOOLEAN, msgs : Seq(Notices), sent : Nat, committed : BOOLEAN,
   done : BOOLEAN]

ASSUME ManageAssumption ==
  /\ Faults \subseteq AllFaults /\ First \in Names /\ Edits \subseteq SUBSET Items
  /\ MaxOthers \in Nat
  /\ None \notin RecordSet

VARIABLES
  rows,     \* items whose row has flag = 1
  name,     \* the name in each row
  group,    \* the group's row exists
  grouped,  \* devices that belong to it
  others,   \* number of changes the console has made
  disk,     \* record of each operation
  call,     \* the operation under way
  news,     \* history: changes of ours the collector does not know
  coll,     \* devices the collector collects
  inbox,    \* devices whose deletion it is yet to apply
  keys      \* devices that have a value in Redis

dbVars  == <<rows, name, group, grouped, others>>
farVars == <<news, coll, inbox, keys>>
vars    == <<dbVars, disk, call, farVars>>

Idle == [at |-> "idle", id |-> None, rec |-> None, keys |-> {}, again |-> FALSE]

LiveDevs == {d \in Devs : <<"device", d>> \in rows}
PointsOf(D) == {d \in D : <<"point", d>> \in rows}
DevsOf(items) == {i[2] : i \in items}

\* A record whose operation is not known to be in the database or not.
Unsettled(o) == disk[o] # None /\ ~disk[o].committed /\ ~disk[o].done

Touches(rec, d) == d \in rec.devs \cup DevsOf(rec.items)

\* What recordCommitted will look at: the names of a rename, the devices of a deletion.
WatchedNames == UNION {disk[o].items : o \in {p \in Ops : Unsettled(p)}}
WatchedDevs  == UNION {disk[o].devs : o \in {p \in Ops : Unsettled(p)}}

-----------------------------------------------------------------------------
Init ==
  /\ rows = Items
  /\ name = [i \in Items |-> First]
  /\ group = TRUE /\ others = 0
  /\ grouped \in {Devs} \cup {Devs \ {d} : d \in Devs}
  /\ disk = [o \in Ops |-> None]
  /\ call = Idle
  /\ news = {} /\ inbox = {}
  /\ coll = Devs /\ keys = Devs

-----------------------------------------------------------------------------
(* Notices.                                                                *)

Notice(type, D) == [type |-> type, devs |-> D]

Named(items, kind) == {i[2] : i \in {j \in items : j[1] = kind}}

\* A notice that would name nothing is not written.
IfAny(type, D) == IF D = {} THEN <<>> ELSE <<Notice(type, D)>>

\* manageNotices
RenameNotices(items) ==
  IfAny("POINTS", Named(items, "point")) \o <<Notice("SPECIFY", {})>>
    \o IfAny("DEVICES", Named(items, "device"))

\* deleteNotices
DeleteNotices(D) == IfAny("DELETED", D) \o <<Notice("SPECIFY", {})>>

Covers(m) == IF m.type = "SPECIFY" THEN {<<"SPECIFY", None>>} ELSE {m.type} \X m.devs

\* The collector fails the whole DEVICE_UPDATED on a device it cannot load.
Effect(m) == IF m.type = "DEVICES" /\ ~(m.devs \subseteq LiveDevs) THEN {} ELSE Covers(m)

-----------------------------------------------------------------------------
(* Defects: what an operator or action below would be with a plausible     *)
(* mistake in it.                                                          *)

\* The record is taken for committed without a look at the database.
Happened_Trusting(rec) == TRUE

\* A DEVICE_UPDATED goes out as it was written.
Refreshed_AsWritten(rec) == rec

\* Notices are resumed and the record still says that the COMMIT is unknown.
Settled_Forgotten(rec) == rec

\* The end of the watch is the end of the keys.
WatchOver_Unlooked ==
  /\ call.at = "watch"
  /\ "slow" \in Faults \/ inbox \cap call.rec.devs = {}
  /\ \E kept \in BOOLEAN :
       disk' = IF kept THEN [disk EXCEPT ![call.id] = [call.rec EXCEPT !.done = TRUE]] ELSE disk
  /\ call' = Idle
  /\ UNCHANGED <<dbVars, farVars>>

-----------------------------------------------------------------------------
(* The transaction.                                                        *)

Record(kind, items, to, D, whole, msgs) ==
  [kind |-> kind, items |-> items, to |-> to, devs |-> D, points |-> PointsOf(D), whole |-> whole,
   msgs |-> msgs, sent |-> 0, committed |-> FALSE, done |-> FALSE]

\* saveRecord after the record is on disk once: a failure is ignored.
Noted(o, rec) == disk' = disk \/ disk' = [disk EXCEPT ![o] = rec]

\* The record goes to disk before COMMIT; if it does not, nothing is changed.
Begun(o, rec) ==
  /\ call.at = "idle" /\ disk[o] = None
  /\ disk' = [disk EXCEPT ![o] = rec]
  /\ call' = [Idle EXCEPT !.at = "commit", !.id = o, !.rec = rec]
  /\ UNCHANGED <<dbVars, farVars>>

\* checkGroup and applyPlan: every device touched is still a free device of the
\* group.  Rows that are not as they were loaded are skipped: items are the others.
ApplyRename(o, items, to) ==
  /\ group /\ items # {}
  /\ items \subseteq {i \in rows : name[i] # to}
  /\ DevsOf(items) \subseteq grouped \cap LiveDevs
  /\ Begun(o, Record("rename", items, to, {}, FALSE, RenameNotices(items)))

\* orphanDevices: one in no group is ours if it has checkpoints of this tool.
Orphan(d) == d \notin grouped /\ PointsOf({d}) # {}

\* buildDelete, buildOrphanDelete: a whole group, a device of it, or one in no group.
Deletable(D, whole) ==
  IF whole THEN group /\ D = grouped \cap LiveDevs
  ELSE \E d \in LiveDevs : D = {d} /\ (Orphan(d) \/ (group /\ d \in grouped))

\* deleteTx: the preview is made again and must be the same.
ApplyDelete(o, D, whole) ==
  /\ Deletable(D, whole)
  /\ "fooled" \in Faults \/ D \cap WatchedDevs = {}
  /\ Begun(o, Record("delete", {}, None, D, whole, DeleteNotices(D)))

\* What the transaction of a record does to the tables.
Renames(rec) ==
  /\ name' = [i \in Items |-> IF i \in rec.items THEN rec.to ELSE name[i]]
  /\ UNCHANGED <<rows, group, grouped, others>>

\* deleteDevicesTx, deleteGroupTx
Deletes(rec) ==
  /\ rows' = {i \in rows : i[2] \notin rec.devs}
  /\ group' = (group /\ ~rec.whole)
  /\ UNCHANGED <<name, grouped, others>>

Write(rec) ==
  /\ IF rec.kind = "rename" THEN Renames(rec) ELSE Deletes(rec)
  /\ news' = {n \in news : n[2] \notin rec.devs} \cup UNION {Covers(m) : m \in ToSet(rec.msgs)}
  /\ UNCHANGED <<coll, inbox, keys>>

Commit ==
  LET rec == [call.rec EXCEPT !.committed = TRUE] IN
  /\ call.at = "commit"
  /\ Write(rec)
  /\ call' = [call EXCEPT !.at = "send", !.rec = rec]
  /\ Noted(call.id, rec)

\* The outcome of COMMIT is not known: it took place or not.
CommitLost ==
  /\ call.at = "commit"
  /\ Write(call.rec) \/ UNCHANGED <<dbVars, farVars>>
  /\ call' = Idle
  /\ UNCHANGED disk

-----------------------------------------------------------------------------
(* Notices and values.                                                     *)

Take(m) ==
  /\ news' = news \ Effect(m)
  /\ inbox' = inbox \cup (IF m.type = "DELETED" THEN m.devs ELSE {})
  /\ UNCHANGED <<coll, keys>>

Unsent == call.at = "send" /\ call.rec.sent < Len(call.rec.msgs)
NextNotice == call.rec.msgs[call.rec.sent + 1]

\* publish
Publish ==
  /\ Unsent
  /\ Take(NextNotice)
  /\ call' = [call EXCEPT !.rec.sent = @ + 1]
  /\ UNCHANGED <<dbVars, disk>>

\* The broker does not answer, and may have taken it.  The record stays pending.
PublishFails ==
  /\ Unsent
  /\ Take(NextNotice) \/ UNCHANGED farVars
  /\ Noted(call.id, call.rec)
  /\ call' = Idle
  /\ UNCHANGED <<dbVars>>

AllSent == call.at = "send" /\ call.rec.sent = Len(call.rec.msgs)

\* finishRename
RenameDone ==
  /\ AllSent /\ call.rec.kind = "rename"
  /\ Noted(call.id, [call.rec EXCEPT !.done = TRUE])
  /\ call' = Idle
  /\ UNCHANGED <<dbVars, farVars>>

\* finishDelete: the collector is given time to stop.
DeleteNotified ==
  /\ AllSent /\ call.rec.kind = "delete"
  /\ Noted(call.id, call.rec)
  /\ call' = [call EXCEPT !.at = "settle", !.keys = call.rec.points]
  /\ UNCHANGED <<dbVars, farVars>>

Prompt == "slow" \in Faults \/ inbox \cap call.rec.devs = {}

SettleOver ==
  /\ call.at = "settle" /\ Prompt
  /\ call' = [call EXCEPT !.at = "clean"]
  /\ UNCHANGED <<dbVars, disk, farVars>>

SettleCut ==
  /\ call.at = "settle"
  /\ Noted(call.id, call.rec)
  /\ call' = Idle
  /\ UNCHANGED <<dbVars, farVars>>

\* cleanKeys; with an error some of the keys may be gone and the deletion is not done.
CleanKeys ==
  /\ call.at = "clean"
  /\ keys' = keys \ call.keys
  /\ call' = [call EXCEPT !.at = "watch"]
  /\ UNCHANGED <<dbVars, disk, news, coll, inbox>>

CleanFails ==
  /\ call.at \in {"clean", "watch"}
  /\ \E gone \in SUBSET call.keys : keys' = keys \ gone
  /\ Noted(call.id, [call.rec EXCEPT !.done = FALSE])
  /\ call' = Idle
  /\ UNCHANGED <<dbVars, news, coll, inbox>>

Back == call.keys \cap keys

\* A key that came back is deleted once more.
BackOnce ==
  /\ call.at = "watch" /\ Back # {} /\ ~call.again
  /\ keys' = keys \ Back
  /\ call' = [call EXCEPT !.again = TRUE]
  /\ UNCHANGED <<dbVars, disk, news, coll, inbox>>

\* It came back twice, or the window is over: cleanRecordKeys writes down what is left.
CleanEnds ==
  /\ Noted(call.id, [call.rec EXCEPT !.done = (Back = {})])
  /\ call' = Idle
  /\ UNCHANGED <<dbVars, farVars>>

BackTwice == call.at = "watch" /\ Back # {} /\ call.again /\ CleanEnds
WatchOver == call.at = "watch" /\ Prompt /\ CleanEnds

-----------------------------------------------------------------------------
(* Resuming.                                                               *)

\* recordCommitted: one row as the record wanted it is enough.
Happened(rec) ==
  IF rec.kind = "rename" THEN \E i \in rec.items : name[i] = rec.to
  ELSE IF rec.devs # {} THEN \E d \in rec.devs : <<"device", d>> \notin rows
  ELSE ~group

Settled(rec) == [rec EXCEPT !.committed = TRUE]

\* refreshDeviceUpdated: a DEVICE_UPDATED, the last notice where there is one, is cut
\* to the devices that are left.
Refreshed(rec) ==
  IF rec.sent < Len(rec.msgs) /\ Last(rec.msgs).type = "DEVICES"
  THEN [rec EXCEPT !.msgs = Front(@) \o IfAny("DEVICES", Last(@).devs \cap LiveDevs)]
  ELSE rec

\* resumeRecord of a record whose transaction did not take place.
Close(o) ==
  /\ call.at = "idle" /\ Unsettled(o) /\ ~Happened(disk[o])
  /\ Noted(o, [disk[o] EXCEPT !.done = TRUE])
  /\ UNCHANGED <<dbVars, call, farVars>>

Resumed(o) ==
  LET rec == IF disk[o].committed THEN disk[o] ELSE Settled(disk[o])
  IN IF rec.kind = "rename" THEN Refreshed(rec) ELSE rec

Resumes(o) ==
  /\ call.at = "idle" /\ disk[o] # None
  /\ disk[o].committed \/ (Unsettled(o) /\ Happened(disk[o]))

\* ManageResend
Resend(o) ==
  /\ Resumes(o) /\ ~disk[o].done
  /\ Noted(o, Resumed(o))
  /\ call' = [Idle EXCEPT !.at = "send", !.id = o, !.rec = Resumed(o)]
  /\ UNCHANGED <<dbVars, farVars>>

\* ManageRedisRetry: the keys of what the tables hold as deleted now.
RedisRetry(o) ==
  LET rec == Resumed(o) IN
  /\ Resumes(o) /\ rec.kind = "delete" /\ rec.sent = Len(rec.msgs)
  /\ Noted(o, rec)
  /\ call' = [Idle EXCEPT !.at = "clean", !.id = o, !.rec = rec, !.keys = rec.devs \ PointsOf(rec.devs)]
  /\ UNCHANGED <<dbVars, farVars>>

\* The app dies: an open transaction is rolled back, sessions are gone.
Crash ==
  /\ call' = Idle
  /\ UNCHANGED <<dbVars, disk, farVars>>

-----------------------------------------------------------------------------
(* The console and the collector.                                          *)

\* The transaction at work has locked its rows.
Unlocked == call.at # "commit" /\ others < MaxOthers

\* Only rows that some rename here is about.
OthersRename(i, to) ==
  /\ i \in rows \cap UNION Edits /\ Unlocked /\ to # name[i]
  /\ "fooled" \in Faults \/ i \notin WatchedNames
  /\ name' = [name EXCEPT ![i] = to]
  /\ others' = others + 1
  /\ UNCHANGED <<rows, group, grouped, disk, call, farVars>>

OthersDelete(gone) ==
  /\ gone # {} /\ gone \subseteq rows /\ Unlocked
  /\ \E d \in Devs :
       /\ gone = {<<"point", d>>} \/ gone = {i \in rows : i[2] = d /\ <<"device", d>> \in rows}
       /\ "fooled" \in Faults \/ gone = {<<"point", d>>} \/ d \notin WatchedDevs
       /\ "meanwhile" \in Faults \/ ~(call.at = "send" /\ Touches(call.rec, d))
       /\ inbox' = inbox \cup {d}
       /\ news' = {n \in news : n[2] # d \/ (n[1] = "DEVICES" /\ <<"device", d>> \notin gone)}
  /\ rows' = rows \ gone
  /\ others' = others + 1
  /\ UNCHANGED <<name, group, grouped, disk, call, coll, keys>>

\* A device is moved out of the group.
OthersMove(d) ==
  /\ d \in grouped /\ Unlocked
  /\ grouped' = grouped \ {d}
  /\ others' = others + 1
  /\ UNCHANGED <<rows, name, group, disk, call, farVars>>

CollectorStops(d) ==
  /\ d \in inbox
  /\ coll' = coll \ {d} /\ inbox' = inbox \ {d}
  /\ UNCHANGED <<dbVars, disk, call, news, keys>>

CollectorWrites(d) ==
  /\ d \in coll /\ d \notin keys
  /\ keys' = keys \cup {d}
  /\ UNCHANGED <<dbVars, disk, call, news, coll, inbox>>

-----------------------------------------------------------------------------
Saga ==
  \/ Commit \/ CommitLost \/ Publish \/ PublishFails \/ RenameDone \/ DeleteNotified
  \/ SettleOver \/ SettleCut \/ CleanKeys \/ CleanFails \/ BackOnce \/ BackTwice \/ WatchOver

User ==
  \E o \in Ops :
    \/ \E items \in Edits, to \in Names : ApplyRename(o, items, to)
    \/ \E D \in SUBSET Devs, whole \in BOOLEAN : ApplyDelete(o, D, whole)
    \/ Close(o) \/ Resend(o) \/ RedisRetry(o)

World ==
  \/ Crash
  \/ \E i \in Items, to \in Names : OthersRename(i, to)
  \/ \E gone \in SUBSET Items : OthersDelete(gone)
  \/ \E d \in Devs : OthersMove(d) \/ CollectorStops(d) \/ CollectorWrites(d)

Next == Saga \/ User \/ World

Spec == Init /\ [][Next]_vars
-----------------------------------------------------------------------------
(* Properties.                                                             *)

RecordOK(rec) ==
  /\ rec \in RecordSet /\ rec.points \subseteq rec.devs
  /\ rec.sent <= Len(rec.msgs)
  /\ rec.sent > 0 => rec.committed

\* Types; and no record, on disk or at work, counts a notice as sent before it says
\* that its transaction took place.
TypeOK ==
  /\ rows \subseteq Items /\ name \in [Items -> Names] /\ group \in BOOLEAN
  /\ others \in 0 .. MaxOthers
  /\ {grouped, coll, inbox, keys} \subseteq SUBSET Devs
  /\ \A o \in Ops : disk[o] # None => RecordOK(disk[o])
  /\ call.at \in {"idle", "commit", "send", "settle", "clean", "watch"}
  /\ call.at # "idle" => call.id \in Ops /\ RecordOK(call.rec)
  /\ call.keys \subseteq Devs /\ call.again \in BOOLEAN

Pending(o) ==
  IF disk[o] = None \/ disk[o].done THEN {}
  ELSE UNION {Covers(disk[o].msgs[i]) : i \in disk[o].sent + 1 .. Len(disk[o].msgs)}

\* A committed change the collector has not been told of has an unfinished record on
\* disk with the notice unsent, through crashes, failed saves, lost COMMITs, lost
\* answers of the broker and deletions by others in between.
ToldOrPending == news \subseteq UNION {Pending(o) : o \in Ops}

\* Only values of checkpoints that are deleted in the database are removed from Redis.
LiveValuesKept == [][\A d \in keys \ keys' : <<"point", d>> \notin rows]_vars

\* A deletion that is done stays done: the values it was to remove do not come back.
GoneForGood ==
  \A o \in Ops :
    disk[o] # None /\ disk[o].kind = "delete" /\ disk[o].done /\ disk[o].committed =>
      disk[o].points \cap keys = {}
=============================================================================
