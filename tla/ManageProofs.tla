---------------------------- MODULE ManageProofs ----------------------------
(***************************************************************************)
(* Proofs about Manage, for any devices, names, operations and edits, as   *)
(* long as the rows of a record whose COMMIT is unknown are left alone     *)
(* until it is resumed: values of checkpoints that exist are never removed *)
(* from Redis; and, if the collector applies a notice within the waits of  *)
(* a deletion, those of deleted ones do not come back.                     *)
(*                                                                         *)
(* The argument.  Rows are only ever deleted, so that what is gone stays   *)
(* gone.  A record that says committed is about rows that are gone.  Of a  *)
(* record that does not, either every device is there or nothing of any,   *)
(* because no other change reaches them; one missing device then shows     *)
(* that the transaction took place (recordCommitted).  The notice of a     *)
(* deletion comes first in its record; once it is sent, the collector has  *)
(* it before it or has applied it, and never collects those devices again. *)
(*                                                                         *)
(* What a change still owes.  Whatever the collector does not know of the  *)
(* tables is owed by some record that is not done with, or lies in a       *)
(* notice on its way.  A record owes what its rename or deletion can still *)
(* be seen to have done: a row that a later rename took over is that one's *)
(* to tell.  It owes it until its notices are sent, because the last of    *)
(* them is drawn up from the tables as they are then (Refreshed).          *)
(***************************************************************************)
EXTENDS Manage, TLAPS

Gone(D) == \A d \in D : <<"point", d>> \notin rows

\* The fields of a record; notices and their count may be any.
Shape(r) ==
  r \in [kind : {"rename", "delete"}, items : {r.items}, to : {r.to}, devs : SUBSET Devs,
         points : SUBSET Devs, whole : {r.whole}, msgs : {r.msgs}, sent : {r.sent},
         committed : BOOLEAN, done : BOOLEAN]

Sound(r) ==
  /\ Shape(r) /\ r.points \subseteq r.devs
  /\ r.kind = "rename" => r.devs = {}
  /\ r.committed = TRUE => Gone(r.points)

Open(r) == r # None /\ r.committed = FALSE /\ r.done = FALSE

Entire(r) == (\A d \in r.devs : <<"device", d>> \in rows) \/ Gone(r.devs)

Records ==
  /\ disk = [o \in Ops |-> disk[o]]
  /\ \A o \in Ops : /\ disk[o] # None => Sound(disk[o])
                    /\ Open(disk[o]) => Entire(disk[o])

Apart(o, D) == \A p \in Ops \ {o} : Open(disk[p]) => disk[p].devs \cap D = {}

Disjoint == \A o \in Ops : Open(disk[o]) => Apart(o, disk[o].devs)

Job ==
  /\ call \in [at : {"idle", "commit", "send", "settle", "clean", "watch"}, id : {call.id},
               rec : {call.rec}, keys : SUBSET Devs, again : BOOLEAN]
  /\ call.at # "idle" => call.id \in Ops /\ Sound(call.rec)
  /\ call.at = "commit" => /\ disk[call.id] = call.rec /\ call.rec.committed = FALSE
                           /\ Apart(call.id, call.rec.devs)
  /\ call.at \notin {"idle", "commit"} => call.rec.committed = TRUE
  /\ call.at \in {"settle", "clean", "watch"} => Gone(call.keys)

ManageInv == Records /\ Disjoint /\ Job

-----------------------------------------------------------------------------
LEMMA GoneStays == ASSUME rows' \subseteq rows, NEW D, Gone(D) PROVE Gone(D)'
BY DEF Gone

LEMMA SoundStays == ASSUME rows' \subseteq rows, NEW r, Sound(r) PROVE Sound(r)'
BY DEF Sound, Gone, Shape

\* What may be written into a record without touching what it is about.
LEMMA Rewritten ==
  ASSUME NEW r, Sound(r), NEW x, NEW b \in BOOLEAN
  PROVE  /\ Sound([r EXCEPT !.done = b]) /\ [r EXCEPT !.done = b].committed = r.committed
         /\ [r EXCEPT !.done = b].done = b
         /\ Sound([r EXCEPT !.sent = x]) /\ [r EXCEPT !.sent = x].committed = r.committed
         /\ Sound([r EXCEPT !.msgs = x]) /\ [r EXCEPT !.msgs = x].committed = r.committed
         /\ Gone(r.points) => Sound([r EXCEPT !.committed = TRUE])
         /\ [r EXCEPT !.committed = TRUE].committed = TRUE
<1>1. Shape([r EXCEPT !.done = b]) /\ Shape([r EXCEPT !.sent = x]) /\ Shape([r EXCEPT !.msgs = x])
      /\ Shape([r EXCEPT !.committed = TRUE])
  BY DEF Sound, Shape
<1>2. /\ [r EXCEPT !.done = b].committed = r.committed /\ [r EXCEPT !.done = b].done = b
      /\ [r EXCEPT !.done = b].devs = r.devs /\ [r EXCEPT !.done = b].points = r.points
      /\ [r EXCEPT !.done = b].kind = r.kind
  BY DEF Sound, Shape
<1>3. /\ [r EXCEPT !.sent = x].committed = r.committed
      /\ [r EXCEPT !.sent = x].devs = r.devs /\ [r EXCEPT !.sent = x].points = r.points
      /\ [r EXCEPT !.sent = x].kind = r.kind
  BY DEF Sound, Shape
<1>4. /\ [r EXCEPT !.msgs = x].committed = r.committed
      /\ [r EXCEPT !.msgs = x].devs = r.devs /\ [r EXCEPT !.msgs = x].points = r.points
      /\ [r EXCEPT !.msgs = x].kind = r.kind
  BY DEF Sound, Shape
<1>5. /\ [r EXCEPT !.committed = TRUE].committed = TRUE
      /\ [r EXCEPT !.committed = TRUE].devs = r.devs /\ [r EXCEPT !.committed = TRUE].points = r.points
      /\ [r EXCEPT !.committed = TRUE].kind = r.kind
  BY DEF Sound, Shape
<1> QED
  BY <1>1, <1>2, <1>3, <1>4, <1>5 DEF Sound


EntireStays ==
  \A p \in Ops : Open(disk[p]) => \/ \A d \in disk[p].devs : <<"device", d>> \in rows'
                                  \/ \A d \in disk[p].devs : <<"point", d>> \notin rows'

LEMMA EntireSame == ASSUME ManageInv, UNCHANGED rows PROVE EntireStays
BY DEF ManageInv, Records, Entire, Gone, EntireStays

\* A record that is noted is settled, and the others stay as they are.
LEMMA NotedKeeps ==
  ASSUME ManageInv, rows' \subseteq rows, EntireStays, NEW o \in Ops, NEW r, Noted(o, r),
         Sound(r)', r.committed = TRUE \/ r.done = TRUE
  PROVE  Records' /\ Disjoint'
<1>1. ~Open(r)
  BY DEF Open
<1>2. disk' = disk \/ (disk' = [p \in Ops |-> disk'[p]] /\ disk'[o] = r
                        /\ \A p \in Ops \ {o} : disk'[p] = disk[p])
  BY DEF Noted, ManageInv, Records
<1>3. disk' = [p \in Ops |-> disk'[p]] /\ \A p \in Ops : disk'[p] = disk[p] \/ disk'[p] = r
  BY <1>2 DEF ManageInv, Records
<1>4. ASSUME NEW p \in Ops, disk'[p] # None PROVE Sound(disk[p])' 
  <2>1. PICK q : q = disk[p]
    OBVIOUS
  <2>2. q # None => Sound(q)'
    BY <2>1, SoundStays DEF ManageInv, Records
  <2> QED
    BY <1>3, <1>4, <2>1, <2>2 DEF Sound, Gone, Shape
<1>5. \A p \in Ops : Open(disk'[p]) => disk'[p] = disk[p]
  BY <1>1, <1>3
<1>6. ASSUME NEW p \in Ops, Open(disk'[p]) PROVE Entire(disk[p])'
  BY <1>5, <1>6 DEF EntireStays, Entire, Gone
<1>7. Records'
  BY <1>3, <1>4, <1>6 DEF Records, Open
<1>8. Disjoint'
  BY <1>5 DEF ManageInv, Disjoint, Apart, Open
<1> QED
  BY <1>7, <1>8

LEMMA RowsKeep ==
  ASSUME ManageInv, rows' \subseteq rows, EntireStays, UNCHANGED disk
  PROVE  Records' /\ Disjoint'
<1>1. ASSUME NEW p \in Ops, disk[p] # None PROVE Sound(disk[p])'
  <2>1. PICK q : q = disk[p]
    OBVIOUS
  <2>2. Sound(q)'
    BY <1>1, <2>1, SoundStays DEF ManageInv, Records
  <2> QED
    BY <2>1, <2>2 DEF Sound, Gone, Shape
<1>2. Records'
  BY <1>1 DEF ManageInv, Records, EntireStays, Entire, Gone, Open
<1>3. Disjoint'
  BY DEF ManageInv, Disjoint, Apart, Open
<1> QED
  BY <1>2, <1>3

LEMMA JobEnds == ASSUME call' = Idle PROVE Job'
BY DEF Job, Idle

\* The call goes on after its COMMIT.
LEMMA JobGoes ==
  ASSUME NEW at \in {"send", "settle", "clean", "watch"}, NEW o \in Ops, NEW r, NEW ks \in SUBSET Devs,
         NEW again \in BOOLEAN, Sound(r)', r.committed = TRUE,
         at # "send" => \A d \in ks : <<"point", d>> \notin rows',
         call' = [at |-> at, id |-> o, rec |-> r, keys |-> ks, again |-> again]
  PROVE  Job'
<1>1. call'.at = at /\ call'.id = o /\ call'.rec = r /\ call'.keys = ks /\ call'.again = again
  OBVIOUS
<1>2. call' \in [at : {"idle", "commit", "send", "settle", "clean", "watch"}, id : {call'.id},
                 rec : {call'.rec}, keys : SUBSET Devs, again : BOOLEAN]
  BY <1>1
<1>3. Sound(call.rec)'
  BY <1>1 DEF Sound, Gone, Shape
<1> QED
  BY <1>1, <1>2, <1>3 DEF Job, Gone

\* The call stays as it is and so do its record and the others'.
LEMMA JobStays ==
  ASSUME ManageInv, rows' \subseteq rows, UNCHANGED <<call, disk>> PROVE Job'
<1>1. PICK r, ks : r = call.rec /\ ks = call.keys
  OBVIOUS
<1>2. (Sound(r) => Sound(r)') /\ (Gone(ks) => Gone(ks)')
  BY SoundStays, GoneStays
<1>3. (Sound(call.rec) => Sound(call.rec)') /\ (Gone(call.keys) => Gone(call.keys)')
  BY <1>1, <1>2 DEF Sound, Gone, Shape
<1> QED
  BY <1>3 DEF ManageInv, Job, Apart, Open

LEMMA CallIs ==
  ASSUME Job
  PROVE  /\ call = [at |-> call.at, id |-> call.id, rec |-> call.rec, keys |-> call.keys,
                    again |-> call.again]
         /\ call.keys \in SUBSET Devs /\ call.again \in BOOLEAN
BY DEF Job

-----------------------------------------------------------------------------
(* The transaction.                                                        *)

LEMMA BegunInv ==
  ASSUME ManageInv, NEW o \in Ops, NEW r, Sound(r), r.committed = FALSE, r.done = FALSE, Begun(o, r),
         \A d \in r.devs : <<"device", d>> \in rows,
         \A p \in Ops : Open(disk[p]) => disk[p].devs \cap r.devs = {}
  PROVE  ManageInv'
<1>1. UNCHANGED rows /\ disk[o] = None /\ call' = [Idle EXCEPT !.at = "commit", !.id = o, !.rec = r]
  BY DEF Begun, dbVars
<1>2. disk' = [p \in Ops |-> disk'[p]] /\ disk'[o] = r /\ \A p \in Ops \ {o} : disk'[p] = disk[p]
  BY DEF Begun, ManageInv, Records
<1>3. Sound(r)' /\ Entire(r)'
  BY <1>1 DEF Sound, Gone, Shape, Entire
<1>4. ASSUME NEW p \in Ops
      PROVE  (disk'[p] # None => Sound(disk[p])') /\ (Open(disk'[p]) => Entire(disk[p])')
  BY <1>1, <1>2, <1>3 DEF ManageInv, Records, Sound, Shape, Gone, Entire
<1>5. Records'
  BY <1>2, <1>4 DEF Records, Open
<1>6. Disjoint'
  BY <1>2 DEF ManageInv, Disjoint, Apart, Open
<1>7. call'.at = "commit" /\ call'.id = o /\ call'.rec = r /\ call'.keys = {} /\ call'.again = FALSE
  BY <1>1 DEF Idle
<1>8. call' \in [at : {"idle", "commit", "send", "settle", "clean", "watch"}, id : {call'.id},
                 rec : {call'.rec}, keys : SUBSET Devs, again : BOOLEAN]
  BY <1>1 DEF Idle
<1>9. Sound(call.rec)' /\ Apart(call.id, call.rec.devs)'
  BY <1>2, <1>3, <1>7 DEF Sound, Gone, Shape, Apart, Open
<1>10. Job'
  BY <1>2, <1>7, <1>8, <1>9 DEF Job
<1> QED
  BY <1>5, <1>6, <1>10 DEF ManageInv

\* What a COMMIT that took place leaves.
LEMMA WriteIs ==
  ASSUME NEW r, Shape(r), r.kind = "rename" => r.devs = {}, Write(r)
  PROVE  /\ rows' \subseteq rows
         /\ \A d \in r.devs : <<"point", d>> \notin rows'
         /\ \A d \in Devs \ r.devs : <<"device", d>> \in rows => <<"device", d>> \in rows'
BY DEF Write, Renames, Deletes, Shape

LEMMA CommitEntire ==
  ASSUME ManageInv, call.at = "commit", NEW r, Shape(r), r.kind = "rename" => r.devs = {},
         r.devs = call.rec.devs, Write(r)
  PROVE  EntireStays
<1>1. call.id \in Ops /\ disk[call.id] = call.rec /\ Apart(call.id, call.rec.devs)
  BY DEF ManageInv, Job
<1>2. /\ rows' \subseteq rows
      /\ \A d \in r.devs : <<"point", d>> \notin rows'
      /\ \A d \in Devs \ r.devs : <<"device", d>> \in rows => <<"device", d>> \in rows'
  BY WriteIs
<1>3. ASSUME NEW p \in Ops \ {call.id}, Open(disk[p])
      PROVE  \/ \A d \in disk[p].devs : <<"device", d>> \in rows'
             \/ \A d \in disk[p].devs : <<"point", d>> \notin rows'
  <2>1. disk[p].devs \cap r.devs = {} /\ disk[p].devs \subseteq Devs /\ Entire(disk[p])
    BY <1>1, <1>3 DEF Apart, ManageInv, Records, Sound, Shape, Open
  <2> QED
    BY <1>2, <2>1 DEF Entire, Gone
<1> QED
  BY <1>1, <1>2, <1>3 DEF EntireStays

LEMMA CommitInv == ASSUME ManageInv, Commit \/ CommitLost PROVE ManageInv'
<1>1. Job /\ call.at = "commit"
  BY DEF ManageInv, Commit, CommitLost
<1>2. call.id \in Ops /\ Sound(call.rec)
  BY <1>1 DEF Job
<1>3. CASE CommitLost
  <2>1. call' = Idle /\ UNCHANGED disk /\ (Write(call.rec) \/ UNCHANGED rows)
    BY <1>3 DEF CommitLost, dbVars
  <2>2. rows' \subseteq rows /\ EntireStays
    <3>1. PICK r : r = call.rec
      OBVIOUS
    <3> QED
      BY <1>1, <1>2, <2>1, <3>1, CommitEntire, WriteIs, EntireSame DEF Sound
  <2> QED
    BY <2>1, <2>2, RowsKeep, JobEnds DEF ManageInv
<1>4. CASE Commit
  <2>1. PICK r : r = [call.rec EXCEPT !.committed = TRUE]
    OBVIOUS
  <2>2. Shape(r) /\ r.devs = call.rec.devs /\ r.committed = TRUE /\ r.points \subseteq r.devs
        /\ (r.kind = "rename" => r.devs = {})
    BY <1>2, <2>1 DEF Sound, Shape
  <2>3. Write(r) /\ Noted(call.id, r) /\ call' = [call EXCEPT !.at = "send", !.rec = r]
    BY <1>4, <2>1 DEF Commit
  <2>4. rows' \subseteq rows /\ EntireStays /\ \A d \in r.devs : <<"point", d>> \notin rows'
    BY <1>1, <2>2, <2>3, WriteIs, CommitEntire
  <2>5. Sound(r)'
    BY <2>2, <2>4 DEF Sound, Gone, Shape
  <2>6. Records' /\ Disjoint'
    BY <1>2, <2>2, <2>3, <2>4, <2>5, NotedKeeps
  <2>7. call' = [at |-> "send", id |-> call.id, rec |-> r, keys |-> call.keys, again |-> call.again]
    BY <1>1, <2>3, CallIs
  <2>8. Job'
    BY <1>1, <1>2, <2>2, <2>5, <2>7, CallIs, JobGoes
  <2> QED
    BY <2>6, <2>8 DEF ManageInv
<1> QED
  BY <1>3, <1>4 DEF Commit, CommitLost

LEMMA ApplyInv ==
  ASSUME ManageInv, "fooled" \notin Faults, NEW o \in Ops,
         \/ \E items \in Edits, to \in Names : ApplyRename(o, items, to)
         \/ \E D \in SUBSET Devs, whole \in BOOLEAN : ApplyDelete(o, D, whole)
  PROVE  ManageInv'
<1>1. ASSUME NEW items \in Edits, NEW to \in Names, ApplyRename(o, items, to) PROVE ManageInv'
  <2>1. PICK msgs, r : msgs = RenameNotices(items) /\ r = Record("rename", items, to, {}, FALSE, msgs)
    OBVIOUS
  <2>2. Sound(r) /\ r.committed = FALSE /\ r.done = FALSE /\ r.devs = {}
    BY <2>1 DEF Record, Sound, Shape, PointsOf
  <2>3. Begun(o, r)
    BY <1>1, <2>1 DEF ApplyRename
  <2> QED
    BY <2>2, <2>3, BegunInv
<1>2. ASSUME NEW D \in SUBSET Devs, NEW whole \in BOOLEAN, ApplyDelete(o, D, whole) PROVE ManageInv'
  <2>1. PICK msgs, r : msgs = DeleteNotices(D) /\ r = Record("delete", {}, None, D, whole, msgs)
    OBVIOUS
  <2>2. Sound(r) /\ r.committed = FALSE /\ r.done = FALSE /\ r.devs = D
    BY <2>1 DEF Record, Sound, Shape, PointsOf
  <2>3. Begun(o, r)
    BY <1>2, <2>1 DEF ApplyDelete
  <2>4. \A d \in D : <<"device", d>> \in rows
    BY <1>2 DEF ApplyDelete, Deletable, LiveDevs
  <2>5. ASSUME NEW p \in Ops, Open(disk[p]) PROVE disk[p].devs \cap D = {}
    <3>1. Unsettled(p)
      BY <2>5 DEF Open, Unsettled
    <3>2. D \cap WatchedDevs = {}
      BY <1>2 DEF ApplyDelete
    <3> QED
      BY <3>1, <3>2 DEF WatchedDevs
  <2> QED
    BY <2>2, <2>3, <2>4, <2>5, BegunInv
<1> QED
  BY <1>1, <1>2

-----------------------------------------------------------------------------
(* Notices, values and resuming.                                           *)

\* The call ends and notes a record.
LEMMA NotedEnds ==
  ASSUME ManageInv, UNCHANGED rows, NEW o \in Ops, NEW r, Noted(o, r), Sound(r),
         r.committed = TRUE \/ r.done = TRUE, call' = Idle
  PROVE  ManageInv'
<1>1. Sound(r)'
  BY SoundStays
<1> QED
  BY <1>1, EntireSame, NotedKeeps, JobEnds DEF ManageInv

\* The call goes on with a record, which it may note.
LEMMA NotedGoes ==
  ASSUME ManageInv, UNCHANGED rows, NEW o \in Ops, NEW r, Noted(o, r) \/ UNCHANGED disk, Sound(r),
         r.committed = TRUE, NEW at \in {"send", "settle", "clean", "watch"}, NEW ks \in SUBSET Devs,
         NEW again \in BOOLEAN, at # "send" => Gone(ks),
         call' = [at |-> at, id |-> o, rec |-> r, keys |-> ks, again |-> again]
  PROVE  ManageInv'
<1>1. Sound(r)'
  BY SoundStays
<1>2. Job'
  BY <1>1, JobGoes DEF Gone
<1> QED
  BY <1>1, <1>2, EntireSame, NotedKeeps, RowsKeep DEF ManageInv

LEMMA SagaInv == ASSUME ManageInv, Saga PROVE ManageInv'
<1>0. Job
  BY DEF ManageInv
<1>1. CASE Commit \/ CommitLost
  BY <1>1, CommitInv
<1> SUFFICES ASSUME ~(Commit \/ CommitLost) PROVE ManageInv'
  BY <1>1
<1>2. UNCHANGED rows /\ call.at \in {"send", "settle", "clean", "watch"}
  BY <1>0 DEF Saga, Publish, PublishFails, RenameDone, DeleteNotified, SettleOver, SettleCut,
     CleanKeys, CleanFails, BackOnce, BackTwice, WatchOver, CleanEnds, Unsent, AllSent, dbVars
<1>3. PICK r, o, ks : r = call.rec /\ o = call.id /\ ks = call.keys
  OBVIOUS
<1>4. Sound(r) /\ r.committed = TRUE /\ o \in Ops /\ ks \in SUBSET Devs /\ call.again \in BOOLEAN
      /\ (call.at # "send" => Gone(ks))
  BY <1>0, <1>2, <1>3 DEF Job
<1>5. /\ \A b \in BOOLEAN : Sound([r EXCEPT !.done = b]) /\ [r EXCEPT !.done = b].committed = TRUE
      /\ Sound([r EXCEPT !.sent = r.sent + 1]) /\ [r EXCEPT !.sent = r.sent + 1].committed = TRUE
  BY <1>4, Rewritten
<1>6. CASE Publish
  <2>1. PICK q : q = [r EXCEPT !.sent = r.sent + 1]
    OBVIOUS
  <2>2. call' = [at |-> "send", id |-> o, rec |-> q, keys |-> ks, again |-> call.again]
    BY <1>0, <1>3, <1>6, <2>1, CallIs DEF Publish, Unsent
  <2>3. Sound(q) /\ q.committed = TRUE /\ UNCHANGED disk
    BY <1>5, <1>6, <2>1 DEF Publish
  <2> QED
    BY <1>2, <1>4, <2>2, <2>3, NotedGoes
<1>7. CASE PublishFails \/ RenameDone \/ SettleCut \/ CleanFails \/ BackTwice \/ WatchOver
  <2>1. call' = Idle
    BY <1>7 DEF PublishFails, RenameDone, SettleCut, CleanFails, BackTwice, WatchOver, CleanEnds
  <2>2. Noted(o, r) \/ \E b \in BOOLEAN : Noted(o, [r EXCEPT !.done = b])
    BY <1>3, <1>7 DEF PublishFails, RenameDone, SettleCut, CleanFails, BackTwice, WatchOver, CleanEnds
  <2> QED
    BY <1>2, <1>4, <1>5, <2>1, <2>2, NotedEnds
<1>8. CASE DeleteNotified
  <2>1. call' = [at |-> "settle", id |-> o, rec |-> r, keys |-> r.points, again |-> call.again]
    BY <1>0, <1>3, <1>8, CallIs DEF DeleteNotified
  <2>2. r.points \in SUBSET Devs /\ Gone(r.points)
    BY <1>4 DEF Sound, Shape
  <2> QED
    BY <1>2, <1>3, <1>4, <1>8, <2>1, <2>2, NotedGoes DEF DeleteNotified
<1>9. CASE SettleOver
  <2>1. call' = [at |-> "clean", id |-> o, rec |-> r, keys |-> ks, again |-> call.again]
    BY <1>0, <1>3, <1>9, CallIs DEF SettleOver
  <2>2. UNCHANGED disk /\ Gone(ks)
    BY <1>4, <1>9 DEF SettleOver
  <2> QED
    BY <1>2, <1>4, <2>1, <2>2, NotedGoes
<1>10. CASE CleanKeys
  <2>1. call' = [at |-> "watch", id |-> o, rec |-> r, keys |-> ks, again |-> call.again]
    BY <1>0, <1>3, <1>10, CallIs DEF CleanKeys
  <2>2. UNCHANGED disk /\ Gone(ks)
    BY <1>4, <1>10 DEF CleanKeys
  <2> QED
    BY <1>2, <1>4, <2>1, <2>2, NotedGoes
<1>11. CASE BackOnce
  <2>1. call' = [at |-> "watch", id |-> o, rec |-> r, keys |-> ks, again |-> TRUE]
    BY <1>0, <1>3, <1>11, CallIs DEF BackOnce
  <2>2. UNCHANGED disk /\ Gone(ks)
    BY <1>4, <1>11 DEF BackOnce
  <2> QED
    BY <1>2, <1>4, <2>1, <2>2, NotedGoes
<1> QED
  BY <1>6, <1>7, <1>8, <1>9, <1>10, <1>11 DEF Saga

\* A record is taken up again only if what it deletes is gone.
LEMMA ResumedIs ==
  ASSUME ManageInv, NEW o \in Ops, Resumes(o)
  PROVE  Sound(Resumed(o)) /\ Resumed(o).committed = TRUE
<1>1. PICK r : r = disk[o]
  OBVIOUS
<1>2. Sound(r)
  BY <1>1 DEF ManageInv, Records, Resumes
<1>3. PICK s : s = IF r.committed THEN r ELSE Settled(r)
  OBVIOUS
<1>4. Sound(s) /\ s.committed = TRUE
  <2>1. CASE r.committed = TRUE
    BY <1>2, <1>3, <2>1
  <2>2. CASE r.committed = FALSE
    <3>1. Open(r) /\ Entire(r) /\ Happened(r)
      BY <1>1, <1>2, <2>2 DEF Resumes, Unsettled, Open, ManageInv, Records, Sound, Shape
    <3>2. r.kind \in {"rename", "delete"} /\ r.points \subseteq r.devs
      BY <1>2 DEF Sound, Shape
    <3>3. Gone(r.points)
      <4>1. CASE r.devs = {}
        BY <3>2, <4>1 DEF Gone
      <4>2. CASE r.devs # {}
        BY <1>2, <3>1, <3>2, <4>2, ZenonT(40) DEF Happened, Entire, Gone, Sound
      <4> QED
        BY <4>1, <4>2
    <3> QED
      BY <1>2, <1>3, <2>2, <3>3, Rewritten DEF Settled
  <2> QED
    BY <1>2, <2>1, <2>2 DEF Sound, Shape
<1>5. Resumed(o) = s \/ \E x : Resumed(o) = [s EXCEPT !.msgs = x]
  BY <1>1, <1>3 DEF Resumed, Refreshed
<1>6. ASSUME NEW x, Resumed(o) = [s EXCEPT !.msgs = x]
      PROVE  Sound(Resumed(o)) /\ Resumed(o).committed = TRUE
  <2>1. Sound([s EXCEPT !.msgs = x]) /\ [s EXCEPT !.msgs = x].committed = s.committed
    BY <1>4, Rewritten
  <2> QED
    BY <1>4, <1>6, <2>1
<1> QED
  BY <1>4, <1>5, <1>6

LEMMA ResumeInv ==
  ASSUME ManageInv, NEW o \in Ops, Close(o) \/ Resend(o) \/ RedisRetry(o)
  PROVE  ManageInv'
<1>1. CASE Close(o)
  <2>1. PICK r : r = disk[o]
    OBVIOUS
  <2>2. Sound(r) /\ UNCHANGED <<rows, call>> /\ call.at = "idle" /\ Noted(o, [r EXCEPT !.done = TRUE])
    BY <1>1, <2>1 DEF Close, dbVars, Unsettled, ManageInv, Records
  <2>3. Sound([r EXCEPT !.done = TRUE]) /\ [r EXCEPT !.done = TRUE].done = TRUE
    BY <2>2, Rewritten
  <2>4. Sound([r EXCEPT !.done = TRUE])'
    BY <2>2, <2>3, SoundStays
  <2>5. Records' /\ Disjoint'
    BY <2>2, <2>3, <2>4, EntireSame, NotedKeeps
  <2>6. Job'
    BY <2>2 DEF ManageInv, Job
  <2> QED
    BY <2>5, <2>6 DEF ManageInv
<1>2. PICK r : r = Resumed(o)
  OBVIOUS
<1>3. CASE Resend(o)
  <2>1. Sound(r) /\ r.committed = TRUE /\ Noted(o, r) /\ UNCHANGED rows
    BY <1>2, <1>3, ResumedIs DEF Resend, dbVars
  <2>2. call' = [at |-> "send", id |-> o, rec |-> r, keys |-> {}, again |-> FALSE]
    BY <1>2, <1>3 DEF Resend, Idle
  <2> QED
    BY <2>1, <2>2, NotedGoes
<1>4. CASE RedisRetry(o)
  <2>1. Sound(r) /\ r.committed = TRUE /\ Noted(o, r) /\ UNCHANGED rows
    BY <1>2, <1>4, ResumedIs DEF RedisRetry, dbVars
  <2>2. PICK ks : ks = r.devs \ PointsOf(r.devs)
    OBVIOUS
  <2>3. call' = [at |-> "clean", id |-> o, rec |-> r, keys |-> ks, again |-> FALSE]
    BY <1>2, <1>4, <2>2 DEF RedisRetry, Idle
  <2>4. ks \in SUBSET Devs /\ Gone(ks)
    BY <2>1, <2>2 DEF Sound, Shape, PointsOf, Gone
  <2> QED
    BY <2>1, <2>3, <2>4, NotedGoes
<1> QED
  BY <1>1, <1>3, <1>4

-----------------------------------------------------------------------------
(* Everybody else, and the theorem.                                        *)

LEMMA WorldInv == ASSUME ManageInv, "fooled" \notin Faults, World PROVE ManageInv'
<1>1. CASE Crash
  <2>1. UNCHANGED <<rows, disk>> /\ call' = Idle
    BY <1>1 DEF Crash, dbVars
  <2> QED
    BY <2>1, EntireSame, RowsKeep, JobEnds DEF ManageInv
<1>2. ASSUME NEW gone \in SUBSET Items, OthersDelete(gone) PROVE ManageInv'
  <2>1. PICK d \in Devs :
          /\ gone = {<<"point", d>>} \/ gone = {i \in rows : i[2] = d /\ <<"device", d>> \in rows}
          /\ gone = {<<"point", d>>} \/ d \notin WatchedDevs
    BY <1>2 DEF OthersDelete
  <2>2. rows' = rows \ gone /\ UNCHANGED <<disk, call>>
    BY <1>2 DEF OthersDelete
  <2>3. ASSUME NEW p \in Ops, Open(disk[p])
        PROVE  \/ \A e \in disk[p].devs : <<"device", e>> \in rows'
               \/ \A e \in disk[p].devs : <<"point", e>> \notin rows'
    <3>1. Entire(disk[p]) /\ Unsettled(p)
      BY <2>3 DEF ManageInv, Records, Open, Unsettled
    <3>2. CASE gone = {<<"point", d>>}
      BY <2>2, <3>1, <3>2 DEF Entire, Gone
    <3>3. CASE gone = {i \in rows : i[2] = d /\ <<"device", d>> \in rows} /\ d \notin WatchedDevs
      <4>1. d \notin disk[p].devs
        BY <3>1, <3>3 DEF WatchedDevs
      <4> QED
        BY <2>2, <3>1, <3>3, <4>1 DEF Entire, Gone
    <3> QED
      BY <2>1, <3>2, <3>3
  <2>4. rows' \subseteq rows /\ EntireStays
    BY <2>2, <2>3 DEF EntireStays
  <2> QED
    BY <2>2, <2>4, RowsKeep, JobStays DEF ManageInv
<1>3. ASSUME UNCHANGED <<rows, disk, call>> PROVE ManageInv'
  BY <1>3, EntireSame, RowsKeep, JobStays DEF ManageInv
<1> QED
  BY <1>1, <1>2, <1>3 DEF World, OthersRename, OthersMove, CollectorStops, CollectorWrites, dbVars

LEMMA ManageInit == Init => ManageInv
BY DEF Init, Idle, ManageInv, Records, Disjoint, Job, Open

LEMMA ManageStep == ASSUME "fooled" \notin Faults PROVE ManageInv /\ [Next]_vars => ManageInv'
<1> SUFFICES ASSUME ManageInv, [Next]_vars PROVE ManageInv'
  OBVIOUS
<1>1. CASE UNCHANGED vars
  <2>1. UNCHANGED <<rows, disk, call>>
    BY <1>1 DEF vars, dbVars
  <2> QED
    BY <2>1, EntireSame, RowsKeep, JobStays DEF ManageInv
<1>2. CASE User
  BY <1>2, ApplyInv, ResumeInv DEF User
<1> QED
  BY <1>1, <1>2, SagaInv, WorldInv DEF Next

\* A deletion never removes the value of a checkpoint that is in the database, whatever is
\* interrupted, resumed, repeated or changed by the console meanwhile (cleanKeys,
\* cleanRecordKeys, ManageRedisRetry, recordCommitted).
THEOREM LiveValuesStay == ASSUME "fooled" \notin Faults PROVE Spec => LiveValuesKept
<1>1. ManageInv /\ [Next]_vars => [\A d \in keys \ keys' : <<"point", d>> \notin rows]_vars
  <2> SUFFICES ASSUME ManageInv, Next, NEW d \in keys \ keys' PROVE <<"point", d>> \notin rows
    OBVIOUS
  <2>1. CASE CleanKeys \/ CleanFails \/ BackOnce
    <3>1. call.at \in {"clean", "watch"} /\ d \in call.keys
      BY <2>1 DEF CleanKeys, CleanFails, BackOnce, Back
    <3> QED
      BY <3>1 DEF ManageInv, Job, Gone
  <2>2. ASSUME UNCHANGED keys PROVE FALSE
    BY <2>2
  <2>3. CASE Commit \/ CommitLost
    BY <2>3, <2>2 DEF Commit, CommitLost, Write, farVars
  <2>4. CASE Publish \/ PublishFails
    BY <2>4, <2>2 DEF Publish, PublishFails, Take, farVars
  <2>5. CASE RenameDone \/ DeleteNotified \/ SettleOver \/ SettleCut \/ BackTwice \/ WatchOver
    BY <2>5, <2>2 DEF RenameDone, DeleteNotified, SettleOver, SettleCut, BackTwice, WatchOver,
       CleanEnds, farVars
  <2>6. CASE User
    BY <2>6, <2>2 DEF User, ApplyRename, ApplyDelete, Begun, Close, Resend, RedisRetry, farVars
  <2>7. CASE World
    BY <2>7, <2>2 DEF World, Crash, OthersRename, OthersDelete, OthersMove, CollectorStops,
       CollectorWrites, farVars
  <2> QED
    BY <2>1, <2>3, <2>4, <2>5, <2>6, <2>7 DEF Next, Saga
<1> QED
  BY <1>1, ManageInit, ManageStep, PTL DEF Spec, LiveValuesKept

-----------------------------------------------------------------------------
(* Deletions that are done.                                                *)

Told(D) == D \cap coll \subseteq inbox

Quiet(D, P) == D \cap coll = {} /\ P \cap keys = {}

Announced(r) ==
  r.kind = "delete" =>
    /\ r.sent \in Nat
    /\ r.devs # {} => /\ Len(r.msgs) # 0 /\ r.msgs[1].type = "DELETED" /\ r.msgs[1].devs = r.devs
                      /\ r.sent # 0 => Told(r.devs)
    /\ r.committed = TRUE /\ r.done = TRUE => Quiet(r.devs, r.points)

DoneInv ==
  /\ \A o \in Ops : disk[o] # None => Announced(disk[o])
  /\ call.at # "idle" => Announced(call.rec)
  /\ call.at = "commit" => call.rec.done = FALSE
  /\ call.at \in {"settle", "clean", "watch"} =>
       /\ call.rec.kind = "delete" /\ call.rec.points \subseteq call.keys
       /\ call.rec.devs # {} => call.rec.sent # 0

\* What no step does: give the collector a device, take one from its inbox that it still
\* collects, or bring back a value it does not collect.
Settling == coll' \subseteq coll /\ inbox \cap coll' \subseteq inbox' /\ keys' \subseteq keys \cup coll

LEMMA WorldSettles ==
  ASSUME ManageInv, Next PROVE Settling
<1>1. ASSUME UNCHANGED <<coll, inbox, keys>> PROVE Settling
  BY <1>1 DEF Settling
<1>2. CASE Commit \/ CommitLost
  BY <1>1, <1>2 DEF Commit, CommitLost, Write, farVars
<1>3. CASE Publish \/ PublishFails
  BY <1>3 DEF Publish, PublishFails, Take, farVars, Settling
<1>4. CASE CleanKeys \/ CleanFails \/ BackOnce
  BY <1>4 DEF CleanKeys, CleanFails, BackOnce, Settling
<1>5. CASE RenameDone \/ DeleteNotified \/ SettleOver \/ SettleCut \/ BackTwice \/ WatchOver
  BY <1>1, <1>5 DEF RenameDone, DeleteNotified, SettleOver, SettleCut, BackTwice, WatchOver,
     CleanEnds, farVars
<1>6. CASE User
  BY <1>1, <1>6 DEF User, ApplyRename, ApplyDelete, Begun, Close, Resend, RedisRetry, farVars
<1>7. CASE World
  BY <1>7 DEF World, Crash, OthersRename, OthersDelete, OthersMove, CollectorStops,
     CollectorWrites, farVars, Settling
<1> QED
  BY <1>2, <1>3, <1>4, <1>5, <1>6, <1>7 DEF Next, Saga

LEMMA AnnouncedStays ==
  ASSUME Settling, NEW r, Announced(r), r.points \subseteq r.devs PROVE Announced(r)'
<1>1. Told(r.devs) => Told(r.devs)'
  BY DEF Settling, Told
<1>2. Quiet(r.devs, r.points) => Quiet(r.devs, r.points)'
  BY DEF Settling, Quiet
<1> QED
  BY <1>1, <1>2 DEF Announced, Told, Quiet

\* The records on disk after one of them is noted.
LEMMA DiskAnnounced ==
  ASSUME ManageInv, DoneInv, Settling, NEW o \in Ops, NEW r, Noted(o, r) \/ UNCHANGED disk,
         Announced(r)'
  PROVE  \A p \in Ops : disk'[p] # None => Announced(disk[p])'
<1> SUFFICES ASSUME NEW p \in Ops, disk'[p] # None PROVE Announced(disk[p])'
  OBVIOUS
<1>1. disk'[p] = disk[p] \/ disk'[p] = r
  BY DEF Noted, ManageInv, Records
<1>2. CASE disk'[p] = r
  BY <1>2 DEF Announced, Told, Quiet
<1>3. CASE disk'[p] = disk[p]
  <2>1. PICK q : q = disk[p]
    OBVIOUS
  <2>2. Announced(q)'
    BY <1>3, <2>1, AnnouncedStays DEF DoneInv, ManageInv, Records, Sound
  <2> QED
    BY <1>3, <2>1, <2>2 DEF Announced, Told, Quiet
<1> QED
  BY <1>1, <1>2, <1>3

\* The call ends and may note a record.
LEMMA DoneEnds ==
  ASSUME ManageInv, DoneInv, Settling, NEW o \in Ops, NEW r, Noted(o, r), Announced(r)', call' = Idle
  PROVE  DoneInv'
BY DiskAnnounced DEF DoneInv, Idle

\* The call goes on with a record, which it may note.
LEMMA DoneGoes ==
  ASSUME ManageInv, DoneInv, Settling, NEW o \in Ops, NEW r, Noted(o, r) \/ UNCHANGED disk,
         Announced(r)', NEW at \in {"commit", "send", "settle", "clean", "watch"},
         NEW ks \in SUBSET Devs, NEW again \in BOOLEAN,
         call' = [at |-> at, id |-> o, rec |-> r, keys |-> ks, again |-> again],
         at = "commit" => r.done = FALSE,
         at \in {"settle", "clean", "watch"} =>
           r.kind = "delete" /\ r.points \subseteq ks /\ (r.devs # {} => r.sent # 0)
  PROVE  DoneInv'
<1>1. \A p \in Ops : disk'[p] # None => Announced(disk[p])'
  BY DiskAnnounced
<1>2. call'.at = at /\ call'.rec = r /\ call'.keys = ks
  OBVIOUS
<1>3. Announced(call.rec)'
  BY <1>2 DEF Announced, Told, Quiet
<1> QED
  BY <1>1, <1>2, <1>3 DEF DoneInv

\* Neither the call nor a record changes, or the call ends.
LEMMA DoneStays ==
  ASSUME ManageInv, DoneInv, Settling, UNCHANGED disk, UNCHANGED call \/ call' = Idle
  PROVE  DoneInv'
<1>1. ASSUME NEW p \in Ops, disk[p] # None PROVE Announced(disk[p])'
  <2>1. PICK q : q = disk[p]
    OBVIOUS
  <2>2. Announced(q)'
    BY <1>1, <2>1, AnnouncedStays DEF DoneInv, ManageInv, Records, Sound
  <2> QED
    BY <2>1, <2>2 DEF Announced, Told, Quiet
<1>2. CASE call' = Idle
  BY <1>1, <1>2 DEF DoneInv, Idle
<1>3. CASE UNCHANGED call
  <2>1. PICK q : q = call.rec
    OBVIOUS
  <2>2. call.at # "idle" => Announced(q)'
    BY <2>1, AnnouncedStays DEF DoneInv, ManageInv, Job, Sound
  <2>3. call.at # "idle" => Announced(call.rec)'
    BY <1>3, <2>1, <2>2 DEF Announced, Told, Quiet
  <2> QED
    BY <1>1, <1>3, <2>3 DEF DoneInv
<1> QED
  BY <1>2, <1>3

LEMMA DoneFields ==
  ASSUME NEW r, Sound(r), NEW b \in BOOLEAN, NEW x
  PROVE  /\ [r EXCEPT !.done = b].kind = r.kind /\ [r EXCEPT !.done = b].devs = r.devs
         /\ [r EXCEPT !.done = b].points = r.points /\ [r EXCEPT !.done = b].msgs = r.msgs
         /\ [r EXCEPT !.done = b].sent = r.sent /\ [r EXCEPT !.done = b].committed = r.committed
         /\ [r EXCEPT !.done = b].done = b
         /\ [r EXCEPT !.sent = x].kind = r.kind /\ [r EXCEPT !.sent = x].devs = r.devs
         /\ [r EXCEPT !.sent = x].points = r.points /\ [r EXCEPT !.sent = x].msgs = r.msgs
         /\ [r EXCEPT !.sent = x].sent = x /\ [r EXCEPT !.sent = x].committed = r.committed
         /\ [r EXCEPT !.sent = x].done = r.done
         /\ [r EXCEPT !.committed = TRUE].kind = r.kind /\ [r EXCEPT !.committed = TRUE].devs = r.devs
         /\ [r EXCEPT !.committed = TRUE].points = r.points
         /\ [r EXCEPT !.committed = TRUE].msgs = r.msgs /\ [r EXCEPT !.committed = TRUE].sent = r.sent
         /\ [r EXCEPT !.committed = TRUE].done = r.done
BY DEF Sound, Shape

LEMMA ApplyDone ==
  ASSUME ManageInv, DoneInv, Settling, NEW o \in Ops,
         \/ \E items \in Edits, to \in Names : ApplyRename(o, items, to)
         \/ \E D \in SUBSET Devs, whole \in BOOLEAN : ApplyDelete(o, D, whole)
  PROVE  DoneInv'
<1>1. ASSUME NEW r, Begun(o, r), Announced(r)', r.done = FALSE PROVE DoneInv'
  <2>1. Noted(o, r)
    BY <1>1 DEF Begun, Noted
  <2>2. call' = [at |-> "commit", id |-> o, rec |-> r, keys |-> {}, again |-> FALSE]
    BY <1>1 DEF Begun, Idle
  <2> QED
    BY <1>1, <2>1, <2>2, DoneGoes
<1>2. ASSUME NEW items \in Edits, NEW to \in Names, ApplyRename(o, items, to) PROVE DoneInv'
  <2>1. PICK msgs, r : msgs = RenameNotices(items) /\ r = Record("rename", items, to, {}, FALSE, msgs)
    OBVIOUS
  <2>2. r.kind = "rename" /\ r.done = FALSE
    BY <2>1 DEF Record
  <2>3. Announced(r)'
    BY <2>2 DEF Announced
  <2> QED
    BY <1>1, <1>2, <2>1, <2>2, <2>3 DEF ApplyRename
<1>3. ASSUME NEW D \in SUBSET Devs, NEW whole \in BOOLEAN, ApplyDelete(o, D, whole) PROVE DoneInv'
  <2>1. PICK msgs, r : msgs = DeleteNotices(D) /\ r = Record("delete", {}, None, D, whole, msgs)
    OBVIOUS
  <2>2. r.done = FALSE /\ r.sent = 0 /\ r.devs = D /\ r.msgs = msgs
    BY <2>1 DEF Record
  <2>3. D # {} => Len(msgs) # 0 /\ msgs[1].type = "DELETED" /\ msgs[1].devs = D
    <3>1. SUFFICES ASSUME D # {} PROVE Len(msgs) # 0 /\ msgs[1].type = "DELETED" /\ msgs[1].devs = D
      OBVIOUS
    <3>2. msgs = <<Notice("DELETED", D)>> \o <<Notice("SPECIFY", {})>>
      BY <2>1, <3>1 DEF DeleteNotices, IfAny
    <3>3. PICK m, n : m = Notice("DELETED", D) /\ n = Notice("SPECIFY", {})
      OBVIOUS
    <3>4. Len(<<m>> \o <<n>>) = 2 /\ (<<m>> \o <<n>>)[1] = m
      <4>1. <<m>> \in Seq({m, n}) /\ <<n>> \in Seq({m, n}) /\ Len(<<m>>) = 1 /\ Len(<<n>>) = 1
        OBVIOUS
      <4>2. Len(<<m>> \o <<n>>) = Len(<<m>>) + Len(<<n>>)
        BY <4>1
      <4>3. (<<m>> \o <<n>>)[1] = <<m>>[1]
        BY <4>1
      <4> QED
        BY <4>1, <4>2, <4>3
    <3>5. m.type = "DELETED" /\ m.devs = D
      BY <3>3 DEF Notice
    <3> QED
      BY <3>2, <3>3, <3>4, <3>5
  <2>4. Announced(r)'
    BY <2>2, <2>3 DEF Announced
  <2> QED
    BY <1>1, <1>3, <2>1, <2>2, <2>4 DEF ApplyDelete
<1> QED
  BY <1>2, <1>3

LEMMA SagaDone == ASSUME ManageInv, DoneInv, Settling, "slow" \notin Faults, Saga PROVE DoneInv'
<1>0. Job
  BY DEF ManageInv
<1>1. CASE CommitLost
  BY <1>1, DoneStays DEF CommitLost
<1> SUFFICES ASSUME ~CommitLost PROVE DoneInv'
  BY <1>1
<1>2. call.at \in {"commit", "send", "settle", "clean", "watch"}
  BY <1>0 DEF Saga, Commit, Publish, PublishFails, RenameDone, DeleteNotified, SettleOver, SettleCut,
     CleanKeys, CleanFails, BackOnce, BackTwice, WatchOver, CleanEnds, Unsent, AllSent
<1>3. PICK r, o, ks : r = call.rec /\ o = call.id /\ ks = call.keys
  OBVIOUS
<1>4. /\ o \in Ops /\ Sound(r) /\ Announced(r)
      /\ ks \in SUBSET Devs /\ call.again \in BOOLEAN /\ r.points \in SUBSET Devs
  BY <1>0, <1>2, <1>3 DEF Job, DoneInv, Sound, Shape
<1>5. Announced(r)'
  BY <1>4, AnnouncedStays DEF Sound
<1>6. call.at \in {"settle", "clean", "watch"} =>
        r.kind = "delete" /\ r.points \subseteq ks /\ (r.devs # {} => r.sent # 0)
  BY <1>3 DEF DoneInv
<1>7. CASE Commit
  <2>1. PICK q : q = [r EXCEPT !.committed = TRUE]
    OBVIOUS
  <2>2. /\ q.kind = r.kind /\ q.devs = r.devs /\ q.points = r.points /\ q.msgs = r.msgs
        /\ q.sent = r.sent /\ q.done = FALSE
    BY <1>3, <1>4, <1>7, <2>1, DoneFields DEF DoneInv, Commit
  <2>3. Announced(q)'
    BY <1>5, <2>2 DEF Announced, Told
  <2>4. Noted(o, q) /\ call' = [at |-> "send", id |-> o, rec |-> q, keys |-> ks, again |-> call.again]
    BY <1>0, <1>3, <1>7, <2>1, CallIs DEF Commit
  <2> QED
    BY <1>4, <2>3, <2>4, DoneGoes
<1>8. CASE Publish
  <2>1. PICK q : q = [r EXCEPT !.sent = r.sent + 1]
    OBVIOUS
  <2>2. /\ q.kind = r.kind /\ q.devs = r.devs /\ q.points = r.points /\ q.msgs = r.msgs
        /\ q.sent = r.sent + 1 /\ q.done = r.done /\ q.committed = r.committed
    BY <1>4, <2>1, DoneFields
  <2>3. r.kind = "delete" /\ r.devs # {} => Told(r.devs)'
    <3>1. SUFFICES ASSUME r.kind = "delete", r.devs # {}, r.sent = 0 PROVE Told(r.devs)'
      BY <1>5 DEF Announced, Told
    <3>2. NextNotice.type = "DELETED" /\ NextNotice.devs = r.devs
      BY <1>3, <1>4, <3>1 DEF NextNotice, Announced
    <3>3. r.devs \subseteq inbox'
      BY <1>8, <3>2 DEF Publish, Take
    <3> QED
      BY <3>3 DEF Told
  <2>4. Announced(q)'
    BY <1>5, <2>2, <2>3 DEF Announced, Told, Quiet
  <2>5. call' = [at |-> "send", id |-> o, rec |-> q, keys |-> ks, again |-> call.again] /\ UNCHANGED disk
    BY <1>0, <1>3, <1>8, <2>1, CallIs DEF Publish, Unsent
  <2> QED
    BY <1>4, <2>4, <2>5, DoneGoes
<1>9. CASE PublishFails \/ SettleCut
  <2>1. Noted(o, r) /\ call' = Idle
    BY <1>3, <1>9 DEF PublishFails, SettleCut
  <2> QED
    BY <1>4, <1>5, <2>1, DoneEnds
<1>10. ASSUME NEW b \in BOOLEAN, Noted(o, [r EXCEPT !.done = b]), call' = Idle,
              b = TRUE /\ r.kind = "delete" => Quiet(r.devs, r.points)'
       PROVE  DoneInv'
  <2>1. PICK q : q = [r EXCEPT !.done = b]
    OBVIOUS
  <2>2. /\ q.kind = r.kind /\ q.devs = r.devs /\ q.points = r.points /\ q.msgs = r.msgs
        /\ q.sent = r.sent /\ q.done = b /\ q.committed = r.committed
    BY <1>4, <2>1, DoneFields
  <2>3. Announced(q)'
    BY <1>5, <1>10, <2>2 DEF Announced, Told, Quiet
  <2> QED
    BY <1>4, <1>10, <2>1, <2>3, DoneEnds
<1>11. CASE RenameDone
  BY <1>3, <1>10, <1>11 DEF RenameDone
<1>12. CASE CleanFails
  BY <1>3, <1>10, <1>12 DEF CleanFails
<1>13. CASE BackTwice
  <2>1. Noted(o, [r EXCEPT !.done = FALSE]) /\ call' = Idle
    <3>1. (Back = {}) = FALSE
      BY <1>13 DEF BackTwice
    <3> QED
      BY <1>3, <1>13, <3>1 DEF BackTwice, CleanEnds
  <2> QED
    BY <1>10, <2>1
<1>14. CASE WatchOver
  <2>1. PICK b \in BOOLEAN : b = (Back = {})
    OBVIOUS
  <2>2. Noted(o, [r EXCEPT !.done = b]) /\ call' = Idle /\ UNCHANGED <<coll, inbox, keys>>
    BY <1>3, <1>14, <2>1 DEF WatchOver, CleanEnds, farVars
  <2>3. b = TRUE => Quiet(r.devs, r.points)
    <3>1. inbox \cap r.devs = {} /\ call.at = "watch"
      BY <1>3, <1>14 DEF WatchOver, Prompt
    <3>2. r.devs \cap coll = {}
      BY <1>4, <1>6, <3>1 DEF Announced, Told
    <3> QED
      BY <1>3, <1>6, <2>1, <3>1, <3>2 DEF Quiet, Back
  <2> QED
    BY <1>10, <2>2, <2>3 DEF Quiet
<1>15. CASE DeleteNotified
  <2>1. call' = [at |-> "settle", id |-> o, rec |-> r, keys |-> r.points, again |-> call.again]
        /\ Noted(o, r)
    BY <1>0, <1>3, <1>15, CallIs DEF DeleteNotified
  <2>2. r.kind = "delete" /\ (r.devs # {} => r.sent # 0)
    BY <1>3, <1>4, <1>15 DEF DeleteNotified, AllSent, Announced
  <2> QED
    BY <1>4, <1>5, <2>1, <2>2, DoneGoes
<1>16. CASE SettleOver \/ CleanKeys \/ BackOnce
  <2>1. PICK at \in {"clean", "watch"}, again \in BOOLEAN :
          call' = [at |-> at, id |-> o, rec |-> r, keys |-> ks, again |-> again] /\ UNCHANGED disk
    BY <1>0, <1>3, <1>16, CallIs DEF SettleOver, CleanKeys, BackOnce
  <2>2. call.at \in {"settle", "clean", "watch"}
    BY <1>16 DEF SettleOver, CleanKeys, BackOnce
  <2> QED
    BY <1>4, <1>5, <1>6, <2>1, <2>2, DoneGoes
<1> QED
  BY <1>7, <1>8, <1>9, <1>11, <1>12, <1>13, <1>14, <1>15, <1>16 DEF Saga

LEMMA ResumeDone ==
  ASSUME ManageInv, DoneInv, Settling, NEW o \in Ops, Close(o) \/ Resend(o) \/ RedisRetry(o)
  PROVE  DoneInv'
<1>1. PICK r : r = disk[o]
  OBVIOUS
<1>2. r # None /\ Sound(r) /\ Announced(r)
  BY <1>1 DEF Close, Resend, RedisRetry, Resumes, Unsettled, ManageInv, Records, DoneInv
<1>3. Announced(r)'
  BY <1>2, AnnouncedStays DEF Sound
<1>4. CASE Close(o)
  <2>1. PICK q : q = [r EXCEPT !.done = TRUE]
    OBVIOUS
  <2>2. r.committed = FALSE /\ Noted(o, q) /\ UNCHANGED call
    BY <1>1, <1>2, <1>4, <2>1 DEF Close, Unsettled, Sound, Shape
  <2>3. /\ q.kind = r.kind /\ q.devs = r.devs /\ q.points = r.points /\ q.msgs = r.msgs
        /\ q.sent = r.sent /\ q.committed = FALSE
    BY <1>2, <2>1, <2>2, DoneFields
  <2>4. Announced(q)'
    BY <1>3, <2>3 DEF Announced, Told
  <2>5. call.at = "idle"
    BY <1>4 DEF Close
  <2> QED
    BY <2>2, <2>4, <2>5, DiskAnnounced DEF DoneInv
<1>5. PICK q : q = Resumed(o)
  OBVIOUS
<1>6. ASSUME Resumes(o) PROVE Announced(q)'
  <2>1. PICK t : t = IF r.committed THEN r ELSE Settled(r)
    OBVIOUS
  <2>2. t = r \/ (t = [r EXCEPT !.committed = TRUE] /\ r.done = FALSE)
    BY <1>1, <1>2, <1>6, <2>1 DEF Resumes, Unsettled, Settled, Sound, Shape
  <2>3. Announced(t)' /\ t.kind = r.kind /\ Shape(t)
    <3>1. CASE t = r
      BY <1>2, <1>3, <3>1 DEF Announced, Told, Quiet, Sound
    <3>2. CASE t = [r EXCEPT !.committed = TRUE] /\ r.done = FALSE
      <4>1. /\ t.kind = r.kind /\ t.devs = r.devs /\ t.points = r.points /\ t.msgs = r.msgs
            /\ t.sent = r.sent /\ t.done = FALSE
        BY <1>2, <3>2, DoneFields
      <4>2. Announced(t)'
        BY <1>3, <4>1 DEF Announced, Told
      <4>3. Shape(t)
        BY <1>2, <3>2 DEF Sound, Shape
      <4> QED
        BY <4>1, <4>2, <4>3
    <3> QED
      BY <2>2, <3>1, <3>2
  <2>4. CASE t.kind = "rename"
    <3>1. q = t \/ \E x : q = [t EXCEPT !.msgs = x]
      BY <1>1, <1>5, <2>1, <2>4 DEF Resumed, Refreshed
    <3>2. q.kind = "rename"
      BY <2>3, <2>4, <3>1 DEF Shape
    <3> QED
      BY <3>2 DEF Announced
  <2>5. CASE t.kind # "rename"
    <3>1. q = t
      BY <1>1, <1>5, <2>1, <2>5 DEF Resumed
    <3> QED
      BY <2>3, <3>1 DEF Announced, Told, Quiet
  <2> QED
    BY <2>4, <2>5
<1>7. CASE Resend(o)
  <2>1. Resumes(o) /\ Noted(o, q)
        /\ call' = [at |-> "send", id |-> o, rec |-> q, keys |-> {}, again |-> FALSE]
    BY <1>5, <1>7 DEF Resend, Idle
  <2> QED
    BY <1>6, <2>1, DoneGoes
<1>8. CASE RedisRetry(o)
  <2>1. PICK ks : ks = q.devs \ PointsOf(q.devs)
    OBVIOUS
  <2>2. Resumes(o) /\ Noted(o, q) /\ UNCHANGED rows /\ q.kind = "delete" /\ q.sent = Len(q.msgs)
        /\ call' = [at |-> "clean", id |-> o, rec |-> q, keys |-> ks, again |-> FALSE]
    BY <1>5, <1>8, <2>1 DEF RedisRetry, Idle, dbVars
  <2>3. Sound(q) /\ q.committed = TRUE
    BY <1>5, <2>2, ResumedIs
  <2>4. q.points \subseteq ks /\ ks \in SUBSET Devs
    BY <2>1, <2>3 DEF Sound, Shape, Gone, PointsOf
  <2>5. q.devs # {} => q.sent # 0
    BY <1>6, <2>2 DEF Announced
  <2> QED
    BY <1>6, <2>2, <2>4, <2>5, DoneGoes
<1> QED
  BY <1>4, <1>7, <1>8

LEMMA DoneStep ==
  ASSUME "fooled" \notin Faults, "slow" \notin Faults
  PROVE  ManageInv /\ DoneInv /\ [Next]_vars => DoneInv'
<1> SUFFICES ASSUME ManageInv, DoneInv, [Next]_vars PROVE DoneInv'
  OBVIOUS
<1>1. CASE UNCHANGED vars
  BY <1>1, DoneStays DEF vars, farVars, Settling
<1>2. CASE Next
  <2>1. Settling
    BY <1>2, WorldSettles
  <2>2. CASE User
    BY <2>1, <2>2, ApplyDone, ResumeDone DEF User
  <2>3. CASE World
    <3>1. UNCHANGED disk /\ (UNCHANGED call \/ call' = Idle)
      BY <2>3 DEF World, Crash, OthersRename, OthersDelete, OthersMove, CollectorStops, CollectorWrites
    <3> QED
      BY <2>1, <3>1, DoneStays
  <2> QED
    BY <1>2, <2>1, <2>2, <2>3, SagaDone DEF Next
<1> QED
  BY <1>1, <1>2

\* The values a finished deletion was to remove do not come back, whichever of its steps were
\* interrupted and taken up again (finishDelete, cleanKeys, ManageResend, ManageRedisRetry);
\* that the collector applies the notice within the waits is assumed.
THEOREM DeletionsLast ==
  ASSUME "fooled" \notin Faults, "slow" \notin Faults PROVE Spec => []GoneForGood
<1>1. Init => DoneInv
  BY DEF Init, Idle, DoneInv
<1>2. ManageInv /\ DoneInv => GoneForGood
  <2> SUFFICES ASSUME ManageInv, DoneInv, NEW o \in Ops, disk[o] # None, disk[o].kind = "delete",
                      disk[o].done, disk[o].committed
               PROVE  disk[o].points \cap keys = {}
    BY DEF GoneForGood
  <2>1. disk[o].done = TRUE /\ disk[o].committed = TRUE
    BY DEF ManageInv, Records, Sound, Shape
  <2> QED
    BY <2>1 DEF DoneInv, Announced, Quiet
<1> QED
  BY <1>1, <1>2, ManageInit, ManageStep, DoneStep, PTL DEF Spec

-----------------------------------------------------------------------------
(***************************************************************************)
(* The types, the records among them, and with them what every record      *)
(* still owes to the collector.                                            *)
(***************************************************************************)

Typed(r) ==
  /\ r \in RecordSet /\ r.points \subseteq r.devs /\ (r.kind = "rename" => r.to \in Names)
  /\ r.sent <= Len(r.msgs) /\ (r.sent > 0 => r.committed = TRUE)

Stages == {"idle", "commit", "send", "settle", "clean", "watch"}

StoreTypes ==
  /\ rows \in SUBSET Items /\ name \in [Items -> Names] /\ group \in BOOLEAN /\ others \in 0 .. MaxOthers
  /\ grouped \in SUBSET Devs /\ coll \in SUBSET Devs /\ inbox \in SUBSET Devs /\ keys \in SUBSET Devs

RecordTypes ==
  disk = [o \in Ops |-> disk[o]] /\ \A o \in Ops : disk[o] # None => Typed(disk[o])

CallTypes ==
  /\ call \in [at : Stages, id : {call.id}, rec : {call.rec}, keys : SUBSET Devs, again : BOOLEAN]
  /\ call.at # "idle" => call.id \in Ops /\ Typed(call.rec)
  /\ call.at = "commit" => disk[call.id] = call.rec /\ call.rec.committed = FALSE
  /\ call.at \notin {"idle", "commit"} => call.rec.committed = TRUE

TypeInv == StoreTypes /\ RecordTypes /\ CallTypes

-----------------------------------------------------------------------------
(* Notices and records.                                                    *)

LEMMA IfAnyIs ==
  ASSUME NEW t \in NoticeTypes, NEW D \in SUBSET Devs
  PROVE  /\ IfAny(t, D) \in Seq(Notices) /\ Notice(t, D) \in Notices
         /\ D = {} => IfAny(t, D) = <<>>
         /\ D # {} => IfAny(t, D) = <<Notice(t, D)>>
<1>1. PICK m : m = Notice(t, D)
  OBVIOUS
<1>2. m \in Notices
  BY <1>1 DEF Notice, Notices
<1>3. <<m>> \in Seq(Notices)
  BY <1>2
<1> QED
  BY <1>1, <1>2, <1>3 DEF IfAny

LEMMA RenameNoticesTyped ==
  ASSUME NEW items \in SUBSET Items PROVE RenameNotices(items) \in Seq(Notices)
<1>1. PICK P, D : P = Named(items, "point") /\ D = Named(items, "device")
  OBVIOUS
<1>2. P \in SUBSET Devs /\ D \in SUBSET Devs
  BY <1>1 DEF Named, Items
<1>3. PICK a, b, c : a = IfAny("POINTS", P) /\ b = <<Notice("SPECIFY", {})>> /\ c = IfAny("DEVICES", D)
  OBVIOUS
<1>4. a \in Seq(Notices) /\ b \in Seq(Notices) /\ c \in Seq(Notices)
  <2>1. Notice("SPECIFY", {}) \in Notices
    BY IfAnyIs DEF NoticeTypes
  <2>2. b \in Seq(Notices)
    BY <1>3, <2>1
  <2> QED
    BY <1>2, <1>3, <2>2, IfAnyIs DEF NoticeTypes
<1>5. a \o b \o c \in Seq(Notices)
  BY <1>4
<1> QED
  BY <1>1, <1>3, <1>5 DEF RenameNotices

LEMMA DeleteNoticesTyped ==
  ASSUME NEW D \in SUBSET Devs PROVE DeleteNotices(D) \in Seq(Notices)
<1>1. PICK a, b : a = IfAny("DELETED", D) /\ b = <<Notice("SPECIFY", {})>>
  OBVIOUS
<1>2. a \in Seq(Notices) /\ b \in Seq(Notices)
  <2>1. Notice("SPECIFY", {}) \in Notices
    BY IfAnyIs DEF NoticeTypes
  <2>2. b \in Seq(Notices)
    BY <1>1, <2>1
  <2> QED
    BY <1>1, <2>2, IfAnyIs DEF NoticeTypes
<1>3. a \o b \in Seq(Notices)
  BY <1>2
<1> QED
  BY <1>1, <1>3 DEF DeleteNotices

\* Records that differ in one field.
LEMMA FieldSet ==
  ASSUME NEW r \in RecordSet, NEW b \in BOOLEAN, NEW n \in Nat, NEW s \in Seq(Notices)
  PROVE  /\ [r EXCEPT !.done = b] \in RecordSet /\ [r EXCEPT !.committed = TRUE] \in RecordSet
         /\ [r EXCEPT !.sent = n] \in RecordSet /\ [r EXCEPT !.msgs = s] \in RecordSet
BY DEF RecordSet

LEMMA DoneField ==
  ASSUME NEW r \in RecordSet, NEW b \in BOOLEAN, NEW q, q = [r EXCEPT !.done = b]
  PROVE  /\ q.kind = r.kind /\ q.items = r.items /\ q.to = r.to /\ q.devs = r.devs
         /\ q.points = r.points /\ q.whole = r.whole /\ q.msgs = r.msgs /\ q.sent = r.sent
         /\ q.committed = r.committed /\ q.done = b
BY DEF RecordSet

LEMMA CommittedField ==
  ASSUME NEW r \in RecordSet, NEW q, q = [r EXCEPT !.committed = TRUE]
  PROVE  /\ q.kind = r.kind /\ q.items = r.items /\ q.to = r.to /\ q.devs = r.devs
         /\ q.points = r.points /\ q.whole = r.whole /\ q.msgs = r.msgs /\ q.sent = r.sent
         /\ q.committed = TRUE /\ q.done = r.done
BY DEF RecordSet

LEMMA SentField ==
  ASSUME NEW r \in RecordSet, NEW n \in Nat, NEW q, q = [r EXCEPT !.sent = n]
  PROVE  /\ q.kind = r.kind /\ q.items = r.items /\ q.to = r.to /\ q.devs = r.devs
         /\ q.points = r.points /\ q.whole = r.whole /\ q.msgs = r.msgs /\ q.sent = n
         /\ q.committed = r.committed /\ q.done = r.done
BY DEF RecordSet

LEMMA MsgsField ==
  ASSUME NEW r \in RecordSet, NEW s \in Seq(Notices), NEW q, q = [r EXCEPT !.msgs = s]
  PROVE  /\ q.kind = r.kind /\ q.items = r.items /\ q.to = r.to /\ q.devs = r.devs
         /\ q.points = r.points /\ q.whole = r.whole /\ q.msgs = s /\ q.sent = r.sent
         /\ q.committed = r.committed /\ q.done = r.done
BY DEF RecordSet

LEMMA TypedFields ==
  ASSUME NEW r, Typed(r), NEW b \in BOOLEAN
  PROVE  /\ Typed([r EXCEPT !.done = b])
         /\ Typed([r EXCEPT !.committed = TRUE])
         /\ r.committed = TRUE /\ r.sent < Len(r.msgs) => Typed([r EXCEPT !.sent = r.sent + 1])
<1>1. r \in RecordSet /\ r.sent \in Nat /\ r.msgs \in Seq(Notices) /\ Len(r.msgs) \in Nat
  BY DEF Typed, RecordSet
<1>2. Typed([r EXCEPT !.done = b])
  <2>1. PICK q : q = [r EXCEPT !.done = b]
    OBVIOUS
  <2> QED
    <3>1. q \in RecordSet
      BY <1>1, <2>1, FieldSet
    <3>2. /\ q.kind = r.kind /\ q.to = r.to /\ q.devs = r.devs /\ q.points = r.points
          /\ q.msgs = r.msgs /\ q.sent = r.sent /\ q.committed = r.committed
      BY <1>1, <2>1, DoneField
    <3>3. Typed(q)
      BY <3>1, <3>2 DEF Typed
    <3> QED
      BY <2>1, <3>3
<1>3. Typed([r EXCEPT !.committed = TRUE])
  <2>1. PICK q : q = [r EXCEPT !.committed = TRUE]
    OBVIOUS
  <2> QED
    <3>1. q \in RecordSet
      BY <1>1, <2>1, FieldSet
    <3>2. /\ q.kind = r.kind /\ q.to = r.to /\ q.devs = r.devs /\ q.points = r.points
          /\ q.msgs = r.msgs /\ q.sent = r.sent /\ q.committed = TRUE
      BY <1>1, <2>1, CommittedField
    <3>3. Typed(q)
      BY <3>1, <3>2 DEF Typed
    <3> QED
      BY <2>1, <3>3
<1>4. ASSUME r.committed = TRUE, r.sent < Len(r.msgs) PROVE Typed([r EXCEPT !.sent = r.sent + 1])
  <2>1. PICK n \in Nat : n = r.sent + 1
    BY <1>1
  <2>2. PICK q : q = [r EXCEPT !.sent = n]
    OBVIOUS
  <2>3. q \in RecordSet
    BY <1>1, <2>2, FieldSet
  <2>4. /\ q.kind = r.kind /\ q.to = r.to /\ q.devs = r.devs /\ q.points = r.points
        /\ q.msgs = r.msgs /\ q.sent = n /\ q.committed = r.committed
    BY <1>1, <2>2, SentField
  <2>5. n <= Len(r.msgs)
    BY <1>1, <1>4, <2>1
  <2> QED
    BY <1>4, <2>1, <2>2, <2>3, <2>4, <2>5 DEF Typed
<1> QED
  BY <1>2, <1>3, <1>4

\* What refreshDeviceUpdated leaves of the notices.
LEMMA RefreshedIs ==
  ASSUME NEW r, Typed(r)
  PROVE  \/ Refreshed(r) = r /\ ~(r.sent < Len(r.msgs) /\ r.msgs[Len(r.msgs)].type = "DEVICES")
         \/ \E s \in Seq(Notices), n \in Nat, D \in SUBSET Devs :
              /\ Refreshed(r) = [r EXCEPT !.msgs = s]
              /\ n = Len(r.msgs) - 1 /\ r.sent <= n
              /\ r.msgs[n + 1].type = "DEVICES" /\ D = r.msgs[n + 1].devs \cap LiveDevs
              /\ Len(s) = (IF D = {} THEN n ELSE n + 1)
              /\ \A i \in 1 .. n : s[i] = r.msgs[i]
              /\ D # {} => s[n + 1] = Notice("DEVICES", D)
<1>1. r \in RecordSet /\ r.sent \in Nat /\ r.msgs \in Seq(Notices) /\ Len(r.msgs) \in Nat
      /\ r.sent <= Len(r.msgs)
  BY DEF Typed, RecordSet
<1>2. PICK m, k : m = r.msgs /\ k = Len(m)
  OBVIOUS
<1>3. ~(r.sent < k /\ m[k].type = "DEVICES") => Refreshed(r) = r
  BY <1>2 DEF Refreshed, Last
<1> SUFFICES ASSUME r.sent < k, m[k].type = "DEVICES"
             PROVE  \E s \in Seq(Notices), n \in Nat, D \in SUBSET Devs :
                      /\ Refreshed(r) = [r EXCEPT !.msgs = s]
                      /\ n = Len(r.msgs) - 1 /\ r.sent <= n
                      /\ r.msgs[n + 1].type = "DEVICES" /\ D = r.msgs[n + 1].devs \cap LiveDevs
                      /\ Len(s) = (IF D = {} THEN n ELSE n + 1)
                      /\ \A i \in 1 .. n : s[i] = r.msgs[i]
                      /\ D # {} => s[n + 1] = Notice("DEVICES", D)
  BY <1>2, <1>3, Zenon
<1>4. PICK n \in Nat : n = k - 1
  <2>1. k \in Nat /\ 0 < k
    BY <1>1, <1>2
  <2>2. k - 1 \in Nat
    BY <2>1
  <2> QED
    BY <2>2
<1>5. n + 1 = k /\ r.sent <= n /\ n <= k /\ 1 .. n \subseteq 1 .. k
  BY <1>1, <1>2, <1>4
<1>6. m[k] \in Notices
  BY <1>1, <1>2
<1>7. PICK D \in SUBSET Devs : D = m[k].devs \cap LiveDevs
  BY <1>6 DEF Notices
<1>8. PICK f : f = SubSeq(m, 1, n)
  OBVIOUS
<1>9. f \in Seq(Notices) /\ Len(f) = n /\ \A i \in 1 .. n : f[i] = m[i]
  BY <1>1, <1>2, <1>4, <1>5, <1>8
<1>10. PICK a : a = IfAny("DEVICES", D)
  OBVIOUS
<1>11. a \in Seq(Notices) /\ Len(a) = (IF D = {} THEN 0 ELSE 1)
       /\ (D # {} => a[1] = Notice("DEVICES", D))
  <2>1. PICK x : x = Notice("DEVICES", D)
    OBVIOUS
  <2>2. a \in Seq(Notices) /\ (D = {} => a = <<>>) /\ (D # {} => a = <<x>>)
    BY <1>10, <2>1, IfAnyIs DEF NoticeTypes
  <2>3. Len(<<x>>) = 1 /\ <<x>>[1] = x /\ Len(<<>>) = 0
    OBVIOUS
  <2> QED
    BY <2>1, <2>2, <2>3
<1>12. PICK s \in Seq(Notices) : s = f \o a
  <2>1. f \o a \in Seq(Notices)
    BY <1>9, <1>11
  <2> QED
    BY <2>1
<1>13. Len(s) = Len(f) + Len(a)
  BY <1>9, <1>11, <1>12
<1>14. \A i \in 1 .. n : s[i] = m[i]
  BY <1>9, <1>11, <1>12
<1>15. D # {} => s[n + 1] = a[1]
  BY <1>9, <1>11, <1>12
<1>16. Refreshed(r) = [r EXCEPT !.msgs = s]
  <2>1. r.sent < Len(r.msgs) /\ Last(r.msgs).type = "DEVICES"
    BY <1>2 DEF Last
  <2>2. Refreshed(r) = [r EXCEPT !.msgs = Front(r.msgs) \o IfAny("DEVICES", Last(r.msgs).devs \cap LiveDevs)]
    BY <2>1 DEF Refreshed
  <2>3. Front(r.msgs) = f /\ Last(r.msgs).devs \cap LiveDevs = D
    BY <1>2, <1>4, <1>7, <1>8 DEF Front, Last
  <2> QED
    BY <1>10, <1>12, <2>2, <2>3
<1>17. Len(s) = (IF D = {} THEN n ELSE n + 1)
  BY <1>9, <1>11, <1>13
<1>18. m[n + 1].type = "DEVICES" /\ D = m[n + 1].devs \cap LiveDevs
  BY <1>5, <1>7
<1>19. n = Len(m) - 1 /\ r.sent <= n
  BY <1>2, <1>4, <1>5
<1>20. D # {} => s[n + 1] = Notice("DEVICES", D)
  BY <1>11, <1>15
<1> WITNESS s \in Seq(Notices), n \in Nat, D \in SUBSET Devs
<1> QED
  BY <1>2, <1>14, <1>16, <1>17, <1>18, <1>19, <1>20, Zenon

LEMMA RefreshedTyped ==
  ASSUME NEW r, Typed(r)
  PROVE  Typed(Refreshed(r)) /\ Refreshed(r).committed = r.committed
<1>1. CASE Refreshed(r) = r
  BY <1>1
<1>2. ASSUME NEW s \in Seq(Notices), NEW n \in Nat, Refreshed(r) = [r EXCEPT !.msgs = s],
             r.sent <= n, Len(s) = n \/ Len(s) = n + 1
      PROVE  Typed(Refreshed(r)) /\ Refreshed(r).committed = r.committed
  <2>1. PICK q : q = [r EXCEPT !.msgs = s]
    OBVIOUS
  <2>2. r \in RecordSet /\ r.sent \in Nat
    BY DEF Typed, RecordSet
  <2>3. q \in RecordSet
    BY <2>1, <2>2, FieldSet
  <2>4. /\ q.kind = r.kind /\ q.to = r.to /\ q.devs = r.devs /\ q.points = r.points
        /\ q.msgs = s /\ q.sent = r.sent /\ q.committed = r.committed
    BY <2>1, <2>2, MsgsField
  <2>5. r.sent <= Len(s)
    BY <1>2, <2>2
  <2> QED
    BY <1>2, <2>1, <2>3, <2>4, <2>5 DEF Typed
<1> QED
  BY <1>1, <1>2, RefreshedIs

-----------------------------------------------------------------------------
(* The steps.                                                              *)

LEMMA NotedTypes ==
  ASSUME RecordTypes, NEW o \in Ops, NEW r, Typed(r), Noted(o, r) \/ UNCHANGED disk
  PROVE  RecordTypes'
<1>1. disk' = disk \/ (disk' = [p \in Ops |-> disk'[p]] /\ disk'[o] = r
                        /\ \A p \in Ops \ {o} : disk'[p] = disk[p])
  BY DEF Noted, RecordTypes
<1>2. disk' = [p \in Ops |-> disk'[p]] /\ \A p \in Ops : disk'[p] = disk[p] \/ disk'[p] = r
  BY <1>1 DEF RecordTypes
<1>3. ASSUME NEW p \in Ops, disk'[p] # None PROVE Typed(disk'[p])
  BY <1>2, <1>3 DEF RecordTypes
<1> QED
  BY <1>2, <1>3 DEF RecordTypes, Typed, RecordSet

LEMMA CallEnds == ASSUME call' = Idle PROVE CallTypes'
BY DEF CallTypes, Idle, Stages

LEMMA CallGoes ==
  ASSUME NEW at \in Stages \ {"idle", "commit"}, NEW o \in Ops, NEW r, NEW ks \in SUBSET Devs,
         NEW again \in BOOLEAN, Typed(r), r.committed = TRUE,
         call' = [at |-> at, id |-> o, rec |-> r, keys |-> ks, again |-> again]
  PROVE  CallTypes'
<1>1. call'.at = at /\ call'.id = o /\ call'.rec = r /\ call'.keys = ks /\ call'.again = again
  OBVIOUS
<1>2. call' \in [at : Stages, id : {call'.id}, rec : {call'.rec}, keys : SUBSET Devs, again : BOOLEAN]
  BY <1>1
<1>3. Typed(call'.rec)
  BY <1>1
<1> QED
  BY <1>1, <1>2, <1>3 DEF CallTypes, Typed, RecordSet

LEMMA CallParts ==
  ASSUME CallTypes
  PROVE  /\ call = [at |-> call.at, id |-> call.id, rec |-> call.rec, keys |-> call.keys,
                    again |-> call.again]
         /\ call.at \in Stages /\ call.keys \in SUBSET Devs /\ call.again \in BOOLEAN
BY DEF CallTypes

LEMMA TypeInit == Init => TypeInv
<1> SUFFICES ASSUME Init PROVE TypeInv
  OBVIOUS
<1>1. StoreTypes
  BY ManageAssumption DEF Init, StoreTypes
<1>2. RecordTypes
  BY DEF Init, RecordTypes
<1>3. CallTypes
  BY DEF Init, CallTypes, Idle, Stages
<1> QED
  BY <1>1, <1>2, <1>3 DEF TypeInv

\* The stores, whatever the records.
LEMMA WriteTypes ==
  ASSUME StoreTypes, NEW r, Typed(r), Write(r)
  PROVE  StoreTypes'
<1>1. CASE r.kind = "rename"
  BY <1>1 DEF StoreTypes, Write, Renames, Typed
<1>2. CASE r.kind # "rename"
  BY <1>2 DEF StoreTypes, Write, Deletes
<1> QED
  BY <1>1, <1>2

LEMMA SagaStores ==
  ASSUME TypeInv, Saga, ~(Commit \/ CommitLost) PROVE StoreTypes'
<1>1. UNCHANGED <<rows, name, group, grouped, others, coll>>
  BY DEF Saga, Publish, PublishFails, RenameDone, DeleteNotified, SettleOver, SettleCut, CleanKeys,
     CleanFails, BackOnce, BackTwice, WatchOver, CleanEnds, Take, dbVars, farVars
<1>2. keys' \subseteq keys
  BY DEF Saga, Publish, PublishFails, RenameDone, DeleteNotified, SettleOver, SettleCut, CleanKeys,
     CleanFails, BackOnce, BackTwice, WatchOver, CleanEnds, Take, dbVars, farVars
<1>3. inbox' \in SUBSET Devs
  <2>1. CASE Unsent /\ Take(NextNotice)
    <3>1. PICK r : r = call.rec
      OBVIOUS
    <3>2. r.msgs \in Seq(Notices) /\ r.sent \in Nat /\ r.sent < Len(r.msgs)
      BY <2>1, <3>1 DEF Unsent, TypeInv, CallTypes, Typed, RecordSet
    <3>3. r.msgs[r.sent + 1] \in Notices
      BY <3>2
    <3>4. NextNotice.devs \in SUBSET Devs
      BY <3>1, <3>3 DEF NextNotice, Notices
    <3> QED
      BY <2>1, <3>4 DEF Take, TypeInv, StoreTypes
  <2>2. CASE UNCHANGED inbox
    BY <2>2 DEF TypeInv, StoreTypes
  <2> QED
    BY <2>1, <2>2 DEF Saga, Publish, PublishFails, RenameDone, DeleteNotified, SettleOver, SettleCut,
       CleanKeys, CleanFails, BackOnce, BackTwice, WatchOver, CleanEnds, farVars
<1> QED
  BY <1>1, <1>2, <1>3 DEF TypeInv, StoreTypes

LEMMA WorldTypes == ASSUME TypeInv, World PROVE TypeInv'
<1>1. StoreTypes'
  <2>1. CASE Crash
    BY <2>1 DEF TypeInv, StoreTypes, Crash, dbVars, farVars
  <2>2. ASSUME NEW i \in Items, NEW to \in Names, OthersRename(i, to) PROVE StoreTypes'
    BY <2>2, ManageAssumption DEF TypeInv, StoreTypes, OthersRename, farVars, Unlocked
  <2>3. ASSUME NEW gone \in SUBSET Items, OthersDelete(gone) PROVE StoreTypes'
    <3>1. inbox' \in SUBSET Devs /\ others' \in 0 .. MaxOthers /\ rows' \in SUBSET Items
      BY <2>3, ManageAssumption DEF TypeInv, StoreTypes, OthersDelete, Unlocked
    <3> QED
      BY <2>3, <3>1 DEF TypeInv, StoreTypes, OthersDelete
  <2>4. ASSUME NEW d \in Devs, OthersMove(d) PROVE StoreTypes'
    BY <2>4, ManageAssumption DEF TypeInv, StoreTypes, OthersMove, Unlocked, farVars
  <2>5. ASSUME NEW d \in Devs, CollectorStops(d) \/ CollectorWrites(d) PROVE StoreTypes'
    BY <2>5 DEF TypeInv, StoreTypes, CollectorStops, CollectorWrites, dbVars
  <2> QED
    BY <2>1, <2>2, <2>3, <2>4, <2>5 DEF World
<1>2. UNCHANGED disk /\ (UNCHANGED call \/ call' = Idle)
  BY DEF World, Crash, OthersRename, OthersDelete, OthersMove, CollectorStops, CollectorWrites
<1>3. RecordTypes'
  BY <1>2 DEF TypeInv, RecordTypes, Typed, RecordSet
<1>4. CallTypes'
  <2>1. CASE UNCHANGED call
    BY <1>2, <2>1 DEF TypeInv, CallTypes, Typed, RecordSet
  <2>2. CASE call' = Idle
    BY <2>2, CallEnds
  <2> QED
    BY <1>2, <2>1, <2>2
<1> QED
  BY <1>1, <1>3, <1>4 DEF TypeInv

LEMMA CommitTypes == ASSUME TypeInv, Commit \/ CommitLost PROVE TypeInv'
<1>1. PICK r, o, ks : r = call.rec /\ o = call.id /\ ks = call.keys
  OBVIOUS
<1>2. StoreTypes /\ RecordTypes /\ CallTypes /\ call.at = "commit"
  BY DEF TypeInv, Commit, CommitLost
<1>3. o \in Ops /\ Typed(r) /\ r \in RecordSet
  BY <1>1, <1>2 DEF CallTypes, Typed
<1>4. CASE CommitLost
  <2>1. call' = Idle /\ UNCHANGED disk /\ (Write(r) \/ UNCHANGED <<dbVars, farVars>>)
    BY <1>1, <1>4 DEF CommitLost
  <2>2. StoreTypes'
    <3>1. CASE Write(r)
      BY <1>2, <1>3, <3>1, WriteTypes
    <3>2. CASE UNCHANGED <<dbVars, farVars>>
      BY <1>2, <3>2 DEF StoreTypes, dbVars, farVars
    <3> QED
      BY <2>1, <3>1, <3>2
  <2> QED
    BY <1>2, <1>3, <2>1, <2>2, NotedTypes, CallEnds DEF TypeInv
<1>5. CASE Commit
  <2>1. PICK q : q = [r EXCEPT !.committed = TRUE]
    OBVIOUS
  <2>2. Typed(q) /\ q.committed = TRUE
    BY <1>3, <2>1, TypedFields, CommittedField
  <2>3. Write(q) /\ Noted(o, q) /\ call' = [call EXCEPT !.at = "send", !.rec = q]
    BY <1>1, <1>5, <2>1 DEF Commit
  <2>4. call' = [at |-> "send", id |-> o, rec |-> q, keys |-> ks, again |-> call.again]
        /\ ks \in SUBSET Devs /\ call.again \in BOOLEAN
    BY <1>1, <1>2, <2>3, CallParts
  <2>5. CallTypes'
    BY <1>3, <2>2, <2>4, CallGoes DEF Stages
  <2> QED
    BY <1>2, <1>3, <2>2, <2>3, <2>5, WriteTypes, NotedTypes DEF TypeInv
<1> QED
  BY <1>4, <1>5

LEMMA SagaTypes == ASSUME TypeInv, Saga PROVE TypeInv'
<1> SUFFICES ASSUME ~(Commit \/ CommitLost) PROVE TypeInv'
  BY CommitTypes
<1>1. PICK r, o, ks : r = call.rec /\ o = call.id /\ ks = call.keys
  OBVIOUS
<1>2. StoreTypes /\ RecordTypes /\ CallTypes /\ StoreTypes'
  BY SagaStores DEF TypeInv
<1>3. call.at \in {"send", "settle", "clean", "watch"}
  BY <1>2 DEF Saga, Publish, PublishFails, RenameDone, DeleteNotified, SettleOver, SettleCut,
     CleanKeys, CleanFails, BackOnce, BackTwice, WatchOver, Unsent, AllSent, CleanEnds
<1>4. /\ o \in Ops /\ Typed(r) /\ r \in RecordSet /\ r.committed = TRUE
      /\ ks \in SUBSET Devs /\ call.again \in BOOLEAN /\ r.points \in SUBSET Devs
      /\ call = [at |-> call.at, id |-> o, rec |-> r, keys |-> ks, again |-> call.again]
  BY <1>1, <1>2, <1>3, CallParts DEF CallTypes, Typed, RecordSet
<1>5. ASSUME NEW at \in {"send", "settle", "clean", "watch"}, NEW q, Typed(q), q.committed = TRUE,
             NEW k \in SUBSET Devs, NEW again \in BOOLEAN, Noted(o, q) \/ UNCHANGED disk,
             call' = [at |-> at, id |-> o, rec |-> q, keys |-> k, again |-> again]
      PROVE  TypeInv'
  BY <1>2, <1>4, <1>5, NotedTypes, CallGoes DEF TypeInv, Stages
<1>6. CASE Publish
  <2>1. PICK q : q = [r EXCEPT !.sent = r.sent + 1]
    OBVIOUS
  <2>2. r.sent < Len(r.msgs) /\ r.sent + 1 \in Nat
    BY <1>1, <1>4, <1>6 DEF Publish, Unsent, RecordSet
  <2>3. Typed(q) /\ q.committed = TRUE
    BY <1>4, <2>1, <2>2, TypedFields, SentField
  <2>4. call' = [at |-> "send", id |-> o, rec |-> q, keys |-> ks, again |-> call.again]
        /\ UNCHANGED disk
    BY <1>1, <1>4, <1>6, <2>1 DEF Publish, Unsent
  <2> QED
    BY <1>4, <1>5, <2>3, <2>4
<1>7. CASE PublishFails \/ RenameDone \/ SettleCut \/ CleanFails \/ BackTwice \/ WatchOver
  <2>1. call' = Idle
    BY <1>7 DEF PublishFails, RenameDone, SettleCut, CleanFails, BackTwice, WatchOver, CleanEnds
  <2>2. Noted(o, r) \/ \E b \in BOOLEAN : Noted(o, [r EXCEPT !.done = b])
    BY <1>1, <1>7 DEF PublishFails, RenameDone, SettleCut, CleanFails, BackTwice, WatchOver, CleanEnds
  <2>3. \A b \in BOOLEAN : Typed([r EXCEPT !.done = b])
    BY <1>4, TypedFields
  <2>4. RecordTypes'
    BY <1>2, <1>4, <2>2, <2>3, NotedTypes
  <2> QED
    BY <1>2, <2>1, <2>4, CallEnds DEF TypeInv
<1>8. CASE DeleteNotified
  <2>1. call' = [at |-> "settle", id |-> o, rec |-> r, keys |-> r.points, again |-> call.again]
        /\ Noted(o, r)
    BY <1>1, <1>4, <1>8 DEF DeleteNotified
  <2> QED
    BY <1>4, <1>5, <2>1
<1>9. CASE SettleOver \/ CleanKeys \/ BackOnce
  <2>1. UNCHANGED disk
    BY <1>9 DEF SettleOver, CleanKeys, BackOnce
  <2>2. \/ call' = [at |-> "clean", id |-> o, rec |-> r, keys |-> ks, again |-> call.again]
        \/ call' = [at |-> "watch", id |-> o, rec |-> r, keys |-> ks, again |-> call.again]
        \/ call' = [at |-> "watch", id |-> o, rec |-> r, keys |-> ks, again |-> TRUE]
    BY <1>4, <1>9 DEF SettleOver, CleanKeys, BackOnce
  <2> QED
    BY <1>4, <1>5, <2>1, <2>2
<1> QED
  BY <1>6, <1>7, <1>8, <1>9 DEF Saga

LEMMA BegunTypes ==
  ASSUME TypeInv, NEW o \in Ops, NEW r, Typed(r), r.committed = FALSE, Begun(o, r) PROVE TypeInv'
<1>1. Noted(o, r)
  BY DEF Begun, Noted
<1>2. call' = [at |-> "commit", id |-> o, rec |-> r, keys |-> {}, again |-> FALSE] /\ disk'[o] = r
  BY DEF Begun, Idle, TypeInv, RecordTypes
<1>3. call'.at = "commit" /\ call'.id = o /\ call'.rec = r
  BY <1>2
<1>4. call' \in [at : Stages, id : {call'.id}, rec : {call'.rec}, keys : SUBSET Devs, again : BOOLEAN]
  BY <1>2 DEF Stages
<1>5. Typed(call'.rec) /\ disk'[call'.id] = call'.rec
  BY <1>2, <1>3
<1>6. CallTypes'
  BY <1>3, <1>4, <1>5 DEF CallTypes, Typed, RecordSet
<1>7. StoreTypes'
  BY DEF Begun, TypeInv, StoreTypes, dbVars, farVars
<1> QED
  BY <1>1, <1>6, <1>7, NotedTypes DEF TypeInv

LEMMA RecordTyped ==
  ASSUME NEW kind \in {"rename", "delete"}, NEW items \in SUBSET Items, NEW to \in Names \cup {None},
         NEW D \in SUBSET Devs, NEW whole \in BOOLEAN, NEW msgs \in Seq(Notices),
         kind = "rename" => to \in Names
  PROVE  Typed(Record(kind, items, to, D, whole, msgs))
<1>1. PICK q : q = Record(kind, items, to, D, whole, msgs)
  OBVIOUS
<1>2. q \in RecordSet /\ q.points \subseteq q.devs /\ q.sent = 0 /\ q.msgs = msgs /\ q.kind = kind /\ q.to = to
  BY <1>1 DEF Record, PointsOf, RecordSet
<1>3. Len(msgs) \in Nat
  OBVIOUS
<1>4. Typed(q)
  BY <1>2, <1>3 DEF Typed
<1> QED
  BY <1>1, <1>4

LEMMA ApplyTypes ==
  ASSUME TypeInv, NEW o \in Ops,
         \/ \E items \in Edits, to \in Names : ApplyRename(o, items, to)
         \/ \E D \in SUBSET Devs, whole \in BOOLEAN : ApplyDelete(o, D, whole)
  PROVE  TypeInv'
<1>1. ASSUME NEW items \in Edits, NEW to \in Names, ApplyRename(o, items, to) PROVE TypeInv'
  <2>1. items \in SUBSET Items
    BY ManageAssumption
  <2>2. PICK msgs, r : msgs = RenameNotices(items) /\ r = Record("rename", items, to, {}, FALSE, msgs)
    OBVIOUS
  <2>3. Typed(r)
    BY <2>1, <2>2, RenameNoticesTyped, RecordTyped
  <2>4. r.committed = FALSE /\ Begun(o, r)
    BY <1>1, <2>2 DEF ApplyRename, Record
  <2> QED
    BY <2>3, <2>4, BegunTypes
<1>2. ASSUME NEW D \in SUBSET Devs, NEW whole \in BOOLEAN, ApplyDelete(o, D, whole) PROVE TypeInv'
  <2>1. PICK msgs, r : msgs = DeleteNotices(D) /\ r = Record("delete", {}, None, D, whole, msgs)
    OBVIOUS
  <2>2. Typed(r)
    BY <2>1, DeleteNoticesTyped, RecordTyped
  <2>3. r.committed = FALSE /\ Begun(o, r)
    BY <1>2, <2>1 DEF ApplyDelete, Record
  <2> QED
    BY <2>2, <2>3, BegunTypes
<1> QED
  BY <1>1, <1>2

LEMMA ResumeTypes ==
  ASSUME TypeInv, NEW o \in Ops, Close(o) \/ Resend(o) \/ RedisRetry(o) PROVE TypeInv'
<1>1. PICK r : r = disk[o]
  OBVIOUS
<1>2. Typed(r) /\ r \in RecordSet /\ r.committed \in BOOLEAN
  BY <1>1 DEF Close, Resend, RedisRetry, Resumes, Unsettled, TypeInv, RecordTypes, Typed, RecordSet
<1>3. StoreTypes' /\ RecordTypes
  BY DEF Close, Resend, RedisRetry, TypeInv, StoreTypes, dbVars, farVars
<1>4. CASE Close(o)
  <2>1. Noted(o, [r EXCEPT !.done = TRUE]) /\ UNCHANGED call /\ call.at = "idle"
    BY <1>1, <1>4 DEF Close
  <2>2. Typed([r EXCEPT !.done = TRUE])
    BY <1>2, TypedFields
  <2>3. CallTypes'
    BY <2>1 DEF TypeInv, CallTypes
  <2> QED
    BY <1>3, <2>1, <2>2, <2>3, NotedTypes DEF TypeInv
<1>5. PICK q : q = Resumed(o)
  OBVIOUS
<1>6. Typed(q) /\ q.committed = TRUE
  <2>1. PICK t : t = IF r.committed THEN r ELSE Settled(r)
    OBVIOUS
  <2>2. Typed(t) /\ t.committed = TRUE
    BY <1>2, <2>1, TypedFields, CommittedField DEF Settled
  <2>3. q = t \/ q = Refreshed(t)
    BY <1>1, <1>5, <2>1 DEF Resumed
  <2> QED
    BY <2>2, <2>3, RefreshedTyped
<1>7. CASE Resend(o)
  <2>1. Noted(o, q) /\ call' = [at |-> "send", id |-> o, rec |-> q, keys |-> {}, again |-> FALSE]
    BY <1>5, <1>7 DEF Resend, Idle
  <2> QED
    BY <1>3, <1>6, <2>1, NotedTypes, CallGoes DEF TypeInv, Stages
<1>8. CASE RedisRetry(o)
  <2>1. PICK ks : ks = q.devs \ PointsOf(q.devs)
    OBVIOUS
  <2>2. Noted(o, q) /\ call' = [at |-> "clean", id |-> o, rec |-> q, keys |-> ks, again |-> FALSE]
    BY <1>5, <1>8, <2>1 DEF RedisRetry, Idle
  <2>3. ks \in SUBSET Devs
    BY <1>6, <2>1 DEF Typed, RecordSet
  <2> QED
    BY <1>3, <1>6, <2>2, <2>3, NotedTypes, CallGoes DEF TypeInv, Stages
<1> QED
  BY <1>4, <1>7, <1>8

LEMMA TypeStep == TypeInv /\ [Next]_vars => TypeInv'
<1> SUFFICES ASSUME TypeInv, [Next]_vars PROVE TypeInv'
  OBVIOUS
<1>1. CASE UNCHANGED vars
  <2>1. UNCHANGED <<rows, name, group, grouped, others, coll, inbox, keys, disk, call>>
    BY <1>1 DEF vars, dbVars, farVars
  <2>2. RecordTypes' /\ CallTypes'
    BY <2>1 DEF TypeInv, RecordTypes, CallTypes, Typed, RecordSet
  <2> QED
    BY <2>1, <2>2 DEF TypeInv, StoreTypes
<1>2. CASE User
  BY <1>2, ApplyTypes, ResumeTypes DEF User
<1> QED
  BY <1>1, <1>2, SagaTypes, WorldTypes DEF Next

LEMMA TypedIsOK == ASSUME NEW r, Typed(r) PROVE RecordOK(r)
BY DEF Typed, RecordSet, RecordOK

\* Whatever is interrupted, lost or changed by others, a record on disk or at work is well formed,
\* counts no more notices as sent than it has, and none before it says that its transaction took
\* place (manageRecord, publish, resumeRecord, refreshDeviceUpdated).
THEOREM RecordsWellFormed == Spec => []TypeOK
<1>1. TypeInv => TypeOK
  <2> SUFFICES ASSUME TypeInv PROVE TypeOK
    OBVIOUS
  <2>1. \A o \in Ops : disk[o] # None => RecordOK(disk[o])
    BY TypedIsOK DEF TypeInv, RecordTypes
  <2>2. call.at \in Stages /\ (call.at # "idle" => call.id \in Ops /\ RecordOK(call.rec))
        /\ call.keys \subseteq Devs /\ call.again \in BOOLEAN
    BY TypedIsOK, CallParts DEF TypeInv, CallTypes
  <2> QED
    BY <2>1, <2>2 DEF TypeInv, StoreTypes, TypeOK, Stages
<1> QED
  BY <1>1, TypeInit, TypeStep, PTL DEF Spec

-----------------------------------------------------------------------------
(* What is yet to be told.  A record whose COMMIT is unknown owes only     *)
(* what can still be seen in the tables: a row that another rename has     *)
(* taken over is that one's to tell.                                       *)

\* What the notices from the next one on tell.
Rest(r) == UNION {Covers(r.msgs[i]) : i \in r.sent + 1 .. Len(r.msgs)}

\* recordCommitted over tables R, N and g.
Shown(r, R, N, g) ==
  IF r.kind = "rename" THEN \E i \in r.items : N[i] = r.to
  ELSE IF r.devs # {} THEN \E d \in r.devs : <<"device", d>> \notin R
  ELSE ~g

Row(n) == <<IF n[1] = "POINTS" THEN "point" ELSE "device", n[2]>>

Owes(r, R, N, g) ==
  IF r.done = TRUE THEN {}
  ELSE IF r.committed = TRUE THEN Rest(r)
  ELSE {n \in Rest(r) : IF r.kind = "rename" /\ n[1] # "SPECIFY" THEN N[Row(n)] = r.to
                        ELSE Shown(r, R, N, g)}

Owed(P) == UNION {Owes(disk[p], rows, name, group) : p \in {q \in P : disk[q] # None}}

\* The notices of a record are about its rows, and a DEVICE_UPDATED is the last of them.
Lettered(r) ==
  /\ r.kind = "rename" => r.items # {}
  /\ r.kind = "delete" /\ r.devs = {} => r.whole = TRUE
  /\ \A i \in 1 .. Len(r.msgs) :
       \/ r.msgs[i].type = "SPECIFY"
       \/ r.kind = "delete" /\ r.msgs[i].type = "DELETED"
       \/ r.kind = "rename" /\ r.msgs[i].type = "POINTS" /\ \A d \in r.msgs[i].devs : <<"point", d>> \in r.items
       \/ /\ r.kind = "rename" /\ r.msgs[i].type = "DEVICES" /\ i = Len(r.msgs)
          /\ \A d \in r.msgs[i].devs : <<"device", d>> \in r.items

\* They name every row it changes.
Complete(r) ==
  /\ <<"SPECIFY", None>> \in Rest(r)
  /\ r.kind = "rename" =>
       \A d \in Devs : /\ <<"point", d>> \in r.items => <<"POINTS", d>> \in Rest(r)
                       /\ <<"device", d>> \in r.items => <<"DEVICES", d>> \in Rest(r)

\* The collector can load what the notices to come are about.
Loadable(r, R) ==
  \A i \in r.sent + 1 .. Len(r.msgs) :
    r.msgs[i].type = "DEVICES" => \A d \in r.msgs[i].devs : <<"device", d>> \in R

News == \A n \in news : n[1] = "DEVICES" => <<"device", n[2]>> \in rows

Telling ==
  /\ call.at # "idle" => Lettered(call.rec)
  /\ call.at \in {"commit", "send"} => call.rec.done = FALSE /\ Loadable(call.rec, rows)
  /\ call.at = "commit" => Complete(call.rec) /\ call.rec.sent = 0
  /\ call.at \in {"settle", "clean", "watch"} => call.rec.sent = Len(call.rec.msgs)
  /\ call.at \notin {"idle", "commit"} => news \subseteq Owed(Ops \ {call.id}) \cup Rest(call.rec)

DiskLettered == \A o \in Ops : disk[o] # None => Lettered(disk[o])

ToldInv == DiskLettered /\ news \subseteq Owed(Ops) /\ News /\ Telling

-----------------------------------------------------------------------------
LEMMA HappenedIs == ASSUME NEW r PROVE Happened(r) <=> Shown(r, rows, name, group)
BY DEF Happened, Shown

LEMMA CoversIs ==
  ASSUME NEW m \in Notices, NEW n \in Covers(m)
  PROVE  /\ n = <<n[1], n[2]>> /\ n[1] = m.type
         /\ m.type # "SPECIFY" => n[2] \in m.devs /\ n[2] \in Devs
         /\ m.type = "SPECIFY" => n = <<"SPECIFY", None>>
<1>1. CASE m.type = "SPECIFY"
  BY <1>1 DEF Covers
<1>2. CASE m.type # "SPECIFY"
  <2>1. n \in {m.type} \X m.devs /\ m.devs \subseteq Devs
    BY <1>2 DEF Covers, Notices
  <2> QED
    BY <1>2, <2>1
<1> QED
  BY <1>1, <1>2

LEMMA RestIs ==
  ASSUME NEW r, Typed(r), NEW n \in Rest(r)
  PROVE  \E i \in r.sent + 1 .. Len(r.msgs) :
           i \in 1 .. Len(r.msgs) /\ r.msgs[i] \in Notices /\ n \in Covers(r.msgs[i])
<1>1. r.sent \in Nat /\ r.msgs \in Seq(Notices) /\ Len(r.msgs) \in Nat
  BY DEF Typed, RecordSet
<1>2. PICK i \in r.sent + 1 .. Len(r.msgs) : n \in Covers(r.msgs[i])
  BY DEF Rest
<1>3. i \in 1 .. Len(r.msgs)
  BY <1>1
<1> QED
  BY <1>1, <1>2, <1>3

\* A change that a notice of a rename is about is one of a row of it.
LEMMA RestRows ==
  ASSUME NEW r, Typed(r), Lettered(r), NEW n \in Rest(r), r.kind = "rename"
  PROVE  /\ n = <<n[1], n[2]>>
         /\ n[1] = "SPECIFY" => n = <<"SPECIFY", None>>
         /\ n[1] # "SPECIFY" => /\ n[1] \in {"POINTS", "DEVICES"} /\ n[2] \in Devs /\ Row(n) \in r.items
                                /\ Row(n) = <<"point", n[2]>> => n[1] = "POINTS"
<1>1. PICK i \in 1 .. Len(r.msgs) : r.msgs[i] \in Notices /\ n \in Covers(r.msgs[i])
  BY RestIs
<1>2. PICK m \in Notices : m = r.msgs[i]
  BY <1>1
<1>3. /\ n = <<n[1], n[2]>> /\ n[1] = m.type
      /\ m.type # "SPECIFY" => n[2] \in m.devs /\ n[2] \in Devs
      /\ m.type = "SPECIFY" => n = <<"SPECIFY", None>>
  BY <1>1, <1>2, CoversIs
<1>4. \/ m.type = "SPECIFY"
      \/ m.type = "POINTS" /\ \A d \in m.devs : <<"point", d>> \in r.items
      \/ m.type = "DEVICES" /\ \A d \in m.devs : <<"device", d>> \in r.items
  BY <1>1, <1>2 DEF Lettered
<1> QED
  BY <1>3, <1>4 DEF Row

\* What a record owes stays owed as long as its rows are left alone.
LEMMA OwesStay ==
  ASSUME NEW r, Typed(r), Lettered(r), NEW R, NEW N, NEW g, NEW R2, NEW N2, NEW g2,
         R2 \subseteq R, g2 => g,
         r.kind = "rename" /\ r.committed = FALSE /\ r.done = FALSE => \A i \in r.items : N2[i] = N[i]
  PROVE  Owes(r, R, N, g) \subseteq Owes(r, R2, N2, g2)
<1> SUFFICES ASSUME r.done = FALSE, r.committed = FALSE, NEW n \in Owes(r, R, N, g)
             PROVE  n \in Owes(r, R2, N2, g2)
  BY DEF Owes, Typed, RecordSet
<1>1. n \in Rest(r)
  BY DEF Owes
<1>2. Shown(r, R, N, g) => Shown(r, R2, N2, g2)
  BY DEF Shown
<1>3. r.kind = "rename" /\ n[1] # "SPECIFY" => N2[Row(n)] = N[Row(n)]
  BY <1>1, RestRows
<1> QED
  BY <1>1, <1>2, <1>3 DEF Owes

\* A rename takes over what it overwrites.
LEMMA OwesTaken ==
  ASSUME NEW r, Typed(r), Lettered(r), NEW q, Complete(q), q.kind = "rename",
         NEW R, NEW N, NEW g, NEW N2, \A i \in r.items \ q.items : N2[i] = N[i]
  PROVE  Owes(r, R, N, g) \subseteq Owes(r, R, N2, g) \cup Rest(q)
<1>1. CASE r.kind = "rename" /\ r.committed = FALSE /\ r.done = FALSE
  <2> SUFFICES ASSUME NEW n \in Owes(r, R, N, g), n \notin Rest(q) PROVE n \in Owes(r, R, N2, g)
    OBVIOUS
  <2>1. n \in Rest(r) /\ (n[1] # "SPECIFY" => N[Row(n)] = r.to)
    BY <1>1 DEF Owes
  <2>2. /\ n = <<n[1], n[2]>>
        /\ n[1] = "SPECIFY" => n = <<"SPECIFY", None>>
        /\ n[1] # "SPECIFY" => /\ n[1] \in {"POINTS", "DEVICES"} /\ n[2] \in Devs /\ Row(n) \in r.items
    BY <1>1, <2>1, RestRows
  <2>3. n[1] # "SPECIFY"
    BY <2>2 DEF Complete
  <2>4. Row(n) \notin q.items
    <3>1. CASE n[1] = "POINTS"
      BY <2>2, <3>1 DEF Complete, Row
    <3>2. CASE n[1] = "DEVICES"
      BY <2>2, <3>2 DEF Complete, Row
    <3> QED
      BY <2>2, <2>3, <3>1, <3>2
  <2>5. N2[Row(n)] = N[Row(n)]
    BY <2>2, <2>3, <2>4
  <2> QED
    BY <1>1, <2>1, <2>3, <2>5 DEF Owes
<1>2. CASE ~(r.kind = "rename" /\ r.committed = FALSE /\ r.done = FALSE)
  BY <1>2, OwesStay
<1> QED
  BY <1>1, <1>2

\* A transaction that took place can be seen.
LEMMA OwesWritten ==
  ASSUME NEW r, Typed(r), Lettered(r), r.done = FALSE, NEW R, NEW N, NEW g,
         r.kind = "rename" => \A i \in r.items : N[i] = r.to,
         r.kind = "delete" => (\A d \in r.devs : <<"device", d>> \notin R) /\ (r.whole = TRUE => ~g)
  PROVE  Rest(r) \subseteq Owes(r, R, N, g)
<1>1. r.kind \in {"rename", "delete"} /\ r.committed \in BOOLEAN
  BY DEF Typed, RecordSet
<1>2. Shown(r, R, N, g)
  BY <1>1 DEF Shown, Lettered
<1>3. ASSUME NEW n \in Rest(r), r.kind = "rename", n[1] # "SPECIFY" PROVE N[Row(n)] = r.to
  BY <1>3, RestRows
<1> QED
  BY <1>1, <1>2, <1>3 DEF Owes

\* One that recordCommitted does not see owes nothing.
LEMMA OwesNothing ==
  ASSUME NEW r, Typed(r), Lettered(r), r.committed = FALSE, NEW R, NEW N, NEW g, ~Shown(r, R, N, g)
  PROVE  Owes(r, R, N, g) = {}
<1> SUFFICES ASSUME NEW n \in Owes(r, R, N, g) PROVE FALSE
  OBVIOUS
<1>1. n \in Rest(r) /\ r.kind = "rename" /\ n[1] # "SPECIFY" /\ N[Row(n)] = r.to
  BY DEF Owes
<1>2. Row(n) \in r.items
  BY <1>1, RestRows
<1> QED
  BY <1>1, <1>2 DEF Shown

LEMMA OwesRest ==
  ASSUME NEW r, NEW R, NEW N, NEW g
  PROVE  /\ Owes(r, R, N, g) \subseteq Rest(r)
         /\ r.committed = TRUE /\ r.done = FALSE => Owes(r, R, N, g) = Rest(r)
         /\ r.done = TRUE => Owes(r, R, N, g) = {}
BY DEF Owes

-----------------------------------------------------------------------------
(* The notices of a new record and of one that is refreshed.               *)

LEMMA Joined ==
  ASSUME NEW S, NEW a \in Seq(S), NEW b \in Seq(S)
  PROVE  /\ a \o b \in Seq(S) /\ Len(a \o b) = Len(a) + Len(b)
         /\ \A i \in 1 .. Len(a) : (a \o b)[i] = a[i]
         /\ \A i \in 1 .. Len(b) : (a \o b)[Len(a) + i] = b[i]
OBVIOUS

LEMMA RenameNoticesAre ==
  ASSUME NEW P \in SUBSET Devs, NEW D \in SUBSET Devs, NEW items, NEW s, s = RenameNotices(items),
         P = Named(items, "point"), D = Named(items, "device")
  PROVE  /\ s \in Seq(Notices)
         /\ \E i \in 1 .. Len(s) : s[i] = Notice("SPECIFY", {})
         /\ P # {} => \E i \in 1 .. Len(s) : s[i] = Notice("POINTS", P)
         /\ D # {} => \E i \in 1 .. Len(s) : s[i] = Notice("DEVICES", D)
         /\ \A i \in 1 .. Len(s) : \/ s[i] = Notice("SPECIFY", {}) \/ s[i] = Notice("POINTS", P)
                                   \/ s[i] = Notice("DEVICES", D) /\ i = Len(s)
<1>1. PICK x, y, z : x = Notice("POINTS", P) /\ y = Notice("SPECIFY", {}) /\ z = Notice("DEVICES", D)
  OBVIOUS
<1>2. x \in Notices /\ y \in Notices /\ z \in Notices
  BY <1>1, IfAnyIs DEF NoticeTypes
<1>3. PICK a, c : a = (IF P = {} THEN <<>> ELSE <<x>>) /\ c = (IF D = {} THEN <<>> ELSE <<z>>)
  OBVIOUS
<1>4. /\ a \in Seq(Notices) /\ Len(a) = (IF P = {} THEN 0 ELSE 1) /\ (P # {} => a[1] = x)
      /\ c \in Seq(Notices) /\ Len(c) = (IF D = {} THEN 0 ELSE 1) /\ (D # {} => c[1] = z)
  <2>1. <<x>> \in Seq(Notices) /\ <<z>> \in Seq(Notices) /\ Len(<<x>>) = 1 /\ Len(<<z>>) = 1
        /\ <<x>>[1] = x /\ <<z>>[1] = z
    BY <1>2
  <2> QED
    BY <1>3, <2>1
<1>5. PICK b \in Seq(Notices) : b = <<y>> /\ Len(b) = 1 /\ b[1] = y
  <2>1. <<y>> \in Seq(Notices) /\ Len(<<y>>) = 1 /\ <<y>>[1] = y
    BY <1>2
  <2> QED
    BY <2>1
<1>6. PICK t : t = a \o b
  OBVIOUS
<1>7. /\ t \in Seq(Notices) /\ Len(t) = Len(a) + 1
      /\ \A i \in 1 .. Len(a) : t[i] = a[i]
      /\ \A i \in 1 .. Len(b) : t[Len(a) + i] = b[i]
  BY <1>4, <1>5, <1>6, Joined
<1>8. t \in Seq(Notices) /\ Len(t) = Len(a) + 1 /\ t[Len(t)] = y /\ (P # {} => t[1] = x)
  <2>1. 1 \in 1 .. Len(b) /\ (P # {} => 1 \in 1 .. Len(a))
    BY <1>4, <1>5
  <2> QED
    BY <1>4, <1>5, <1>7, <2>1
<1>9. s = t \o c
  BY <1>1, <1>3, <1>5, <1>6 DEF IfAny, RenameNotices
<1>10. /\ s \in Seq(Notices) /\ Len(s) = Len(t) + Len(c) /\ \A i \in 1 .. Len(t) : s[i] = t[i]
       /\ \A i \in 1 .. Len(c) : s[Len(t) + i] = c[i]
  <2>1. c \in Seq(Notices) /\ t \in Seq(Notices)
    BY <1>4, <1>8
  <2>2. /\ t \o c \in Seq(Notices) /\ Len(t \o c) = Len(t) + Len(c)
        /\ \A i \in 1 .. Len(t) : (t \o c)[i] = t[i]
        /\ \A i \in 1 .. Len(c) : (t \o c)[Len(t) + i] = c[i]
    BY <2>1, Joined
  <2> QED
    BY <1>9, <2>2, Zenon
<1>11. D # {} => s[Len(t) + 1] = c[1]
  <2>1. D # {} => 1 \in 1 .. Len(c)
    BY <1>4
  <2> QED
    BY <1>10, <2>1
<1>12. Len(t) \in {1, 2} /\ Len(s) \in {Len(t), Len(t) + 1} /\ (D # {} => Len(s) = Len(t) + 1)
       /\ (D = {} => Len(s) = Len(t)) /\ (P # {} => Len(t) = 2) /\ (P = {} => Len(t) = 1)
  BY <1>4, <1>8, <1>10
<1>13. s[Len(t)] = y /\ Len(t) \in 1 .. Len(s)
  BY <1>8, <1>10, <1>12
<1>14. P # {} => s[1] = x /\ 1 \in 1 .. Len(s)
  BY <1>8, <1>10, <1>12
<1>15. D # {} => s[Len(s)] = z /\ Len(s) \in 1 .. Len(s)
  BY <1>4, <1>11, <1>12
<1>16. ASSUME NEW i \in 1 .. Len(s) PROVE s[i] = y \/ s[i] = x \/ (s[i] = z /\ i = Len(s))
  <2>1. i = Len(t) \/ (i = Len(s) /\ D # {}) \/ (i = 1 /\ P # {})
    <3>1. CASE Len(t) = 1
      <4>1. CASE D = {}
        <5>1. Len(s) = 1
          BY <1>12, <3>1, <4>1
        <5>2. i = 1
          BY <5>1
        <5> QED
          BY <3>1, <5>2
      <4>2. CASE D # {}
        <5>1. Len(s) = 2
          BY <1>12, <3>1, <4>2
        <5>2. i = 1 \/ i = 2
          BY <5>1
        <5> QED
          BY <3>1, <4>2, <5>1, <5>2
      <4> QED
        BY <4>1, <4>2
    <3>2. CASE Len(t) = 2
      <4>1. P # {}
        BY <1>12, <3>2
      <4>2. CASE D = {}
        <5>1. Len(s) = 2
          BY <1>12, <3>2, <4>2
        <5>2. i = 1 \/ i = 2
          BY <5>1
        <5> QED
          BY <3>2, <4>1, <5>2
      <4>3. CASE D # {}
        <5>1. Len(s) = 3
          BY <1>12, <3>2, <4>3
        <5>2. i = 1 \/ i = 2 \/ i = 3
          BY <5>1
        <5> QED
          BY <3>2, <4>1, <4>3, <5>1, <5>2
      <4> QED
        BY <4>2, <4>3
    <3> QED
      BY <1>12, <3>1, <3>2
  <2> QED
    BY <1>13, <1>14, <1>15, <2>1
<1> QED
  BY <1>1, <1>10, <1>13, <1>14, <1>15, <1>16

LEMMA RestHas ==
  ASSUME NEW r, r.sent = 0, NEW i \in 1 .. Len(r.msgs), NEW n \in Covers(r.msgs[i])
  PROVE  n \in Rest(r)
BY DEF Rest

LEMMA RenameTells ==
  ASSUME NEW items \in SUBSET Items, items # {}, NEW to,
         NEW r, r = Record("rename", items, to, {}, FALSE, RenameNotices(items)),
         DevsOf(items) \subseteq LiveDevs
  PROVE  Lettered(r) /\ Complete(r) /\ Loadable(r, rows)
<1>1. PICK P, D, s : P = Named(items, "point") /\ D = Named(items, "device") /\ s = RenameNotices(items)
  OBVIOUS
<1>2. P \in SUBSET Devs /\ D \in SUBSET Devs
  BY <1>1 DEF Named, Items
<1>3. /\ \A d \in P : <<"point", d>> \in items
      /\ \A d \in D : <<"device", d>> \in items /\ <<"device", d>> \in rows
      /\ \A d \in Devs : /\ <<"point", d>> \in items => d \in P
                         /\ <<"device", d>> \in items => d \in D
  <2>1. ASSUME NEW d \in P PROVE <<"point", d>> \in items
    BY <1>1, <2>1 DEF Named, Items
  <2>2. ASSUME NEW d \in D PROVE <<"device", d>> \in items /\ d \in LiveDevs
    <3>1. PICK i \in items : i[1] = "device" /\ d = i[2]
      BY <1>1, <2>2 DEF Named
    <3>2. i = <<"device", d>> /\ d \in DevsOf(items)
      BY <3>1 DEF Items, DevsOf
    <3> QED
      BY <3>2
  <2>3. ASSUME NEW d \in Devs, NEW k \in {"point", "device"}, <<k, d>> \in items
        PROVE  d \in Named(items, k)
    <3>1. <<k, d>>[1] = k /\ <<k, d>>[2] = d
      OBVIOUS
    <3> QED
      BY <2>3, <3>1 DEF Named
  <2> QED
    BY <1>1, <2>1, <2>2, <2>3 DEF LiveDevs
<1>4. /\ \E i \in 1 .. Len(s) : s[i] = Notice("SPECIFY", {})
      /\ P # {} => \E i \in 1 .. Len(s) : s[i] = Notice("POINTS", P)
      /\ D # {} => \E i \in 1 .. Len(s) : s[i] = Notice("DEVICES", D)
      /\ \A i \in 1 .. Len(s) : \/ s[i] = Notice("SPECIFY", {}) \/ s[i] = Notice("POINTS", P)
                                \/ s[i] = Notice("DEVICES", D) /\ i = Len(s)
  BY <1>1, <1>2, RenameNoticesAre
<1>5. r.kind = "rename" /\ r.items = items /\ r.msgs = s /\ r.sent = 0
  BY <1>1 DEF Record
<1>6. /\ Notice("SPECIFY", {}).type = "SPECIFY"
      /\ Notice("POINTS", P).type = "POINTS" /\ Notice("POINTS", P).devs = P
      /\ Notice("DEVICES", D).type = "DEVICES" /\ Notice("DEVICES", D).devs = D
  BY DEF Notice
<1>7. Lettered(r)
  <2>1. ASSUME NEW i \in 1 .. Len(s)
        PROVE  \/ s[i].type = "SPECIFY"
               \/ s[i].type = "POINTS" /\ \A d \in s[i].devs : <<"point", d>> \in items
               \/ s[i].type = "DEVICES" /\ i = Len(s) /\ \A d \in s[i].devs : <<"device", d>> \in items
    BY <1>3, <1>4, <1>6
  <2> QED
    BY <1>5, <2>1 DEF Lettered
<1>8. Complete(r)
  <2>1. <<"SPECIFY", None>> \in Rest(r)
    <3>1. <<"SPECIFY", None>> \in Covers(Notice("SPECIFY", {}))
      BY <1>6 DEF Covers
    <3> QED
      BY <1>4, <1>5, <3>1, RestHas
  <2>2. ASSUME NEW d \in P PROVE <<"POINTS", d>> \in Rest(r)
    <3>1. <<"POINTS", d>> \in Covers(Notice("POINTS", P))
      BY <1>6, <2>2 DEF Covers
    <3> QED
      BY <1>4, <1>5, <2>2, <3>1, RestHas
  <2>3. ASSUME NEW d \in D PROVE <<"DEVICES", d>> \in Rest(r)
    <3>1. <<"DEVICES", d>> \in Covers(Notice("DEVICES", D))
      BY <1>6, <2>3 DEF Covers
    <3> QED
      BY <1>4, <1>5, <2>3, <3>1, RestHas
  <2> QED
    BY <1>3, <1>5, <2>1, <2>2, <2>3 DEF Complete
<1>9. Loadable(r, rows)
  <2>1. ASSUME NEW i \in 1 .. Len(s), s[i].type = "DEVICES", NEW d \in s[i].devs
        PROVE  <<"device", d>> \in rows
    <3>1. s[i] = Notice("DEVICES", D)
      BY <1>4, <1>6, <2>1
    <3> QED
      BY <1>3, <1>6, <2>1, <3>1
  <2>2. \A i \in 0 + 1 .. Len(s) : i \in 1 .. Len(s)
    OBVIOUS
  <2>3. \A i \in r.sent + 1 .. Len(r.msgs) : i \in 1 .. Len(s)
    BY <1>5, <2>2, Zenon
  <2> QED
    BY <1>5, <2>1, <2>3, Zenon DEF Loadable
<1> QED
  BY <1>7, <1>8, <1>9

LEMMA DeleteTells ==
  ASSUME NEW D \in SUBSET Devs, NEW whole \in BOOLEAN, D = {} => whole = TRUE,
         NEW r, r = Record("delete", {}, None, D, whole, DeleteNotices(D))
  PROVE  Lettered(r) /\ Complete(r) /\ Loadable(r, rows)
<1>1. PICK x, y : x = Notice("DELETED", D) /\ y = Notice("SPECIFY", {})
  OBVIOUS
<1>2. x.type = "DELETED" /\ y.type = "SPECIFY" /\ x \in Notices /\ y \in Notices
  BY <1>1, IfAnyIs DEF Notice, NoticeTypes
<1>3. PICK s : s = DeleteNotices(D)
  OBVIOUS
<1>4. \/ Len(s) = 1 /\ s[1] = y
      \/ Len(s) = 2 /\ s[1] = x /\ s[2] = y
  <2>1. CASE D = {}
    <3>1. s = <<>> \o <<y>>
      BY <1>1, <1>3, <2>1 DEF DeleteNotices, IfAny
    <3>2. <<y>> \in Seq(Notices) /\ Len(<<y>>) = 1 /\ <<y>>[1] = y
      BY <1>2
    <3> QED
      BY <3>1, <3>2
  <2>2. CASE D # {}
    <3>1. PICK a, b : a = <<x>> /\ b = <<y>>
      OBVIOUS
    <3>2. s = a \o b
      BY <1>1, <1>3, <2>2, <3>1 DEF DeleteNotices, IfAny
    <3>3. a \in Seq(Notices) /\ b \in Seq(Notices) /\ Len(a) = 1 /\ Len(b) = 1 /\ a[1] = x /\ b[1] = y
      BY <1>2, <3>1
    <3>4. Len(s) = Len(a) + Len(b) /\ (\A i \in 1 .. Len(a) : s[i] = a[i])
          /\ \A i \in 1 .. Len(b) : s[Len(a) + i] = b[i]
      BY <3>2, <3>3, Joined
    <3>5. 1 \in 1 .. Len(a) /\ 1 \in 1 .. Len(b) /\ Len(s) = 2
      BY <3>3, <3>4
    <3>6. s[1] = a[1] /\ s[2] = b[1]
      BY <3>3, <3>4, <3>5
    <3> QED
      BY <3>3, <3>5, <3>6
  <2> QED
    BY <2>1, <2>2
<1>5. r.kind = "delete" /\ r.devs = D /\ r.whole = whole /\ r.msgs = s /\ r.sent = 0
  BY <1>3 DEF Record
<1>6. \A i \in 1 .. Len(s) : s[i].type \in {"SPECIFY", "DELETED"}
  BY <1>2, <1>4
<1>7. Lettered(r)
  BY <1>5, <1>6 DEF Lettered
<1>8. Loadable(r, rows)
  BY <1>5, <1>6 DEF Loadable
<1>9. Complete(r)
  <2>1. <<"SPECIFY", None>> \in Covers(y)
    BY <1>2 DEF Covers
  <2>2. Len(s) \in 1 .. Len(s) /\ s[Len(s)] = y
    BY <1>4
  <2> QED
    BY <1>5, <2>1, <2>2, RestHas DEF Complete
<1> QED
  BY <1>7, <1>8, <1>9

\* A refreshed record tells all that the collector can load, and nothing else.
LEMMA RefreshedTells ==
  ASSUME NEW r, Typed(r), Lettered(r), r.kind = "rename", NEW q, q = Refreshed(r)
  PROVE  /\ q.kind = r.kind /\ q.done = r.done
         /\ Lettered(q) /\ Loadable(q, rows)
         /\ \A n \in Rest(r) : (n[1] = "DEVICES" => <<"device", n[2]>> \in rows) => n \in Rest(q)
<1>0. r.sent \in Nat /\ r.msgs \in Seq(Notices) /\ Len(r.msgs) \in Nat /\ r \in RecordSet
  BY DEF Typed, RecordSet
<1>1. CASE q = r /\ ~(r.sent < Len(r.msgs) /\ r.msgs[Len(r.msgs)].type = "DEVICES")
  <2>1. Loadable(r, rows)
    <3> SUFFICES ASSUME NEW i \in r.sent + 1 .. Len(r.msgs), r.msgs[i].type = "DEVICES" PROVE FALSE
      BY DEF Loadable
    <3>1. i \in 1 .. Len(r.msgs) /\ r.sent < Len(r.msgs)
      BY <1>0
    <3>2. i = Len(r.msgs)
      BY <3>1 DEF Lettered
    <3> QED
      BY <1>1, <3>1, <3>2
  <2> QED
    BY <1>1, <2>1
<1>2. ASSUME NEW s \in Seq(Notices), NEW n \in Nat, NEW D \in SUBSET Devs,
             q = [r EXCEPT !.msgs = s], n = Len(r.msgs) - 1, r.sent <= n,
             r.msgs[n + 1].type = "DEVICES", D = r.msgs[n + 1].devs \cap LiveDevs,
             Len(s) = (IF D = {} THEN n ELSE n + 1),
             \A i \in 1 .. n : s[i] = r.msgs[i],
             D # {} => s[n + 1] = Notice("DEVICES", D)
      PROVE  /\ q.kind = r.kind /\ q.done = r.done
             /\ Lettered(q) /\ Loadable(q, rows)
             /\ \A x \in Rest(r) : (x[1] = "DEVICES" => <<"device", x[2]>> \in rows) => x \in Rest(q)
  <2>1. /\ q.kind = r.kind /\ q.items = r.items /\ q.devs = r.devs /\ q.whole = r.whole
        /\ q.msgs = s /\ q.sent = r.sent /\ q.done = r.done
    BY <1>0, <1>2, MsgsField
  <2>2. Len(r.msgs) = n + 1 /\ n + 1 \in 1 .. Len(r.msgs) /\ \A i \in 1 .. n : i \in 1 .. Len(r.msgs) /\ i # Len(r.msgs)
    BY <1>0, <1>2
  <2>3. \A d \in r.msgs[n + 1].devs : <<"device", d>> \in r.items
    BY <1>2, <2>2 DEF Lettered
  <2>4. D # {} => s[n + 1].type = "DEVICES" /\ s[n + 1].devs = D
    BY <1>2 DEF Notice
  <2>5. \A i \in 1 .. n : \/ s[i].type = "SPECIFY"
                          \/ s[i].type = "POINTS" /\ \A d \in s[i].devs : <<"point", d>> \in r.items
    BY <1>2, <2>2 DEF Lettered
  <2>6. \A i \in 1 .. Len(s) : i \in 1 .. n \/ (i = n + 1 /\ i = Len(s) /\ D # {})
    BY <1>2
  <2>7. \A d \in D : <<"device", d>> \in r.items /\ <<"device", d>> \in rows
    BY <1>2, <2>3 DEF LiveDevs
  <2>8. Lettered(q)
    <3>1. ASSUME NEW i \in 1 .. Len(s)
          PROVE  \/ s[i].type = "SPECIFY"
                 \/ s[i].type = "POINTS" /\ \A d \in s[i].devs : <<"point", d>> \in r.items
                 \/ s[i].type = "DEVICES" /\ i = Len(s) /\ \A d \in s[i].devs : <<"device", d>> \in r.items
      BY <2>4, <2>5, <2>6, <2>7
    <3> QED
      BY <2>1, <3>1 DEF Lettered
  <2>9. Loadable(q, rows)
    <3> SUFFICES ASSUME NEW i \in r.sent + 1 .. Len(s), s[i].type = "DEVICES", NEW d \in s[i].devs
                 PROVE  <<"device", d>> \in rows
      BY <2>1 DEF Loadable
    <3>1. i \in 1 .. Len(s)
      BY <1>0, <1>2
    <3>2. i = n + 1 /\ D # {}
      BY <2>5, <2>6, <3>1
    <3> QED
      BY <2>4, <2>7, <3>2
  <2>10. ASSUME NEW x \in Rest(r), x[1] = "DEVICES" => <<"device", x[2]>> \in rows PROVE x \in Rest(q)
    <3>1. PICK i \in r.sent + 1 .. Len(r.msgs) :
                 i \in 1 .. Len(r.msgs) /\ r.msgs[i] \in Notices /\ x \in Covers(r.msgs[i])
      BY RestIs
    <3>2. SUFFICES \E j \in r.sent + 1 .. Len(s) : x \in Covers(s[j])
      BY <2>1 DEF Rest
    <3>3. CASE i # n + 1
      <4>1. i \in 1 .. n /\ i \in r.sent + 1 .. Len(s)
        BY <1>0, <1>2, <2>2, <3>1, <3>3
      <4> QED
        BY <1>2, <3>1, <4>1
    <3>4. CASE i = n + 1
      <4>1. x = <<x[1], x[2]>> /\ x[1] = "DEVICES" /\ x[2] \in r.msgs[i].devs /\ x[2] \in Devs
        BY <1>2, <3>1, <3>4, CoversIs
      <4>2. x[2] \in D
        BY <1>2, <2>10, <3>4, <4>1 DEF LiveDevs
      <4>3. x \in Covers(s[n + 1])
        BY <2>4, <4>1, <4>2 DEF Covers
      <4>4. n + 1 \in r.sent + 1 .. Len(s)
        BY <1>0, <1>2, <4>2
      <4> QED
        BY <4>3, <4>4
    <3> QED
      BY <3>3, <3>4
  <2> QED
    BY <2>1, <2>8, <2>9, <2>10
<1> QED
  BY <1>1, <1>2, RefreshedIs

-----------------------------------------------------------------------------
(* What is owed, from one step to the next.                                *)

LEMMA OwedIs ==
  ASSUME NEW o \in Ops
  PROVE  /\ Owed(Ops \ {o}) \subseteq Owed(Ops)
         /\ disk[o] = None => Owed(Ops) \subseteq Owed(Ops \ {o})
         /\ disk[o] # None => Owed(Ops) = Owed(Ops \ {o}) \cup Owes(disk[o], rows, name, group)
BY DEF Owed

\* Tables may change, as long as what a record no longer owes is in X.
LEMMA OwedGoes ==
  ASSUME RecordTypes, NEW o \in Ops, NEW q, Noted(o, q) \/ UNCHANGED disk, NEW X,
         \A p \in Ops : disk[p] # None =>
           Owes(disk[p], rows, name, group) \subseteq Owes(disk[p], rows', name', group') \cup X
  PROVE  /\ Owed(Ops \ {o}) \subseteq Owed(Ops \ {o})' \cup X
         /\ UNCHANGED disk => Owed(Ops) \subseteq Owed(Ops)' \cup X
<1>1. \A p \in Ops \ {o} : disk'[p] = disk[p]
  BY DEF Noted, RecordTypes
<1> QED
  BY <1>1 DEF Owed

LEMMA OwedIsNext ==
  ASSUME NEW o \in Ops
  PROVE  /\ Owed(Ops \ {o})' \subseteq Owed(Ops)'
         /\ disk'[o] # None => Owes(disk'[o], rows', name', group') \subseteq Owed(Ops)'
BY DEF Owed

LEMMA DiskGoes ==
  ASSUME TypeInv, DiskLettered, NEW o \in Ops, NEW q, Typed(q), Lettered(q), Noted(o, q) \/ UNCHANGED disk
  PROVE  DiskLettered' /\ (disk' = disk \/ disk'[o] = q) /\ q # None
<1>1. \A p \in Ops : disk'[p] = disk[p] \/ disk'[p] = q
  BY DEF Noted, TypeInv, RecordTypes
<1>2. disk' = disk \/ disk'[o] = q
  BY DEF Noted, TypeInv, RecordTypes
<1>3. q # None
  BY ManageAssumption DEF Typed
<1>4. ASSUME NEW p \in Ops, disk'[p] # None PROVE Lettered(disk'[p])
  BY <1>1, <1>4 DEF DiskLettered
<1>5. DiskLettered'
  BY <1>4 DEF DiskLettered, Lettered
<1> QED
  BY <1>2, <1>3, <1>5

\* A record is written, or kept back, that owes what its operation owed.
LEMMA NewsGoes ==
  ASSUME TypeInv, ToldInv, UNCHANGED <<rows, name, group>>, NEW o \in Ops, NEW q, Typed(q), Lettered(q),
         Noted(o, q) \/ UNCHANGED disk, news' \subseteq news,
         news' \subseteq Owed(Ops \ {o}) \cup Owes(q, rows, name, group)
  PROVE  /\ DiskLettered' /\ News' /\ news' \subseteq Owed(Ops)'
         /\ news' \subseteq Owed(Ops \ {o})' \cup Rest(q)
<1>1. DiskLettered' /\ (disk' = disk \/ disk'[o] = q) /\ q # None
  BY DiskGoes DEF ToldInv
<1>2. /\ Owed(Ops \ {o}) \subseteq Owed(Ops \ {o})'
      /\ UNCHANGED disk => Owed(Ops) \subseteq Owed(Ops)'
  <2>1. \A p \in Ops : disk[p] # None =>
          Owes(disk[p], rows, name, group) \subseteq Owes(disk[p], rows', name', group') \cup {}
    OBVIOUS
  <2>2. /\ Owed(Ops \ {o}) \subseteq Owed(Ops \ {o})' \cup {}
        /\ UNCHANGED disk => Owed(Ops) \subseteq Owed(Ops)' \cup {}
    BY <2>1, OwedGoes DEF TypeInv
  <2> QED
    BY <2>2
<1>3. news' \subseteq Owed(Ops)'
  <2>1. CASE disk' = disk
    BY <1>2, <2>1 DEF ToldInv
  <2>2. CASE disk'[o] = q
    BY <1>1, <1>2, <2>2, OwedIsNext
  <2> QED
    BY <1>1, <2>1, <2>2
<1>4. Owes(q, rows, name, group) \subseteq Rest(q)
  BY OwesRest
<1>5. News'
  BY DEF ToldInv, News
<1> QED
  BY <1>1, <1>2, <1>3, <1>4, <1>5

LEMMA IdleTold == ASSUME call' = Idle PROVE Telling'
BY DEF Telling, Idle

LEMMA GoingTold ==
  ASSUME NEW at \in {"send", "settle", "clean", "watch"}, NEW o \in Ops, NEW q, NEW ks, NEW again,
         call' = [at |-> at, id |-> o, rec |-> q, keys |-> ks, again |-> again],
         Lettered(q), at = "send" => q.done = FALSE /\ Loadable(q, rows'),
         at # "send" => q.sent = Len(q.msgs),
         news' \subseteq Owed(Ops \ {o})' \cup Rest(q)
  PROVE  Telling'
<1>1. call'.at = at /\ call'.id = o /\ call'.rec = q
  OBVIOUS
<1>2. Lettered(call'.rec) /\ Rest(call'.rec) = Rest(q)
  BY <1>1
<1>3. at = "send" => Loadable(call'.rec, rows')
  BY <1>1
<1>4. news' \subseteq Owed(Ops \ {call.id})' \cup Rest(call'.rec)
  BY <1>1, <1>2
<1> QED
  BY <1>1, <1>2, <1>3, <1>4 DEF Telling, Lettered, Loadable, Rest, Complete

LEMMA RestNone == ASSUME NEW r, Typed(r), r.sent = Len(r.msgs) PROVE Rest(r) = {}
<1>1. r.sent \in Nat
  BY DEF Typed, RecordSet
<1>2. r.sent + 1 .. Len(r.msgs) = {}
  BY <1>1
<1> QED
  BY <1>2 DEF Rest

\* Records that differ in nothing that notices are about.
LEMMA LetteredSame ==
  ASSUME NEW r, NEW q, Lettered(r), q.kind = r.kind, q.items = r.items, q.devs = r.devs,
         q.whole = r.whole, q.msgs = r.msgs
  PROVE  Lettered(q)
BY DEF Lettered

LEMMA RestSame == ASSUME NEW r, NEW q, q.msgs = r.msgs, q.sent = r.sent PROVE Rest(q) = Rest(r)
BY DEF Rest

-----------------------------------------------------------------------------
(* The steps.                                                              *)

LEMMA WriteTells ==
  ASSUME TypeInv, ToldInv, call.at = "commit", NEW r, r = call.rec, NEW o, o = call.id,
         NEW c \in BOOLEAN, NEW q, q = (IF c THEN [r EXCEPT !.committed = TRUE] ELSE r),
         Write(q), Noted(o, q) \/ UNCHANGED disk
  PROVE  /\ DiskLettered' /\ News' /\ news' \subseteq Owed(Ops)'
         /\ news' \subseteq Owed(Ops \ {o})' \cup Rest(q)
         /\ Typed(q) /\ Lettered(q) /\ q.done = FALSE /\ Loadable(q, rows')
<1>1. /\ o \in Ops /\ Typed(r) /\ r \in RecordSet /\ Lettered(r) /\ r.done = FALSE /\ Complete(r)
      /\ r.sent = 0 /\ Loadable(r, rows) /\ disk[o] = r /\ r.committed = FALSE
  BY DEF TypeInv, CallTypes, ToldInv, Telling, Typed
<1>2. /\ q.kind = r.kind /\ q.items = r.items /\ q.to = r.to /\ q.devs = r.devs /\ q.points = r.points
      /\ q.whole = r.whole /\ q.msgs = r.msgs /\ q.sent = 0 /\ q.done = FALSE
  BY <1>1, CommittedField
<1>3. Typed(q)
  BY <1>1, TypedFields
<1>4. Lettered(q) /\ Rest(q) = Rest(r) /\ Complete(q)
  BY <1>1, <1>2, LetteredSame, RestSame DEF Complete
<1>5. rows' \subseteq rows /\ (group' => group)
  BY DEF Write, Renames, Deletes
<1>6. \A p \in Ops : disk[p] # None =>
        Owes(disk[p], rows, name, group) \subseteq Owes(disk[p], rows', name', group') \cup Rest(q)
  <2> SUFFICES ASSUME NEW p \in Ops, disk[p] # None, NEW s, s = disk[p]
               PROVE  Owes(s, rows, name, group) \subseteq Owes(s, rows', name', group') \cup Rest(q)
    OBVIOUS
  <2>1. Typed(s) /\ Lettered(s) /\ s.items \subseteq Items
    BY DEF TypeInv, RecordTypes, ToldInv, DiskLettered, Typed, RecordSet
  <2>2. CASE q.kind = "rename"
    <3>1. name' = [i \in Items |-> IF i \in q.items THEN q.to ELSE name[i]] /\ UNCHANGED <<rows, group>>
      BY <2>2 DEF Write, Renames
    <3>2. \A i \in s.items \ q.items : name'[i] = name[i]
      BY <2>1, <3>1
    <3>3. Owes(s, rows, name, group) \subseteq Owes(s, rows, name', group) \cup Rest(q)
      BY <1>4, <2>1, <2>2, <3>2, OwesTaken
    <3> QED
      BY <3>1, <3>3
  <2>3. CASE q.kind # "rename"
    <3>1. name' = name
      BY <2>3 DEF Write, Deletes
    <3>2. Owes(s, rows, name, group) \subseteq Owes(s, rows', name', group')
      BY <1>5, <2>1, <3>1, OwesStay
    <3> QED
      BY <3>2
  <2> QED
    BY <2>2, <2>3
<1>7. news' \subseteq news \cup Rest(q)
  <2> SUFFICES ASSUME NEW n \in news', n \notin news PROVE n \in Rest(q)
    OBVIOUS
  <2>1. PICK m \in ToSet(q.msgs) : n \in Covers(m)
    BY DEF Write
  <2>2. PICK i \in DOMAIN q.msgs : m = q.msgs[i]
    BY <2>1 DEF ToSet
  <2>3. i \in 1 .. Len(q.msgs)
    BY <1>3, <2>2 DEF Typed, RecordSet
  <2> QED
    BY <1>2, <2>1, <2>2, <2>3, RestHas
<1>8. Rest(q) \subseteq Owes(q, rows', name', group') /\ Rest(q) \subseteq Owes(r, rows', name', group')
  <2>1. q.kind = "rename" => \A i \in q.items : name'[i] = q.to
    <3>1. q.items \subseteq Items
      BY <1>3 DEF Typed, RecordSet
    <3> QED
      BY <3>1 DEF Write, Renames
  <2>2. q.kind = "delete" => (\A d \in q.devs : <<"device", d>> \notin rows') /\ (q.whole = TRUE => ~group')
    <3> SUFFICES ASSUME q.kind = "delete"
                 PROVE  (\A d \in q.devs : <<"device", d>> \notin rows') /\ (q.whole = TRUE => ~group')
      OBVIOUS
    <3>1. rows' = {i \in rows : i[2] \notin q.devs} /\ (group' <=> (group /\ ~q.whole))
      BY DEF Write, Deletes
    <3>2. \A d \in q.devs : <<"device", d>>[2] = d
      OBVIOUS
    <3> QED
      BY <3>1, <3>2
  <2>3. Rest(q) \subseteq Owes(q, rows', name', group')
    BY <1>2, <1>3, <1>4, <2>1, <2>2, OwesWritten
  <2>4. Rest(r) \subseteq Owes(r, rows', name', group')
    BY <1>1, <1>2, <2>1, <2>2, OwesWritten
  <2> QED
    BY <1>4, <2>3, <2>4
<1>9. DiskLettered' /\ (disk' = disk \/ disk'[o] = q) /\ q # None /\ r # None
  BY <1>1, <1>3, <1>4, DiskGoes, ManageAssumption DEF ToldInv
<1>10. Rest(q) \subseteq Owed(Ops)'
  BY <1>1, <1>8, <1>9, OwedIsNext
<1>11. news' \subseteq Owed(Ops \ {o})' \cup Rest(q)
  <2>1. Owed(Ops \ {o}) \subseteq Owed(Ops \ {o})' \cup Rest(q)
    BY <1>1, <1>6, OwedGoes DEF TypeInv
  <2>2. Owed(Ops) = Owed(Ops \ {o}) \cup Owes(r, rows, name, group)
    BY <1>1, <1>9, OwedIs
  <2>3. Owes(r, rows, name, group) \subseteq Rest(q)
    BY <1>4, OwesRest
  <2> QED
    BY <1>7, <2>1, <2>2, <2>3 DEF ToldInv
<1>12. Loadable(q, rows')
  <2>1. CASE q.kind = "rename"
    <3>1. rows' = rows
      BY <2>1 DEF Write, Renames
    <3>2. Loadable(q, rows)
      BY <1>1, <1>2 DEF Loadable
    <3> QED
      BY <3>1, <3>2
  <2>2. CASE q.kind # "rename"
    <3>1. \A i \in 1 .. Len(q.msgs) : q.msgs[i].type # "DEVICES"
      BY <1>4, <2>2 DEF Lettered
    <3>2. \A i \in q.sent + 1 .. Len(q.msgs) : i \in 1 .. Len(q.msgs)
      BY <1>3 DEF Typed, RecordSet
    <3> QED
      BY <3>1, <3>2 DEF Loadable
  <2> QED
    BY <2>1, <2>2
<1>13. News'
  <2> SUFFICES ASSUME NEW n \in news', n[1] = "DEVICES" PROVE <<"device", n[2]>> \in rows'
    BY DEF News
  <2>1. CASE n \in Rest(q)
    <3>1. PICK i \in q.sent + 1 .. Len(q.msgs) : q.msgs[i] \in Notices /\ n \in Covers(q.msgs[i])
      BY <1>3, <2>1, RestIs
    <3>2. q.msgs[i].type = "DEVICES" /\ n[2] \in q.msgs[i].devs
      BY <3>1, CoversIs
    <3> QED
      BY <1>12, <3>1, <3>2 DEF Loadable
  <2>2. CASE n \notin Rest(q)
    <3>1. n \in news /\ <<"device", n[2]>> \in rows
      BY <1>7, <2>2 DEF ToldInv, News
    <3>2. CASE q.kind = "rename"
      BY <3>1, <3>2 DEF Write, Renames
    <3>3. CASE q.kind # "rename"
      <4>1. n[2] \notin q.devs
        <5>1. n \in UNION {Covers(m) : m \in ToSet(q.msgs)} => n \in Rest(q)
          <6>1. SUFFICES ASSUME NEW m \in ToSet(q.msgs), n \in Covers(m) PROVE n \in Rest(q)
            OBVIOUS
          <6>2. PICK i \in DOMAIN q.msgs : m = q.msgs[i]
            BY DEF ToSet
          <6>3. i \in 1 .. Len(q.msgs)
            BY <1>3, <6>2 DEF Typed, RecordSet
          <6> QED
            BY <1>2, <6>1, <6>2, <6>3, RestHas
        <5> QED
          BY <2>2, <5>1 DEF Write
      <4>2. rows' = {i \in rows : i[2] \notin q.devs} /\ <<"device", n[2]>>[2] = n[2]
        BY <3>3 DEF Write, Deletes
      <4> QED
        BY <3>1, <4>1, <4>2
    <3> QED
      BY <3>2, <3>3
  <2> QED
    BY <2>1, <2>2
<1>14. news' \subseteq Owed(Ops)'
  BY <1>1, <1>10, <1>11, OwedIsNext
<1> QED
  BY <1>2, <1>3, <1>4, <1>9, <1>11, <1>12, <1>13, <1>14

LEMMA CommitTold == ASSUME TypeInv, ToldInv, Commit \/ CommitLost PROVE ToldInv'
<1>1. PICK r, o : r = call.rec /\ o = call.id
  OBVIOUS
<1>2. call.at = "commit" /\ CallTypes
  BY DEF Commit, CommitLost, TypeInv
<1>3. CASE Commit
  <2>1. PICK q : q = [r EXCEPT !.committed = TRUE]
    OBVIOUS
  <2>2. Write(q) /\ Noted(o, q) /\ call' = [call EXCEPT !.at = "send", !.rec = q]
    BY <1>1, <1>3, <2>1 DEF Commit
  <2>3. /\ DiskLettered' /\ News' /\ news' \subseteq Owed(Ops)'
        /\ news' \subseteq Owed(Ops \ {o})' \cup Rest(q)
        /\ Typed(q) /\ Lettered(q) /\ q.done = FALSE /\ Loadable(q, rows')
    BY <1>1, <1>2, <2>1, <2>2, WriteTells
  <2>4. call' = [at |-> "send", id |-> o, rec |-> q, keys |-> call.keys, again |-> call.again]
    BY <1>1, <1>2, <2>2, CallParts
  <2>5. o \in Ops
    BY <1>1, <1>2 DEF CallTypes
  <2>6. Telling'
    BY <2>3, <2>4, <2>5, GoingTold
  <2> QED
    BY <2>3, <2>6 DEF ToldInv
<1>4. CASE CommitLost
  <2>1. call' = Idle /\ UNCHANGED disk
    BY <1>4 DEF CommitLost
  <2>2. CASE Write(r)
    <3>1. DiskLettered' /\ News' /\ news' \subseteq Owed(Ops)'
      BY <1>1, <1>2, <2>1, <2>2, WriteTells
    <3> QED
      BY <2>1, <3>1, IdleTold DEF ToldInv
  <2>3. CASE UNCHANGED <<dbVars, farVars>>
    <3>1. DiskLettered' /\ News' /\ news' \subseteq Owed(Ops)'
      BY <2>1, <2>3 DEF ToldInv, DiskLettered, Lettered, News, Owed, dbVars, farVars
    <3> QED
      BY <2>1, <3>1, IdleTold DEF ToldInv
  <2> QED
    BY <1>1, <1>4, <2>2, <2>3 DEF CommitLost
<1> QED
  BY <1>3, <1>4

\* What publish takes off the list.
LEMMA PublishTells ==
  ASSUME NEW r, Typed(r), r.committed = TRUE, r.done = FALSE, r.sent < Len(r.msgs), Lettered(r),
         Loadable(r, rows), NEW q, q = [r EXCEPT !.sent = r.sent + 1]
  PROVE  /\ Typed(q) /\ Lettered(q) /\ Loadable(q, rows) /\ q.committed = TRUE /\ q.done = FALSE
         /\ Effect(r.msgs[r.sent + 1]) = Covers(r.msgs[r.sent + 1])
         /\ Rest(r) \subseteq Covers(r.msgs[r.sent + 1]) \cup Rest(q)
<1>1. r \in RecordSet /\ r.sent \in Nat /\ r.msgs \in Seq(Notices) /\ Len(r.msgs) \in Nat
  BY DEF Typed, RecordSet
<1>2. PICK n \in Nat : n = r.sent + 1
  BY <1>1
<1>3. n \in 1 .. Len(r.msgs) /\ n \in r.sent + 1 .. Len(r.msgs)
  BY <1>1, <1>2
<1>4. /\ q.kind = r.kind /\ q.items = r.items /\ q.devs = r.devs /\ q.whole = r.whole /\ q.msgs = r.msgs
      /\ q.sent = n /\ q.committed = TRUE /\ q.done = FALSE
  BY <1>1, <1>2, SentField
<1>5. Typed(q) /\ Lettered(q)
  BY <1>4, TypedFields, LetteredSame
<1>6. \A i \in q.sent + 1 .. Len(r.msgs) : i \in r.sent + 1 .. Len(r.msgs)
  BY <1>1, <1>2, <1>4
<1>7. Loadable(q, rows)
  BY <1>4, <1>6 DEF Loadable
<1>8. Effect(r.msgs[n]) = Covers(r.msgs[n])
  <2>1. PICK m \in Notices : m = r.msgs[n]
    BY <1>1, <1>3
  <2>2. m.type = "DEVICES" => m.devs \subseteq LiveDevs
    <3>1. m.type = "DEVICES" => \A d \in m.devs : <<"device", d>> \in rows
      BY <1>3, <2>1 DEF Loadable
    <3> QED
      BY <2>1, <3>1 DEF LiveDevs, Notices
  <2> QED
    BY <2>1, <2>2 DEF Effect
<1>9. ASSUME NEW x \in Rest(r), x \notin Covers(r.msgs[n]) PROVE x \in Rest(q)
  <2>1. PICK i \in r.sent + 1 .. Len(r.msgs) : x \in Covers(r.msgs[i])
    BY DEF Rest
  <2>2. i # n
    BY <1>9, <2>1
  <2>3. i \in q.sent + 1 .. Len(q.msgs)
    BY <1>1, <1>2, <1>4, <2>2
  <2> QED
    BY <1>4, <2>1, <2>3 DEF Rest
<1> QED
  BY <1>2, <1>4, <1>5, <1>7, <1>8, <1>9

LEMMA SagaTold == ASSUME TypeInv, ToldInv, Saga PROVE ToldInv'
<1> SUFFICES ASSUME ~(Commit \/ CommitLost) PROVE ToldInv'
  BY CommitTold
<1>1. PICK r, o, ks : r = call.rec /\ o = call.id /\ ks = call.keys
  OBVIOUS
<1>2. UNCHANGED <<rows, name, group>> /\ news' \subseteq news
  BY DEF Saga, Publish, PublishFails, RenameDone, DeleteNotified, SettleOver, SettleCut, CleanKeys,
     CleanFails, BackOnce, BackTwice, WatchOver, CleanEnds, Take, dbVars, farVars
<1>3. call.at \in {"send", "settle", "clean", "watch"} /\ CallTypes
  BY DEF Saga, Publish, PublishFails, RenameDone, DeleteNotified, SettleOver, SettleCut,
     CleanKeys, CleanFails, BackOnce, BackTwice, WatchOver, Unsent, AllSent, CleanEnds, TypeInv, CallTypes
<1>4. /\ o \in Ops /\ Typed(r) /\ r \in RecordSet /\ r.committed = TRUE /\ Lettered(r)
      /\ call = [at |-> call.at, id |-> o, rec |-> r, keys |-> ks, again |-> call.again]
      /\ news \subseteq Owed(Ops \ {o}) \cup Rest(r)
      /\ call.at = "send" => r.done = FALSE /\ Loadable(r, rows)
      /\ call.at # "send" => r.sent = Len(r.msgs)
  BY <1>1, <1>3, CallParts DEF CallTypes, Typed, ToldInv, Telling
<1>5. ASSUME NEW at \in {"send", "settle", "clean", "watch"}, NEW q, Typed(q), Lettered(q),
             NEW k, NEW again, Noted(o, q) \/ UNCHANGED disk, q.committed = TRUE,
             at = "send" => q.done = FALSE /\ Loadable(q, rows), at # "send" => q.sent = Len(q.msgs),
             news' \subseteq Owed(Ops \ {o}) \cup Rest(q),
             call' = [at |-> at, id |-> o, rec |-> q, keys |-> k, again |-> again]
      PROVE  ToldInv'
  <2>1. news' \subseteq Owed(Ops \ {o}) \cup Owes(q, rows, name, group)
    <3>1. CASE at = "send"
      BY <1>5, <3>1, OwesRest
    <3>2. CASE at # "send"
      BY <1>5, <3>2, RestNone
    <3> QED
      BY <3>1, <3>2
  <2>2. /\ DiskLettered' /\ News' /\ news' \subseteq Owed(Ops)'
        /\ news' \subseteq Owed(Ops \ {o})' \cup Rest(q)
    BY <1>2, <1>4, <1>5, <2>1, NewsGoes
  <2>3. at = "send" => q.done = FALSE /\ Loadable(q, rows')
    BY <1>2, <1>5
  <2>4. Telling'
    BY <1>4, <1>5, <2>2, <2>3, GoingTold
  <2> QED
    BY <2>2, <2>4 DEF ToldInv
<1>6. ASSUME NEW q, Typed(q), Lettered(q), Noted(o, q), call' = Idle,
             news' \subseteq Owed(Ops \ {o}) \cup Owes(q, rows, name, group)
      PROVE  ToldInv'
  <2>1. DiskLettered' /\ News' /\ news' \subseteq Owed(Ops)'
    BY <1>2, <1>4, <1>6, NewsGoes
  <2> QED
    BY <1>6, <2>1, IdleTold DEF ToldInv
<1>7. CASE Publish
  <2>1. PICK q : q = [r EXCEPT !.sent = r.sent + 1]
    OBVIOUS
  <2>2. r.sent < Len(r.msgs) /\ call.at = "send"
    BY <1>1, <1>7 DEF Publish, Unsent
  <2>3. /\ Typed(q) /\ Lettered(q) /\ Loadable(q, rows) /\ q.committed = TRUE /\ q.done = FALSE
        /\ Effect(r.msgs[r.sent + 1]) = Covers(r.msgs[r.sent + 1])
        /\ Rest(r) \subseteq Covers(r.msgs[r.sent + 1]) \cup Rest(q)
    BY <1>4, <2>1, <2>2, PublishTells
  <2>4. news' = news \ Effect(r.msgs[r.sent + 1])
    BY <1>1, <1>7 DEF Publish, Take, NextNotice
  <2>5. news' \subseteq Owed(Ops \ {o}) \cup Rest(q)
    BY <1>4, <2>3, <2>4
  <2>6. call' = [at |-> "send", id |-> o, rec |-> q, keys |-> ks, again |-> call.again]
        /\ UNCHANGED disk
    BY <1>1, <1>4, <1>7, <2>1, <2>2 DEF Publish
  <2> QED
    BY <1>5, <2>3, <2>5, <2>6
<1>8. CASE PublishFails \/ SettleCut
  <2>1. Noted(o, r) /\ call' = Idle
    BY <1>1, <1>8 DEF PublishFails, SettleCut
  <2>2. Rest(r) = Owes(r, rows, name, group) \/ Rest(r) = {}
    BY <1>4, OwesRest, RestNone
  <2> QED
    BY <1>2, <1>4, <1>6, <2>1, <2>2
<1>9. CASE RenameDone \/ CleanFails \/ BackTwice \/ WatchOver
  <2>1. r.sent = Len(r.msgs) /\ call' = Idle
    BY <1>1, <1>4, <1>9 DEF RenameDone, CleanFails, BackTwice, WatchOver, CleanEnds, AllSent
  <2>2. \E b \in BOOLEAN : Noted(o, [r EXCEPT !.done = b])
    BY <1>1, <1>9 DEF RenameDone, CleanFails, BackTwice, WatchOver, CleanEnds
  <2>3. PICK b, q : b \in BOOLEAN /\ Noted(o, q) /\ q = [r EXCEPT !.done = b]
    BY <2>2
  <2>4. /\ q.kind = r.kind /\ q.items = r.items /\ q.devs = r.devs /\ q.whole = r.whole /\ q.msgs = r.msgs
        /\ q.sent = r.sent
    BY <1>4, <2>3, DoneField
  <2>5. Typed(q) /\ Lettered(q)
    BY <1>4, <2>3, <2>4, TypedFields, LetteredSame
  <2>6. news' \subseteq Owed(Ops \ {o})
    BY <1>2, <1>4, <2>1, RestNone
  <2> QED
    BY <1>6, <2>1, <2>3, <2>5, <2>6
<1>10. CASE DeleteNotified
  <2>1. /\ Noted(o, r) /\ r.sent = Len(r.msgs)
        /\ call' = [at |-> "settle", id |-> o, rec |-> r, keys |-> r.points, again |-> call.again]
    BY <1>1, <1>4, <1>10 DEF DeleteNotified, AllSent
  <2> QED
    BY <1>2, <1>4, <1>5, <2>1
<1>11. CASE SettleOver \/ CleanKeys \/ BackOnce
  <2>1. UNCHANGED disk /\ call.at # "send"
    BY <1>11 DEF SettleOver, CleanKeys, BackOnce
  <2>2. \/ call' = [at |-> "clean", id |-> o, rec |-> r, keys |-> ks, again |-> call.again]
        \/ call' = [at |-> "watch", id |-> o, rec |-> r, keys |-> ks, again |-> call.again]
        \/ call' = [at |-> "watch", id |-> o, rec |-> r, keys |-> ks, again |-> TRUE]
    BY <1>4, <1>11 DEF SettleOver, CleanKeys, BackOnce
  <2> QED
    BY <1>2, <1>4, <1>5, <2>1, <2>2
<1> QED
  BY <1>7, <1>8, <1>9, <1>10, <1>11 DEF Saga

LEMMA ApplyTold ==
  ASSUME TypeInv, ToldInv, NEW o \in Ops,
         \/ \E items \in Edits, to \in Names : ApplyRename(o, items, to)
         \/ \E D \in SUBSET Devs, whole \in BOOLEAN : ApplyDelete(o, D, whole)
  PROVE  ToldInv'
<1>1. ASSUME NEW r, Begun(o, r), Typed(r), Lettered(r), Complete(r), Loadable(r, rows),
             r.done = FALSE, r.sent = 0
      PROVE  ToldInv'
  <2>1. UNCHANGED <<rows, name, group, news>> /\ disk[o] = None /\ Noted(o, r)
    BY <1>1 DEF Begun, Noted, dbVars, farVars
  <2>2. news' \subseteq Owed(Ops \ {o}) \cup Owes(r, rows, name, group) /\ news' \subseteq news
    BY <2>1, OwedIs DEF ToldInv
  <2>3. DiskLettered' /\ News' /\ news' \subseteq Owed(Ops)'
    BY <1>1, <2>1, <2>2, NewsGoes
  <2>4. call'.at = "commit" /\ call'.rec = r
    BY <1>1 DEF Begun, Idle
  <2>5. Lettered(call'.rec) /\ Complete(call'.rec) /\ Loadable(call'.rec, rows')
    BY <1>1, <2>1, <2>4
  <2>6. Telling'
    BY <1>1, <2>4, <2>5 DEF Telling, Lettered, Loadable, Rest, Complete
  <2> QED
    BY <2>3, <2>6 DEF ToldInv
<1>2. ASSUME NEW items \in Edits, NEW to \in Names, ApplyRename(o, items, to) PROVE ToldInv'
  <2>1. items \in SUBSET Items /\ items # {} /\ DevsOf(items) \subseteq LiveDevs
    BY <1>2, ManageAssumption DEF ApplyRename
  <2>2. PICK msgs, r : msgs = RenameNotices(items) /\ r = Record("rename", items, to, {}, FALSE, msgs)
    OBVIOUS
  <2>3. Typed(r)
    BY <2>1, <2>2, RenameNoticesTyped, RecordTyped
  <2>4. Lettered(r) /\ Complete(r) /\ Loadable(r, rows)
    BY <2>1, <2>2, RenameTells
  <2>5. r.done = FALSE /\ r.sent = 0 /\ Begun(o, r)
    BY <1>2, <2>2 DEF ApplyRename, Record
  <2> QED
    BY <1>1, <2>3, <2>4, <2>5
<1>3. ASSUME NEW D \in SUBSET Devs, NEW whole \in BOOLEAN, ApplyDelete(o, D, whole) PROVE ToldInv'
  <2>1. D = {} => whole = TRUE
    BY <1>3 DEF ApplyDelete, Deletable
  <2>2. PICK msgs, r : msgs = DeleteNotices(D) /\ r = Record("delete", {}, None, D, whole, msgs)
    OBVIOUS
  <2>3. Typed(r)
    BY <2>2, DeleteNoticesTyped, RecordTyped
  <2>4. Lettered(r) /\ Complete(r) /\ Loadable(r, rows)
    BY <2>1, <2>2, DeleteTells
  <2>5. r.done = FALSE /\ r.sent = 0 /\ Begun(o, r)
    BY <1>3, <2>2 DEF ApplyDelete, Record
  <2> QED
    BY <1>1, <2>3, <2>4, <2>5
<1> QED
  BY <1>2, <1>3

\* A record that is resumed tells what it owed.
LEMMA ResumedTells ==
  ASSUME TypeInv, ToldInv, NEW o \in Ops, Resumes(o), NEW r, r = disk[o], NEW q, q = Resumed(o)
  PROVE  /\ Typed(q) /\ Lettered(q) /\ Loadable(q, rows) /\ q.committed = TRUE /\ q.done = r.done
         /\ q.kind = r.kind /\ (q.kind = "delete" => Rest(q) = Rest(r))
         /\ news \cap Rest(r) \subseteq Rest(q)
<1>1. Typed(r) /\ r \in RecordSet /\ Lettered(r) /\ r.committed \in BOOLEAN
  BY DEF Resumes, TypeInv, RecordTypes, Typed, RecordSet, ToldInv, DiskLettered
<1>2. PICK t : t = IF r.committed THEN r ELSE Settled(r)
  OBVIOUS
<1>3. /\ t.kind = r.kind /\ t.items = r.items /\ t.devs = r.devs /\ t.whole = r.whole /\ t.msgs = r.msgs
      /\ t.sent = r.sent /\ t.committed = TRUE /\ t.done = r.done
  BY <1>1, <1>2, CommittedField DEF Settled
<1>4. Typed(t)
  BY <1>1, <1>2, TypedFields DEF Settled
<1>5. Lettered(t) /\ Rest(t) = Rest(r)
  BY <1>1, <1>3, LetteredSame, RestSame
<1>6. CASE t.kind = "rename"
  <2>1. q = Refreshed(t)
    BY <1>2, <1>6 DEF Resumed
  <2>2. Typed(q) /\ q.committed = TRUE
    BY <1>3, <1>4, <2>1, RefreshedTyped
  <2>3. /\ q.kind = t.kind /\ q.done = t.done /\ Lettered(q) /\ Loadable(q, rows)
        /\ \A n \in Rest(t) : (n[1] = "DEVICES" => <<"device", n[2]>> \in rows) => n \in Rest(q)
    BY <1>4, <1>5, <1>6, <2>1, RefreshedTells
  <2>4. news \cap Rest(r) \subseteq Rest(q)
    BY <1>5, <2>3 DEF ToldInv, News
  <2> QED
    BY <1>3, <1>6, <2>2, <2>3, <2>4
<1>7. CASE t.kind # "rename"
  <2>1. q = t
    BY <1>2, <1>7 DEF Resumed
  <2>2. \A i \in 1 .. Len(t.msgs) : t.msgs[i].type # "DEVICES"
    BY <1>5, <1>7 DEF Lettered
  <2>3. \A i \in t.sent + 1 .. Len(t.msgs) : i \in 1 .. Len(t.msgs)
    BY <1>4 DEF Typed, RecordSet
  <2>4. Loadable(t, rows)
    BY <2>2, <2>3 DEF Loadable
  <2> QED
    BY <1>3, <1>4, <1>5, <2>1, <2>4
<1> QED
  BY <1>6, <1>7

LEMMA ResumeTold ==
  ASSUME TypeInv, ToldInv, NEW o \in Ops, Close(o) \/ Resend(o) \/ RedisRetry(o) PROVE ToldInv'
<1>1. PICK r : r = disk[o]
  OBVIOUS
<1>2. /\ Typed(r) /\ r \in RecordSet /\ Lettered(r) /\ r # None
      /\ news \subseteq Owed(Ops \ {o}) \cup Owes(r, rows, name, group)
      /\ UNCHANGED <<rows, name, group, news>>
  <2>1. r # None /\ UNCHANGED <<rows, name, group, news>>
    BY <1>1 DEF Close, Resend, RedisRetry, Resumes, Unsettled, dbVars, farVars
  <2>2. Typed(r) /\ Lettered(r)
    BY <1>1, <2>1 DEF TypeInv, RecordTypes, ToldInv, DiskLettered
  <2>3. Owed(Ops) = Owed(Ops \ {o}) \cup Owes(r, rows, name, group)
    BY <1>1, <2>1, OwedIs
  <2> QED
    BY <2>1, <2>2, <2>3 DEF Typed, ToldInv
<1>3. CASE Close(o)
  <2>1. PICK q : q = [r EXCEPT !.done = TRUE]
    OBVIOUS
  <2>2. Noted(o, q) /\ UNCHANGED call /\ call.at = "idle" /\ ~Happened(r) /\ r.committed = FALSE
    BY <1>1, <1>2, <1>3, <2>1 DEF Close, Unsettled, RecordSet
  <2>3. Owes(r, rows, name, group) = {}
    BY <1>2, <2>2, HappenedIs, OwesNothing
  <2>4. Typed(q) /\ Lettered(q)
    BY <1>2, <2>1, DoneField, TypedFields, LetteredSame
  <2>5. DiskLettered' /\ News' /\ news' \subseteq Owed(Ops)'
    BY <1>2, <2>2, <2>3, <2>4, NewsGoes
  <2>6. Telling'
    BY <2>2 DEF Telling
  <2> QED
    BY <2>5, <2>6 DEF ToldInv
<1>4. PICK q : q = Resumed(o)
  OBVIOUS
<1>5. CASE Resend(o)
  <2>1. /\ Resumes(o) /\ r.done = FALSE /\ Noted(o, q)
        /\ call' = [at |-> "send", id |-> o, rec |-> q, keys |-> {}, again |-> FALSE]
    BY <1>1, <1>2, <1>4, <1>5 DEF Resend, Idle, RecordSet
  <2>2. /\ Typed(q) /\ Lettered(q) /\ Loadable(q, rows) /\ q.committed = TRUE /\ q.done = FALSE
        /\ news \cap Rest(r) \subseteq Rest(q)
    BY <1>1, <1>4, <2>1, ResumedTells
  <2>3. news \subseteq Owed(Ops \ {o}) \cup Owes(q, rows, name, group)
    BY <1>2, <2>2, OwesRest
  <2>4. /\ DiskLettered' /\ News' /\ news' \subseteq Owed(Ops)'
        /\ news' \subseteq Owed(Ops \ {o})' \cup Rest(q)
    BY <1>2, <2>1, <2>2, <2>3, NewsGoes
  <2>5. Loadable(q, rows')
    BY <1>2, <2>2
  <2>6. Telling'
    BY <2>1, <2>2, <2>4, <2>5, GoingTold
  <2> QED
    BY <2>4, <2>6 DEF ToldInv
<1>6. CASE RedisRetry(o)
  <2>1. PICK ks : ks = q.devs \ PointsOf(q.devs)
    OBVIOUS
  <2>2. /\ Resumes(o) /\ Noted(o, q) /\ q.kind = "delete" /\ q.sent = Len(q.msgs)
        /\ call' = [at |-> "clean", id |-> o, rec |-> q, keys |-> ks, again |-> FALSE]
    BY <1>4, <1>6, <2>1 DEF RedisRetry, Idle
  <2>3. Typed(q) /\ Lettered(q) /\ Rest(q) = Rest(r)
    BY <1>1, <1>4, <2>2, ResumedTells
  <2>4. news \subseteq Owed(Ops \ {o})
    BY <1>2, <2>2, <2>3, OwesRest, RestNone
  <2>5. /\ DiskLettered' /\ News' /\ news' \subseteq Owed(Ops)'
        /\ news' \subseteq Owed(Ops \ {o})' \cup Rest(q)
    BY <1>2, <2>2, <2>3, <2>4, NewsGoes
  <2>6. Telling'
    BY <2>2, <2>3, <2>5, GoingTold
  <2> QED
    BY <2>5, <2>6 DEF ToldInv
<1> QED
  BY <1>3, <1>5, <1>6

\* The console changes rows, not those a record whose COMMIT is unknown watches the names of.
LEMMA WorldKeeps ==
  ASSUME TypeInv, ToldInv, UNCHANGED <<disk, group>>, rows' \subseteq rows, news' \subseteq news, News',
         \A p \in Ops : Unsettled(p) => \A i \in disk[p].items : name'[i] = name[i],
         \/ UNCHANGED call /\ (call.at \in {"commit", "send"} => Loadable(call.rec, rows'))
         \/ call' = Idle
  PROVE  ToldInv'
<1>1. ASSUME NEW p \in Ops, disk[p] # None
      PROVE  Owes(disk[p], rows, name, group) \subseteq Owes(disk[p], rows', name', group')
  <2>1. PICK s : s = disk[p]
    OBVIOUS
  <2>2. Typed(s) /\ Lettered(s)
    BY <1>1, <2>1 DEF TypeInv, RecordTypes, ToldInv, DiskLettered
  <2>3. s.committed = FALSE /\ s.done = FALSE => \A i \in s.items : name'[i] = name[i]
    BY <1>1, <2>1 DEF Unsettled
  <2>4. Owes(s, rows, name, group) \subseteq Owes(s, rows', name', group')
    BY <2>2, <2>3, OwesStay
  <2> QED
    BY <2>1, <2>4
<1>2. Owed(Ops) \subseteq Owed(Ops)'
  BY <1>1 DEF Owed
<1>3. DiskLettered'
  BY DEF ToldInv, DiskLettered, Lettered
<1>4. Telling'
  <2>1. CASE call' = Idle
    BY <2>1, IdleTold
  <2>2. CASE UNCHANGED call /\ (call.at \in {"commit", "send"} => Loadable(call.rec, rows'))
    <3>1. call.at \notin {"idle", "commit"} => news' \subseteq Owed(Ops \ {call.id})' \cup Rest(call.rec)
      <4>1. Owed(Ops \ {call.id}) \subseteq Owed(Ops \ {call.id})'
        BY <1>1, <2>2 DEF Owed
      <4> QED
        BY <4>1 DEF ToldInv, Telling
    <3>2. call' = call /\ call'.at = call.at /\ call'.rec = call.rec /\ call'.id = call.id
      BY <2>2
    <3>3. /\ call.at # "idle" => Lettered(call'.rec)
          /\ call.at \in {"commit", "send"} => call.rec.done = FALSE /\ Loadable(call'.rec, rows')
          /\ call.at = "commit" => Complete(call'.rec) /\ call.rec.sent = 0
          /\ call.at \in {"settle", "clean", "watch"} => call.rec.sent = Len(call.rec.msgs)
      BY <2>2, <3>2 DEF ToldInv, Telling
    <3>4. call.at \notin {"idle", "commit"} => news' \subseteq Owed(Ops \ {call.id})' \cup Rest(call'.rec)
      BY <3>1, <3>2
    <3> QED
      BY <3>2, <3>3, <3>4 DEF Telling, Lettered, Loadable, Rest, Complete
  <2> QED
    BY <2>1, <2>2
<1> QED
  BY <1>2, <1>3, <1>4 DEF ToldInv

LEMMA WorldTold ==
  ASSUME TypeInv, ToldInv, "fooled" \notin Faults, "meanwhile" \notin Faults, World PROVE ToldInv'
<1>1. ASSUME UNCHANGED <<rows, name, group, disk, news>>, UNCHANGED call \/ call' = Idle PROVE ToldInv'
  <2>1. News'
    BY <1>1 DEF ToldInv, News
  <2>2. call.at \in {"commit", "send"} => Loadable(call.rec, rows')
    <3>1. rows' = rows
      BY <1>1
    <3> QED
      BY <3>1 DEF ToldInv, Telling
  <2> QED
    BY <1>1, <2>1, <2>2, WorldKeeps
<1>2. CASE Crash
  BY <1>1, <1>2 DEF Crash, dbVars, farVars
<1>3. ASSUME NEW i \in Items, NEW to \in Names, OthersRename(i, to) PROVE ToldInv'
  <2>1. UNCHANGED <<rows, group, disk, call, news>> /\ name' = [name EXCEPT ![i] = to] /\ i \notin WatchedNames
    BY <1>3 DEF OthersRename, farVars
  <2>2. \A p \in Ops : Unsettled(p) => \A j \in disk[p].items : name'[j] = name[j]
    <3>1. \A p \in Ops : Unsettled(p) => i \notin disk[p].items
      BY <2>1 DEF WatchedNames
    <3> QED
      BY <2>1, <3>1 DEF TypeInv, StoreTypes
  <2>3. News'
    BY <2>1 DEF ToldInv, News
  <2>4. call.at \in {"commit", "send"} => Loadable(call.rec, rows')
    <3>1. rows' = rows
      BY <2>1
    <3> QED
      BY <3>1 DEF ToldInv, Telling
  <2> QED
    BY <2>1, <2>2, <2>3, <2>4, WorldKeeps
<1>4. ASSUME NEW gone \in SUBSET Items, OthersDelete(gone) PROVE ToldInv'
  <2>1. UNCHANGED <<name, group, disk, call>> /\ rows' = rows \ gone /\ call.at # "commit"
    BY <1>4 DEF OthersDelete, Unlocked
  <2>2. PICK d \in Devs :
          /\ gone = {<<"point", d>>} \/ gone = {i \in rows : i[2] = d /\ <<"device", d>> \in rows}
          /\ ~(call.at = "send" /\ Touches(call.rec, d))
          /\ news' = {n \in news : n[2] # d \/ (n[1] = "DEVICES" /\ <<"device", d>> \notin gone)}
    BY <1>4 DEF OthersDelete
  <2>3. \A e \in Devs : <<"device", e>> \in gone => e = d
    BY <2>2
  <2>4. News'
    <3> SUFFICES ASSUME NEW n \in news', n[1] = "DEVICES" PROVE <<"device", n[2]>> \in rows'
      BY DEF News
    <3>1. <<"device", n[2]>> \in rows
      BY <2>2 DEF ToldInv, News
    <3>2. <<"device", n[2]>> \in gone => n[2] = d
      <4>1. gone = {<<"point", d>>} => <<"device", n[2]>> \notin gone
        OBVIOUS
      <4>2. <<"device", n[2]>>[2] = n[2]
        OBVIOUS
      <4> QED
        BY <2>2, <4>1, <4>2
    <3> QED
      BY <2>1, <2>2, <3>1, <3>2
  <2>5. call.at \in {"commit", "send"} => Loadable(call.rec, rows')
    <3> SUFFICES ASSUME call.at = "send" PROVE Loadable(call.rec, rows')
      BY <2>1
    <3>1. PICK r : r = call.rec
      OBVIOUS
    <3>2. Typed(r) /\ Lettered(r) /\ Loadable(r, rows) /\ ~Touches(r, d)
      BY <2>2, <3>1 DEF TypeInv, CallTypes, ToldInv, Telling
    <3>3. ASSUME NEW i \in r.sent + 1 .. Len(r.msgs), r.msgs[i].type = "DEVICES", NEW e \in r.msgs[i].devs
          PROVE  <<"device", e>> \in rows'
      <4>1. <<"device", e>> \in rows /\ i \in 1 .. Len(r.msgs)
        BY <3>2, <3>3 DEF Loadable, Typed, RecordSet
      <4>2. <<"device", e>> \in r.items
        BY <3>2, <3>3, <4>1 DEF Lettered
      <4>3. e \in DevsOf(r.items)
        <5>1. <<"device", e>>[2] = e
          OBVIOUS
        <5> QED
          BY <4>2, <5>1, Zenon DEF DevsOf
      <4>4. e # d /\ e \in Devs
        BY <3>2, <4>2, <4>3 DEF Touches, Typed, RecordSet, Items
      <4> QED
        BY <2>1, <2>3, <4>1, <4>4
    <3> QED
      BY <3>1, <3>3 DEF Loadable
  <2>6. rows' \subseteq rows /\ news' \subseteq news
    BY <2>1, <2>2
  <2> QED
    BY <2>1, <2>4, <2>5, <2>6, WorldKeeps
<1>5. ASSUME NEW d \in Devs, OthersMove(d) \/ CollectorStops(d) \/ CollectorWrites(d) PROVE ToldInv'
  BY <1>1, <1>5 DEF OthersMove, CollectorStops, CollectorWrites, dbVars, farVars
<1> QED
  BY <1>2, <1>3, <1>4, <1>5 DEF World

LEMMA ToldInit == Init => ToldInv
BY DEF Init, ToldInv, DiskLettered, News, Telling, Idle

LEMMA ToldStep ==
  ASSUME "fooled" \notin Faults, "meanwhile" \notin Faults
  PROVE  TypeInv /\ ToldInv /\ [Next]_vars => ToldInv'
<1> SUFFICES ASSUME TypeInv, ToldInv, [Next]_vars PROVE ToldInv'
  OBVIOUS
<1>1. CASE UNCHANGED vars
  <2>1. UNCHANGED <<rows, name, group, disk, news, call>>
    BY <1>1 DEF vars, dbVars, farVars
  <2>2. News'
    BY <2>1 DEF ToldInv, News
  <2>3. call.at \in {"commit", "send"} => Loadable(call.rec, rows')
    <3>1. rows' = rows
      BY <2>1
    <3> QED
      BY <3>1 DEF ToldInv, Telling
  <2> QED
    BY <2>1, <2>2, <2>3, WorldKeeps
<1>2. CASE User
  BY <1>2, ApplyTold, ResumeTold DEF User
<1> QED
  BY <1>1, <1>2, SagaTold, WorldTold DEF Next

\* A committed change the collector has not been told of has an unfinished record with the notice
\* unsent, through crashes, failed saves, lost COMMITs, answers of the broker that are lost and
\* renames that overwrite each other (recordCommitted, resumeRecord, publish, finishRename), as long
\* as nobody else changes a row of an operation whose COMMIT is unknown or deletes a device while a
\* notice that names it is on its way.
THEOREM ChangesAreTold ==
  ASSUME "fooled" \notin Faults, "meanwhile" \notin Faults PROVE Spec => []ToldOrPending
<1>1. TypeInv /\ ToldInv => ToldOrPending
  <2> SUFFICES ASSUME TypeInv, ToldInv, NEW n \in news PROVE n \in UNION {Pending(o) : o \in Ops}
    BY DEF ToldOrPending
  <2>1. PICK o \in Ops : disk[o] # None /\ n \in Owes(disk[o], rows, name, group)
    BY DEF ToldInv, Owed
  <2>2. Typed(disk[o])
    BY <2>1 DEF TypeInv, RecordTypes
  <2>3. n \in Rest(disk[o]) /\ disk[o].done = FALSE
    BY <2>1, <2>2 DEF Owes, Typed, RecordSet
  <2>4. n \in Pending(o)
    BY <2>1, <2>3 DEF Pending, Rest
  <2> QED
    BY <2>4
<1> QED
  BY <1>1, TypeInit, TypeStep, ToldInit, ToldStep, PTL DEF Spec
=============================================================================
