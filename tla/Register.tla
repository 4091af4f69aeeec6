------------------------------ MODULE Register ------------------------------
(***************************************************************************)
(* Registration of MK119 resource-collection devices and checkpoints       *)
(* (internal/statsreg/register.go).  One run of Service.register crosses   *)
(* three stores that have no common transaction: the receipt file on the   *)
(* PC, the MariaDB of the monitored product, and its Kafka notice topic.   *)
(* The run commits the devices first, announces them, waits until the      *)
(* collector had time to apply the announcement, and only then commits the *)
(* checkpoints.  Service.Retry resumes a receipt from whatever stage its   *)
(* file shows, after an error or a restart of the program.                 *)
(*                                                                         *)
(* Abstractions.  All devices of a run are one interface: the run's own    *)
(* one when it creates devices, the group's when it only updates.  Time is *)
(* counted down: "wait" is what is left of the settle wait measured from   *)
(* DevicesNotifiedAt, "left" what is left of the collector's lag.          *)
(***************************************************************************)
EXTENDS Integers, FiniteSets

CONSTANTS
  Runs,       \* registration runs; a run names its receipt and its new interface
  Keys,       \* Redis keys that can be registered as checkpoints
  Movable,    \* checkpoints registered earlier, which a run may move
  Group,      \* interface of the device a run finds in the group it updates
  Elsewhere,  \* interface of a device of another group
  Web,        \* author of a row written by the product's own web console
  None,       \* no receipt, no receipt in memory, no run, no interface
  Settle,     \* ticks of defaultSettle
  Lag,        \* ticks within which the collector applies a delivered notice
  MaxTx,      \* bound: second-phase transactions that commit, per run
  MaxOthers   \* bound: writes of the console and deletions

ASSUME RegisterAssumption ==
  /\ Settle \in Nat /\ Lag \in Nat /\ Lag < Settle
  /\ MaxTx \in Nat /\ MaxOthers \in Nat
  /\ Group # Elsewhere /\ {Group, Elsewhere} \cap Runs = {}
  /\ Web \notin Runs
  /\ None \notin Runs \cup {Group, Elsewhere}

VARIABLES
  there,     \* interfaces whose device_group row exists
  dead,      \* interfaces whose device is soft-deleted (flag = -1)
  live,      \* live rows of liz.checkpoint on the driver, Movable ones apart
  at,        \* interface of each Movable checkpoint, None once it is deleted
  inserted,  \* number of second-phase transactions of a run that committed
  pending,   \* notices in liz.message.pipeline the collector has not applied
  told,      \* history: notices of each run the broker has ever taken
  others,    \* bound: number of writes of the console and deletions so far
  disk,      \* receipt file of each run
  mem,       \* receipt in the memory of the call that holds Service.mu
  run,       \* the run of that call
  pc         \* where that call is

dbVars   == <<there, dead, live, at, inserted, others>>
pipeVars == <<pending, told>>
callVars == <<mem, run, pc>>
vars     == <<there, dead, live, at, inserted, pending, told, others, disk, mem, run, pc>>

Ifaces == Runs \cup {Group, Elsewhere}
Row    == [key : Keys, iface : Ifaces, by : Runs \cup {Web}, no : Nat]
Move   == [cp : Movable, from : Ifaces]
Notice == [run : Runs, phase : {"device", "point"}, no : 1 .. 2, left : 0 .. Lag]

\* DevicesNotifiedAt.IsZero()
Unset == -1

Receipt ==
  [stage    : {"prepared", "devices", "checkpoints"},
   fresh    : BOOLEAN,          \* len(NewDeviceIDs) > 0
   points   : SUBSET Keys,      \* Points: the keys selected
   moves    : SUBSET Move,      \* Moves: the checkpoints ticked for moving
   devSent  : 0 .. 2,           \* DeviceSent
   wait     : Unset .. Settle,  \* DevicesNotifiedAt + settle - now
   ptMsgs   : BOOLEAN,          \* len(PointMessages) > 0
   ptSent   : 0 .. 2,           \* PointSent
   ids      : SUBSET Row,       \* Result.CheckpointIDs
   notified : BOOLEAN,
   verified : BOOLEAN]

ASSUME NoneAssumption == None \notin Receipt

Pcs == {"idle", "prepare", "commit1", "saveStage", "sendDev", "saveDevSent",
        "settle", "look", "tx2", "save2", "commit2", "saveDone",
        "sendPt", "savePtSent"}

\* SPECIFY_RULE_UPDATED and DEVICE_ADDED, sent only for new devices.
DevCount(rec) == IF rec.fresh THEN 2 ELSE 0

\* The interface the run's checkpoints go to (hosts, DeviceIDs, InterfaceIDs).
Target(r, rec) == IF rec.fresh THEN r ELSE Group

NewRows(r, rec) ==
  [key : rec.points, iface : {Target(r, rec)}, by : {r}, no : {inserted[r] + 1}]

-----------------------------------------------------------------------------
Init ==
  /\ there = {Group, Elsewhere}
  /\ dead = {}
  /\ live = {}
  /\ at = [m \in Movable |-> Elsewhere]
  /\ inserted = [r \in Runs |-> 0]
  /\ pending = {}
  /\ told = [r \in Runs |-> {}]
  /\ others = 0
  /\ disk = [r \in Runs |-> None]
  /\ mem = None
  /\ run = None
  /\ pc = "idle"

-----------------------------------------------------------------------------
(* Steps every call is made of.                                            *)

\* The call returns or the program dies: Service.mu is free, the receipt in
\* memory is forgotten and an open transaction is rolled back.
Return == pc' = "idle" /\ mem' = None /\ run' = None

\* saveReceipt writes a temporary file and renames it over the receipt.
Saved == disk' = [disk EXCEPT ![run] = mem']

\* saveReceipt's error is ignored by the caller (_ = s.saveReceipt(rec)).
SavedOrNot == Saved \/ UNCHANGED disk

Deliver(phase, no) ==
  /\ pending' = pending \cup {[run |-> run, phase |-> phase, no |-> no, left |-> Lag]}
  /\ told' = [told EXCEPT ![run] = @ \cup {<<phase, no>>}]

-----------------------------------------------------------------------------
(* Defects: what an action below would be with a plausible mistake in it.  *)

\* SavePrepared claims the devices before they are committed.
SavePrepared_Early ==
  /\ pc = "prepare"
  /\ mem' = [mem EXCEPT !.stage = "devices"] /\ run' = run /\ pc' = "commit1"
  /\ Saved
  /\ UNCHANGED <<dbVars, pipeVars>>

\* SendDevice runs past the last notice.
SendDevice_Endless ==
  /\ pc = "sendDev"
  /\ Deliver("device", mem.devSent + 1)
  /\ mem' = [mem EXCEPT !.devSent = @ + 1] /\ run' = run /\ pc' = "saveDevSent"
  /\ UNCHANGED <<dbVars, disk>>

\* Settled does not wait for the collector.
Settled_NoWait ==
  /\ pc = "settle"
  /\ mem' = mem /\ run' = run /\ pc' = "look"
  /\ UNCHANGED <<dbVars, pipeVars, disk>>

\* LookAdopt never takes over rows that are already there.
LookAdopt_Never == pc # pc /\ UNCHANGED vars

\* Transaction does not count the keys again after the wait.
Transaction_NoCount ==
  /\ pc = "tx2"
  /\ inserted[run] < MaxTx
  /\ \A mv \in mem.moves : at[mv.cp] = mv.from
  /\ mem' = [mem EXCEPT !.ptMsgs = TRUE, !.ptSent = 0]
  /\ run' = run /\ pc' = "save2"
  /\ UNCHANGED <<dbVars, pipeVars, disk>>

\* SavePointMessages does not record the notices before COMMIT.
SavePointMessages_Later ==
  /\ pc = "save2"
  /\ mem' = mem /\ run' = run /\ pc' = "commit2"
  /\ UNCHANGED <<dbVars, pipeVars, disk>>

\* Retry does not ask the database for the devices.
Retry_Trusting(r) ==
  LET rec == disk[r] IN
  /\ pc = "idle"
  /\ rec # None
  /\ run' = r
  /\ mem' = IF rec.stage = "prepared" THEN [rec EXCEPT !.stage = "devices"] ELSE rec
  /\ pc' = IF rec.stage = "checkpoints" THEN "sendPt" ELSE "sendDev"
  /\ disk' = [disk EXCEPT ![r] = mem'] \/ UNCHANGED disk
  /\ UNCHANGED <<dbVars, pipeVars>>

-----------------------------------------------------------------------------
(* First phase: devices.                                                   *)

\* Register checks the selection, opens a serializable transaction, counts
\* live checkpoints that already use a selected key, inserts the devices and
\* makes the receipt.  Nothing is visible outside yet.
Begin(r, fresh, points, movable) ==
  LET rec == [stage |-> "prepared", fresh |-> fresh, points |-> points,
              moves |-> [cp : movable, from : Ifaces] \cap
                          {[cp |-> m, from |-> at[m]] : m \in movable},
              devSent |-> 0, wait |-> Unset, ptMsgs |-> FALSE, ptSent |-> 0,
              ids |-> {}, notified |-> FALSE, verified |-> FALSE]
  IN /\ pc = "idle"
     /\ disk[r] = None
     /\ points # {} \/ movable # {}
     /\ \A w \in live : w.key \notin points
     /\ \A m \in movable : at[m] \notin {None, Target(r, rec)}
     /\ ~fresh => Group \in there \ dead
     /\ mem' = rec /\ run' = r /\ pc' = "prepare"
     /\ UNCHANGED <<dbVars, pipeVars, disk>>

SavePrepared ==
  /\ pc = "prepare"
  /\ mem' = mem /\ run' = run /\ pc' = "commit1"
  /\ Saved
  /\ UNCHANGED <<dbVars, pipeVars>>

\* The first transaction's effect: the group row and the new devices.
FirstCommit ==
  /\ there' = IF mem.fresh THEN there \cup {run} ELSE there
  /\ UNCHANGED <<dead, live, at, inserted, others>>

CommitDevices ==
  /\ pc = "commit1"
  /\ FirstCommit
  /\ mem' = [mem EXCEPT !.stage = "devices"] /\ run' = run /\ pc' = "saveStage"
  /\ UNCHANGED <<pipeVars, disk>>

\* COMMIT was applied but its answer was lost: Register returns the receipt as
\* "prepared" and sends nothing.
CommitDevicesUnknown ==
  /\ pc = "commit1"
  /\ FirstCommit
  /\ Return
  /\ UNCHANGED <<pipeVars, disk>>

SaveStage ==
  /\ pc = "saveStage"
  /\ mem' = mem /\ run' = run /\ pc' = "sendDev"
  /\ SavedOrNot
  /\ UNCHANGED <<dbVars, pipeVars>>

-----------------------------------------------------------------------------
(* proceed: announce the devices and wait for the collector.               *)

SendDevice ==
  /\ pc = "sendDev" /\ mem.devSent < DevCount(mem)
  /\ Deliver("device", mem.devSent + 1)
  /\ mem' = [mem EXCEPT !.devSent = @ + 1] /\ run' = run /\ pc' = "saveDevSent"
  /\ UNCHANGED <<dbVars, disk>>

\* WriteMessages reports an error although the broker took the notice.
SendDeviceUnknown ==
  /\ pc = "sendDev" /\ mem.devSent < DevCount(mem)
  /\ Deliver("device", mem.devSent + 1)
  /\ Return
  /\ UNCHANGED <<dbVars, disk>>

SaveDeviceSent ==
  /\ pc = "saveDevSent"
  /\ mem' = mem /\ run' = run /\ pc' = "sendDev"
  /\ Saved
  /\ UNCHANGED <<dbVars, pipeVars>>

\* Every device notice is out: DevicesNotifiedAt is set once and saved.
Stamp ==
  /\ pc = "sendDev" /\ mem.devSent = DevCount(mem) /\ mem.wait = Unset
  /\ mem' = [mem EXCEPT !.wait = Settle] /\ run' = run /\ pc' = "settle"
  /\ Saved
  /\ UNCHANGED <<dbVars, pipeVars>>

StampNotSaved ==
  /\ pc = "sendDev" /\ mem.devSent = DevCount(mem) /\ mem.wait = Unset
  /\ mem' = [mem EXCEPT !.wait = Settle] /\ run' = run /\ pc' = "settle"
  /\ UNCHANGED <<dbVars, pipeVars, disk>>

AlreadyStamped ==
  /\ pc = "sendDev" /\ mem.devSent = DevCount(mem) /\ mem.wait # Unset
  /\ mem' = mem /\ run' = run /\ pc' = "settle"
  /\ UNCHANGED <<dbVars, pipeVars, disk>>

Settled ==
  /\ pc = "settle"
  /\ DevCount(mem) = 0 \/ mem.wait = 0
  /\ mem' = mem /\ run' = run /\ pc' = "look"
  /\ UNCHANGED <<dbVars, pipeVars, disk>>

-----------------------------------------------------------------------------
(* commitCheckpoints: the second phase.                                    *)

Existing ==
  {w \in live : w.iface = Target(run, mem) /\ w.key \in mem.points}
MovesDone == {mv \in mem.moves : at[mv.cp] = Target(run, mem)}
MoveLost  == \E mv \in mem.moves : at[mv.cp] = None

\* None of the run's work is in the database: go on and do it.
LookNothing ==
  /\ pc = "look" /\ ~MoveLost
  /\ Existing = {} /\ MovesDone = {}
  /\ mem' = mem /\ run' = run /\ pc' = "tx2"
  /\ UNCHANGED <<dbVars, pipeVars, disk>>

\* All of it is there and a COMMIT was attempted: take the rows as this run's.
LookAdopt ==
  /\ pc = "look" /\ ~MoveLost
  /\ Existing # {} \/ MovesDone # {}
  /\ mem.ptMsgs
  /\ Cardinality(Existing) = Cardinality(mem.points)
  /\ MovesDone = mem.moves
  /\ mem' = [mem EXCEPT !.ids = Existing, !.stage = "checkpoints"]
  /\ run' = run /\ pc' = "saveDone"
  /\ UNCHANGED <<dbVars, pipeVars, disk>>

\* The transaction re-counts the keys with a plain SELECT and moves the ticked
\* rows, which locks them; its inserts are not visible before COMMIT.  The
\* notices to send are made now, so that they are recorded before COMMIT.
Transaction ==
  /\ pc = "tx2"
  /\ inserted[run] < MaxTx
  /\ \A w \in live : w.key \notin mem.points
  /\ \A mv \in mem.moves : at[mv.cp] = mv.from
  /\ mem' = [mem EXCEPT !.ptMsgs = TRUE, !.ptSent = 0]
  /\ run' = run /\ pc' = "save2"
  /\ UNCHANGED <<dbVars, pipeVars, disk>>

SavePointMessages ==
  /\ pc = "save2"
  /\ mem' = mem /\ run' = run /\ pc' = "commit2"
  /\ Saved
  /\ UNCHANGED <<dbVars, pipeVars>>

\* The second transaction's effect: every checkpoint and every move at once.
SecondCommit ==
  /\ live' = live \cup NewRows(run, mem)
  /\ at' = [m \in Movable |->
              IF m \in {mv.cp : mv \in mem.moves} THEN Target(run, mem) ELSE at[m]]
  /\ inserted' = [inserted EXCEPT ![run] = @ + 1]
  /\ UNCHANGED <<there, dead, others>>

CommitCheckpoints ==
  /\ pc = "commit2"
  /\ SecondCommit
  /\ mem' = [mem EXCEPT !.ids = NewRows(run, mem), !.stage = "checkpoints"]
  /\ run' = run /\ pc' = "saveDone"
  /\ UNCHANGED <<pipeVars, disk>>

CommitCheckpointsUnknown ==
  /\ pc = "commit2"
  /\ SecondCommit
  /\ Return
  /\ UNCHANGED <<pipeVars, disk>>

SaveDone ==
  /\ pc = "saveDone"
  /\ mem' = mem /\ run' = run /\ pc' = "sendPt"
  /\ SavedOrNot
  /\ UNCHANGED <<dbVars, pipeVars>>

-----------------------------------------------------------------------------
(* proceed: announce the checkpoints and check the collection.             *)

SendPoint ==
  /\ pc = "sendPt" /\ mem.ptSent < 2
  /\ Deliver("point", mem.ptSent + 1)
  /\ mem' = [mem EXCEPT !.ptSent = @ + 1] /\ run' = run /\ pc' = "savePtSent"
  /\ UNCHANGED <<dbVars, disk>>

SendPointUnknown ==
  /\ pc = "sendPt" /\ mem.ptSent < 2
  /\ Deliver("point", mem.ptSent + 1)
  /\ Return
  /\ UNCHANGED <<dbVars, disk>>

SavePointSent ==
  /\ pc = "savePtSent"
  /\ mem' = mem /\ run' = run /\ pc' = "sendPt"
  /\ Saved
  /\ UNCHANGED <<dbVars, pipeVars>>

\* watch.wait saw values for every checkpoint or gave up; the result is saved.
Finish(ok) ==
  /\ pc = "sendPt" /\ mem.ptSent = 2
  /\ Return
  /\ disk' = [disk EXCEPT ![run] = [mem EXCEPT !.notified = TRUE, !.verified = ok]]
  /\ UNCHANGED <<dbVars, pipeVars>>

-----------------------------------------------------------------------------
(* Retry, failures and restarts.                                           *)

\* Retry reads the receipt and asks the database whether its devices are
\* there; countIDs counts rows whatever their flag.  Checkpoint rows are only
\* ever soft-deleted, so its count of CheckpointIDs never fails.
Retry(r) ==
  LET rec == disk[r] IN
  /\ pc = "idle"
  /\ rec # None
  /\ Target(r, rec) \in there
  /\ run' = r
  /\ mem' = IF rec.stage = "prepared" THEN [rec EXCEPT !.stage = "devices"] ELSE rec
  /\ pc' = IF rec.stage = "checkpoints" THEN "sendPt" ELSE "sendDev"
  /\ disk' = [disk EXCEPT ![r] = mem'] \/ UNCHANGED disk
  /\ UNCHANGED <<dbVars, pipeVars>>

\* The call gives up where it is: an error of the step it was about to take, a
\* refused check, a cancelled context, a failed save that matters, a failed
\* last save, or the end of the program.
GiveUp ==
  /\ pc # "idle"
  /\ Return
  /\ UNCHANGED <<dbVars, pipeVars, disk>>

-----------------------------------------------------------------------------
(* The rest of the world.                                                  *)

\* One tick: the collector is never later than Lag with a notice.
Tick ==
  LET aged(rec) == IF rec # None /\ rec.wait > 0 THEN [rec EXCEPT !.wait = @ - 1] ELSE rec
  IN /\ \A n \in pending : n.left > 0
     /\ pending' = {[n EXCEPT !.left = @ - 1] : n \in pending}
     /\ mem' = aged(mem)
     /\ disk' = [r \in Runs |-> aged(disk[r])]
     /\ UNCHANGED <<dbVars, told, run, pc>>

CollectorApplies(n) ==
  /\ n \in pending
  /\ pending' = pending \ {n}
  /\ UNCHANGED <<dbVars, told, disk, callVars>>

\* The web console registers a checkpoint; it knows nothing of Service.mu, but
\* the first transaction is serializable, so its count locks the keys it read.
WebInsert(k, i) ==
  /\ i \in there \ dead
  /\ pc \in {"prepare", "commit1"} => k \notin mem.points
  /\ live' = live \cup {[key |-> k, iface |-> i, by |-> Web, no |-> 0]}
  /\ UNCHANGED <<there, dead, at, inserted, pipeVars, disk, callVars>>

WebDelete(w) ==
  /\ w \in live
  /\ live' = live \ {w}
  /\ UNCHANGED <<there, dead, at, inserted, pipeVars, disk, callVars>>

\* deleteDevicesTx, by this tool: its caller holds Service.mu.
DeleteDevice(i) ==
  /\ pc = "idle"
  /\ i \in there \ dead
  /\ dead' = dead \cup {i}
  /\ live' = {w \in live : w.iface # i}
  /\ at' = [m \in Movable |-> IF at[m] = i THEN None ELSE at[m]]
  /\ UNCHANGED <<there, inserted, pipeVars, disk, callVars>>

\* deleteTx of a whole group: its live devices, then the group row itself.
DeleteGroup(i) ==
  /\ pc = "idle"
  /\ i \in there
  /\ there' = there \ {i}
  /\ dead' = dead \cup {i}
  /\ live' = {w \in live : w.iface # i}
  /\ at' = [m \in Movable |-> IF at[m] = i THEN None ELSE at[m]]
  /\ UNCHANGED <<inserted, pipeVars, disk, callVars>>

-----------------------------------------------------------------------------
Steps ==
  \/ SavePrepared \/ CommitDevices \/ CommitDevicesUnknown \/ SaveStage
  \/ SendDevice \/ SendDeviceUnknown \/ SaveDeviceSent
  \/ Stamp \/ StampNotSaved \/ AlreadyStamped \/ Settled
  \/ LookNothing \/ LookAdopt \/ Transaction \/ SavePointMessages
  \/ CommitCheckpoints \/ CommitCheckpointsUnknown \/ SaveDone
  \/ SendPoint \/ SendPointUnknown \/ SavePointSent
  \/ \E ok \in BOOLEAN : Finish(ok)
  \/ GiveUp

Start ==
  \/ \E r \in Runs, fresh \in BOOLEAN, points \in SUBSET Keys, ms \in SUBSET Movable :
        Begin(r, fresh, points, ms)
  \/ \E r \in Runs : Retry(r)

Time == Tick \/ \E n \in pending : CollectorApplies(n)

Others ==
  /\ others < MaxOthers /\ others' = others + 1
  /\ \/ \E k \in Keys, i \in Ifaces : WebInsert(k, i)
     \/ \E w \in live : WebDelete(w)
     \/ \E i \in Ifaces : DeleteDevice(i) \/ DeleteGroup(i)

Next == Start \/ Steps \/ Time \/ Others

Spec == Init /\ [][Next]_vars
-----------------------------------------------------------------------------
(* Invariants.                                                             *)

TypeOK ==
  /\ there \subseteq Ifaces
  /\ dead \subseteq Ifaces
  /\ live \subseteq Row
  /\ at \in [Movable -> Ifaces \cup {None}]
  /\ inserted \in [Runs -> Nat]
  /\ others \in Nat
  /\ pending \subseteq Notice
  /\ told \in [Runs -> SUBSET ({"device", "point"} \X (1 .. 2))]
  /\ disk \in [Runs -> Receipt \cup {None}]
  /\ pc \in Pcs
  /\ IF pc = "idle" THEN mem = None /\ run = None ELSE mem \in Receipt /\ run \in Runs

\* The collector never learns of a new device that already carries its run's
\* checkpoints: while DEVICE_ADDED is on its way, none of them is committed
\* (the order register's doc comment gives as the reason for two phases).
NoCollision ==
  \A n \in pending :
    n.phase = "device" =>
      /\ \A w \in live : w.by # n.run
      /\ \A m \in Movable : at[m] # n.run

\* Whatever a run committed, its receipt on disk says enough to resume it: a
\* device has a receipt, committed checkpoints have recorded notices.
Resumable ==
  \A r \in Runs :
    /\ r \in there => disk[r] # None
    /\ inserted[r] > 0 => disk[r] # None /\ disk[r].ptMsgs

\* A receipt on disk never claims more than happened, whichever saves failed:
\* stages follow commits, and a notice counted as sent was taken by the broker.
HonestReceipt ==
  \A r \in Runs : disk[r] # None =>
    /\ disk[r].fresh /\ disk[r].stage # "prepared" => r \in there \cup dead
    /\ \A n \in 1 .. disk[r].devSent : <<"device", n>> \in told[r]
    /\ \A n \in 1 .. disk[r].ptSent : <<"point", n>> \in told[r]
    /\ disk[r].notified => disk[r].stage = "checkpoints" /\ <<"point", 2>> \in told[r]

\* The notices of a run first reach the topic in the console's order, the
\* device ones only once the devices are committed.
NoticesInOrder ==
  \A r \in Runs :
    /\ <<"device", 1>> \in told[r] => r \in there \cup dead
    /\ <<"device", 2>> \in told[r] => <<"device", 1>> \in told[r]
    /\ <<"point", 1>> \in told[r] =>
         disk[r].ptMsgs /\ (disk[r].fresh => <<"device", 2>> \in told[r])
    /\ <<"point", 2>> \in told[r] => <<"point", 1>> \in told[r]

\* "The tool never registers a key twice": whatever runs are interrupted and
\* resumed, two live rows the tool wrote have different keys.
RegisteredOnce ==
  \A v, w \in live : v.by \in Runs /\ w.by \in Runs /\ v.key = w.key => v = w

-----------------------------------------------------------------------------
(* Statements of the repository that the program does not keep.            *)

\* docs/mk119-stats-registration.md: on the connected node a locking check
\* right before saving prevents duplicates, so no commit of the tool adds a key
\* that is live by then.
KeyFreeAtCommit ==
  [][\A w \in live' \ live : w.by \in Runs => \A v \in live : v.key # w.key]_live

\* register.go, commitCheckpoints: only an earlier attempt of this receipt may
\* have put the rows there that it takes as its own.
AdoptsOwn ==
  \A r \in Runs : disk[r] # None => \A w \in disk[r].ids : w.by = r

\* manage_delete.go, deletedLeft: after a device is deleted none of its
\* checkpoints is left live.
DeadDeviceEmpty == \A w \in live : w.iface \notin dead

-----------------------------------------------------------------------------
(* Liveness: with nobody else at work, a user who keeps resuming and no    *)
(* step that fails for ever, a run whose devices were saved ends announced *)
(* ("Retry resumes a receipt").  A second run may take its keys first, so  *)
(* this is checked for one run.                                            *)

Saves == SavePrepared \/ SaveDeviceSent \/ SavePointMessages \/ SavePointSent

Fairness ==
  /\ WF_vars(Steps) /\ WF_vars(Tick) /\ WF_vars(\E n \in pending : CollectorApplies(n))
  /\ \A r \in Runs :
       /\ SF_vars(Retry(r))
       /\ SF_vars(run = r /\ Saves)
       /\ SF_vars(run = r /\ (SaveStage \/ SaveDone))
       /\ SF_vars(run = r /\ AlreadyStamped)
       /\ SF_vars(run = r /\ Settled)
       /\ SF_vars(run = r /\ (SendDevice \/ SendPoint))
       /\ SF_vars(run = r /\ Stamp)
       /\ SF_vars(run = r /\ (LookNothing \/ LookAdopt))
       /\ SF_vars(run = r /\ Transaction)
       /\ SF_vars(run = r /\ (CommitDevices \/ CommitCheckpoints))
       /\ SF_vars(run = r /\ Finish(TRUE))

QuietSpec == Init /\ [][Start \/ Steps \/ Time]_vars /\ Fairness

ResumeConverges ==
  \A r \in Runs :
    (disk[r] # None /\ Target(r, disk[r]) \in there)
      ~> (disk[r] # None /\ disk[r].notified)
=============================================================================
