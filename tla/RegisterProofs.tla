--------------------------- MODULE RegisterProofs ---------------------------
(***************************************************************************)
(* Proofs about Register for any runs, keys, checkpoints, waits and        *)
(* bounds.  The strengthening has four parts: what a receipt says of the   *)
(* outside world wherever it is kept (Truthful), how the receipt in memory *)
(* relates to the one on disk (Tracks), what the call knows where it is    *)
(* (AtStep), and what the database and the topic owe to receipts (Owed).   *)
(***************************************************************************)
EXTENDS Register, TLAPS

\* A receipt of run r, on disk or in memory, is true of the topic and the
\* database; once stamped, every device notice still on its way will have been
\* applied Settle - Lag ticks before the wait is over.
Truthful(r, rec) ==
  /\ rec.fresh /\ rec.stage # "prepared" => r \in there \cup dead
  /\ rec.devSent <= DevCount(rec)
  /\ \A n \in 1 .. 2 : n <= rec.devSent => <<"device", n>> \in told[r]
  /\ \A n \in 1 .. 2 : n <= rec.ptSent => <<"point", n>> \in told[r]
  /\ rec.ptSent > 0 => rec.ptMsgs
  /\ rec.notified => rec.stage = "checkpoints" /\ rec.ptSent = 2
  /\ rec.stage = "checkpoints" => rec.ptMsgs
  /\ rec.ptMsgs => rec.wait # Unset /\ (rec.fresh => rec.wait = 0)
  /\ rec.wait # Unset =>
       /\ rec.devSent = DevCount(rec)
       /\ \A n \in pending :
            n.run = r /\ n.phase = "device" => n.left + (Settle - Lag) <= rec.wait

\* The receipt in memory is the one on disk, possibly ahead of it.
Tracks ==
  /\ pc = "prepare" =>
       /\ disk[run] = None /\ mem.stage = "prepared" /\ mem.wait = Unset
       /\ mem.devSent = 0 /\ mem.ptSent = 0 /\ ~mem.ptMsgs /\ ~mem.notified
  /\ pc \notin {"idle", "prepare"} =>
       /\ disk[run] # None
       /\ disk[run].fresh = mem.fresh
       /\ disk[run].wait # Unset => mem.wait = disk[run].wait
       /\ mem.ptMsgs /\ pc # "save2" => disk[run].ptMsgs
       /\ disk[run].ptMsgs => mem.ptMsgs

\* What the call has established when it gets to a step.
AtStep ==
  /\ pc = "commit1" => mem.stage = "prepared"
  /\ pc \in {"saveStage", "sendDev", "saveDevSent", "settle", "look", "tx2", "save2", "commit2"} =>
       mem.stage = "devices"
  /\ pc = "settle" => mem.wait # Unset
  /\ pc \in {"look", "tx2", "save2", "commit2", "saveDone", "sendPt", "savePtSent"} =>
       mem.wait # Unset /\ (mem.fresh => mem.wait = 0)
  /\ pc \in {"save2", "commit2", "saveDone", "sendPt", "savePtSent"} => mem.ptMsgs
  /\ pc \in {"saveDone", "sendPt", "savePtSent"} => mem.stage = "checkpoints"
  /\ pc = "saveDevSent" => mem.wait = Unset /\ mem.fresh
  /\ pc \in {"save2", "commit2"} =>
       \A w \in live : w.by \in Runs => w.key \notin mem.points

\* Every committed effect and every notice is accounted for by a receipt.
Owed ==
  /\ \A r \in Runs : r \in there => disk[r] # None
  /\ \A r \in Runs : inserted[r] > 0 => disk[r] # None /\ disk[r].ptMsgs
  /\ \A w \in live : w.by \in Runs => inserted[w.by] > 0 /\ w.no <= inserted[w.by]
  /\ \A m \in Movable : at[m] \in Runs => inserted[at[m]] > 0 /\ disk[at[m]].fresh
  /\ \A n \in pending : n.phase = "device" => disk[n.run] # None /\ disk[n.run].fresh
  /\ \A r \in Runs : told[r] # {} => disk[r] # None

IInv ==
  /\ TypeOK
  /\ \A r \in Runs : disk[r] # None => Truthful(r, disk[r])
  /\ pc # "idle" => Truthful(run, mem)
  /\ Tracks
  /\ AtStep
  /\ Owed
  /\ NoticesInOrder
  /\ RegisteredOnce

-----------------------------------------------------------------------------
(* Type correctness.                                                       *)

\* The fields of a receipt, one by one.
LEMMA Fields ==
  ASSUME NEW rec \in Receipt
  PROVE  /\ rec # None
         /\ rec.stage \in {"prepared", "devices", "checkpoints"}
         /\ rec.fresh \in BOOLEAN
         /\ rec.points \subseteq Keys
         /\ rec.moves \subseteq Move
         /\ rec.devSent \in 0 .. 2
         /\ rec.wait \in Unset .. Settle
         /\ rec.ptMsgs \in BOOLEAN
         /\ rec.ptSent \in 0 .. 2
         /\ rec.ids \subseteq Row
         /\ rec.notified \in BOOLEAN
         /\ rec.verified \in BOOLEAN
BY NoneAssumption DEF Receipt

LEMMA InitTypeOK == Init => TypeOK
BY DEF Init, TypeOK, Ifaces, Pcs

LEMMA BeginTypeOK ==
  ASSUME TypeOK, NEW r \in Runs, NEW fresh \in BOOLEAN, NEW points \in SUBSET Keys,
         NEW ms \in SUBSET Movable, Begin(r, fresh, points, ms)
  PROVE  TypeOK'
<1>1. mem' \in Receipt
  BY RegisterAssumption DEF Begin, Receipt, Move, Unset, TypeOK
<1> QED
  BY <1>1 DEF Begin, TypeOK, Pcs, dbVars, pipeVars

LEMMA StepTypeOK == ASSUME TypeOK, Steps PROVE TypeOK'
<1>1. pc # "idle" /\ mem \in Receipt /\ run \in Runs
  BY DEF TypeOK, Steps, SavePrepared, CommitDevices, CommitDevicesUnknown, SaveStage,
    SendDevice, SendDeviceUnknown, SaveDeviceSent, Stamp, StampNotSaved, AlreadyStamped,
    Settled, LookNothing, LookAdopt, Transaction, SavePointMessages, CommitCheckpoints,
    CommitCheckpointsUnknown, SaveDone, SendPoint, SendPointUnknown, SavePointSent, Finish,
    GiveUp
<1>2. CASE SavePrepared
  BY <1>1, <1>2 DEF TypeOK, SavePrepared, Saved, Pcs, dbVars, pipeVars
<1>3. CASE CommitDevices
  <2>1. mem' \in Receipt
    BY <1>1, <1>3 DEF CommitDevices, Receipt
  <2> QED
    BY <1>1, <1>3, <2>1 DEF TypeOK, CommitDevices, FirstCommit, Pcs, dbVars, pipeVars, Ifaces
<1>4. CASE CommitDevicesUnknown
  BY <1>1, <1>4 DEF TypeOK, CommitDevicesUnknown, FirstCommit, Return, Pcs, pipeVars, Ifaces
<1>5. CASE SaveStage
  BY <1>1, <1>5 DEF TypeOK, SaveStage, SavedOrNot, Saved, Pcs, dbVars, pipeVars
<1>6. CASE SendDevice
  <2>1. mem' \in Receipt
    BY <1>1, <1>6 DEF SendDevice, Receipt, DevCount
  <2>2. mem.devSent + 1 \in 1 .. 2
    BY <1>1, <1>6, Fields DEF SendDevice, DevCount
  <2> QED
    BY <1>1, <1>6, <2>1, <2>2, RegisterAssumption
      DEF TypeOK, SendDevice, Deliver, Notice, Pcs, dbVars
<1>7. CASE SendDeviceUnknown
  <2>2. mem.devSent + 1 \in 1 .. 2
    BY <1>1, <1>7, Fields DEF SendDeviceUnknown, DevCount
  <2> QED
    BY <1>1, <1>7, <2>2, RegisterAssumption
      DEF TypeOK, SendDeviceUnknown, Return, Deliver, Notice, Pcs, dbVars
<1>8. CASE SaveDeviceSent
  BY <1>1, <1>8 DEF TypeOK, SaveDeviceSent, Saved, Pcs, dbVars, pipeVars
<1>9. CASE Stamp \/ StampNotSaved
  <2>1. mem' \in Receipt
    BY <1>1, <1>9, RegisterAssumption DEF Stamp, StampNotSaved, Receipt, Unset
  <2> QED
    BY <1>1, <1>9, <2>1 DEF TypeOK, Stamp, StampNotSaved, Saved, Pcs, dbVars, pipeVars
<1>10. CASE AlreadyStamped \/ Settled \/ LookNothing
  BY <1>1, <1>10 DEF TypeOK, AlreadyStamped, Settled, LookNothing, Pcs, dbVars, pipeVars
<1>11. CASE LookAdopt
  <2>1. mem' \in Receipt
    BY <1>1, <1>11 DEF LookAdopt, Existing, Receipt, TypeOK
  <2> QED
    BY <1>1, <1>11, <2>1 DEF TypeOK, LookAdopt, Pcs, dbVars, pipeVars
<1>12. CASE Transaction
  <2>1. mem' \in Receipt
    <3>1. mem' = [mem EXCEPT !.ptMsgs = TRUE, !.ptSent = 0] /\ 0 \in 0 .. 2
      BY <1>12 DEF Transaction
    <3> QED
      BY <1>1, <3>1 DEF Receipt
  <2> QED
    BY <1>1, <1>12, <2>1 DEF TypeOK, Transaction, Pcs, dbVars, pipeVars
<1>13. CASE SavePointMessages
  BY <1>1, <1>13 DEF TypeOK, SavePointMessages, Saved, Pcs, dbVars, pipeVars
<1>14. NewRows(run, mem) \subseteq Row /\ Target(run, mem) \in Ifaces
  BY <1>1, Fields DEF NewRows, Row, Target, Ifaces, TypeOK
<1>15. CASE CommitCheckpoints
  <2>1. mem' \in Receipt
    BY <1>1, <1>14, <1>15 DEF CommitCheckpoints, Receipt
  <2> QED
    BY <1>1, <1>14, <1>15, <2>1
      DEF TypeOK, CommitCheckpoints, SecondCommit, Pcs, dbVars, pipeVars
<1>16. CASE CommitCheckpointsUnknown
  BY <1>1, <1>14, <1>16
    DEF TypeOK, CommitCheckpointsUnknown, SecondCommit, Return, Pcs, dbVars, pipeVars
<1>17. CASE SaveDone
  BY <1>1, <1>17 DEF TypeOK, SaveDone, SavedOrNot, Saved, Pcs, dbVars, pipeVars
<1>18. CASE SendPoint
  <2>1. mem' \in Receipt
    BY <1>1, <1>18 DEF SendPoint, Receipt
  <2>2. mem.ptSent + 1 \in 1 .. 2
    BY <1>1, <1>18, Fields DEF SendPoint
  <2> QED
    BY <1>1, <1>18, <2>1, <2>2, RegisterAssumption
      DEF TypeOK, SendPoint, Deliver, Notice, Pcs, dbVars
<1>19. CASE SendPointUnknown
  <2>2. mem.ptSent + 1 \in 1 .. 2
    BY <1>1, <1>19, Fields DEF SendPointUnknown
  <2> QED
    BY <1>1, <1>19, <2>2, RegisterAssumption
      DEF TypeOK, SendPointUnknown, Return, Deliver, Notice, Pcs, dbVars
<1>20. CASE SavePointSent
  BY <1>1, <1>20 DEF TypeOK, SavePointSent, Saved, Pcs, dbVars, pipeVars
<1>21. ASSUME NEW ok \in BOOLEAN, Finish(ok) PROVE TypeOK'
  <2>1. [mem EXCEPT !.notified = TRUE, !.verified = ok] \in Receipt
    BY <1>1 DEF Receipt
  <2> QED
    BY <1>1, <1>21, <2>1 DEF TypeOK, Finish, Return, Pcs, dbVars, pipeVars
<1>22. CASE GiveUp
  BY <1>22 DEF TypeOK, GiveUp, Return, Pcs, dbVars, pipeVars
<1> QED
  BY <1>2, <1>3, <1>4, <1>5, <1>6, <1>7, <1>8, <1>9, <1>10, <1>11, <1>12, <1>13, <1>15,
    <1>16, <1>17, <1>18, <1>19, <1>20, <1>21, <1>22 DEF Steps

-----------------------------------------------------------------------------
(* The steps of a call preserve IInv, one lemma per action.                *)

LEMMA SavePreparedIInv == ASSUME IInv, SavePrepared PROVE IInv'
<1>1. TypeOK /\ TypeOK' /\ mem \in Receipt /\ run \in Runs
  BY StepTypeOK DEF IInv, Steps, SavePrepared, TypeOK
<1>2. (\A r \in Runs : disk[r] # None => Truthful(r, disk[r]))'
  BY <1>1, RegisterAssumption, Fields DEF IInv, SavePrepared, Saved, dbVars, pipeVars,
    Truthful, Tracks, AtStep, TypeOK, Unset, Notice, DevCount
<1>3. (pc # "idle" => Truthful(run, mem))'
  BY <1>1, RegisterAssumption, Fields DEF IInv, SavePrepared, Saved, dbVars, pipeVars,
    Truthful, Tracks, AtStep, TypeOK, Unset, Notice, DevCount
<1>4. Tracks'
  BY <1>1, Fields DEF IInv, SavePrepared, Saved, Tracks, AtStep, TypeOK, Unset
<1>5. AtStep'
  BY <1>1, RegisterAssumption, Fields DEF IInv, SavePrepared, Saved, dbVars, pipeVars,
    Tracks, AtStep, TypeOK, Unset
<1>6. Owed'
  BY <1>1, Fields DEF IInv, SavePrepared, Saved, dbVars, pipeVars, Tracks, AtStep,
    TypeOK, Owed
<1>7. NoticesInOrder'
  BY <1>1, Fields DEF IInv, SavePrepared, Saved, dbVars, pipeVars, Tracks, AtStep,
    TypeOK, NoticesInOrder, Truthful, Owed
<1>8. RegisteredOnce'
  BY <1>1, RegisterAssumption DEF IInv, SavePrepared, Saved, dbVars, pipeVars,
    RegisteredOnce
<1> QED
  BY <1>1, <1>2, <1>3, <1>4, <1>5, <1>6, <1>7, <1>8 DEF IInv

LEMMA CommitDevicesIInv == ASSUME IInv, CommitDevices PROVE IInv'
<1>1. TypeOK /\ TypeOK' /\ mem \in Receipt /\ run \in Runs
  BY StepTypeOK DEF IInv, Steps, CommitDevices, TypeOK
<1>2. (\A r \in Runs : disk[r] # None => Truthful(r, disk[r]))'
  BY <1>1, RegisterAssumption, Fields DEF IInv, CommitDevices, FirstCommit, dbVars,
    pipeVars, Truthful, Tracks, AtStep, TypeOK, Unset, Notice, DevCount
<1>3. (pc # "idle" => Truthful(run, mem))'
  BY <1>1, RegisterAssumption, Fields DEF IInv, CommitDevices, FirstCommit, dbVars,
    pipeVars, Truthful, Tracks, AtStep, TypeOK, Unset, Notice, DevCount
<1>4. Tracks'
  BY <1>1, Fields DEF IInv, CommitDevices, FirstCommit, Tracks, AtStep, TypeOK, Unset
<1>5. AtStep'
  BY <1>1, RegisterAssumption, Fields DEF IInv, CommitDevices, FirstCommit, dbVars,
    pipeVars, Tracks, AtStep, TypeOK, Unset
<1>6. Owed'
  BY <1>1, Fields DEF IInv, CommitDevices, FirstCommit, dbVars, pipeVars, Tracks,
    AtStep, TypeOK, Owed
<1>7. NoticesInOrder'
  BY <1>1, Fields DEF IInv, CommitDevices, FirstCommit, dbVars, pipeVars, Tracks,
    AtStep, TypeOK, NoticesInOrder, Truthful, Owed
<1>8. RegisteredOnce'
  BY <1>1, RegisterAssumption DEF IInv, CommitDevices, FirstCommit, dbVars, pipeVars,
    RegisteredOnce
<1> QED
  BY <1>1, <1>2, <1>3, <1>4, <1>5, <1>6, <1>7, <1>8 DEF IInv

LEMMA CommitDevicesUnknownIInv == ASSUME IInv, CommitDevicesUnknown PROVE IInv'
<1>1. TypeOK /\ TypeOK' /\ mem \in Receipt /\ run \in Runs
  BY StepTypeOK DEF IInv, Steps, CommitDevicesUnknown, TypeOK
<1>2. (\A r \in Runs : disk[r] # None => Truthful(r, disk[r]))'
  BY <1>1, RegisterAssumption, Fields DEF IInv, CommitDevicesUnknown, FirstCommit,
    Return, dbVars, pipeVars, Truthful, Tracks, AtStep, TypeOK, Unset, Notice, DevCount
<1>3. (pc # "idle" => Truthful(run, mem))'
  BY <1>1, RegisterAssumption, Fields DEF IInv, CommitDevicesUnknown, FirstCommit,
    Return, dbVars, pipeVars, Truthful, Tracks, AtStep, TypeOK, Unset, Notice, DevCount
<1>4. Tracks'
  BY <1>1, Fields DEF IInv, CommitDevicesUnknown, FirstCommit, Return, Tracks, AtStep,
    TypeOK, Unset
<1>5. AtStep'
  BY <1>1, RegisterAssumption, Fields DEF IInv, CommitDevicesUnknown, FirstCommit,
    Return, dbVars, pipeVars, Tracks, AtStep, TypeOK, Unset
<1>6. Owed'
  BY <1>1, Fields DEF IInv, CommitDevicesUnknown, FirstCommit, Return, dbVars,
    pipeVars, Tracks, AtStep, TypeOK, Owed
<1>7. NoticesInOrder'
  BY <1>1, Fields DEF IInv, CommitDevicesUnknown, FirstCommit, Return, dbVars,
    pipeVars, Tracks, AtStep, TypeOK, NoticesInOrder, Truthful, Owed
<1>8. RegisteredOnce'
  BY <1>1, RegisterAssumption DEF IInv, CommitDevicesUnknown, FirstCommit, Return,
    dbVars, pipeVars, RegisteredOnce
<1> QED
  BY <1>1, <1>2, <1>3, <1>4, <1>5, <1>6, <1>7, <1>8 DEF IInv

LEMMA SaveStageIInv == ASSUME IInv, SaveStage PROVE IInv'
<1>1. TypeOK /\ TypeOK' /\ mem \in Receipt /\ run \in Runs
  BY StepTypeOK DEF IInv, Steps, SaveStage, TypeOK
<1>2. (\A r \in Runs : disk[r] # None => Truthful(r, disk[r]))'
  BY <1>1, RegisterAssumption, Fields DEF IInv, SaveStage, SavedOrNot, Saved, dbVars,
    pipeVars, Truthful, Tracks, AtStep, TypeOK, Unset, Notice, DevCount
<1>3. (pc # "idle" => Truthful(run, mem))'
  BY <1>1, RegisterAssumption, Fields DEF IInv, SaveStage, SavedOrNot, Saved, dbVars,
    pipeVars, Truthful, Tracks, AtStep, TypeOK, Unset, Notice, DevCount
<1>4. Tracks'
  BY <1>1, Fields DEF IInv, SaveStage, SavedOrNot, Saved, Tracks, AtStep, TypeOK,
    Unset
<1>5. AtStep'
  BY <1>1, RegisterAssumption, Fields DEF IInv, SaveStage, SavedOrNot, Saved, dbVars,
    pipeVars, Tracks, AtStep, TypeOK, Unset
<1>6. Owed'
  <2>1. \A r \in Runs : disk[r] # None =>
          /\ disk'[r] # None
          /\ disk'[r].fresh = disk[r].fresh
          /\ disk[r].ptMsgs => disk'[r].ptMsgs
    BY <1>1, Fields DEF IInv, SaveStage, SavedOrNot, Saved, Tracks, TypeOK
  <2> QED
    BY <1>1, <2>1 DEF IInv, SaveStage, Owed, TypeOK, Notice, Row, Ifaces, dbVars, pipeVars
<1>7. NoticesInOrder'
  BY <1>1, Fields DEF IInv, SaveStage, SavedOrNot, Saved, dbVars, pipeVars, Tracks,
    AtStep, TypeOK, NoticesInOrder, Truthful, Owed
<1>8. RegisteredOnce'
  BY <1>1, RegisterAssumption DEF IInv, SaveStage, SavedOrNot, Saved, dbVars,
    pipeVars, RegisteredOnce
<1> QED
  BY <1>1, <1>2, <1>3, <1>4, <1>5, <1>6, <1>7, <1>8 DEF IInv

LEMMA SendDeviceIInv == ASSUME IInv, SendDevice PROVE IInv'
<1>1. TypeOK /\ TypeOK' /\ mem \in Receipt /\ run \in Runs
  BY StepTypeOK DEF IInv, Steps, SendDevice, TypeOK
<1>2. (\A r \in Runs : disk[r] # None => Truthful(r, disk[r]))'
  BY <1>1, RegisterAssumption, Fields DEF IInv, SendDevice, Deliver, DevCount, dbVars,
    pipeVars, Truthful, Tracks, AtStep, TypeOK, Unset, Notice
<1>3. (pc # "idle" => Truthful(run, mem))'
  BY <1>1, RegisterAssumption, Fields DEF IInv, SendDevice, Deliver, DevCount, dbVars,
    pipeVars, Truthful, Tracks, AtStep, TypeOK, Unset, Notice
<1>4. Tracks'
  BY <1>1, Fields DEF IInv, SendDevice, Deliver, DevCount, Tracks, AtStep, TypeOK,
    Unset
<1>5. AtStep'
  BY <1>1, RegisterAssumption, Fields DEF IInv, SendDevice, Deliver, DevCount, dbVars,
    pipeVars, Tracks, AtStep, TypeOK, Unset, Truthful
<1>6. Owed'
  BY <1>1, Fields DEF IInv, SendDevice, Deliver, DevCount, dbVars, pipeVars, Tracks,
    AtStep, TypeOK, Owed
<1>7. NoticesInOrder'
  BY <1>1, Fields DEF IInv, SendDevice, Deliver, DevCount, dbVars, pipeVars, Tracks,
    AtStep, TypeOK, NoticesInOrder, Truthful, Owed
<1>8. RegisteredOnce'
  BY <1>1, RegisterAssumption DEF IInv, SendDevice, Deliver, DevCount, dbVars,
    pipeVars, RegisteredOnce
<1> QED
  BY <1>1, <1>2, <1>3, <1>4, <1>5, <1>6, <1>7, <1>8 DEF IInv

LEMMA SendDeviceUnknownIInv == ASSUME IInv, SendDeviceUnknown PROVE IInv'
<1>1. TypeOK /\ TypeOK' /\ mem \in Receipt /\ run \in Runs
  BY StepTypeOK DEF IInv, Steps, SendDeviceUnknown, TypeOK
<1>2. (\A r \in Runs : disk[r] # None => Truthful(r, disk[r]))'
  BY <1>1, RegisterAssumption, Fields DEF IInv, SendDeviceUnknown, Deliver, DevCount,
    Return, dbVars, pipeVars, Truthful, Tracks, AtStep, TypeOK, Unset, Notice
<1>3. (pc # "idle" => Truthful(run, mem))'
  BY <1>1, RegisterAssumption, Fields DEF IInv, SendDeviceUnknown, Deliver, DevCount,
    Return, dbVars, pipeVars, Truthful, Tracks, AtStep, TypeOK, Unset, Notice
<1>4. Tracks'
  BY <1>1, Fields DEF IInv, SendDeviceUnknown, Deliver, DevCount, Return, Tracks,
    AtStep, TypeOK, Unset
<1>5. AtStep'
  BY <1>1, RegisterAssumption, Fields DEF IInv, SendDeviceUnknown, Deliver, DevCount,
    Return, dbVars, pipeVars, Tracks, AtStep, TypeOK, Unset, Truthful
<1>6. Owed'
  BY <1>1, Fields DEF IInv, SendDeviceUnknown, Deliver, DevCount, Return, dbVars,
    pipeVars, Tracks, AtStep, TypeOK, Owed
<1>7. NoticesInOrder'
  BY <1>1, Fields DEF IInv, SendDeviceUnknown, Deliver, DevCount, Return, dbVars,
    pipeVars, Tracks, AtStep, TypeOK, NoticesInOrder, Truthful, Owed
<1>8. RegisteredOnce'
  BY <1>1, RegisterAssumption DEF IInv, SendDeviceUnknown, Deliver, DevCount, Return,
    dbVars, pipeVars, RegisteredOnce
<1> QED
  BY <1>1, <1>2, <1>3, <1>4, <1>5, <1>6, <1>7, <1>8 DEF IInv

LEMMA SaveDeviceSentIInv == ASSUME IInv, SaveDeviceSent PROVE IInv'
<1>1. TypeOK /\ TypeOK' /\ mem \in Receipt /\ run \in Runs
  BY StepTypeOK DEF IInv, Steps, SaveDeviceSent, TypeOK
<1>2. (\A r \in Runs : disk[r] # None => Truthful(r, disk[r]))'
  BY <1>1, RegisterAssumption, Fields DEF IInv, SaveDeviceSent, Saved, DevCount,
    dbVars, pipeVars, Truthful, Tracks, AtStep, TypeOK, Unset, Notice
<1>3. (pc # "idle" => Truthful(run, mem))'
  BY <1>1, RegisterAssumption, Fields DEF IInv, SaveDeviceSent, Saved, DevCount,
    dbVars, pipeVars, Truthful, Tracks, AtStep, TypeOK, Unset, Notice
<1>4. Tracks'
  BY <1>1, Fields DEF IInv, SaveDeviceSent, Saved, DevCount, Tracks, AtStep, TypeOK,
    Unset
<1>5. AtStep'
  BY <1>1, RegisterAssumption, Fields DEF IInv, SaveDeviceSent, Saved, DevCount,
    dbVars, pipeVars, Tracks, AtStep, TypeOK, Unset, Truthful
<1>6. Owed'
  BY <1>1, Fields DEF IInv, SaveDeviceSent, Saved, DevCount, dbVars, pipeVars, Tracks,
    AtStep, TypeOK, Owed
<1>7. NoticesInOrder'
  BY <1>1, Fields DEF IInv, SaveDeviceSent, Saved, DevCount, dbVars, pipeVars, Tracks,
    AtStep, TypeOK, NoticesInOrder, Truthful, Owed
<1>8. RegisteredOnce'
  BY <1>1, RegisterAssumption DEF IInv, SaveDeviceSent, Saved, DevCount, dbVars,
    pipeVars, RegisteredOnce
<1> QED
  BY <1>1, <1>2, <1>3, <1>4, <1>5, <1>6, <1>7, <1>8 DEF IInv

LEMMA StampIInv == ASSUME IInv, Stamp PROVE IInv'
<1>1. TypeOK /\ TypeOK' /\ mem \in Receipt /\ run \in Runs
  BY StepTypeOK DEF IInv, Steps, Stamp, TypeOK
<1>2. (\A r \in Runs : disk[r] # None => Truthful(r, disk[r]))'
  BY <1>1, RegisterAssumption, Fields DEF IInv, Stamp, Saved, DevCount, dbVars,
    pipeVars, Truthful, Tracks, AtStep, TypeOK, Unset, Notice
<1>3. (pc # "idle" => Truthful(run, mem))'
  BY <1>1, RegisterAssumption, Fields DEF IInv, Stamp, Saved, DevCount, dbVars,
    pipeVars, Truthful, Tracks, AtStep, TypeOK, Unset, Notice
<1>4. Tracks'
  BY <1>1, Fields DEF IInv, Stamp, Saved, DevCount, Tracks, AtStep, TypeOK, Unset
<1>5. AtStep'
  BY <1>1, RegisterAssumption, Fields DEF IInv, Stamp, Saved, DevCount, dbVars,
    pipeVars, Tracks, AtStep, TypeOK, Unset, Truthful
<1>6. Owed'
  BY <1>1, Fields DEF IInv, Stamp, Saved, DevCount, dbVars, pipeVars, Tracks, AtStep,
    TypeOK, Owed
<1>7. NoticesInOrder'
  BY <1>1, Fields DEF IInv, Stamp, Saved, DevCount, dbVars, pipeVars, Tracks, AtStep,
    TypeOK, NoticesInOrder, Truthful, Owed
<1>8. RegisteredOnce'
  BY <1>1, RegisterAssumption DEF IInv, Stamp, Saved, DevCount, dbVars, pipeVars,
    RegisteredOnce
<1> QED
  BY <1>1, <1>2, <1>3, <1>4, <1>5, <1>6, <1>7, <1>8 DEF IInv

LEMMA StampNotSavedIInv == ASSUME IInv, StampNotSaved PROVE IInv'
<1>1. TypeOK /\ TypeOK' /\ mem \in Receipt /\ run \in Runs
  BY StepTypeOK DEF IInv, Steps, StampNotSaved, TypeOK
<1>2. (\A r \in Runs : disk[r] # None => Truthful(r, disk[r]))'
  BY <1>1, RegisterAssumption, Fields DEF IInv, StampNotSaved, DevCount, dbVars,
    pipeVars, Truthful, Tracks, AtStep, TypeOK, Unset, Notice
<1>3. (pc # "idle" => Truthful(run, mem))'
  BY <1>1, RegisterAssumption, Fields DEF IInv, StampNotSaved, DevCount, dbVars,
    pipeVars, Truthful, Tracks, AtStep, TypeOK, Unset, Notice
<1>4. Tracks'
  BY <1>1, Fields DEF IInv, StampNotSaved, DevCount, Tracks, AtStep, TypeOK, Unset
<1>5. AtStep'
  BY <1>1, RegisterAssumption, Fields DEF IInv, StampNotSaved, DevCount, dbVars,
    pipeVars, Tracks, AtStep, TypeOK, Unset, Truthful
<1>6. Owed'
  BY <1>1, Fields DEF IInv, StampNotSaved, DevCount, dbVars, pipeVars, Tracks, AtStep,
    TypeOK, Owed
<1>7. NoticesInOrder'
  BY <1>1, Fields DEF IInv, StampNotSaved, DevCount, dbVars, pipeVars, Tracks, AtStep,
    TypeOK, NoticesInOrder, Truthful, Owed
<1>8. RegisteredOnce'
  BY <1>1, RegisterAssumption DEF IInv, StampNotSaved, DevCount, dbVars, pipeVars,
    RegisteredOnce
<1> QED
  BY <1>1, <1>2, <1>3, <1>4, <1>5, <1>6, <1>7, <1>8 DEF IInv

LEMMA AlreadyStampedIInv == ASSUME IInv, AlreadyStamped PROVE IInv'
<1>1. TypeOK /\ TypeOK' /\ mem \in Receipt /\ run \in Runs
  BY StepTypeOK DEF IInv, Steps, AlreadyStamped, TypeOK
<1>2. (\A r \in Runs : disk[r] # None => Truthful(r, disk[r]))'
  BY <1>1, RegisterAssumption, Fields DEF IInv, AlreadyStamped, DevCount, dbVars,
    pipeVars, Truthful, Tracks, AtStep, TypeOK, Unset, Notice
<1>3. (pc # "idle" => Truthful(run, mem))'
  BY <1>1, RegisterAssumption, Fields DEF IInv, AlreadyStamped, DevCount, dbVars,
    pipeVars, Truthful, Tracks, AtStep, TypeOK, Unset, Notice
<1>4. Tracks'
  BY <1>1, Fields DEF IInv, AlreadyStamped, DevCount, Tracks, AtStep, TypeOK, Unset
<1>5. AtStep'
  BY <1>1, RegisterAssumption, Fields DEF IInv, AlreadyStamped, DevCount, dbVars,
    pipeVars, Tracks, AtStep, TypeOK, Unset, Truthful
<1>6. Owed'
  BY <1>1, Fields DEF IInv, AlreadyStamped, DevCount, dbVars, pipeVars, Tracks,
    AtStep, TypeOK, Owed
<1>7. NoticesInOrder'
  BY <1>1, Fields DEF IInv, AlreadyStamped, DevCount, dbVars, pipeVars, Tracks,
    AtStep, TypeOK, NoticesInOrder, Truthful, Owed
<1>8. RegisteredOnce'
  BY <1>1, RegisterAssumption DEF IInv, AlreadyStamped, DevCount, dbVars, pipeVars,
    RegisteredOnce
<1> QED
  BY <1>1, <1>2, <1>3, <1>4, <1>5, <1>6, <1>7, <1>8 DEF IInv

LEMMA SettledIInv == ASSUME IInv, Settled PROVE IInv'
<1>1. TypeOK /\ TypeOK' /\ mem \in Receipt /\ run \in Runs
  BY StepTypeOK DEF IInv, Steps, Settled, TypeOK
<1>2. (\A r \in Runs : disk[r] # None => Truthful(r, disk[r]))'
  BY <1>1, RegisterAssumption, Fields DEF IInv, Settled, DevCount, dbVars, pipeVars,
    Truthful, Tracks, AtStep, TypeOK, Unset, Notice
<1>3. (pc # "idle" => Truthful(run, mem))'
  BY <1>1, RegisterAssumption, Fields DEF IInv, Settled, DevCount, dbVars, pipeVars,
    Truthful, Tracks, AtStep, TypeOK, Unset, Notice
<1>4. Tracks'
  BY <1>1, Fields DEF IInv, Settled, DevCount, Tracks, AtStep, TypeOK, Unset
<1>5. AtStep'
  BY <1>1, RegisterAssumption, Fields DEF IInv, Settled, DevCount, dbVars, pipeVars,
    Tracks, AtStep, TypeOK, Unset, Truthful
<1>6. Owed'
  BY <1>1, Fields DEF IInv, Settled, DevCount, dbVars, pipeVars, Tracks, AtStep,
    TypeOK, Owed
<1>7. NoticesInOrder'
  BY <1>1, Fields DEF IInv, Settled, DevCount, dbVars, pipeVars, Tracks, AtStep,
    TypeOK, NoticesInOrder, Truthful, Owed
<1>8. RegisteredOnce'
  BY <1>1, RegisterAssumption DEF IInv, Settled, DevCount, dbVars, pipeVars,
    RegisteredOnce
<1> QED
  BY <1>1, <1>2, <1>3, <1>4, <1>5, <1>6, <1>7, <1>8 DEF IInv

LEMMA LookNothingIInv == ASSUME IInv, LookNothing PROVE IInv'
<1>1. TypeOK /\ TypeOK' /\ mem \in Receipt /\ run \in Runs
  BY StepTypeOK DEF IInv, Steps, LookNothing, TypeOK
<1>2. (\A r \in Runs : disk[r] # None => Truthful(r, disk[r]))'
  BY <1>1, RegisterAssumption, Fields DEF IInv, LookNothing, dbVars, pipeVars,
    Truthful, Tracks, AtStep, TypeOK, Unset, Notice, DevCount
<1>3. (pc # "idle" => Truthful(run, mem))'
  BY <1>1, RegisterAssumption, Fields DEF IInv, LookNothing, dbVars, pipeVars,
    Truthful, Tracks, AtStep, TypeOK, Unset, Notice, DevCount
<1>4. Tracks'
  BY <1>1, Fields DEF IInv, LookNothing, Tracks, AtStep, TypeOK, Unset
<1>5. AtStep'
  BY <1>1, RegisterAssumption, Fields DEF IInv, LookNothing, dbVars, pipeVars, Tracks,
    AtStep, TypeOK, Unset
<1>6. Owed'
  BY <1>1, Fields DEF IInv, LookNothing, dbVars, pipeVars, Tracks, AtStep, TypeOK,
    Owed
<1>7. NoticesInOrder'
  BY <1>1, Fields DEF IInv, LookNothing, dbVars, pipeVars, Tracks, AtStep, TypeOK,
    NoticesInOrder, Truthful, Owed
<1>8. RegisteredOnce'
  BY <1>1, RegisterAssumption DEF IInv, LookNothing, dbVars, pipeVars, RegisteredOnce
<1> QED
  BY <1>1, <1>2, <1>3, <1>4, <1>5, <1>6, <1>7, <1>8 DEF IInv

LEMMA LookAdoptIInv == ASSUME IInv, LookAdopt PROVE IInv'
<1>1. TypeOK /\ TypeOK' /\ mem \in Receipt /\ run \in Runs
  BY StepTypeOK DEF IInv, Steps, LookAdopt, TypeOK
<1>2. (\A r \in Runs : disk[r] # None => Truthful(r, disk[r]))'
  BY <1>1, RegisterAssumption, Fields DEF IInv, LookAdopt, dbVars, pipeVars, Truthful,
    Tracks, AtStep, TypeOK, Unset, Notice, DevCount
<1>3. (pc # "idle" => Truthful(run, mem))'
  BY <1>1, RegisterAssumption, Fields DEF IInv, LookAdopt, dbVars, pipeVars, Truthful,
    Tracks, AtStep, TypeOK, Unset, Notice, DevCount
<1>4. Tracks'
  BY <1>1, Fields DEF IInv, LookAdopt, Tracks, AtStep, TypeOK, Unset
<1>5. AtStep'
  BY <1>1, RegisterAssumption, Fields DEF IInv, LookAdopt, dbVars, pipeVars, Tracks,
    AtStep, TypeOK, Unset
<1>6. Owed'
  BY <1>1, Fields DEF IInv, LookAdopt, dbVars, pipeVars, Tracks, AtStep, TypeOK, Owed
<1>7. NoticesInOrder'
  BY <1>1, Fields DEF IInv, LookAdopt, dbVars, pipeVars, Tracks, AtStep, TypeOK,
    NoticesInOrder, Truthful, Owed
<1>8. RegisteredOnce'
  BY <1>1, RegisterAssumption DEF IInv, LookAdopt, dbVars, pipeVars, RegisteredOnce
<1> QED
  BY <1>1, <1>2, <1>3, <1>4, <1>5, <1>6, <1>7, <1>8 DEF IInv

LEMMA TransactionIInv == ASSUME IInv, Transaction PROVE IInv'
<1>1. TypeOK /\ TypeOK' /\ mem \in Receipt /\ run \in Runs
  BY StepTypeOK DEF IInv, Steps, Transaction, TypeOK
<1>2. (\A r \in Runs : disk[r] # None => Truthful(r, disk[r]))'
  BY <1>1, RegisterAssumption, Fields DEF IInv, Transaction, dbVars, pipeVars,
    Truthful, Tracks, AtStep, TypeOK, Unset, Notice, DevCount
<1>3. (pc # "idle" => Truthful(run, mem))'
  <2>1. mem' = [mem EXCEPT !.ptMsgs = TRUE, !.ptSent = 0] /\ run' = run
    BY DEF Transaction
  <2>2. mem.stage = "devices" /\ mem.wait # Unset /\ (mem.fresh => mem.wait = 0)
    BY DEF IInv, AtStep, Transaction
  <2> QED
    BY <1>1, <2>1, <2>2, Fields
      DEF IInv, Transaction, Truthful, Receipt, DevCount, dbVars, pipeVars
<1>4. Tracks'
  BY <1>1, Fields DEF IInv, Transaction, Tracks, AtStep, TypeOK, Unset
<1>5. AtStep'
  BY <1>1, RegisterAssumption, Fields DEF IInv, Transaction, dbVars, pipeVars, Tracks,
    AtStep, TypeOK, Unset
<1>6. Owed'
  BY <1>1, Fields DEF IInv, Transaction, dbVars, pipeVars, Tracks, AtStep, TypeOK,
    Owed
<1>7. NoticesInOrder'
  BY <1>1, Fields DEF IInv, Transaction, dbVars, pipeVars, Tracks, AtStep, TypeOK,
    NoticesInOrder, Truthful, Owed
<1>8. RegisteredOnce'
  BY <1>1, RegisterAssumption DEF IInv, Transaction, dbVars, pipeVars, RegisteredOnce
<1> QED
  BY <1>1, <1>2, <1>3, <1>4, <1>5, <1>6, <1>7, <1>8 DEF IInv

LEMMA SavePointMessagesIInv == ASSUME IInv, SavePointMessages PROVE IInv'
<1>1. TypeOK /\ TypeOK' /\ mem \in Receipt /\ run \in Runs
  BY StepTypeOK DEF IInv, Steps, SavePointMessages, TypeOK
<1>2. (\A r \in Runs : disk[r] # None => Truthful(r, disk[r]))'
  BY <1>1, RegisterAssumption, Fields DEF IInv, SavePointMessages, Saved, dbVars,
    pipeVars, Truthful, Tracks, AtStep, TypeOK, Unset, Notice, DevCount
<1>3. (pc # "idle" => Truthful(run, mem))'
  BY <1>1, RegisterAssumption, Fields DEF IInv, SavePointMessages, Saved, dbVars,
    pipeVars, Truthful, Tracks, AtStep, TypeOK, Unset, Notice, DevCount
<1>4. Tracks'
  BY <1>1, Fields DEF IInv, SavePointMessages, Saved, Tracks, AtStep, TypeOK, Unset
<1>5. AtStep'
  BY <1>1, RegisterAssumption, Fields DEF IInv, SavePointMessages, Saved, dbVars,
    pipeVars, Tracks, AtStep, TypeOK, Unset
<1>6. Owed'
  BY <1>1, Fields DEF IInv, SavePointMessages, Saved, dbVars, pipeVars, Tracks,
    AtStep, TypeOK, Owed
<1>7. NoticesInOrder'
  BY <1>1, Fields DEF IInv, SavePointMessages, Saved, dbVars, pipeVars, Tracks,
    AtStep, TypeOK, NoticesInOrder, Truthful, Owed
<1>8. RegisteredOnce'
  BY <1>1, RegisterAssumption DEF IInv, SavePointMessages, Saved, dbVars, pipeVars,
    RegisteredOnce
<1> QED
  BY <1>1, <1>2, <1>3, <1>4, <1>5, <1>6, <1>7, <1>8 DEF IInv

LEMMA CommitCheckpointsIInv == ASSUME IInv, CommitCheckpoints PROVE IInv'
<1>1. TypeOK /\ TypeOK' /\ mem \in Receipt /\ run \in Runs
  BY StepTypeOK DEF IInv, Steps, CommitCheckpoints, TypeOK
<1>2. (\A r \in Runs : disk[r] # None => Truthful(r, disk[r]))'
  BY <1>1, RegisterAssumption, Fields DEF IInv, CommitCheckpoints, SecondCommit,
    dbVars, pipeVars, Truthful, Tracks, AtStep, TypeOK, Unset, Notice, DevCount
<1>3. (pc # "idle" => Truthful(run, mem))'
  BY <1>1, RegisterAssumption, Fields DEF IInv, CommitCheckpoints, SecondCommit,
    dbVars, pipeVars, Truthful, Tracks, AtStep, TypeOK, Unset, Notice, DevCount
<1>4. Tracks'
  BY <1>1, Fields DEF IInv, CommitCheckpoints, SecondCommit, Tracks, AtStep, TypeOK,
    Unset
<1>5. AtStep'
  BY <1>1, RegisterAssumption, Fields DEF IInv, CommitCheckpoints, SecondCommit,
    dbVars, pipeVars, Tracks, AtStep, TypeOK, Unset, NewRows
<1>6. Owed'
  <2>1. disk[run] # None /\ disk[run].ptMsgs /\ disk[run].fresh = mem.fresh
    BY DEF IInv, CommitCheckpoints, Tracks, AtStep
  <2>2. /\ inserted' = [inserted EXCEPT ![run] = @ + 1]
        /\ inserted \in [Runs -> Nat]
    BY <1>1 DEF CommitCheckpoints, SecondCommit, TypeOK
  <2>3. \A w \in live' : w \in live \/ (w.by = run /\ w.no = inserted[run] + 1)
    BY DEF CommitCheckpoints, SecondCommit, NewRows
  <2>4. \A m \in Movable : at'[m] = at[m] \/ at'[m] = Target(run, mem)
    BY <1>1 DEF CommitCheckpoints, SecondCommit, TypeOK
  <2>5. \A r \in Runs : inserted'[r] > 0 => disk[r] # None /\ disk[r].ptMsgs
    BY <1>1, <2>1, <2>2 DEF IInv, Owed
  <2>6. \A w \in live' : w.by \in Runs => inserted'[w.by] > 0 /\ w.no <= inserted'[w.by]
    <3> SUFFICES ASSUME NEW w \in live', w.by \in Runs
                 PROVE  inserted'[w.by] > 0 /\ w.no <= inserted'[w.by]
      OBVIOUS
    <3>1. CASE w \in live
      <4>1. inserted[w.by] > 0 /\ w.no <= inserted[w.by] /\ w.no \in Nat
        BY <1>1, <3>1 DEF IInv, Owed, TypeOK, Row
      <4> QED
        BY <1>1, <2>2, <4>1
    <3>2. CASE w.by = run /\ w.no = inserted[run] + 1
      BY <1>1, <2>2, <3>2
    <3> QED
      BY <2>3, <3>1, <3>2
  <2>7. \A m \in Movable : at'[m] \in Runs => inserted'[at'[m]] > 0 /\ disk[at'[m]].fresh
    <3> SUFFICES ASSUME NEW m \in Movable, at'[m] \in Runs
                 PROVE  inserted'[at'[m]] > 0 /\ disk[at'[m]].fresh
      OBVIOUS
    <3>1. CASE at'[m] = at[m]
      BY <1>1, <2>2, <3>1 DEF IInv, Owed
    <3>2. CASE at'[m] = Target(run, mem)
      BY <1>1, <2>1, <2>2, <3>2, RegisterAssumption DEF Target
    <3> QED
      BY <2>4, <3>1, <3>2
  <2> QED
    BY <2>5, <2>6, <2>7 DEF IInv, Owed, CommitCheckpoints, SecondCommit, pipeVars
<1>7. NoticesInOrder'
  BY <1>1, Fields DEF IInv, CommitCheckpoints, SecondCommit, dbVars, pipeVars, Tracks,
    AtStep, TypeOK, NoticesInOrder, Truthful, Owed
<1>8. RegisteredOnce'
  BY <1>1, RegisterAssumption DEF IInv, CommitCheckpoints, SecondCommit, dbVars,
    pipeVars, RegisteredOnce, AtStep, NewRows
<1> QED
  BY <1>1, <1>2, <1>3, <1>4, <1>5, <1>6, <1>7, <1>8 DEF IInv

LEMMA CommitCheckpointsUnknownIInv == ASSUME IInv, CommitCheckpointsUnknown PROVE IInv'
<1>1. TypeOK /\ TypeOK' /\ mem \in Receipt /\ run \in Runs
  BY StepTypeOK DEF IInv, Steps, CommitCheckpointsUnknown, TypeOK
<1>2. (\A r \in Runs : disk[r] # None => Truthful(r, disk[r]))'
  BY <1>1, RegisterAssumption, Fields DEF IInv, CommitCheckpointsUnknown,
    SecondCommit, Return, dbVars, pipeVars, Truthful, Tracks, AtStep, TypeOK, Unset,
    Notice, DevCount
<1>3. (pc # "idle" => Truthful(run, mem))'
  BY <1>1, RegisterAssumption, Fields DEF IInv, CommitCheckpointsUnknown,
    SecondCommit, Return, dbVars, pipeVars, Truthful, Tracks, AtStep, TypeOK, Unset,
    Notice, DevCount
<1>4. Tracks'
  BY <1>1, Fields DEF IInv, CommitCheckpointsUnknown, SecondCommit, Return, Tracks,
    AtStep, TypeOK, Unset
<1>5. AtStep'
  BY <1>1, RegisterAssumption, Fields DEF IInv, CommitCheckpointsUnknown,
    SecondCommit, Return, dbVars, pipeVars, Tracks, AtStep, TypeOK, Unset, NewRows
<1>6. Owed'
  <2>1. disk[run] # None /\ disk[run].ptMsgs /\ disk[run].fresh = mem.fresh
    BY DEF IInv, CommitCheckpointsUnknown, Tracks, AtStep
  <2>2. /\ inserted' = [inserted EXCEPT ![run] = @ + 1]
        /\ inserted \in [Runs -> Nat]
    BY <1>1 DEF CommitCheckpointsUnknown, SecondCommit, TypeOK
  <2>3. \A w \in live' : w \in live \/ (w.by = run /\ w.no = inserted[run] + 1)
    BY DEF CommitCheckpointsUnknown, SecondCommit, NewRows
  <2>4. \A m \in Movable : at'[m] = at[m] \/ at'[m] = Target(run, mem)
    BY <1>1 DEF CommitCheckpointsUnknown, SecondCommit, TypeOK
  <2>5. \A r \in Runs : inserted'[r] > 0 => disk[r] # None /\ disk[r].ptMsgs
    BY <1>1, <2>1, <2>2 DEF IInv, Owed
  <2>6. \A w \in live' : w.by \in Runs => inserted'[w.by] > 0 /\ w.no <= inserted'[w.by]
    <3> SUFFICES ASSUME NEW w \in live', w.by \in Runs
                 PROVE  inserted'[w.by] > 0 /\ w.no <= inserted'[w.by]
      OBVIOUS
    <3>1. CASE w \in live
      <4>1. inserted[w.by] > 0 /\ w.no <= inserted[w.by] /\ w.no \in Nat
        BY <1>1, <3>1 DEF IInv, Owed, TypeOK, Row
      <4> QED
        BY <1>1, <2>2, <4>1
    <3>2. CASE w.by = run /\ w.no = inserted[run] + 1
      BY <1>1, <2>2, <3>2
    <3> QED
      BY <2>3, <3>1, <3>2
  <2>7. \A m \in Movable : at'[m] \in Runs => inserted'[at'[m]] > 0 /\ disk[at'[m]].fresh
    <3> SUFFICES ASSUME NEW m \in Movable, at'[m] \in Runs
                 PROVE  inserted'[at'[m]] > 0 /\ disk[at'[m]].fresh
      OBVIOUS
    <3>1. CASE at'[m] = at[m]
      BY <1>1, <2>2, <3>1 DEF IInv, Owed
    <3>2. CASE at'[m] = Target(run, mem)
      BY <1>1, <2>1, <2>2, <3>2, RegisterAssumption DEF Target
    <3> QED
      BY <2>4, <3>1, <3>2
  <2> QED
    BY <2>5, <2>6, <2>7 DEF IInv, Owed, CommitCheckpointsUnknown, SecondCommit, pipeVars
<1>7. NoticesInOrder'
  BY <1>1, Fields DEF IInv, CommitCheckpointsUnknown, SecondCommit, Return, dbVars,
    pipeVars, Tracks, AtStep, TypeOK, NoticesInOrder, Truthful, Owed
<1>8. RegisteredOnce'
  BY <1>1, RegisterAssumption DEF IInv, CommitCheckpointsUnknown, SecondCommit,
    Return, dbVars, pipeVars, RegisteredOnce, AtStep, NewRows
<1> QED
  BY <1>1, <1>2, <1>3, <1>4, <1>5, <1>6, <1>7, <1>8 DEF IInv

LEMMA SaveDoneIInv == ASSUME IInv, SaveDone PROVE IInv'
<1>1. TypeOK /\ TypeOK' /\ mem \in Receipt /\ run \in Runs
  BY StepTypeOK DEF IInv, Steps, SaveDone, TypeOK
<1>2. (\A r \in Runs : disk[r] # None => Truthful(r, disk[r]))'
  BY <1>1, RegisterAssumption, Fields DEF IInv, SaveDone, SavedOrNot, Saved, dbVars,
    pipeVars, Truthful, Tracks, AtStep, TypeOK, Unset, Notice, DevCount
<1>3. (pc # "idle" => Truthful(run, mem))'
  BY <1>1, RegisterAssumption, Fields DEF IInv, SaveDone, SavedOrNot, Saved, dbVars,
    pipeVars, Truthful, Tracks, AtStep, TypeOK, Unset, Notice, DevCount
<1>4. Tracks'
  BY <1>1, Fields DEF IInv, SaveDone, SavedOrNot, Saved, Tracks, AtStep, TypeOK, Unset
<1>5. AtStep'
  BY <1>1, RegisterAssumption, Fields DEF IInv, SaveDone, SavedOrNot, Saved, dbVars,
    pipeVars, Tracks, AtStep, TypeOK, Unset
<1>6. Owed'
  <2>1. \A r \in Runs : disk[r] # None =>
          /\ disk'[r] # None
          /\ disk'[r].fresh = disk[r].fresh
          /\ disk[r].ptMsgs => disk'[r].ptMsgs
    BY <1>1, Fields DEF IInv, SaveDone, SavedOrNot, Saved, Tracks, TypeOK
  <2> QED
    BY <1>1, <2>1 DEF IInv, SaveDone, Owed, TypeOK, Notice, Row, Ifaces, dbVars, pipeVars
<1>7. NoticesInOrder'
  BY <1>1, Fields DEF IInv, SaveDone, SavedOrNot, Saved, dbVars, pipeVars, Tracks,
    AtStep, TypeOK, NoticesInOrder, Truthful, Owed
<1>8. RegisteredOnce'
  BY <1>1, RegisterAssumption DEF IInv, SaveDone, SavedOrNot, Saved, dbVars, pipeVars,
    RegisteredOnce
<1> QED
  BY <1>1, <1>2, <1>3, <1>4, <1>5, <1>6, <1>7, <1>8 DEF IInv

LEMMA SendPointIInv == ASSUME IInv, SendPoint PROVE IInv'
<1>1. TypeOK /\ TypeOK' /\ mem \in Receipt /\ run \in Runs
  BY StepTypeOK DEF IInv, Steps, SendPoint, TypeOK
<1>2. (\A r \in Runs : disk[r] # None => Truthful(r, disk[r]))'
  BY <1>1, RegisterAssumption, Fields DEF IInv, SendPoint, Deliver, DevCount, dbVars,
    pipeVars, Truthful, Tracks, AtStep, TypeOK, Unset, Notice
<1>3. (pc # "idle" => Truthful(run, mem))'
  BY <1>1, RegisterAssumption, Fields DEF IInv, SendPoint, Deliver, DevCount, dbVars,
    pipeVars, Truthful, Tracks, AtStep, TypeOK, Unset, Notice
<1>4. Tracks'
  BY <1>1, Fields DEF IInv, SendPoint, Deliver, DevCount, Tracks, AtStep, TypeOK,
    Unset
<1>5. AtStep'
  BY <1>1, RegisterAssumption, Fields DEF IInv, SendPoint, Deliver, DevCount, dbVars,
    pipeVars, Tracks, AtStep, TypeOK, Unset, Truthful
<1>6. Owed'
  BY <1>1, Fields DEF IInv, SendPoint, Deliver, DevCount, dbVars, pipeVars, Tracks,
    AtStep, TypeOK, Owed
<1>7. NoticesInOrder'
  BY <1>1, Fields DEF IInv, SendPoint, Deliver, DevCount, dbVars, pipeVars, Tracks,
    AtStep, TypeOK, NoticesInOrder, Truthful, Owed
<1>8. RegisteredOnce'
  BY <1>1, RegisterAssumption DEF IInv, SendPoint, Deliver, DevCount, dbVars,
    pipeVars, RegisteredOnce
<1> QED
  BY <1>1, <1>2, <1>3, <1>4, <1>5, <1>6, <1>7, <1>8 DEF IInv

LEMMA SendPointUnknownIInv == ASSUME IInv, SendPointUnknown PROVE IInv'
<1>1. TypeOK /\ TypeOK' /\ mem \in Receipt /\ run \in Runs
  BY StepTypeOK DEF IInv, Steps, SendPointUnknown, TypeOK
<1>2. (\A r \in Runs : disk[r] # None => Truthful(r, disk[r]))'
  BY <1>1, RegisterAssumption, Fields DEF IInv, SendPointUnknown, Deliver, DevCount,
    Return, dbVars, pipeVars, Truthful, Tracks, AtStep, TypeOK, Unset, Notice
<1>3. (pc # "idle" => Truthful(run, mem))'
  BY <1>1, RegisterAssumption, Fields DEF IInv, SendPointUnknown, Deliver, DevCount,
    Return, dbVars, pipeVars, Truthful, Tracks, AtStep, TypeOK, Unset, Notice
<1>4. Tracks'
  BY <1>1, Fields DEF IInv, SendPointUnknown, Deliver, DevCount, Return, Tracks,
    AtStep, TypeOK, Unset
<1>5. AtStep'
  BY <1>1, RegisterAssumption, Fields DEF IInv, SendPointUnknown, Deliver, DevCount,
    Return, dbVars, pipeVars, Tracks, AtStep, TypeOK, Unset, Truthful
<1>6. Owed'
  BY <1>1, Fields DEF IInv, SendPointUnknown, Deliver, DevCount, Return, dbVars,
    pipeVars, Tracks, AtStep, TypeOK, Owed
<1>7. NoticesInOrder'
  BY <1>1, Fields DEF IInv, SendPointUnknown, Deliver, DevCount, Return, dbVars,
    pipeVars, Tracks, AtStep, TypeOK, NoticesInOrder, Truthful, Owed
<1>8. RegisteredOnce'
  BY <1>1, RegisterAssumption DEF IInv, SendPointUnknown, Deliver, DevCount, Return,
    dbVars, pipeVars, RegisteredOnce
<1> QED
  BY <1>1, <1>2, <1>3, <1>4, <1>5, <1>6, <1>7, <1>8 DEF IInv

LEMMA SavePointSentIInv == ASSUME IInv, SavePointSent PROVE IInv'
<1>1. TypeOK /\ TypeOK' /\ mem \in Receipt /\ run \in Runs
  BY StepTypeOK DEF IInv, Steps, SavePointSent, TypeOK
<1>2. (\A r \in Runs : disk[r] # None => Truthful(r, disk[r]))'
  BY <1>1, RegisterAssumption, Fields DEF IInv, SavePointSent, Saved, dbVars,
    pipeVars, Truthful, Tracks, AtStep, TypeOK, Unset, Notice, DevCount
<1>3. (pc # "idle" => Truthful(run, mem))'
  BY <1>1, RegisterAssumption, Fields DEF IInv, SavePointSent, Saved, dbVars,
    pipeVars, Truthful, Tracks, AtStep, TypeOK, Unset, Notice, DevCount
<1>4. Tracks'
  BY <1>1, Fields DEF IInv, SavePointSent, Saved, Tracks, AtStep, TypeOK, Unset
<1>5. AtStep'
  BY <1>1, RegisterAssumption, Fields DEF IInv, SavePointSent, Saved, dbVars,
    pipeVars, Tracks, AtStep, TypeOK, Unset
<1>6. Owed'
  BY <1>1, Fields DEF IInv, SavePointSent, Saved, dbVars, pipeVars, Tracks, AtStep,
    TypeOK, Owed
<1>7. NoticesInOrder'
  BY <1>1, Fields DEF IInv, SavePointSent, Saved, dbVars, pipeVars, Tracks, AtStep,
    TypeOK, NoticesInOrder, Truthful, Owed
<1>8. RegisteredOnce'
  BY <1>1, RegisterAssumption DEF IInv, SavePointSent, Saved, dbVars, pipeVars,
    RegisteredOnce
<1> QED
  BY <1>1, <1>2, <1>3, <1>4, <1>5, <1>6, <1>7, <1>8 DEF IInv

LEMMA FinishIInv == ASSUME IInv, NEW ok \in BOOLEAN, Finish(ok) PROVE IInv'
<1>1. TypeOK /\ TypeOK' /\ mem \in Receipt /\ run \in Runs
  BY StepTypeOK DEF IInv, Steps, Finish, TypeOK
<1>2. (\A r \in Runs : disk[r] # None => Truthful(r, disk[r]))'
  BY <1>1, RegisterAssumption, Fields DEF IInv, Finish, Return, dbVars, pipeVars,
    Truthful, Tracks, AtStep, TypeOK, Unset, Notice, DevCount
<1>3. (pc # "idle" => Truthful(run, mem))'
  BY <1>1, RegisterAssumption, Fields DEF IInv, Finish, Return, dbVars, pipeVars,
    Truthful, Tracks, AtStep, TypeOK, Unset, Notice, DevCount
<1>4. Tracks'
  BY <1>1, Fields DEF IInv, Finish, Return, Tracks, AtStep, TypeOK, Unset
<1>5. AtStep'
  BY <1>1, RegisterAssumption, Fields DEF IInv, Finish, Return, dbVars, pipeVars,
    Tracks, AtStep, TypeOK, Unset
<1>6. Owed'
  <2>1. \A r \in Runs : disk[r] # None =>
          /\ disk'[r] # None
          /\ disk'[r].fresh = disk[r].fresh
          /\ disk[r].ptMsgs => disk'[r].ptMsgs
    <3> DEFINE rec == [mem EXCEPT !.notified = TRUE, !.verified = ok]
    <3>1. disk' = [disk EXCEPT ![run] = rec]
      BY DEF Finish
    <3>2. rec \in Receipt /\ rec.fresh = mem.fresh /\ rec.ptMsgs = mem.ptMsgs
      BY <1>1 DEF Receipt
    <3> HIDE DEF rec
    <3>3. mem.ptMsgs /\ disk[run] # None /\ disk[run].fresh = mem.fresh
      BY DEF IInv, Finish, Tracks, AtStep
    <3> QED
      BY <1>1, <3>1, <3>2, <3>3, NoneAssumption DEF TypeOK
  <2> QED
    BY <1>1, <2>1 DEF IInv, Finish, Owed, TypeOK, Notice, Row, Ifaces, dbVars, pipeVars
<1>7. NoticesInOrder'
  BY <1>1, Fields DEF IInv, Finish, Return, dbVars, pipeVars, Tracks, AtStep, TypeOK,
    NoticesInOrder, Truthful, Owed
<1>8. RegisteredOnce'
  BY <1>1, RegisterAssumption DEF IInv, Finish, Return, dbVars, pipeVars,
    RegisteredOnce
<1> QED
  BY <1>1, <1>2, <1>3, <1>4, <1>5, <1>6, <1>7, <1>8 DEF IInv

LEMMA GiveUpIInv == ASSUME IInv, GiveUp PROVE IInv'
<1>1. TypeOK /\ TypeOK' /\ mem \in Receipt /\ run \in Runs
  BY StepTypeOK DEF IInv, Steps, GiveUp, TypeOK
<1>2. (\A r \in Runs : disk[r] # None => Truthful(r, disk[r]))'
  BY <1>1, RegisterAssumption, Fields DEF IInv, GiveUp, Return, dbVars, pipeVars,
    Truthful, Tracks, AtStep, TypeOK, Unset, Notice, DevCount
<1>3. (pc # "idle" => Truthful(run, mem))'
  BY <1>1, RegisterAssumption, Fields DEF IInv, GiveUp, Return, dbVars, pipeVars,
    Truthful, Tracks, AtStep, TypeOK, Unset, Notice, DevCount
<1>4. Tracks'
  BY <1>1, Fields DEF IInv, GiveUp, Return, Tracks, AtStep, TypeOK, Unset
<1>5. AtStep'
  BY <1>1, RegisterAssumption, Fields DEF IInv, GiveUp, Return, dbVars, pipeVars,
    Tracks, AtStep, TypeOK, Unset
<1>6. Owed'
  BY <1>1, Fields DEF IInv, GiveUp, Return, dbVars, pipeVars, Tracks, AtStep, TypeOK,
    Owed
<1>7. NoticesInOrder'
  BY <1>1, Fields DEF IInv, GiveUp, Return, dbVars, pipeVars, Tracks, AtStep, TypeOK,
    NoticesInOrder, Truthful, Owed
<1>8. RegisteredOnce'
  BY <1>1, RegisterAssumption DEF IInv, GiveUp, Return, dbVars, pipeVars,
    RegisteredOnce
<1> QED
  BY <1>1, <1>2, <1>3, <1>4, <1>5, <1>6, <1>7, <1>8 DEF IInv

-----------------------------------------------------------------------------
(* So do the start of a call, the passing of time, and everybody else.     *)

LEMMA BeginIInv ==
  ASSUME IInv, NEW r \in Runs, NEW fresh \in BOOLEAN, NEW points \in SUBSET Keys,
         NEW ms \in SUBSET Movable, Begin(r, fresh, points, ms)
  PROVE  IInv'
<1>1. TypeOK /\ TypeOK'
  BY BeginTypeOK DEF IInv
<1>2. (\A q \in Runs : disk[q] # None => Truthful(q, disk[q]))'
  BY <1>1 DEF IInv, Begin, Truthful, TypeOK, dbVars, pipeVars
<1>3. (pc # "idle" => Truthful(run, mem))'
  BY <1>1, RegisterAssumption DEF IInv, Begin, Truthful, TypeOK, DevCount, Unset, dbVars, pipeVars
<1>4. Tracks'
  BY <1>1 DEF IInv, Begin, Tracks
<1>5. AtStep'
  BY <1>1 DEF IInv, Begin, AtStep
<1>6. Owed'
  BY <1>1 DEF IInv, Begin, Owed, dbVars, pipeVars
<1>7. NoticesInOrder'
  BY <1>1 DEF IInv, Begin, NoticesInOrder, dbVars, pipeVars
<1>8. RegisteredOnce'
  BY <1>1 DEF IInv, Begin, RegisteredOnce, dbVars, pipeVars
<1> QED
  BY <1>1, <1>2, <1>3, <1>4, <1>5, <1>6, <1>7, <1>8 DEF IInv

LEMMA RetryTypeOK == ASSUME TypeOK, NEW r \in Runs, Retry(r) PROVE TypeOK'
<1>1. disk[r] \in Receipt
  BY DEF Retry, TypeOK
<1>2. mem' \in Receipt
  BY <1>1 DEF Retry, Receipt
<1> QED
  BY <1>2 DEF Retry, TypeOK, Pcs, dbVars, pipeVars

LEMMA RetryIInv == ASSUME IInv, NEW r \in Runs, Retry(r) PROVE IInv'
<1>1. TypeOK /\ TypeOK' /\ disk[r] \in Receipt /\ mem' \in Receipt /\ run' = r
  BY RetryTypeOK DEF IInv, Retry, TypeOK, Pcs
<1>2. /\ mem'.fresh = disk[r].fresh /\ mem'.points = disk[r].points
      /\ mem'.devSent = disk[r].devSent /\ mem'.wait = disk[r].wait
      /\ mem'.ptMsgs = disk[r].ptMsgs /\ mem'.ptSent = disk[r].ptSent
      /\ mem'.notified = disk[r].notified
      /\ mem'.stage = IF disk[r].stage = "prepared" THEN "devices" ELSE disk[r].stage
  BY <1>1 DEF Retry, Receipt
<1>3. /\ disk' = [disk EXCEPT ![r] = mem'] \/ disk' = disk
      /\ pc' = IF disk[r].stage = "checkpoints" THEN "sendPt" ELSE "sendDev"
      /\ disk[r].fresh => r \in there
      /\ UNCHANGED <<dbVars, pipeVars>>
  BY DEF Retry, Target
<1>4. Truthful(r, mem)'
  BY <1>1, <1>2, <1>3, Fields DEF IInv, Truthful, DevCount, dbVars, pipeVars
<1>5. (\A q \in Runs : disk[q] # None => Truthful(q, disk[q]))'
  <2> SUFFICES ASSUME NEW q \in Runs, disk'[q] # None
               PROVE  Truthful(q, disk[q])'
    OBVIOUS
  <2>1. CASE disk'[q] = disk[q]
    BY <1>3, <2>1 DEF IInv, Truthful, dbVars, pipeVars
  <2>2. CASE q = r /\ disk'[q] = mem'
    BY <1>4, <2>2 DEF Truthful
  <2> QED
    BY <1>1, <1>3, <2>1, <2>2 DEF TypeOK
<1>6. (pc # "idle" => Truthful(run, mem))'
  BY <1>1, <1>4 DEF Truthful
<1>7. /\ disk'[r] # None /\ disk'[r].fresh = disk[r].fresh
      /\ disk'[r].wait = disk[r].wait /\ disk'[r].ptMsgs = disk[r].ptMsgs
      /\ \A q \in Runs \ {r} : disk'[q] = disk[q]
  BY <1>1, <1>2, <1>3, Fields DEF TypeOK
<1>8. Tracks'
  BY <1>1, <1>2, <1>3, <1>7 DEF Tracks
<1>9. AtStep'
  BY <1>1, <1>2, <1>3, Fields DEF IInv, AtStep, Truthful
<1>10. \A q \in Runs : disk[q] # None =>
         disk'[q] # None /\ disk'[q].fresh = disk[q].fresh /\ disk'[q].ptMsgs = disk[q].ptMsgs
  BY <1>7
<1>11. Owed'
  BY <1>1, <1>3, <1>10 DEF IInv, Owed, TypeOK, Notice, Row, Ifaces, dbVars, pipeVars
<1>12. NoticesInOrder'
  BY <1>1, <1>3, <1>10 DEF IInv, Owed, NoticesInOrder, TypeOK, dbVars, pipeVars
<1>13. RegisteredOnce'
  BY <1>3 DEF IInv, RegisteredOnce, dbVars
<1> QED
  BY <1>1, <1>5, <1>6, <1>8, <1>9, <1>11, <1>12, <1>13 DEF IInv

\* One tick takes one from every wait that runs, and never below zero.
LEMMA TickIInv == ASSUME IInv, Tick PROVE IInv'
<1> DEFINE aged(rec) ==
      IF rec # None /\ rec.wait > 0 THEN [rec EXCEPT !.wait = @ - 1] ELSE rec
<1>1. /\ \A n \in pending : n.left > 0
      /\ pending' = {[n EXCEPT !.left = @ - 1] : n \in pending}
      /\ mem' = aged(mem) /\ disk' = [r \in Runs |-> aged(disk[r])]
      /\ UNCHANGED <<dbVars, told, run, pc>>
  BY DEF Tick
<1>2. TypeOK
  BY DEF IInv
<1>3. \A rec \in Receipt :
        /\ aged(rec) \in Receipt
        /\ aged(rec).stage = rec.stage /\ aged(rec).fresh = rec.fresh
        /\ aged(rec).points = rec.points /\ aged(rec).devSent = rec.devSent
        /\ aged(rec).ptMsgs = rec.ptMsgs /\ aged(rec).ptSent = rec.ptSent
        /\ aged(rec).notified = rec.notified
        /\ aged(rec).wait = IF rec.wait > 0 THEN rec.wait - 1 ELSE rec.wait
  <2> SUFFICES ASSUME NEW rec \in Receipt
               PROVE  /\ aged(rec) \in Receipt
                      /\ aged(rec).stage = rec.stage /\ aged(rec).fresh = rec.fresh
                      /\ aged(rec).points = rec.points /\ aged(rec).devSent = rec.devSent
                      /\ aged(rec).ptMsgs = rec.ptMsgs /\ aged(rec).ptSent = rec.ptSent
                      /\ aged(rec).notified = rec.notified
                      /\ aged(rec).wait = IF rec.wait > 0 THEN rec.wait - 1 ELSE rec.wait
    OBVIOUS
  <2>1. rec # None /\ rec.wait \in Unset .. Settle
    BY Fields
  <2>2. CASE rec.wait > 0
    <3>1. rec.wait - 1 \in Unset .. Settle
      BY <2>1, <2>2, RegisterAssumption DEF Unset
    <3> QED
      BY <2>1, <2>2, <3>1 DEF Receipt
  <2>3. CASE ~(rec.wait > 0)
    BY <2>1, <2>3
  <2> QED
    BY <2>2, <2>3
<1>4. aged(None) = None
  OBVIOUS
<1> HIDE DEF aged
<1>5. \A r \in Runs : (disk[r] = None <=> disk'[r] = None)
  BY <1>1, <1>2, <1>3, <1>4, NoneAssumption DEF TypeOK
<1>6. \A n2 \in pending' : \E n \in pending :
        n2.run = n.run /\ n2.phase = n.phase /\ n2.no = n.no /\ n2.left = n.left - 1
  BY <1>1, <1>2 DEF TypeOK, Notice
<1>7. pending' \subseteq Notice
  <2> SUFFICES ASSUME NEW n \in pending PROVE [n EXCEPT !.left = @ - 1] \in Notice
    BY <1>1
  <2>1. n \in Notice /\ n.left - 1 \in 0 .. Lag
    BY <1>1, <1>2, RegisterAssumption DEF TypeOK, Notice
  <2> QED
    BY <2>1 DEF Notice
<1>8. TypeOK'
  <2>1. disk' \in [Runs -> Receipt \cup {None}]
    BY <1>1, <1>2, <1>3, <1>4 DEF TypeOK
  <2>2. (IF pc = "idle" THEN mem = None /\ run = None ELSE mem \in Receipt /\ run \in Runs)'
    BY <1>1, <1>2, <1>3, <1>4 DEF TypeOK
  <2> QED
    BY <1>1, <1>2, <1>7, <2>1, <2>2 DEF TypeOK, dbVars
<1>9. \A r \in Runs, rec \in Receipt : Truthful(r, rec) => Truthful(r, aged(rec))'
  <2> SUFFICES ASSUME NEW r \in Runs, NEW rec \in Receipt, Truthful(r, rec)
               PROVE  Truthful(r, aged(rec))'
    OBVIOUS
  <2>1. ASSUME aged(rec).wait # Unset, NEW n2 \in pending', n2.run = r, n2.phase = "device"
        PROVE  n2.left + (Settle - Lag) <= aged(rec).wait
    <3>1. PICK n \in pending :
            n2.run = n.run /\ n2.phase = n.phase /\ n2.left = n.left - 1 /\ n.left > 0
      BY <1>1, <1>6
    <3>2. n.left \in Nat /\ rec.wait \in Unset .. Settle
      BY <1>2, Fields, RegisterAssumption DEF TypeOK, Notice
    <3>3. rec.wait # Unset
      BY <1>3, <2>1, <3>2 DEF Unset
    <3>4. n.left + (Settle - Lag) <= rec.wait
      BY <2>1, <3>1, <3>3 DEF Truthful
    <3>5. aged(rec).wait = rec.wait - 1
      BY <1>3, <3>1, <3>2, <3>4, RegisterAssumption DEF Unset
    <3> QED
      BY <3>1, <3>2, <3>4, <3>5, RegisterAssumption DEF Unset
  <2>2. (aged(rec).wait # Unset) <=> (rec.wait # Unset)
    BY <1>3, Fields, RegisterAssumption DEF Unset
  <2>3. rec.wait = 0 => aged(rec).wait = 0
    BY <1>3
  <2>4. /\ aged(rec).stage = rec.stage /\ aged(rec).fresh = rec.fresh
        /\ aged(rec).devSent = rec.devSent /\ aged(rec).ptSent = rec.ptSent
        /\ aged(rec).ptMsgs = rec.ptMsgs /\ aged(rec).notified = rec.notified
    BY <1>3
  <2>5. there' = there /\ dead' = dead /\ told' = told
    BY <1>1 DEF dbVars
  <2> QED
    BY <2>1, <2>2, <2>3, <2>4, <2>5 DEF Truthful, DevCount
<1>10. (\A r \in Runs : disk[r] # None => Truthful(r, disk[r]))'
  <2> SUFFICES ASSUME NEW r \in Runs, disk'[r] # None PROVE Truthful(r, disk[r])'
    OBVIOUS
  <2>1. disk[r] \in Receipt /\ Truthful(r, disk[r]) /\ disk'[r] = aged(disk[r])
    BY <1>1, <1>2, <1>5 DEF IInv, TypeOK
  <2>2. PICK rec \in Receipt : rec = disk[r]
    BY <2>1
  <2> QED
    BY <1>9, <2>1, <2>2 DEF Truthful
<1>11. (pc # "idle" => Truthful(run, mem))'
  <2> SUFFICES ASSUME pc' # "idle" PROVE Truthful(run, mem)'
    OBVIOUS
  <2>1. mem \in Receipt /\ run \in Runs /\ Truthful(run, mem) /\ mem' = aged(mem) /\ run' = run
    BY <1>1, <1>2 DEF IInv, TypeOK
  <2> QED
    BY <1>9, <2>1 DEF Truthful
<1>12. /\ pc # "idle" => mem \in Receipt /\ run \in Runs
       /\ \A r \in Runs : disk[r] # None => disk[r] \in Receipt
  BY <1>2 DEF TypeOK
<1>13. Tracks'
  BY <1>1, <1>3, <1>5, <1>12 DEF IInv, Tracks, AtStep, Unset
<1>14. AtStep'
  BY <1>1, <1>3, <1>12, Fields, RegisterAssumption DEF IInv, AtStep, Unset, dbVars
<1>15. \A r \in Runs : disk[r] # None =>
         /\ disk'[r] # None /\ disk'[r].fresh = disk[r].fresh
         /\ disk'[r].ptMsgs = disk[r].ptMsgs
  BY <1>1, <1>3, <1>5, <1>12
<1>16. Owed'
  <2>1. \A n2 \in pending' : n2.phase = "device" => disk'[n2.run] # None /\ disk'[n2.run].fresh
    BY <1>2, <1>6, <1>15 DEF IInv, Owed, TypeOK, Notice
  <2> QED
    BY <1>1, <1>2, <1>15, <2>1 DEF IInv, Owed, TypeOK, Row, Ifaces, dbVars
<1>17. NoticesInOrder'
  BY <1>1, <1>2, <1>15 DEF IInv, Owed, NoticesInOrder, TypeOK, dbVars
<1>18. RegisteredOnce'
  BY <1>1 DEF IInv, RegisteredOnce, dbVars
<1> QED
  BY <1>8, <1>10, <1>11, <1>13, <1>14, <1>16, <1>17, <1>18 DEF IInv

LEMMA CollectorAppliesIInv ==
  ASSUME IInv, NEW n \in pending, CollectorApplies(n)
  PROVE  IInv'
<1>1. pending' \subseteq pending /\ UNCHANGED <<dbVars, told, disk, callVars>>
  BY DEF CollectorApplies
<1> QED
  BY <1>1 DEF IInv, TypeOK, Truthful, Tracks, AtStep, Owed, NoticesInOrder, RegisteredOnce,
    dbVars, callVars

\* What the others do to the database: rows of the console come, rows and
\* interfaces go, and a deleted interface is remembered as dead.
LEMMA OthersIInv ==
  ASSUME IInv, others' \in Nat,
         there' \subseteq there, there \cup dead \subseteq there' \cup dead',
         dead' \subseteq Ifaces,
         live' \subseteq Row, \A w \in live' : w \in live \/ w.by = Web,
         at' \in [Movable -> Ifaces \cup {None}],
         \A m \in Movable : at'[m] = at[m] \/ at'[m] = None,
         UNCHANGED <<inserted, pipeVars, disk, callVars>>
  PROVE  IInv'
<1>1. TypeOK'
  BY DEF IInv, TypeOK, pipeVars, callVars
<1>2. (\A r \in Runs : disk[r] # None => Truthful(r, disk[r]))'
  BY DEF IInv, Truthful, pipeVars
<1>3. (pc # "idle" => Truthful(run, mem))'
  BY DEF IInv, Truthful, pipeVars, callVars
<1>4. Tracks' /\ AtStep'
  BY RegisterAssumption DEF IInv, Tracks, AtStep, callVars
<1>5. Owed'
  BY RegisterAssumption DEF IInv, Owed, pipeVars
<1>6. NoticesInOrder' /\ RegisteredOnce'
  BY RegisterAssumption DEF IInv, NoticesInOrder, RegisteredOnce, pipeVars
<1> QED
  BY <1>1, <1>2, <1>3, <1>4, <1>5, <1>6 DEF IInv

LEMMA DatabaseIInv == ASSUME IInv, Others PROVE IInv'
<1>1. TypeOK /\ others' \in Nat
  BY DEF IInv, Others, TypeOK
<1>2. ASSUME NEW k \in Keys, NEW i \in Ifaces, WebInsert(k, i) PROVE IInv'
  <2>1. [key |-> k, iface |-> i, by |-> Web, no |-> 0] \in Row
    BY DEF Row
  <2> QED
    BY <1>1, <1>2, <2>1, OthersIInv DEF WebInsert, TypeOK
<1>3. ASSUME NEW w \in live, WebDelete(w) PROVE IInv'
  BY <1>1, <1>3, OthersIInv DEF WebDelete, TypeOK
<1>4. ASSUME NEW i \in Ifaces, DeleteDevice(i) PROVE IInv'
  BY <1>1, <1>4, OthersIInv DEF DeleteDevice, TypeOK
<1>5. ASSUME NEW i \in Ifaces, DeleteGroup(i) PROVE IInv'
  BY <1>1, <1>5, OthersIInv DEF DeleteGroup, TypeOK
<1> QED
  BY <1>2, <1>3, <1>4, <1>5 DEF Others

-----------------------------------------------------------------------------
(* The invariant and what follows from it.                                 *)

LEMMA InitIInv == Init => IInv
<1> SUFFICES ASSUME Init PROVE IInv
  OBVIOUS
<1>1. TypeOK
  BY InitTypeOK
<1>2. NoticesInOrder /\ RegisteredOnce /\ Tracks /\ AtStep
  BY DEF Init, NoticesInOrder, RegisteredOnce, Tracks, AtStep
<1>3. Owed
  BY RegisterAssumption DEF Init, Owed
<1> QED
  BY <1>1, <1>2, <1>3 DEF IInv, Init

LEMMA NextIInv == IInv /\ [Next]_vars => IInv'
<1> SUFFICES ASSUME IInv, [Next]_vars PROVE IInv'
  OBVIOUS
<1>1. CASE Start
  BY <1>1, BeginIInv, RetryIInv DEF Start
<1>2. CASE Steps
  BY <1>2, SavePreparedIInv, CommitDevicesIInv, CommitDevicesUnknownIInv, SaveStageIInv,
    SendDeviceIInv, SendDeviceUnknownIInv, SaveDeviceSentIInv, StampIInv, StampNotSavedIInv,
    AlreadyStampedIInv, SettledIInv, LookNothingIInv, LookAdoptIInv, TransactionIInv,
    SavePointMessagesIInv, CommitCheckpointsIInv, CommitCheckpointsUnknownIInv, SaveDoneIInv,
    SendPointIInv, SendPointUnknownIInv, SavePointSentIInv, FinishIInv, GiveUpIInv DEF Steps
<1>3. CASE Time
  BY <1>3, TickIInv, CollectorAppliesIInv DEF Time
<1>4. CASE Others
  BY <1>4, DatabaseIInv
<1>5. CASE UNCHANGED vars
  BY <1>5 DEF IInv, TypeOK, Truthful, Tracks, AtStep, Owed, NoticesInOrder, RegisteredOnce, vars
<1> QED
  BY <1>1, <1>2, <1>3, <1>4, <1>5 DEF Next

LEMMA Inductive == Spec => []IInv
BY InitIInv, NextIInv, PTL DEF Spec

\* The stores always hold values of their types.
THEOREM Typing == Spec => []TypeOK
<1>1. IInv => TypeOK
  BY DEF IInv
<1> QED
  BY <1>1, Inductive, PTL

\* While DEVICE_ADDED of a run is on its way to the collector, none of the
\* run's checkpoints is committed: with a notice still pending, the wait of the
\* run's receipt has at least Settle - Lag ticks to go.
THEOREM CollectorSeesEmptyDevices == Spec => []NoCollision
<1>1. IInv => NoCollision
  <2> SUFFICES ASSUME IInv, NEW n \in pending, n.phase = "device"
               PROVE  /\ \A w \in live : w.by # n.run
                      /\ \A m \in Movable : at[m] # n.run
    BY DEF NoCollision
  <2>1. n.run \in Runs /\ n.left \in Nat /\ TypeOK
    BY RegisterAssumption DEF IInv, TypeOK, Notice
  <2>2. disk[n.run] \in Receipt /\ disk[n.run].fresh /\ Truthful(n.run, disk[n.run])
    BY <2>1 DEF IInv, Owed, TypeOK
  <2>3. ~ disk[n.run].ptMsgs
    <3> SUFFICES ASSUME disk[n.run].ptMsgs PROVE FALSE
      OBVIOUS
    <3>1. disk[n.run].wait # Unset /\ disk[n.run].wait = 0
      BY <2>2 DEF Truthful
    <3>2. n.left + (Settle - Lag) <= 0
      BY <2>2, <3>1 DEF Truthful
    <3> QED
      BY <2>1, <3>2, RegisterAssumption
  <2>4. ~ (inserted[n.run] > 0)
    BY <2>1, <2>3 DEF IInv, Owed
  <2> QED
    BY <2>1, <2>4 DEF IInv, Owed
<1> QED
  BY <1>1, Inductive, PTL

\* Whatever a run committed, the receipt file says enough to resume it.
THEOREM EveryCommitIsResumable == Spec => []Resumable
<1>1. IInv => Resumable
  BY DEF IInv, Owed, Resumable
<1> QED
  BY <1>1, Inductive, PTL

\* No receipt claims a commit or a delivery that did not happen.
THEOREM ReceiptsAreHonest == Spec => []HonestReceipt
<1>1. IInv => HonestReceipt
  <2> SUFFICES ASSUME IInv, NEW r \in Runs, disk[r] # None
               PROVE  /\ disk[r].fresh /\ disk[r].stage # "prepared" => r \in there \cup dead
                      /\ \A n \in 1 .. disk[r].devSent : <<"device", n>> \in told[r]
                      /\ \A n \in 1 .. disk[r].ptSent : <<"point", n>> \in told[r]
                      /\ disk[r].notified =>
                           disk[r].stage = "checkpoints" /\ <<"point", 2>> \in told[r]
    BY DEF HonestReceipt
  <2>1. disk[r] \in Receipt /\ Truthful(r, disk[r])
    BY DEF IInv, TypeOK
  <2>2. disk[r].devSent \in 0 .. 2 /\ disk[r].ptSent \in 0 .. 2
    BY <2>1, Fields
  <2> QED
    BY <2>1, <2>2 DEF Truthful
<1> QED
  BY <1>1, Inductive, PTL

\* The notices of a run first reach the topic in the order of the console.
THEOREM NoticesKeepTheirOrder == Spec => []NoticesInOrder
<1>1. IInv => NoticesInOrder
  BY DEF IInv
<1> QED
  BY <1>1, Inductive, PTL

\* Interrupted and resumed runs of the tool never register one key twice.
THEOREM NeverRegisteredTwice == Spec => []RegisteredOnce
<1>1. IInv => RegisteredOnce
  BY DEF IInv
<1> QED
  BY <1>1, Inductive, PTL
=============================================================================
