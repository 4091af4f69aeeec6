# Verification of rtaskmgr

rtaskmgr is a desktop program (Go, Wails) with which an engineer watches and
maintains Linux servers over SSH: live process tables, recordings, packet
captures, log collection, rotation of the managed passwords, and registration
of Redis keys as monitoring checkpoints of the product MK119.  This directory
models the parts of it that keep state across several machines or goroutines,
checks the models with TLC, and proves what matters most with TLAPS.

Paths below are relative to `src/`.

## 1. Inventory

| Component | Code | State it keeps | Operations | Status |
|---|---|---|---|---|
| Checkpoint registration | `internal/statsreg/register.go` | receipt file per registration; rows in the product's MariaDB; notices in the Kafka topic `liz.message.pipeline`; `Service.mu` | `Register`, `proceed`, `send`, `settle`, `commitCheckpoints`, `Retry` | `Register` |
| Rename and delete of devices | `internal/statsreg/manage*.go` | record file per change; the same tables and topic; Redis keys | `ManageApply`, `ManageDelete`, `ManageResend`, `ManageRedisRetry`, orphans | `Manage`; their effect on registrations in `Register` |
| SSH sessions | `internal/monitor/monitor.go` | `Manager.sessions` under `Manager.mu`; contexts, connections, `streamCancel` of each session | `Start`, `Stop`, `SetInterval`, stream goroutines, `keepAlive` | `Session` |
| Password rotation | `internal/monitor/passwd.go`, `internal/pwledger/pwledger.go`, `app.go`, `internal/host/host.go` | `passwd` on the host; `session.password`; `pwledger.json`; `Host.Password` in `hosts.json` | `RenewPasswords`, `ChangePasswords`, `reconcileLoginPassword` | `Rotation` |
| Packet capture | `internal/monitor/pcap.go`, `pcapd.sh` | processes and sentinel files (`.pid`, `.tpid`, `.started`, `.stop`, `.done`) on the host; last listing per session | start, guards, stop, forced stop, forget, delete, watcher | `Capture`; filter, limits and disk in `CaptureRules` |
| Log collection | `internal/monitor/logcollect*.go`, `logfilter.go`, `download.go`, `app_logcollect.go` | staging tree and archive on the host, file on the PC | plan, gate, stage, copy, archive, download, verify, cleanup, refetch, delete, cancel | `LogCollect` implements `SafeHandover`; plan and names in `CollectRules` |
| Network overlay | `monitor.go` 609-838 | `nhInstalledByUs`, `nhTxID`, `netActive` | install, stream, rollback | `Nethogs` (in `HostTools`) |
| Jump hosts | `monitor.go` 1830-2041, `internal/host` | none | `jumpPaths`, `dialWithFallback` | `Jump` (in `Rules`) |
| Scheduled recording | `monitor.go` 988-1774, file mode of `cmd/sampler` | recordings, markers and hourly slices on the host | start, list, stop, delete, slices | `Recording` (in `HostTools`) |
| Planning of checkpoints | `internal/statsreg/plan.go`, `existing.go`, `patterns.go` | learned patterns on the PC | `Inspect`, `validateSelection`, `learnPatterns` | `PlanRules` (in `Rules`) |
| Download book, host list | `internal/store`, `internal/host`, `app_capture.go` | two JSON files | save, update, delete | stored password in `Rotation` |
| Local recorder, capability check, GC analysis, updater, user interface | `internal/record`, `monitor/capcheck.go`, `internal/gclog`, `internal/updater`, `frontend` | - | - | not modelled (section 13) |

How they interact.  The user interface calls methods of `App`; Wails runs every
call in a goroutine of its own, so two calls overlap unless a button is disabled
while one runs.  `App` calls `monitor.Manager`, which finds the live session of a
host in its table and runs commands over that session's connection.  The manager
reports back through callbacks (`onFrame`, `onStatus`, `onCapture`).  Captures,
recordings and collections leave processes and files on the host, where the apps
of colleagues find them too.  `statsreg.Service` opens its own connections to
MariaDB, Redis and Kafka, and serialises its calls with a mutex that of course
does not bind the product's own web console or its collector.

What is hard.  A registration crosses three stores without a common transaction
and must survive a crash, an unanswered COMMIT, an unanswered send and a save
whose error is ignored; a deletion adds a fourth store that the collector keeps
writing to.  The sessions are touched by calls and goroutines that share one
mutex for single map accesses only.  A rotation changes the very password its
next command needs, and its record is written by another machine than the one
whose password changes.  Captures and recordings are known only by files and
pids that outlive their processes.  A collection hands data from a host to a PC
over links that go down, and must remove nothing too early.

What makes each component correct:

- registration: no key registered twice; the collector never sees a new device
  that already carries checkpoints; every commit can be resumed; receipts never
  claim what did not happen; a resumed run ends;
- rename and delete: a committed change is announced or still pending; values of
  live checkpoints stay; values of deleted ones do not come back;
- sessions: what the table holds is open; no open connection is unreachable; a
  lost link is noticed; the state shown is the state;
- rotation: the ledger shows the live password whatever breaks midway; sudo is
  never asked with a stale password; the stored password is the real one;
- captures: no process of another is signalled; a finished state is never made
  up; nothing being written is deleted; captures end and the interface hears it;
- collections: the host's copy goes only after a verified download, nothing is
  missing silently, leftovers are named, the disk's reserve stays free;
- recordings and overlay: a listing tells how a recording ended, slices lose no
  frame, a rollback undoes only what this program did;
- decisions without state: each gives what a direct definition of its purpose gives.

`PROJECT.json` lists the hazards of the code, each at its line with the
properties that would catch it.

## 2. Modules

| Module | About | Checked by | Proved in |
|---|---|---|---|
| `Register` | one `Service` with its receipts, the database, the topic, the collector, the web console | `MCRegister`, runs `Register*` | `RegisterProofs` |
| `Session` | all calls on one host's sessions | `MCSession`, run `SessionSerial` | `SessionProofs` |
| `Rotation` | the rotation of one host's passwords | `MCRotation`, runs `Rotation*` | `RotationProofs` |
| `Capture` | wrapper and tcpdump on a host, calls of several clients, the watcher of a session | `MCCapture`, runs `Capture*` | `CaptureProofs` |
| `LogCollect`, `SafeHandover` | collections from staging to cleanup; what they promise | `MCLogCollect`, run `Collect` | `LogCollectProofs` |
| `Manage` | rename and delete sagas over record, database, topic and Redis | `MCManage`, run `ManageOps` | `ManageProofs` |
| `Recording`, `Nethogs`, composed in `HostTools` | scheduled recordings; the network overlay | `MCHostTools`, run `HostTools` | `HostToolsProofs` |
| `Jump`, `CaptureRules`, `CollectRules`, `PlanRules`, composed in `Rules` | decisions without state, as operators, each with a reference definition | `MCRules`, run `Rules` | `RulesProofs` |

Each module that has a state keeps its fault model in a constant: the set of things
that may go wrong.  A fault the program copes with is in the run's configuration; one
it does not cope with is named in the module, left out of the run, and listed with
what it breaks in the module's section or in section 12.

## 3. Register

State and code.  `there` and `dead` are the device rows and their `flag`, `live`
the rows of `liz.checkpoint` of the driver, `at` the device each movable
checkpoint is on.  `disk` is the receipt files, `mem`, `run` and `pc` the one call
that holds `Service.mu`.  `pending` holds notices the broker took and the collector
has not applied, `told` is a history of those it ever took.

Actions follow `register` (`Begin`, `SavePrepared`, `CommitDevices`, `SaveStage`),
`proceed` and `send` (`SendDevice`, `SaveDeviceSent`, `Stamp`, `Settled`,
`SendPoint`, `SavePointSent`, `Finish`), `commitCheckpoints` (`LookNothing`,
`LookAdopt`, `Transaction`, `SavePointMessages`, `CommitCheckpoints`, `SaveDone`)
and `Retry`.  Each commit and each send has a twin whose answer is lost
(`...Unknown`); saves whose error the code ignores may fail without a trace;
`GiveUp` is an error, a cancellation or the end of the program at any point.
`WebInsert`, `WebDelete`, the collector's `CollectorApplies`, and this tool's own
`DeleteDevice` and `DeleteGroup` are the rest of the world.

Abstractions.  A run's devices are one interface.  The settle wait and the
collector's lag are counted down by `Tick`; the assumption `Lag < Settle` is what
the code's comment relies on ("a wait, not a confirmation").  The checks of names
and locations, audit rows, learned patterns and the watch of the value topic are
data; the watch's outcome is the Boolean of `Finish`.  The first transaction is
serializable, so its count keeps the console's inserts of those keys out until it
ends; the second is not.  A soft-deleted checkpoint keeps its row, so `Retry`'s
count of checkpoint identifiers never fails and is not a guard.

| Run | Instance | Shows |
|---|---|---|
| `RegisterOne` | 1 run, 2 keys, 1 movable checkpoint, `MaxTx` 2, 3 writes of others | `TypeOK`, `NoCollision`, `Resumable`, `HonestReceipt`, `NoticesInOrder` |
| `RegisterTwo` | 2 runs, 1 key, 1 write of others | `RegisteredOnce` |
| `RegisterResume` | 1 run, 1 key, 1 movable checkpoint, nobody else, fairness | `ResumeConverges` |

Bounds.  `MaxTx` bounds the commits of the second phase per run: two are enough
to insert, lose the rows to a deletion and insert again.  `MaxOthers` bounds writes
and deletions by others.  `Settle = 2`, `Lag = 1` is the smallest pair in which a
notice can still be pending after one tick of the wait.  Two keys distinguish "some
rows are there" from "all are"; two runs on one key are the smallest race.

Fairness (`QuietSpec`).  The steps of a call are weakly fair because one goroutine
runs them; time and the collector go on.  A user keeps pressing *retry*, and no
step fails for ever: `SF` for each kind of step, since a step may be
interrupted again and again.  This is the assumption under which the program
promises that a receipt can be resumed; nothing is promised to a user who gives up.

## 4. Session

State and code.  `table` is `Manager.sessions[h]`; a session is named by the `Start`
call that makes it.  `conn`, `dead` and `lost` are its connection, its cancelled
context and its gone link; `run` is the goroutine of each `launchStream`, `cut` the
runs whose own context was cancelled, `handle` the run that `streamCancel` cancels.
`shown` is the last state reported.

Every access under `Manager.mu` is one action, and everything between two of them is
another: `Remove`/`Close`/`ReportStop` for `Stop`, `Begin` to `ReportStreaming` for
`Start`, `Find`/`CancelRun`/`Relaunch` for `SetInterval`, `Ends`/`Teardown`/`ReportEnd`
for a stream.  `Lose` is the network.  `streamCancel` is written and read without a
lock; the model treats each of its accesses as one step.

`Serial` says that no two `Start` calls overlap.  The user interface does not
guarantee it (section 12); the properties that need it are checked and proved
under it.

| Run | Instance | Shows |
|---|---|---|
| `SessionSerial` | 2 serial starts, 1 stop, 1 interval changer, 2 runs per session, fairness | `TypeOK`, `TableIsOpen`, `NoLeak`, `Watched`, `LostIsNoticed` |

Bounds.  `MaxStreams` bounds the runs of a session; `Find` is what stops at the
bound, so that a launch the code would do is never withheld.  Stops and interval
changers may be called again and again; a start names one session and happens once,
and two of them are what a replacement needs.  One interval changer already runs
beside a `Start`, a `Stop` and the end of a run; that several of them at once leave a
session watched is the theorem `AlwaysWatched`.

Fairness (`FairSpec`).  Goroutines that can run do.  A run ends when it is cancelled
(its watcher closes the channel) or when its link is gone (`keepAlive` writes to the
link, and TCP gives up); it need not end otherwise.

## 5. Rotation

State and code.  `real` is the password of each account on the host, `sess` that of the
live session (`None` without one), `stored` that of `hosts.json`, `ledger` the entries of
`pwledger.json`.  A call has a `stage`, the steps it has left (`todo`), the ledger entry of
its present step (`entry`); `cut` holds the calls whose session went away under them.
`first`, `was` and `lost` are histories: the passwords at the beginning, those at the start
of a renewal, and the ledger entries of steps that set the login account's password while
the app never heard of it, because the answer was lost or the app died.

A step is `Journal` (`PwRecorder.Begin`), then `Apply`, `Refuse`, or `Apply` with
`LoseAnswer`, then `Succeed` or `Fail` (`PwRecorder.Done`, `session.password`);
`Reconcile` is what `App` does afterwards, also when the call was rejected, and
`ReconcileFails` the same where the ledger cannot be read or `hosts.json` not be read or
written: `reconcileLoginPassword` returns and tells nobody (`app.go:357-366`).  `Connect`,
`Drop`, `Crash` and `SaveHost` are the world around.  The constant `Faults` says which
of crashes, dropped links, failed journal writes, failed reconciliations ("store") and
overlapping calls an instance has; a refused command is always possible.

`SyncsToReal` is about each reconciliation that goes through, with crashes, drops, lost
answers and failed reconciliations before it: it stores the login account's real password,
unless (`Unheard`) the step that set that password was never heard of.  Then the password
is in the ledger, above every success, as pending or failed: the stored one is stale and
the engineer finds the real one there.

Abstractions.  The steps that touch several users' state are one each: a reconcile reads
the ledger and writes the stored password in one step, which differs from the code only
when calls overlap.  A command takes effect only while the link is up.  `sudo` needs the
password each time (the cached time stamp of sudo is not relied on, as the comment in
`passwd.go` says).  The files are written whole.

| Run | Instance | Shows |
|---|---|---|
| `RotationSafe` | 1 call at a time, 3 passwords, 5 ledger entries, crashes, drops and failed reconciliations | `LedgerTells`, `SudoWorks`, `RenewKeepsLogin`, `SyncsToReal` |
| `RotationOverlap` | 2 calls, 2 passwords, 4 entries, failed journal writes | `TypeOK`, `JournalMatches` |

Bounds.  `MaxEntries` bounds the ledger; a call begins only if all its steps fit, so no
call is cut short by the bound.  A renewal has four steps and a change two: five entries
are a change of which one step ran and then a whole renewal, or a call after a renewal,
with a fault anywhere.  Three passwords (the temporary one, the current one
and another) are what the two accounts can differ in.  Calls repeat without bound.

## 6. Capture

State and code.  For each capture, `wrap` is where its wrapper script (`pcapd.sh`) is,
`keeper` and `tcp` its `timeout` and tcpdump, `files` and `done` the sidecar files and the
content of `.done`.  `child` says that `.tpid` names tcpdump itself, `alien` that the
recorded pids of dead processes were given to others since.  `call` holds the calls under
way, of whatever client; `link`, `due`, `looks`, `snap` are the watching session, its two
looks (the one of `Start`, those of `keepAlive`) and `capSnap`; `shown` is the number of
running captures the interface shows.  `hide` is a host whose `/proc` is masked.

`Claim` to `Tidy` are `pcapd.sh` in its order: sidecar names claimed, tcpdump started
under `timeout`, `.started` once the savefile is there, polling of guards and sentinel,
`finish`, the marker, the tidying.  `StartLook` to `StartClean` are `StartCapture` with
`launchCapture` and `verifyCaptureStart`; `StopMark`, `ForceTerm` to `ForceMark`,
`Resolve`, `DeleteLook`, `DeleteCheck`, `DeleteHeld`, `DeleteFresh`, `DeleteRemove` and
`ForgetLook`, `ForgetCheck`, `ForgetDrop` the other calls, each cut where it runs a new
command on the host: a delete finds the meta file, lists, looks for tcpdump, looks at the
age of the file and removes, and between any two of them another call may do anything.  A
capture that the listing does not have is deleted without a status, as in the code.
`Look` and `Tell` are `watchCaptures`.  `Sight` and `Status` are `capListScript` and
`capStatusFrom`; a capture without a pid on record ("bare") counts as gone, so it is
interrupted.  `GiveUp` is a refusal, an error or a lost link anywhere; `Killed`, `Reboot`
and `Recycle` are what happens to the host.

Recorded pids outlive their processes.  `Recycle` gives one to a stranger, and `Kinds` says
what strangers there are: a "namesake" has one of the three names, a "reader" has the
capture's path in its command line, an "examiner" has both.  `CommFits` and `PathFits` are
what `/proc` shows of a pid, and the scripts decide by them alone: a listing believes the
path (so a reader makes an ended capture look alive), a forced stop name and path
(`Confirmed`) before its TERM, and nothing before its KILL five seconds later.  `hit` records
a signal that reached a stranger.

Abstractions.  The guards (deadline, size, packets, low disk) are one reason.  A listing
reads all pids first and all markers afterwards; the code does so capture by capture.  A
savefile may look old or fresh to `refuseIfBeingWritten` at any time.  One stranger at a
time has a pid of a capture.

| Run | Instance | Shows |
|---|---|---|
| `CaptureCalls` | 1 capture, 2 callers, nobody watching, namesakes and readers, all faults but the excluded ones | `OthersUntouched`, `DoneIsOver`, `NothingOpenDeleted` |
| `CaptureWatch` | 1 capture, 1 caller, the watcher, readers, fairness, the same faults | `InterruptedDied`, `CapturesEnd`, `EndsAreTold` |

Bounds.  Captures share nothing but the check at the start, so that one capture with two
calls against it (any two of start, stop, forced stop, delete, forget) has the races; the
second call is what meets a half-finished first.  `CaptureWatch` has one caller, and of the
strangers the kind that a listing can be wrong about.  That two captures run side by side
(two starts that pass the check) is in the theorems and in no run.

What the properties leave out.  `InterruptedDied` is about captures that had a pid on record
when the watcher looked; of the others (`young`), which may be about to run, the watcher says
interrupted as well (section 12).  `CapturesEnd` excepts a capture that is `Bereft`: its
tcpdump does not heed TERM, its own pid is not on record (`lateChild`), and a forced stop has
killed its wrapper and its timeout, so that nothing is left to end it (section 12).
`EndsAreTold` is about hosts where no reader passes for a capture.

Fairness (`FairSpec`).  Wrapper steps are weakly fair; tcpdump ends when its `timeout` is
there or it has been killed; looks of a live session go on.  No call is fair: a capture
ends without any client.

Excluded faults, each of which breaks a property (`NothingOpenDeleted`, where none is named).
`slowStart`: the wrapper is slower than
the patience of `verifyCaptureStart`, and `StartCapture` removes the files of a capture
that then begins: it runs unseen, and its savefile is unlinked while written, the very
thing `pcap.go:1533-1537` wants to prevent.  `listFails`: `StartCapture` and
`DeleteCapture` go on without the listing.  `early`: a delete whose listing saw a capture
without a pid, within the second of its launch.  `forgotten`: a capture is forgotten between
a delete's search for its meta file and its listing, which then has no status for it, and
the delete goes on though tcpdump runs: an orphan, or, on a host whose `/proc` is masked, a
capture that cannot be known, since no other can be forgotten.  `slowLook` (`EndsAreTold`): the first look of a
session outlasts the ten seconds to the next, and the older picture is stored last.
`fastReuse` (`OthersUntouched`): a pid that got the TERM is given to a stranger within the
five seconds to the KILL.  The kind "examiner" (`OthersUntouched`): a tcpdump that reads the
savefile has got a pid still on record.  `DoneIsOver` and `NothingOpenDeleted` are about captures
whose `.tpid` names tcpdump (`child`): with only its `timeout` on record neither the code
nor a colleague can see it.  Two `StartCapture` calls may both pass the check of one
running capture per host.  A masked `/proc` blinds `captureStillHeld` too.

## 7. LogCollect and SafeHandover

State and code.  `task` is what each app is doing: `Begin`, `Gate` (`logGate` and the
staging directory), `StartCopy`, `CopyReturns`, `Manifest`, `StartTar`, `TarReturns` are
`StartLogCollect`, `Claim` to `Cleanup` are `collectOneHost`, `Refetch` is
`RedownloadLogCollect`, `Delete` `DeleteLogCollectLeftover`, `Cancel` `CancelLogCollect`,
`Abandon` what each failed step does.  `work`, `said`, `todo`, `keeps`, `tree`, `man`, `arc`,
`stopf` are the host: the script at work, its verdict, the copies, the manifest, the
archive, the STOP file.  `CopyOne` to `TarFails` are the scripts, which run on their own
when a channel is cut (`linger`).  `local` is the folder on the PC; `told`, `asked` and
`crowded` are histories.

Abstractions.  A size is a number of units: a copy is one, an archive one, and the copied
logs may have grown by `Margin`.  What is selected is data (section 10).  A client has one
operation at a time; more are more clients.

| Run | Instance | Shows |
|---|---|---|
| `Collect` | 1 client, 2 collections, 1 entry cut to a time range, 1 local name, disk of 6 units, all faults | `TypeOK`, `Accounted`, `LeftoversAreTold`, `ReserveKept`, `HandsOver` |

`SafeHandover` is the promise at the head of `app_logcollect.go`: an archive that is whole
on the host leaves it only when one that reads through is on the PC, or because the operator
asked.  `HandsOver` is the refinement: the place of a collection's archive is computed from
`arc` and `local` (`Place`).  It is checked in this run and proved (section 11).

What the verification reads.  `VerifyLogArchive` and `InspectLogArchive` stop at the end of the
tar and compare names and sizes.  A download that is damaged where the readers meet it does
not read through and is refused ("torn"); one that is damaged in the data of a member, where
the deflate stream still decodes to the same length, or in the gzip trailer with its checksum, which neither of
them reaches, passes ("silent") and the host's archive is removed.  So `Good`, what counts as
an archive on the PC, is one that reads through with its manifest and files; that its bytes
are the host's is added where "silent" is not among the faults.  The run has both faults, the
theorem covers both cases.

Bounds.  An entry that is cut has every outcome of the copy script (the other modes have a
subset of them).  Six units are the smallest disk on which a second collection passes the
gate beside the leftovers of a first, and is refused beside those of two.  A second
collection on one host is needed for leftovers; a second local name adds nothing while the
first is taken, which `ClaimFails` covers.

What does not hold, and is kept out by the wording of the properties.  While another script
writes to the host during the gate's measurement (`crowded`), the gate promises nothing.
An app that dies tells nothing (`told` takes it as told).  An `ensureUserDirStrict` that
fails halfway leaves empty directories untold.  Anybody can delete a leftover that a
collection is still using; what was on its way may still arrive (`Late`).  A cancel after
the download has ended is not honoured.  `InspectLogArchive`, for a refetch, knows no
entries and checks that the archive can be read, has a manifest and a file.  Two
refetches of one leftover share a cancel key, so a cancel reaches the second only.

## 8. Manage

State and code.  `rows`, `name`, `group`, `grouped` are the database, `disk` the record
files, `call` the operation that holds the mutex, `news` what was committed and the
collector has not been told, `inbox` the deletions it is yet to apply, `coll` what it
collects, `keys` the Redis values.  `ApplyRename` and `ApplyDelete` check and write the
record; `Commit` and `CommitLost` are `applyPlan`, `deleteDevicesTx`, `deleteGroupTx`;
`Publish` to `WatchOver` are `publish`, `finishRename`, `finishDelete`, `cleanKeys` and
`cleanRecordKeys`; `Close`, `Resend` and `RedisRetry` are `resumeRecord` with
`recordCommitted` and `refreshDeviceUpdated`.  `Crash` ends a call anywhere.  The console
renames, deletes and moves; the collector stops collecting a device some time after its
notice, and until then writes values.

| Run | Instance | Shows |
|---|---|---|
| `ManageOps` | 2 devices, 2 names, 2 operations, 1 change of the console | `TypeOK`, `ToldOrPending`, `GoneForGood`, `LiveValuesKept` |

Bounds.  Two devices tell a whole record from a part of one and a group from a device; two
operations let a second change things between an interruption and its resume; `Edits` has
a rename of a checkpoint and one of two devices.

Excluded faults, each of which breaks a property.  `fooled`: a row of a record whose COMMIT
is unknown changes before it is resumed, and `recordCommitted` takes one row for all.  This
needs no console: a group deletion of `d` and `e` whose COMMIT failed unknown, then a
deletion of `d` alone, then a resend of the first, which announces `e` as deleted and
removes its value although it lives (`manage_record.go:224`).  `meanwhile`: the console
deletes a device while a notice that names it is under way, and the collector fails the
whole notice.  `slow`: the collector applies a deletion later than the two waits; a key
that comes back after the window is not seen, so the comment at `manage_delete.go:752-755`
holds within the window only.  A COMMIT still under way when its record is resumed is not
modelled.

## 9. Recording and Nethogs

The two are driven through one session and share no state; `HostTools` puts them side by
side, and one of them moves in a behaviour.

**Recording.**  `sampler` follows the detached process from the upload of its meta file
over the shell that becomes it, writing, trailer and marker to its end; `disk` is its
files, `slices` the hourly files and their `.done`, `look` and `status` a listing under
way and the last one, `split` the dialogs that split.  The actions are `StartScheduled`,
the file mode of `cmd/sampler`, `ListScheduled` (walk of `/proc`, then markers),
`StopScheduled` with its KILL after two seconds, `DeleteScheduled`,
`PrepareScheduledSlices` and the awk script it runs; `DownloadScheduledSlices` and
`DownloadScheduledDay` are compared.  The script pipes `zcat` into `awk` and has no
`pipefail`: when zcat dies (`ZcatDies`), awk comes to the end of what it got and `.done` is set
on a partial split.  `AtEnd` is awk's end and not the file's.  `SlicesWhole` therefore says that
finished slices hold what a scan of the file's first frames finds, and that these are all frames
unless the zcat of that very split died (`cut`).  That a gzip of an hour fails under a live awk
is not modelled.

**Nethogs.**  `txs` is the package history with who ordered each transaction, `package`
the one that brought the nethogs there is, `byUs` and `txID` the session's note of it.  The
actions are `InstallNethogs`, `startNethogs` with its reader, `RollbackNethogs`, sessions
that end and administrators, among whom the apps of colleagues count.

| Run | Instance | Shows |
|---|---|---|
| `HostTools` | 1 recording, 2 dialogs, frames at ticks 0 to 3, two ticks an hour, a zcat that may die; 5 package transactions | `StatusTells`, `SlicesWhole`, `OnlyOursUndone` |

Bounds.  Four ticks are two hours with two frames each, so that windows within, across and
beside an hour exist.  Five transactions are one before, an installation, an
administrator's, an undo and one more.

Excluded faults, each of which breaks the property named.  `early`: a listing between the
launch and the sampler's `exec` says interrupted (`StatusTells`); the interface lists
right after `StartScheduled`.  `splitRunning`, `splitTwice`, `clockBack`: a split of a
recording that still grows, two splits of one recording, a clock set back
(`SlicesWhole`).  `otherTx`: an administrator's transaction between `dnf install` and the
look at the history, which `history undo` then undoes; `takeover`: an administrator removes
our nethogs and installs another (`OnlyOursUndone`).

Seen while modelling, and part of the model's steps without a property: a meta file whose
launch failed can never be deleted, because `resolveRecFile` looks for the data file;
`DeleteScheduled` of a running recording leaves a sampler nobody sees; the reader of an
older stream turns the overlay off (`monitor.go:797`); a lost session forgets
`nhInstalledByUs`, so the package stays; `pkill -x nethogs` ends everybody's nethogs,
although `monitor.go:1376-1378` calls that bug fixed.  Not modelled: truncation by a full
disk, two estimates that share one probe file, overlapping installations and rollbacks.

## 10. Rules

The decisions without state are operators; each has a definition of what it is for,
written from the other end, and `Rules` asks them one at a time over finite sets of inputs
(`MCRules`).  Registrations follow one another, and what one learns is there for the next
analysis.

| Module | Code | Property | Inputs |
|---|---|---|---|
| `Jump` | `jumpPaths`, `dialThrough`, `dialWithFallback` | `RoutesRight`: the first of the best routes that works, at most `MaxHops` hosts, nothing else left open | stores of 4 hosts with loops and missing ids, dead links, failing logins; 3 hops, 2 routes |
| `CaptureRules` | `parsePortSpec`, `parseHostSpec`, `captureFilter`, `clampCapRequest`, `captureTargets` | `CapturesRight`: the filter, read by the grammar of pcap, takes the packets asked for and no others; limits and a disk with room | 5 ports, 4 addresses with nets, up to 3 tokens; disks that share a filesystem |
| `CollectRules` | `LogPlanFor`, `filterVerdict`, `serverDirNames` | `CollectsRight`: every ticked row is named, no file with a line in the window is left out, of the claims on a file one takes it, no two files or servers share a place, script and tool judge alike | days 1 to 3 of four instants, rotated series, names that sanitise to one |
| `PlanRules` | `Inspect`'s plan, `validateSelection`, `learnPatterns` | `RegistersRight`: what is offered is accepted; nothing accepted collides or is misplaced; a value that cannot be read is a number only where the analysis took it for a string | 4 keys, 2 servers, templates that overlap, up to 2 registered devices, 2 analyses |

Run: `Rules`, which shows the four.  The wanted packets, the routes and the coverage of a
file are defined over the inputs and not by the code's steps: a file's first and last line
are given, and whether it must be in the plan follows from them.

Left out: lengths of texts, token counts, interfaces, packet counts and snap lengths;
`-newermt` is strict, so the inputs have no last line exactly where a window starts.

`NamesTell` says what a plan can rely on: the rotated files of one series follow one
another.  It is part of `RulesAssumption`, and where it fails a wanted file is left out
(section 12).  Of several claims on one file the property asks that one takes it and that the
others name a claim on it; that they name the one that takes it does not hold (section 12).
The search of `uniqueArchivePath` gives up after 100000 names, the model's does not.

Seen and outside of the properties: `unlistedPicks`
keys by category and module while its comment speaks of rows (1113-1124);
`serverDirNames` does not check its last resort again; a deleted key
that fits several templates is preselected with a format that is then refused; a device in
two groups is counted twice; `pcap.go:499` says that `and` binds tighter than `or`, which in
pcap's grammar it does not, and the parentheses are right either way; the size gate of a
capture is skipped when free space is reported as 0; a host whose jump list has only empty
ids is dialled directly.

## 11. Proofs

All theorems hold for every value of the constants that the named assumptions allow
(`RegisterAssumption`, `NoneAssumption`, `SessionAssumption`, `RotationAssumption`):
disjointness of identifiers, bounds that are naturals, and `Lag < Settle`.  TLC
evaluates these assumptions in every run.  Each proof module states an
invariant, proves that it holds initially and, by one lemma per action or group of
actions, that every step preserves it, and reads each of its properties off it.

**Register** (`Typing`, `CollectorSeesEmptyDevices`, `EveryCommitIsResumable`,
`ReceiptsAreHonest`, `NoticesKeepTheirOrder`, `NeverRegisteredTwice`).  None of the
properties is inductive: a receipt says something of the outside, and the next step
trusts it.  So `IInv` says what a receipt means wherever it is kept (`Truthful`, for
disk and memory alike), that the one in memory is at most ahead of the one on disk
(`Tracks`), what the call has established at each of its steps (`AtStep`), and what
database and topic owe to receipts (`Owed`).  The heart of `NoCollision` is the last
line of `Truthful`: a stamped receipt's remaining wait is at least `Settle - Lag` more
than what is left to any device notice still under way, so at the end of the wait
there is none.  `RegisteredOnce` follows because the count before an insertion and the
COMMIT are separated only by steps of the same call, which holds the mutex.

**Session** (`Typing`, `TableNeverClosed`, `NothingLeaks` for serial starts,
`AlwaysWatched`).  `Life` ties a session's connection and context to the place of its
`Start` call and to the calls that hold it; `Alone` is what `Serial` buys: from the `Stop`
of a `Start` to its `Publish` the table is empty.  `AlwaysWatched` and `TableNeverClosed`
need no assumption on overlap.

**Rotation** (`Typing`, `StatusesGoHome`, `LedgerIsTruthful`, `SudoNeverStale`,
`RenewalEndsWhereItBegan`, `ReconcileIsExact`).  Each part of `IInv` says which faults it
survives: the matching of journal entries and steps survives all of them, the session's
password needs that calls do not overlap, the ledger's truth also that its writes succeed.
`ReconcileIsExact` rests on the same two: while no step is under way, either the newest
success is the real password or a step that was never heard of is newer than it (`Quiet`,
`Exact`), and a reconciliation that failed leaves nothing that the next one relies on.  That
the newest success exists is proved with the library's well-foundedness of the naturals.

**Capture** (`MarkersAreTrue`, `WatcherIsRight`, `StopsOnlyOurs`, `DeletesAreSafe`).  The
theorems are about `Spec`, whose behaviours include those of the runs' specifications.
`HostInv` says which sidecar files there are at which stage of the wrapper and what they
say of its processes (`Stages`, `Children`, `Markers`); `CallInv` what the picture of
`/proc` that a call carries still means when the call acts on it, with strangers among the
pids; `WatchInv` the same for the two listings of the watcher.  The argument of `Markers` is that each of those who may
write a marker has seen tcpdump gone, or has signalled it, and that a dying tcpdump is
never open again.  `StopsOnlyOurs` has an invariant of its own (`StrangersInv`): what is to be
killed was confirmed as the capture's and is that or nobody's until the KILL; it assumes away
the stranger with name and path and the quick reuse of a pid.  `DeletesAreSafe` follows a delete
through its five commands (`DeletesInv`): once the status is settled, the tcpdump on record has
ended, or the capture was removed by somebody else and will not be launched.  It assumes away
"slowStart", "listFails", "early" and "forgotten".  With one of these TLC finds a stranger
signalled or a savefile deleted under its tcpdump (section 6).  The other two theorems hold for
every set of faults and every kind of stranger; `WatcherIsRight` is about captures that had a
pid on record when the watcher looked.

**LogCollect** (`CollectTypes`, `NothingForgotten`, `ArchiveIsComplete`,
`ArchivesAreHandedOver`, `ReserveStays`).  All hold for every set of faults.  `Types`, `Knows` and `Drawn`
say what a task may assume of its collection: the host's verdict, the manifest and the
outcomes are those of the step it waits for, and no other task owns the collection.
`FileInv` says that the file a task writes is its own, `Sames` that bytes on the PC are those of
the host where nothing is damaged in silence.  The refinement needs `Spread`:
where an archive that reads through can be, in terms of the task that handles it.  A lemma
per action says that it preserves `Spread` and is a step of `SafeHandover` or leaves
`place` and `asked` alone.  `ReserveStays` assumes that a disk is at least the reserve, as
`LogMinFree` is of any disk that collects logs.  `RoomInv` says why `fit` keeps its promise
for the whole time that a collection grows: no entry is staged twice (`OneEach`), so the
collection ends at no more than the units `fit` compared with the free space; while it
grows nothing else on its host does, unless it saw the others (`Beside`), and what others
hold can only shrink.

**Manage** (`LiveValuesStay`, `DeletionsLast`, `RecordsWellFormed`, `ChangesAreTold`).  Rows are only deleted, so what is gone
stays gone.  A record that says committed is about rows that are gone; of one that does
not, every device is there or nothing of any is (`Entire`), because the records that are
open are disjoint and nobody else reaches their rows: that is the assumption without
"fooled".  One missing device then shows that the transaction took place, which is what
`recordCommitted` concludes.  For `DeletionsLast` (without "slow" as well) `DoneInv` follows
the notice: it is the first of its record, once sent the collector has it before it or has
applied it, and a device that is not collected is never collected again.
`RecordsWellFormed` says of every record which notices, keys and devices it may name, whichever
operation wrote it and whoever resumed it.  `ChangesAreTold` (without "fooled" and
"meanwhile") follows each device from the commit to the collector: what the tables say and
the collector does not know yet is in the topic or owed by a record on disk.  A row that a
later rename took over is that rename's to tell, which is why the invariant speaks of what
can still be seen in the tables and not of what a record once did.

**HostTools** (`RollbackIsOurs`, `ListingTells`, `SlicesAreWhole`).  `NhInv` says that what
the session notes is a transaction of this program, and needs that no administrator's
transaction comes between its two looks at the history.  `StatusInv` ties the files to the
stage of the sampler; a listing that found nobody is about a sampler that is gone, unless
it came early.  `SliceInv` says that the hours filed so far are those of the frames read so
far, and that a split which finished without reading all of them lost its zcat; that opening an hour's pipe anew loses nothing follows because times only rise, so
that the frames of an hour are neighbours in the file.

**Rules** (`RoutesFirstAndBest`, `CapturesAsAsked`, `CollectionsHonest`, `RegistrationsFit`,
`VerdictsMatch`).  Here the invariants are small
and the operators are the work: that an answer is right for every input is a statement about
data of any size.  Induction over it goes through sets of numbers: a lemma (`SetInduction`)
says that a set which has 0 and with each number the next has all of them, so the induction
hypothesis is the definition of a set and no operator is passed.  The same lemma shows that
each function defined by recursion exists, and with it that it satisfies its equation.

For the routes, `BestOf` says of a list that it holds the best of the simple routes to a host
that have so many hosts before it and avoid those seen, in order, at most `MaxPaths`, and that
what is missing comes after all of it.  One more hop preserves this (`BestThrough`): the lists
of the candidates are put one after another, and where a candidate's own list was cut, so many
routes stand before its end that the whole list is cut no later.  The first list that is
dialled with success is then the first that works (`FallbackRight`).

For the captures every stage is a fold over a sequence.  `FoldingExists` shows once that a fold
has a value for each set of indices, and so that it goes through one state per element; each
stage then needs only what one element does to the state.  Sorted tokens merge to ranges that
cover the ports of the tokens and no others, because a range that comes next begins no earlier
(`MergeIs`, `PortsRight`); a masked network holds the addresses that agree with it in the bits
that count (`SameNetwork`, `TermRight`).  The filter is read word by word: a selection that is
read from a state in which nothing was selected comes to whether one of its terms holds, alone
or in parentheses (`SelectionReads`, `GroupReads`), and the `and` between the two groups makes
the filter the conjunction (`FilterRight`).  The targets are the disks that were probed, one for
each filesystem (`TargetsRight`), and none is better than the default (`DefaultTargetRight`).

For the collections a wanted file is followed through the stages of the plan.  The listing
shows it (`EnumerateRight`), because its last line is after the start of the window.  It is
believed to begin no later than it does (`StartBelieved`): a row that repeats a file may be
preceded by the file itself, so the lemma takes the first row of the file in its module, whose
earlier rotations are of other files.  Then no case of `classifyFile` skips it (`NotSkipped`)
and it has an entry (`EntriesRight`).  Looking for duplicates keeps, over the entries so far, that
each claimed file has one taker (`Deduped`): a new claim finds none, takes over from it or points
to it.  Places are drawn from those not in use, of which there is one among the first as many
numbers as there are names in use and one more (`UniqueIs`, by the pigeonhole principle), so no
two entries share one (`AssignedAre`).  The name of a server either has no server's id in it or
ends in its own, so a name that was given cannot come up again (`NamesApart`).

For the registrations the invariant says what a plan's points are whatever was remembered, and
that memory never holds the place "common" for a token: a selection cannot put a key that
names a server there, so no later analysis can offer it.  That a value nobody can read becomes
a number only where the analysis saw a string is shown point by point: a template keeps its
format through memory and selection, and a point without one had no number to begin with.

What the inputs are assumed to be is in `RulesAssumption`, with where the code sees to it:
requests have the types of the code, and type and free space of a filesystem are the same under
each path it was probed by; files have the types of the listing, their names tell the truth
(`NamesTell`) and none was last written at the instant a window starts; an archive has a server
once, and its id, a UUID, is no part of a name or an address; lists and tables are finite, no server is called "common", a module's server is
one that the analysis knows, and a host names no jump host twice.  A stored list that does name
one twice (the dialogs do not make any) would have its routes offered twice.

The assumptions on constants here are `CaptureAssumption`, `LogCollectAssumption` and
`NoneAssumption`, `ManageAssumption`, `RecordingAssumption` and `NethogsAssumption`,
`JumpAssumption`, `CaptureRulesAssumption`, `CollectRulesAssumption` (a day has instants, the
catalogue names no path that `validAbsPath` refuses) and `RulesAssumption`.

Only model-checked are the liveness properties `ResumeConverges`, `LostIsNoticed`,
`CapturesEnd` and `EndsAreTold`: fairness and ENABLED are beyond the prover.  Every other
property of a run is a theorem.

## 12. Statements that do not hold

Some statements of comments and documents fail.  The definitions named here are in the
modules; each is refuted by TLC on the instance given, as an invariant of a configuration
like those of the runs.

- `KeyFreeAtCommit` (`Register`, one run, one key, one write of others): the second phase's
  count takes no lock (`register.go:857`), so the console can insert a key before COMMIT,
  against `docs/mk119-stats-registration.md:24`.
- `AdoptsOwn` (`Register`, two runs, one key): a resumed run takes over rows that another
  run inserted, against the comment at `register.go:841`.
- `DeadDeviceEmpty` (`Register`, one run, one key, one deletion): a retry registers
  checkpoints on a soft-deleted device, because `countIDs` ignores the flag
  (`register.go:1064`).
- `OneSession` (`Session`, two starts, `Serial = FALSE`): overlapping starts leave a
  connection nobody can close, against `monitor.go:4` and `311`.
- `OneRun` (`Session`, one start and one interval change): a change before the first
  launch leaves two sampler runs, against `monitor.go:406`.
- `ReconnectsWork` (`Rotation`, six ledger entries, `Faults = {"crash"}`): after a crash
  between a change and its record, a rejected call replaces a stored password that works
  by an older one of the ledger, against `app.go:345`.

- `DuplicatesNameTaker` (`CollectRules`, of the answers about logs in `Rules`): of three claims
  on one file in ascending order, the first loser keeps pointing to the second, which loses too,
  against "DupOf pointing at the survivor" (`logcollect.go:491`).
- `PlanRight` without the last line of `NamesTell` (the instance of `Rules`, and one module with
  a rotated series of the same name in two directories): `prevRotationFor` keys a series by
  category, module and base name (`logcollect_run.go:407`), so a file counts the rotation of the
  other directory as its own start and is left out, against "the EARLIEST instant this file could
  begin at" at 434.

More of the kind, by a change of a constant or read off the modules:

- `docs/mk119-stats-registration.md:19` says that everything is saved in one transaction;
  the code has used two since it announces devices before their checkpoints.
- `Start` reports "streaming" after `launchStream`, so the "stopped" of a run that ended at
  once may come first and the interface shows a host without a session as connected.
- A renewal takes the session's password as the "current" one of both accounts, so the
  account that is not the login account ends on the login account's password
  (`passwd.go:165` says that no effective password changes).
- `SyncsToReal` fails without `Unheard`: a lost answer marks the step as failed, a crash
  leaves it pending, and in both cases the stored password stays behind the real one.
- `app.go:345` says that the stored login credential is synced "so reconnects keep working":
  errors of the ledger and of `UpdatePassword` are ignored (`app.go:357-366`), and the stored
  password stays what it was without a word.
- The watcher calls a capture interrupted that was just launched and has no pid on record yet
  (`InterruptedDied` without `young`), against "The process is gone and it never wrote a reason
  → killed abnormally" (`pcap.go:790-791`).
- The KILL of a forced stop is not confirmed by name and path again (`OthersUntouched` with
  `fastReuse`), and a tcpdump that reads the savefile under a recorded pid passes both checks
  ("examiner"), against "only ever to PIDs the wrapper itself recorded — confirmed by
  /proc/<pid>/comm ... AND by the capture path" (`pcap.go:1463-1465`).
- A forced stop of a tcpdump that does not heed TERM and is not on record kills wrapper and
  timeout and leaves it without a second enforcer (`CapturesEnd` without `Bereft`), against I7
  of `pcap.go`.
- `logcollect_run.go:1560` says that the verification "reads the whole archive back through
  gzip", and 1604-1605 that the second check "proves the gzip stream and every tar header read
  cleanly to EOF": both stop at the end of the tar, so damaged data of a file and the gzip
  checksum go unseen (`HandsOver` with "silent" and `Good` demanding the same bytes).
- `monitor.go:1652-1653` says "on success drop a .done marker so we never re-split": a zcat that
  dies in the pipe ends in success, and the partial split is never made again (`SlicesWhole`
  without `cut`).
- The message at `plan.go:322` says that a key whose value is not a number cannot be registered
  as one: `BadValue` looks at the format the analysis gave.  A text value of a key without a
  template is given the string format, so the operator may choose the number format for it, and
  a format learned from a key of its kind (`patterns.go:255-256`) offers it as a number.
- `LedgerTells` fails with `Faults = {"journal"}`, since `pwRecorder.Begin` ignores a failed
  `Append`, and with `{"overlap"}`, since nothing keeps two rotations of a host apart.
- The excluded faults of `Capture`, `Manage`, `Recording` and `Nethogs` (sections 6, 8, 9):
  with one of them in the configuration, the property named there is violated.

## 13. Not modelled

- The contents of frames, names, labels and audit rows; the expiry dates shown.
- Receipts of older versions (`deliverLegacy`), which have one phase and only resend
  notices.
- Torn files: `os.WriteFile` in `pwledger.go` and `host.go` is not atomic and nothing
  recovers from a torn file; the receipts are renamed into place and cannot be torn.
- A command that the host carries out after the link is gone, except the scripts of a
  collection.
- `discover.go` and `verify.go` search configuration files and watch a topic: input and
  output, with parsing and no state another component reads.
- The sampler's measurements, the GC log analysis, the capability check: text and
  arithmetic, single-threaded.
- The local recorder: every method holds its one mutex throughout.  The book of downloads
  only says where a file was saved.
- The updater: a straight line of file operations in one goroutine.
- The user interface.

## 14. Reproduce

    tlc -workers 2 -config Collect.cfg MCLogCollect
    tlapm RegisterProofs.tla

Every run ends within two minutes or so; the proofs take one to two minutes per module.
All cfgs say `CHECK_DEADLOCK FALSE`: runs, captures, collections, operations, recordings and
questions are finite in an instance, and a system in which everybody is done really stops.
