------------------------------ MODULE Capture ------------------------------
(***************************************************************************)
(* Packet captures of one host (internal/monitor/pcap.go and the wrapper   *)
(* it launches, pcapd.sh).  A capture is a detached root process on the    *)
(* host that owns a tcpdump; everybody else knows it only through the      *)
(* files beside the savefile (.pid, .tpid, .started, .stop, .done, the     *)
(* meta file) and through /proc.  Calls of this and of other clients       *)
(* (start, stop, forced stop, delete, forget) and the watcher of the live  *)
(* session read and write those files while the processes run, end, are    *)
(* killed, or vanish in a reboot.                                          *)
(*                                                                         *)
(* Abstractions.  The guards of the wrapper (deadline, size, packets, low  *)
(* disk) are one reason, "guard".  Paths, filters, sizes and counters are  *)
(* data (see CaptureRules).  A script that lists captures reads the pids   *)
(* of all of them first and their markers afterwards; the code does this   *)
(* capture by capture.  The watcher's swap of its snapshot and its events  *)
(* are one step.                                                           *)
(***************************************************************************)
EXTENDS Integers, FiniteSets

CONSTANTS
  Caps,     \* capture ids; each is used for one capture at most
  Callers,  \* calls that may be under way at the same time
  None,     \* nothing: no marker, no picture, no capture
  Faults,   \* what may go wrong, see AllFaults
  Kinds     \* who else may get a pid, see AllKinds

AllFaults ==
  {"reboot",     \* the host restarts
   "oom",        \* the wrapper is killed while it polls
   "oomStart",   \* the wrapper is killed before it recorded tcpdump's pid
   "stubborn",   \* tcpdump does not end within the grace it is given
   "lateChild",  \* pgrep does not find tcpdump before the savefile is there
   "slowStart",  \* the wrapper is slower than verifyCaptureStart's patience
   "listFails",  \* a listing fails and the call goes on without it
   "early",      \* a delete looks at a capture within the second of its launch
   "forgotten",  \* a capture is forgotten between a delete's two looks for it
   "fastReuse",  \* a pid is given away within the five seconds of a forced stop
   "slowLook"}   \* the session's first look outlasts the first watcher tick

\* What a process looks like to a check of its name or of its command line.
AllKinds ==
  {"namesake",  \* named rtm-pcapd, timeout or tcpdump, and at work on something else
   "reader",    \* named otherwise, with the capture's path in its command line
   "examiner"}  \* both: a tcpdump that reads the capture's file

ASSUME CaptureAssumption ==
  Faults \subseteq AllFaults /\ Kinds \subseteq AllKinds /\ None \notin Caps

VARIABLES
  hide,    \* /proc is masked for the login user (hidepid)
  wrap,    \* where each capture's wrapper is, from "none" over "boot" to "gone"
  why,     \* reason the wrapper will report: "done", "signal", "guard", "error", "orphan"
  keeper,  \* the timeout process of the capture lives
  tcp,     \* its tcpdump
  files,   \* sidecar files that exist
  done,    \* content of the .done marker
  child,   \* the .tpid file names tcpdump and not only its timeout
  alien,   \* the stranger who got the recorded pid of a dead process, see Strangers
  hit,     \* history: a process of another was signalled
  call,    \* the calls under way
  link,    \* the watching session is connected
  due,     \* its first look is yet to come
  looks,   \* looks of the watcher that have read pids and not yet markers
  snap,    \* capSnap: status of each listed capture; None when not seeded
  young,   \* history: captures of snap that had no pid on record when looked at
  shown    \* number of running captures the user interface shows

hostVars  == <<wrap, why, keeper, tcp, files, done, child, alien>>
watchVars == <<link, due, looks, snap, young, shown>>
vars      == <<hide, hostVars, hit, call, watchVars>>

Procs == {"wrap", "keeper", "tcp"}
Files == {"meta", "pcap", "pid", "tpid", "started", "stop"}
Watchers == {"first", "loop"}

\* Who may have got a recorded pid.  Bound: one stranger for each capture at a time.
Strangers == [proc : Procs, kind : Kinds]

\* capStatusFrom's outcomes for a capture that runs.
Active == {"running", "stopping"}

WrapLives(c) == wrap[c] \in {"boot", "claim", "start", "poll", "finish", "report", "tidy"}
TcpLives(c)  == tcp[c] \in {"starting", "open", "dying"}
Lives(c, p)  == CASE p = "wrap"   -> WrapLives(c)
                  [] p = "keeper" -> keeper[c]
                  [] p = "tcp"    -> TcpLives(c)

Recorded(c) ==
  (IF "pid" \in files[c] THEN {"wrap"} ELSE {}) \cup
  (IF "tpid" \in files[c] THEN {"keeper"} \cup (IF child[c] THEN {"tcp"} ELSE {}) ELSE {})

\* What /proc says of a recorded pid: its entry exists, comm is one of three names, the
\* savefile's path is in cmdline.  The capture's own processes are all of it.
Stranger(c, p) == alien[c] # None /\ alien[c].proc = p
Exists(c, p)   == Lives(c, p) \/ Stranger(c, p)
CommFits(c, p) == Lives(c, p) \/ (Stranger(c, p) /\ alien[c].kind \in {"namesake", "examiner"})
PathFits(c, p) == Lives(c, p) \/ (Stranger(c, p) /\ alien[c].kind \in {"reader", "examiner"})

\* What capListScript makes of the recorded pids, three-valued on purpose: one is ours
\* by its path, there is no such process, or /proc does not tell.  "bare" is "gone" to
\* the code: there was no pid on record to look for.
Sight(c) ==
  CASE "meta" \notin files[c]                               -> "unlisted"
    [] "meta" \in files[c] /\ Recorded(c) = {}              -> "bare"
    [] "meta" \in files[c] /\ Recorded(c) # {} /\ hide       -> "unknown"
    [] OTHER -> IF \E p \in Recorded(c) : PathFits(c, p) THEN "ours" ELSE "gone"

\* A defect of Status: a capture none of whose pids is seen is interrupted, whatever
\* its markers say.
Status_MarkersLast(c, sight) ==
  IF sight \in {"gone", "bare"} THEN "interrupted"
  ELSE IF done[c] # None THEN "stopped"
  ELSE IF "stop" \in files[c] THEN "stopping" ELSE "running"

\* capStatusFrom, with the markers as they are now.
Status(c, sight) ==
  IF done[c] # None
  THEN CASE done[c] \in {"signal", "signal-forced"} -> "stopped"
         [] OTHER                                   -> done[c]
  ELSE IF sight \in {"gone", "bare"} THEN "interrupted"
  ELSE IF "stop" \in files[c] THEN "stopping" ELSE "running"

Uncertain(c, sight) == done[c] = None /\ sight = "unknown"

Idle == [at |-> "idle", cap |-> None, view |-> [c \in Caps |-> "unlisted"], kills |-> {}]

-----------------------------------------------------------------------------
Init ==
  /\ hide \in BOOLEAN
  /\ wrap = [c \in Caps |-> "none"]
  /\ why = [c \in Caps |-> "done"]
  /\ keeper = [c \in Caps |-> FALSE]
  /\ tcp = [c \in Caps |-> "none"]
  /\ files = [c \in Caps |-> {}]
  /\ done = [c \in Caps |-> None]
  /\ child = [c \in Caps |-> FALSE]
  /\ alien = [c \in Caps |-> None]
  /\ hit = FALSE
  /\ call = [k \in Callers |-> Idle]
  /\ link = FALSE /\ due = FALSE
  /\ looks = [w \in Watchers |-> None]
  /\ snap = None /\ young = {}
  /\ shown = None

-----------------------------------------------------------------------------
(* Defects: what an operator or action below would be with a plausible     *)
(* mistake in it.                                                          *)

\* The wrapper reports without looking for a tcpdump that is left.
Report_Blind(c) ==
  /\ wrap[c] = "report"
  /\ done' = [done EXCEPT ![c] = IF @ = None THEN why[c] ELSE @]
  /\ wrap' = [wrap EXCEPT ![c] = "tidy"]
  /\ UNCHANGED <<hide, why, keeper, tcp, files, child, alien, hit, call, watchVars>>

\* A forced stop takes the name of a process for its identity.
Confirmed_ByName(c, p) == CommFits(c, p)

\* DeleteCheck lets a capture be deleted that was asked to stop.
DeleteCheck_Stopping(k) ==
  LET c == call[k].cap IN
  /\ call[k].at = "deleting"
  /\ call[k].view[c] = "unlisted" \/ Status(c, call[k].view[c]) # "running"
  /\ call' = [call EXCEPT ![k] = [Idle EXCEPT !.at = "fresh", !.cap = c]]
  /\ UNCHANGED <<hide, hostVars, hit, watchVars>>

\* The watcher says nothing of the first picture of a session.
Told_NoSnapshot(lite) ==
  IF snap = None \/ lite = snap THEN shown
  ELSE Cardinality({c \in Caps : lite[c] \in Active})

\* The timeout that backs the wrapper up is not there.
TcpEnds_NoBackstop(c) ==
  /\ tcp[c] = "dying"
  /\ tcp' = [tcp EXCEPT ![c] = "gone"]
  /\ keeper' = [keeper EXCEPT ![c] = FALSE]
  /\ UNCHANGED <<hide, wrap, why, files, done, child, alien, hit, call, watchVars>>
-----------------------------------------------------------------------------
(* The wrapper and its tcpdump.                                            *)

Goes(c, stage) == wrap' = [wrap EXCEPT ![c] = stage]

\* The wrapper claims its sidecar names and refuses a name that is taken.
Claim(c) ==
  /\ wrap[c] = "boot"
  /\ IF files[c] \subseteq {"meta"} /\ done[c] = None
     THEN Goes(c, "claim") /\ files' = [files EXCEPT ![c] = @ \cup {"pid"}]
     ELSE Goes(c, "gone") /\ UNCHANGED files
  /\ UNCHANGED <<hide, why, keeper, tcp, done, child, alien, hit, call, watchVars>>

Spawn(c) ==
  /\ wrap[c] = "claim"
  /\ Goes(c, "start")
  /\ keeper' = [keeper EXCEPT ![c] = TRUE]
  /\ tcp' = [tcp EXCEPT ![c] = "starting"]
  /\ UNCHANGED <<hide, why, files, done, child, alien, hit, call, watchVars>>

\* tcpdump opened its device and compiled the filter: the savefile is there.
TcpOpens(c) ==
  /\ tcp[c] = "starting"
  /\ tcp' = [tcp EXCEPT ![c] = "open"]
  /\ files' = [files EXCEPT ![c] = @ \cup {"pcap"}]
  /\ UNCHANGED <<hide, wrap, why, keeper, done, child, alien, hit, call, watchVars>>

\* tcpdump ends: by itself, by its timeout, by the byte limit, or on a signal.
TcpEnds(c) ==
  /\ TcpLives(c)
  /\ tcp' = [tcp EXCEPT ![c] = "gone"]
  /\ keeper' = [keeper EXCEPT ![c] = FALSE]
  /\ UNCHANGED <<hide, wrap, why, files, done, child, alien, hit, call, watchVars>>

\* The savefile is there: the pids are recorded and .started proves the start.
Opened(c) ==
  /\ wrap[c] = "start" /\ "pcap" \in files[c]
  /\ Goes(c, "poll")
  /\ files' = [files EXCEPT ![c] = @ \cup {"tpid", "started"}]
  /\ \E found \in {TRUE} \cup (IF "lateChild" \in Faults THEN {FALSE} ELSE {}) :
       child' = [child EXCEPT ![c] = found]
  /\ UNCHANGED <<hide, why, keeper, tcp, done, alien, hit, call, watchVars>>

\* finish(): from here on signals are ignored and the group has got a TERM.
Finishing(c, reason) ==
  /\ Goes(c, "finish")
  /\ why' = [why EXCEPT ![c] = reason]
  /\ UNCHANGED <<hide, keeper, tcp, files, done, child, alien, hit, call, watchVars>>

NoTcpdump(c)    == wrap[c] = "claim" /\ Finishing(c, "error")
StartFails(c)   == wrap[c] = "start" /\ "pcap" \notin files[c] /\ Finishing(c, "error")
GuardFires(c)   == wrap[c] = "poll" /\ Finishing(c, "guard")
StopSeen(c)     == wrap[c] = "poll" /\ "stop" \in files[c] /\ Finishing(c, "signal")
TcpWasOver(c, reason) ==
  wrap[c] = "poll" /\ ~keeper[c] /\ Finishing(c, reason)

\* The group is over, or did not end in time and is killed.
GroupOver(c) ==
  /\ wrap[c] = "finish" /\ ~keeper[c]
  /\ Goes(c, "report")
  /\ UNCHANGED <<hide, why, keeper, tcp, files, done, child, alien, hit, call, watchVars>>

GraceOver(c) ==
  /\ "stubborn" \in Faults
  /\ wrap[c] = "finish" /\ keeper[c]
  /\ Goes(c, "report")
  /\ keeper' = [keeper EXCEPT ![c] = FALSE]
  /\ tcp' = [tcp EXCEPT ![c] = IF TcpLives(c) THEN "dying" ELSE @]
  /\ why' = [why EXCEPT ![c] = IF @ = "signal" THEN "signal-forced" ELSE @]
  /\ UNCHANGED <<hide, files, done, child, alien, hit, call, watchVars>>

\* The marker says why, unless a tcpdump still holds the savefile; a marker that
\* is there already stays (noclobber).
Report(c) ==
  LET reason == IF TcpLives(c) THEN "orphan" ELSE why[c] IN
  /\ wrap[c] = "report"
  /\ done' = [done EXCEPT ![c] = IF @ = None THEN reason ELSE @]
  /\ why' = [why EXCEPT ![c] = reason]
  /\ Goes(c, "tidy")
  /\ UNCHANGED <<hide, keeper, tcp, files, child, alien, hit, call, watchVars>>

Tidy(c) ==
  /\ wrap[c] = "tidy"
  /\ files' = [files EXCEPT ![c] = IF why[c] = "orphan" THEN @ ELSE @ \ {"pid", "tpid", "stop"}]
  /\ Goes(c, "gone")
  /\ why' = [why EXCEPT ![c] = "done"]
  /\ UNCHANGED <<hide, keeper, tcp, done, child, alien, hit, call, watchVars>>

WrapperSteps(c) ==
  \/ Claim(c) \/ Spawn(c) \/ Opened(c) \/ NoTcpdump(c) \/ StartFails(c)
  \/ GuardFires(c) \/ StopSeen(c)
  \/ \E reason \in {"done", "guard", "error"} : TcpWasOver(c, reason)
  \/ GroupOver(c) \/ GraceOver(c) \/ Report(c) \/ Tidy(c)

-----------------------------------------------------------------------------
(* What may happen to the host.                                            *)

Killed(c) ==
  /\ \/ "oom" \in Faults /\ wrap[c] = "poll"
     \/ "oomStart" \in Faults /\ wrap[c] \in {"claim", "start"}
  /\ Goes(c, "gone")
  /\ UNCHANGED <<hide, why, keeper, tcp, files, done, child, alien, hit, call, watchVars>>

Cut ==
  /\ link' = FALSE /\ due' = FALSE /\ looks' = [w \in Watchers |-> None]
  /\ snap' = None /\ young' = {} /\ shown' = None

Reboot ==
  /\ "reboot" \in Faults
  /\ \E c \in Caps : WrapLives(c) \/ TcpLives(c)
  /\ wrap' = [c \in Caps |-> IF WrapLives(c) THEN "gone" ELSE wrap[c]]
  /\ why' = [c \in Caps |-> "done"]
  /\ tcp' = [c \in Caps |-> IF TcpLives(c) THEN "gone" ELSE tcp[c]]
  /\ keeper' = [c \in Caps |-> FALSE]
  /\ call' = [k \in Callers |-> Idle]
  /\ alien' = [c \in Caps |-> None]
  /\ Cut
  /\ UNCHANGED <<hide, files, done, child, hit>>

\* The pid of a process that is gone is given to a stranger, or the stranger goes.
Recycle(c, who) ==
  /\ who # alien[c]
  /\ who # None =>
       /\ who.proc \in Recorded(c) /\ ~Lives(c, who.proc)
       /\ \A k \in Callers : call[k].at = "forced" /\ call[k].cap = c =>
            who.proc \notin call[k].kills \/ "fastReuse" \in Faults
  /\ alien' = [alien EXCEPT ![c] = who]
  /\ UNCHANGED <<hide, wrap, why, keeper, tcp, files, done, child, hit, call, watchVars>>

-----------------------------------------------------------------------------
(* Calls.  Each is a sequence of scripts run on the host.                  *)

View == [c \in Caps |-> Sight(c)]

At(k, place, c) == call' = [call EXCEPT ![k] = [Idle EXCEPT !.at = place, !.cap = c]]
Return(k) == call' = [call EXCEPT ![k] = Idle]

Removed(c, which) ==
  /\ files' = [files EXCEPT ![c] = @ \ which]
  /\ done' = [done EXCEPT ![c] = IF which = Files THEN None ELSE @]
  /\ alien' = [alien EXCEPT ![c] = None]
  /\ UNCHANGED <<wrap, why, keeper, tcp, child>>

\* A listing that fails shows nothing.
Pictures == {View} \cup (IF "listFails" \in Faults THEN {[c \in Caps |-> "unlisted"]} ELSE {})

Looks(k, place, c) ==
  \E v \in Pictures :
    call' = [call EXCEPT ![k] = [at |-> place, cap |-> c, view |-> v, kills |-> {}]]

\* StartCapture: one capture per host, as far as a listing tells.
StartLook(k) ==
  /\ call[k].at = "idle"
  /\ Looks(k, "start", None)
  /\ UNCHANGED <<hide, hostVars, hit, watchVars>>

\* None is running: the meta file of a new capture is uploaded.
StartMeta(k, c) ==
  /\ call[k].at = "start"
  /\ wrap[c] = "none" /\ "meta" \notin files[c]
  /\ \A j \in Callers : call[j].cap # c
  /\ \A d \in Caps : call[k].view[d] # "unlisted" => Status(d, call[k].view[d]) \notin Active
  /\ files' = [files EXCEPT ![c] = @ \cup {"meta"}]
  /\ At(k, "launch", c)
  /\ UNCHANGED <<hide, wrap, why, keeper, tcp, done, child, alien, hit, watchVars>>

Launch(k) ==
  LET c == call[k].cap IN
  /\ call[k].at = "launch"
  /\ wrap[c] = "none"
  /\ Goes(c, "boot")
  /\ At(k, "verify", c)
  /\ UNCHANGED <<hide, why, keeper, tcp, files, done, child, alien, hit, watchVars>>

LaunchFails(k) ==
  /\ call[k].at = "launch"
  /\ Removed(call[k].cap, Files)
  /\ Return(k)
  /\ UNCHANGED <<hide, hit, watchVars>>

\* verifyCaptureStart looks for .done first, then for .started.
VerifyStarted(k) ==
  LET c == call[k].cap IN
  /\ call[k].at = "verify"
  /\ done[c] = None /\ "started" \in files[c]
  /\ Return(k)
  /\ UNCHANGED <<hide, hostVars, hit, watchVars>>

VerifyFailed(k) ==
  LET c == call[k].cap IN
  /\ call[k].at = "verify"
  /\ \/ done[c] # None
     \/ "slowStart" \in Faults /\ "started" \notin files[c]
  /\ At(k, "clean", c)
  /\ files' = [files EXCEPT ![c] = @ \cup {"stop"}]
  /\ UNCHANGED <<hide, wrap, why, keeper, tcp, done, child, alien, hit, watchVars>>

\* One second later the debris is removed.
StartClean(k) ==
  /\ call[k].at = "clean"
  /\ Removed(call[k].cap, Files)
  /\ Return(k)
  /\ UNCHANGED <<hide, hit, watchVars>>

\* resolveCapFile finds a capture by its meta file.
Resolve(k, c, place) ==
  /\ call[k].at = "idle"
  /\ "meta" \in files[c]
  /\ At(k, place, c)
  /\ UNCHANGED <<hide, hostVars, hit, watchVars>>

\* StopCapture drops the sentinel and signals nobody.
StopMark(k) ==
  /\ call[k].at = "stop"
  /\ files' = [files EXCEPT ![call[k].cap] = @ \cup {"stop"}]
  /\ Return(k)
  /\ UNCHANGED <<hide, wrap, why, keeper, tcp, done, child, alien, hit, watchVars>>

\* StopCaptureForce believes a recorded pid when both comm and cmdline fit.
Confirmed(c, p) == CommFits(c, p) /\ PathFits(c, p)

\* Under the lock the confirmed pids get a TERM.  A wrapper that has set its trap
\* finishes; one that has not dies.
ForceTerm(k, kills) ==
  LET c == call[k].cap IN
  /\ call[k].at = "force"
  /\ \A j \in Callers : call[j].cap = c => call[j].at \notin {"forced", "mark"}
  /\ kills = {p \in Recorded(c) : Confirmed(c, p)}
  /\ IF kills = {} THEN Return(k) ELSE call' = [call EXCEPT ![k].at = "forced", ![k].kills = kills]
  /\ IF "wrap" \in kills /\ wrap[c] \in {"claim", "start", "poll"}
     THEN /\ Goes(c, IF wrap[c] = "claim" THEN "gone" ELSE "finish")
          /\ why' = [why EXCEPT ![c] = "signal"]
     ELSE UNCHANGED <<wrap, why>>
  /\ hit' = (hit \/ \E p \in kills : ~Lives(c, p))
  /\ UNCHANGED <<hide, keeper, tcp, files, done, child, alien, watchVars>>

ForceBusy(k) ==
  /\ call[k].at = "force"
  /\ \E j \in Callers : call[j].cap = call[k].cap /\ call[j].at \in {"forced", "mark"}
  /\ Return(k)
  /\ UNCHANGED <<hide, hostVars, hit, watchVars>>

\* Five seconds later whatever has one of these pids is killed, unseen.
ForceKill(k) ==
  LET c == call[k].cap
      left == {p \in call[k].kills : Exists(c, p)}
      own  == {p \in left : Lives(c, p)}
  IN /\ call[k].at = "forced"
     /\ own # {} => "stubborn" \in Faults
     /\ wrap' = [wrap EXCEPT ![c] = IF "wrap" \in own THEN "gone" ELSE @]
     /\ keeper' = [keeper EXCEPT ![c] = @ /\ "keeper" \notin own]
     /\ tcp' = [tcp EXCEPT ![c] = IF "tcp" \in own THEN "dying" ELSE @]
     /\ hit' = (hit \/ own # left)
     /\ call' = [call EXCEPT ![k].at = "mark"]
     /\ UNCHANGED <<hide, why, files, done, child, alien, watchVars>>

\* Only a forced stop that signalled something writes a marker (I6).
ForceMark(k) ==
  LET c == call[k].cap IN
  /\ call[k].at = "mark"
  /\ done' = [done EXCEPT ![c] = IF @ = None THEN "signal-forced" ELSE @]
  /\ Return(k)
  /\ UNCHANGED <<hide, wrap, why, keeper, tcp, files, child, alien, hit, watchVars>>

\* captureStillHeld: a tcpdump of this capture, as far as /proc tells.
StillHeld(c) == ~hide /\ TcpLives(c)

\* DeleteCapture has found the meta file; its listing is a command of its own.
DeleteLook(k) ==
  /\ call[k].at = "delete"
  /\ Looks(k, "deleting", call[k].cap)
  /\ UNCHANGED <<hide, hostVars, hit, watchVars>>

\* A call that wants to launch the capture, or its wrapper, or a tcpdump.
Comes(c) ==
  WrapLives(c) \/ TcpLives(c) \/ \E j \in Callers : call[j].at = "launch" /\ call[j].cap = c

\* What the listing says: a capture that runs is refused, an orphan is looked for
\* again, and one that the listing does not have is deleted without a status.
DeleteCheck(k) ==
  LET c     == call[k].cap
      sight == call[k].view[c]
      st    == Status(c, sight)
  IN /\ call[k].at = "deleting"
     /\ sight = "bare" /\ Comes(c) => "early" \in Faults
     /\ \/ sight = "unlisted" /\ At(k, "fresh", c)
        \/ sight # "unlisted" /\ st \notin Active \cup {"orphan"} /\ At(k, "fresh", c)
        \/ sight # "unlisted" /\ st = "orphan" /\ At(k, "held", c)
     /\ UNCHANGED <<hide, hostVars, hit, watchVars>>

DeleteHeld(k) ==
  /\ call[k].at = "held"
  /\ ~StillHeld(call[k].cap)
  /\ At(k, "fresh", call[k].cap)
  /\ UNCHANGED <<hide, hostVars, hit, watchVars>>

\* refuseIfBeingWritten: a marker, no file, or a file that was not written to for 15
\* seconds, which any file may be.  Its refusal is GiveUp.
DeleteFresh(k) ==
  /\ call[k].at = "fresh"
  /\ At(k, "remove", call[k].cap)
  /\ UNCHANGED <<hide, hostVars, hit, watchVars>>

DeleteRemove(k) ==
  LET c == call[k].cap IN
  /\ call[k].at = "remove"
  /\ Removed(c, Files)
  /\ Return(k)
  /\ UNCHANGED <<hide, hit, watchVars>>

ForgetLook(k) ==
  /\ call[k].at = "forget"
  /\ Looks(k, "forgetting", call[k].cap)
  /\ UNCHANGED <<hide, hostVars, hit, watchVars>>

\* ForgetCapture: only a row that cannot be known, or an orphan; the savefile, the
\* log and the marker stay.
ForgetCheck(k) ==
  LET c == call[k].cap IN
  /\ call[k].at = "forgetting"
  /\ call[k].view[c] # "unlisted"
  /\ Uncertain(c, call[k].view[c]) \/ Status(c, call[k].view[c]) = "orphan"
  /\ At(k, "drop", c)
  /\ UNCHANGED <<hide, hostVars, hit, watchVars>>

\* Its event says deleted and carries no counts, which the interface takes as 0.
ForgetDrop(k) ==
  /\ call[k].at = "drop"
  /\ \A j \in Callers : call[j].at = "delete" /\ call[j].cap = call[k].cap => "forgotten" \in Faults
  /\ Removed(call[k].cap, Files \ {"pcap"})
  /\ Return(k)
  /\ shown' = IF link THEN 0 ELSE shown
  /\ UNCHANGED <<hide, hit, link, due, looks, snap, young>>

\* A refusal, an error, a lost connection.
GiveUp(k) ==
  /\ call[k].at # "idle"
  /\ Return(k)
  /\ UNCHANGED <<hide, hostVars, hit, watchVars>>

CallSteps(k) ==
  \/ StartLook(k) \/ \E c \in Caps : StartMeta(k, c)
  \/ Launch(k) \/ LaunchFails(k) \/ VerifyStarted(k) \/ VerifyFailed(k) \/ StartClean(k)
  \/ \E c \in Caps, place \in {"stop", "force", "delete", "forget"} : Resolve(k, c, place)
  \/ StopMark(k)
  \/ \E kills \in SUBSET Procs : ForceTerm(k, kills)
  \/ ForceBusy(k) \/ ForceKill(k) \/ ForceMark(k)
  \/ DeleteLook(k) \/ DeleteCheck(k) \/ DeleteHeld(k) \/ DeleteFresh(k) \/ DeleteRemove(k)
  \/ ForgetLook(k) \/ ForgetCheck(k) \/ ForgetDrop(k) \/ GiveUp(k)

-----------------------------------------------------------------------------
(* The watcher of the live session.                                        *)

\* Manager.Start publishes the session and looks at once in a goroutine.
Connect ==
  /\ ~link
  /\ link' = TRUE /\ due' = TRUE
  /\ UNCHANGED <<hide, hostVars, hit, call, looks, snap, young, shown>>

Disconnect ==
  /\ link
  /\ Cut
  /\ UNCHANGED <<hide, hostVars, hit, call>>

\* The pids are read; keepAlive's tick comes ten seconds after the first look.
Look(w) ==
  /\ link /\ looks[w] = None
  /\ IF w = "first" THEN due
     ELSE ~due /\ (looks["first"] = None \/ "slowLook" \in Faults)
  /\ due' = FALSE
  /\ looks' = [looks EXCEPT ![w] = View]
  /\ UNCHANGED <<hide, hostVars, hit, call, link, snap, young, shown>>

\* What the interface shows after this picture: it hears of the first one and of
\* each transition, and every event carries the number of running captures.
Told(lite) ==
  IF lite = snap THEN shown ELSE Cardinality({c \in Caps : lite[c] \in Active})

\* The markers are read, the snapshot is swapped, and the events go out.
Tell(w) ==
  LET lite == [c \in Caps |-> IF looks[w][c] = "unlisted" THEN "unlisted"
                              ELSE Status(c, looks[w][c])]
  IN /\ link /\ looks[w] # None
     /\ looks' = [looks EXCEPT ![w] = None]
     /\ snap' = lite /\ young' = {c \in Caps : looks[w][c] = "bare"}
     /\ shown' = Told(lite)
     /\ UNCHANGED <<hide, hostVars, hit, call, link, due>>

-----------------------------------------------------------------------------
\* The host and the calls; nobody watches.
CallsNext ==
  \/ \E c \in Caps : WrapperSteps(c) \/ TcpOpens(c) \/ TcpEnds(c) \/ Killed(c)
  \/ \E c \in Caps, who \in Strangers \cup {None} : Recycle(c, who)
  \/ Reboot
  \/ \E k \in Callers : CallSteps(k)

WatchNext == Connect \/ Disconnect \/ \E w \in Watchers : Look(w) \/ Tell(w)

Next == CallsNext \/ WatchNext

Spec == Init /\ [][Next]_vars

CallsSpec == Init /\ [][CallsNext]_vars

\* Processes run, timeout ends its tcpdump, a killed process disappears, and the
\* goroutines of a live session go on.  Calls and users promise nothing.
Fairness ==
  /\ \A c \in Caps :
       /\ WF_vars(WrapperSteps(c))
       /\ WF_vars((keeper[c] \/ tcp[c] = "dying") /\ TcpEnds(c))
  /\ \A w \in Watchers : WF_vars(Look(w)) /\ WF_vars(Tell(w))

FairSpec == Spec /\ Fairness
-----------------------------------------------------------------------------
(* Properties.                                                             *)

\* I5, "never kill someone else's process": whatever pids are left in the sidecar
\* files of captures that ended, died or went down with the host, and whoever has got
\* them since, neither signal of a forced stop reaches a process that is not the capture's.
OthersUntouched == ~hit

\* I6, "never fabricate state": a marker that says a capture ended is true of the
\* tcpdump on record; after a forced stop it may at most be one that was killed and has
\* not disappeared yet.
DoneIsOver ==
  \A c \in Caps : child[c] /\ done[c] \notin {None, "orphan"} =>
    ~TcpLives(c) \/ (done[c] = "signal-forced" /\ tcp[c] = "dying")

\* capStatusFrom: a process that is gone and never wrote a reason was killed.  The
\* watcher calls a capture interrupted only if it really died, when it had a pid on record
\* as the watcher looked: reading the pids before the markers never makes a capture that
\* just ended well look killed.  One that has none yet is called interrupted as well,
\* and may be about to run.
InterruptedDied ==
  snap # None =>
    \A c \in Caps : snap[c] = "interrupted" /\ c \notin young =>
      /\ ~WrapLives(c)
      /\ child[c] => tcp[c] # "open"
      /\ done[c] \in {None, "signal-forced"}

\* The savefile of a tcpdump on record is never removed while it is being written:
\* the space of an unlinked file that still grows never comes back.
NothingOpenDeleted ==
  \A c \in Caps : child[c] /\ tcp[c] = "open" => "pcap" \in files[c]

\* A forced stop killed the timeout of a tcpdump that does not heed TERM and whose own
\* pid was not on record.
Bereft(c) == tcp[c] \in {"starting", "open"} /\ ~child[c] /\ ~keeper[c]

\* I7, every cap has a second enforcer: a launched capture ends, with its wrapper
\* killed or its client gone, unless a forced stop takes the enforcer and leaves the
\* tcpdump.
CapturesEnd ==
  \A c \in Caps :
    wrap[c] # "none" ~> (wrap[c] = "gone" /\ (tcp[c] \in {"none", "gone"} \/ Bereft(c)))

\* Nobody polls from the interface, so the watcher has to tell it: when every
\* capture of a readable host is over, and no stranger passes for one, the interface
\* stops showing one as running.
AllOver == \A c \in Caps, p \in Procs : ~PathFits(c, p)

EndsAreTold == (link /\ ~hide /\ AllOver) ~> (~link \/ shown = 0 \/ ~AllOver)
=============================================================================
