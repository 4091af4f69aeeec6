------------------------------ MODULE Session ------------------------------
(***************************************************************************)
(* The live SSH sessions of one host (internal/monitor/monitor.go): Start, *)
(* Stop and SetInterval of the Manager, called by the user interface in    *)
(* goroutines of their own, and the sampler streams they launch.  The only *)
(* lock, Manager.mu, covers single accesses to Manager.sessions, so every  *)
(* call below is a sequence of steps that others interleave with.          *)
(*                                                                         *)
(* A Start call names the session it makes.  Dialling, probing and         *)
(* uploading are one step that may fail; what a frame carries is left out. *)
(***************************************************************************)
EXTENDS Integers, FiniteSets

CONSTANTS
  Starts,      \* Start calls, and the sessions they make
  Stops,       \* goroutines that call Stop
  Intervals,   \* goroutines that call SetInterval
  None,        \* no session
  MaxStreams,  \* bound: sampler runs per session
  Serial       \* TRUE: no two Start calls overlap

ASSUME SessionAssumption ==
  /\ MaxStreams \in Nat \ {0}
  /\ Serial \in BOOLEAN
  /\ None \notin Starts
  /\ Starts \cap Stops = {} /\ Starts \cap Intervals = {} /\ Stops \cap Intervals = {}

VARIABLES
  table,   \* Manager.sessions[h]
  conn,    \* SSH connection of each session, jump hops included
  dead,    \* sessions whose context is cancelled
  lost,    \* sessions whose link is gone, noticed or not
  run,     \* state of each sampler run: its goroutine in launchStream
  cut,     \* runs whose own context was cancelled
  handle,  \* streamCancel of each session: the run it cancels, 0 at first
  pc,      \* where each call is
  hand,    \* the session a call holds: removed by Stop, or found by SetInterval
  shown    \* last state reported to the user interface

vars == <<table, conn, dead, lost, run, cut, handle, pc, hand, shown>>

Calls   == Starts \cup Stops \cup Intervals
Streams == Starts \X (1 .. MaxStreams)

Busy(c) == pc[c] \notin {"idle", "done"}

\* sctx.Err() # nil: the run or its whole session was cancelled.
Cancelled(x) == x \in cut \/ x[1] \in dead

Goto(c, l) == pc' = [pc EXCEPT ![c] = l]

Init ==
  /\ table = None
  /\ conn = [s \in Starts |-> "none"]
  /\ dead = {}
  /\ lost = {}
  /\ run = [x \in Streams |-> "none"]
  /\ cut = {}
  /\ handle = [s \in Starts |-> 0]
  /\ pc = [c \in Calls |-> "idle"]
  /\ hand = [c \in Calls |-> None]
  /\ shown = "none"

-----------------------------------------------------------------------------
(* Defects: what an action below would be with a plausible mistake in it.  *)

\* Stop forgets to close the connection.
Close_Leaks(c) ==
  /\ pc[c] = "drop"
  /\ dead' = dead \cup {hand[c]}
  /\ Goto(c, "say")
  /\ UNCHANGED <<lost, table, conn, run, cut, handle, hand, shown>>

\* SetInterval launches the new run and then cancels "the" run.
Relaunch_CutLast(c) ==
  LET no == handle[hand[c]] + 1 IN
  /\ pc[c] = "launch" /\ c \in Intervals
  /\ run' = [run EXCEPT ![<<hand[c], no>>] = "on"]
  /\ handle' = [handle EXCEPT ![hand[c]] = no]
  /\ cut' = cut \cup {<<hand[c], no>>}
  /\ hand' = [hand EXCEPT ![c] = None]
  /\ Goto(c, "idle")
  /\ UNCHANGED <<lost, table, conn, dead, shown>>

\* Stop leaves the session in the table while it closes it.
Remove_Late(c) ==
  /\ c \in Stops /\ pc[c] = "idle" /\ table # None
  /\ hand' = [hand EXCEPT ![c] = table]
  /\ Goto(c, "drop")
  /\ UNCHANGED <<lost, table, conn, dead, run, cut, handle, shown>>

\* SetInterval calls streamCancel without looking whether it is set.
CancelRun_Nil(c) ==
  /\ pc[c] = "cancel"
  /\ cut' = cut \cup {<<hand[c], handle[hand[c]]>>}
  /\ Goto(c, "launch")
  /\ UNCHANGED <<lost, table, conn, dead, run, handle, hand, shown>>

\* The goroutine of a run leaves the teardown to others in any case.
Ends_Quietly(x) ==
  /\ run[x] = "on"
  /\ run' = [run EXCEPT ![x] = "over"]
  /\ UNCHANGED <<lost, table, conn, dead, cut, handle, pc, hand, shown>>

-----------------------------------------------------------------------------
(* Stop, called by Disconnect and DeleteHost and at the head of Start.     *)

\* Under the lock the session leaves the table; without one Stop does nothing.
Remove(c) ==
  /\ c \in Stops /\ pc[c] = "idle" /\ table # None
  /\ hand' = [hand EXCEPT ![c] = table]
  /\ table' = None
  /\ Goto(c, "drop")
  /\ UNCHANGED <<lost, conn, dead, run, cut, handle, shown>>

\* cancel, then closeConns, outside the lock.
Close(c) ==
  /\ pc[c] = "drop"
  /\ dead' = dead \cup {hand[c]}
  /\ conn' = [conn EXCEPT ![hand[c]] = "closed"]
  /\ Goto(c, "say")
  /\ UNCHANGED <<lost, table, run, cut, handle, hand, shown>>

ReportStop(c) ==
  /\ pc[c] = "say"
  /\ shown' = "stopped"
  /\ hand' = [hand EXCEPT ![c] = None]
  /\ Goto(c, IF c \in Starts THEN "announce" ELSE "idle")
  /\ UNCHANGED <<lost, table, conn, dead, run, cut, handle>>

-----------------------------------------------------------------------------
(* Start.                                                                  *)

Begin(s) ==
  /\ pc[s] = "idle"
  /\ Serial => \A t \in Starts : ~Busy(t)
  /\ hand' = [hand EXCEPT ![s] = table]
  /\ table' = None
  /\ Goto(s, IF table # None THEN "drop" ELSE "announce")
  /\ UNCHANGED <<lost, conn, dead, run, cut, handle, shown>>

Announce(s) ==
  /\ pc[s] = "announce"
  /\ shown' = "connecting"
  /\ Goto(s, "dial")
  /\ UNCHANGED <<lost, table, conn, dead, run, cut, handle, hand>>

Dial(s) ==
  /\ pc[s] = "dial"
  /\ conn' = [conn EXCEPT ![s] = "open"]
  /\ Goto(s, "publish")
  /\ UNCHANGED <<lost, table, dead, run, cut, handle, hand, shown>>

\* No route, no connection, no probe, no directory or no upload: whatever was
\* opened is closed again.
StartFails(s) ==
  /\ pc[s] \in {"announce", "dial"}
  /\ shown' = "error"
  /\ Goto(s, "done")
  /\ UNCHANGED <<lost, table, conn, dead, run, cut, handle, hand>>

\* The table entry is overwritten whatever it holds.
Publish(s) ==
  /\ pc[s] = "publish"
  /\ table' = s
  /\ Goto(s, "launch")
  /\ UNCHANGED <<lost, conn, dead, run, cut, handle, hand, shown>>

\* launchStream: a child context, its cancel function, a goroutine.  Find leaves
\* room for every run that is due, so the bound is never what stops a launch.
NewRun(s) ==
  LET no == handle[s] + 1 IN
  /\ no <= MaxStreams
  /\ run' = [run EXCEPT ![<<s, no>>] = "on"]
  /\ handle' = [handle EXCEPT ![s] = no]

Launch(s) ==
  /\ pc[s] = "launch" /\ s \in Starts
  /\ NewRun(s)
  /\ Goto(s, "report")
  /\ UNCHANGED <<lost, table, conn, dead, cut, hand, shown>>

ReportStreaming(s) ==
  /\ pc[s] = "report"
  /\ shown' = "streaming"
  /\ Goto(s, "done")
  /\ UNCHANGED <<lost, table, conn, dead, run, cut, handle, hand>>

-----------------------------------------------------------------------------
(* SetInterval.                                                            *)

\* Bound: runs a session has, and those that calls on it are about to launch.
RunsDue(s) ==
  handle[s] + Cardinality({c \in Intervals : hand[c] = s}) + (IF pc[s] = "launch" THEN 1 ELSE 0)

Find(c) ==
  /\ c \in Intervals /\ pc[c] = "idle" /\ table # None
  /\ RunsDue(table) < MaxStreams
  /\ hand' = [hand EXCEPT ![c] = table]
  /\ Goto(c, "cancel")
  /\ UNCHANGED <<lost, table, conn, dead, run, cut, handle, shown>>

\* streamCancel, nil before the first launchStream.
CancelRun(c) ==
  /\ pc[c] = "cancel"
  /\ cut' = IF handle[hand[c]] = 0 THEN cut ELSE cut \cup {<<hand[c], handle[hand[c]]>>}
  /\ Goto(c, "launch")
  /\ UNCHANGED <<lost, table, conn, dead, run, handle, hand, shown>>

Relaunch(c) ==
  /\ pc[c] = "launch" /\ c \in Intervals
  /\ NewRun(hand[c])
  /\ hand' = [hand EXCEPT ![c] = None]
  /\ Goto(c, "idle")
  /\ UNCHANGED <<lost, table, conn, dead, cut, shown>>

-----------------------------------------------------------------------------
(* The goroutine of a run.                                                 *)

\* The link of an open connection goes down.
Lose(s) ==
  /\ conn[s] = "open" /\ s \notin lost
  /\ lost' = lost \cup {s}
  /\ UNCHANGED <<table, conn, dead, run, cut, handle, pc, hand, shown>>

\* runStream returns: cancelled, connection dropped, or sampler gone.
Ends(x) ==
  /\ run[x] = "on"
  /\ run' = [run EXCEPT ![x] = IF Cancelled(x) THEN "over" ELSE "ended"]
  /\ UNCHANGED <<lost, table, conn, dead, cut, handle, pc, hand, shown>>

\* teardown: only if the table still holds this run's session.
Teardown(x) ==
  /\ run[x] = "ended"
  /\ run' = [run EXCEPT ![x] = "torn"]
  /\ IF table = x[1]
       THEN table' = None /\ conn' = [conn EXCEPT ![x[1]] = "closed"]
       ELSE UNCHANGED <<table, conn>>
  /\ UNCHANGED <<lost, dead, cut, handle, pc, hand, shown>>

ReportEnd(x) ==
  /\ run[x] = "torn"
  /\ run' = [run EXCEPT ![x] = "over"]
  /\ shown' = "stopped"
  /\ UNCHANGED <<lost, table, conn, dead, cut, handle, pc, hand>>

-----------------------------------------------------------------------------
StopStep(c) == Close(c) \/ ReportStop(c)

StartStep(s) ==
  \/ Announce(s) \/ Dial(s) \/ StartFails(s) \/ Publish(s) \/ Launch(s) \/ ReportStreaming(s)

IntervalStep(c) == CancelRun(c) \/ Relaunch(c)

RunStep(x) == Ends(x) \/ Teardown(x) \/ ReportEnd(x)

Next ==
  \/ \E c \in Stops : Remove(c)
  \/ \E c \in Stops \cup Starts : StopStep(c)
  \/ \E s \in Starts : Begin(s) \/ StartStep(s)
  \/ \E c \in Intervals : Find(c) \/ IntervalStep(c)
  \/ \E x \in Streams : RunStep(x)
  \/ \E s \in Starts : Lose(s)

Spec == Init /\ [][Next]_vars

\* Goroutines that can run do run.  A run returns when it is cancelled, since
\* its watcher closes the channel it reads, and when its link is gone, since
\* keepAlive writes to the link until TCP gives up.  Otherwise it need not end.
Fairness ==
  /\ \A c \in Stops \cup Starts : WF_vars(StopStep(c))
  /\ \A s \in Starts : WF_vars(StartStep(s))
  /\ \A c \in Intervals : WF_vars(IntervalStep(c))
  /\ \A x \in Streams :
       /\ WF_vars((Cancelled(x) \/ x[1] \in lost) /\ Ends(x))
       /\ WF_vars(Teardown(x) \/ ReportEnd(x))

FairSpec == Spec /\ Fairness
-----------------------------------------------------------------------------
TypeOK ==
  /\ table \in Starts \cup {None}
  /\ conn \in [Starts -> {"none", "open", "closed"}]
  /\ dead \subseteq Starts
  /\ lost \subseteq Starts
  /\ run \in [Streams -> {"none", "on", "ended", "torn", "over"}]
  /\ cut \subseteq Streams
  /\ handle \in [Starts -> 0 .. MaxStreams]
  /\ pc \in [Calls -> {"idle", "drop", "say", "announce", "dial", "publish", "launch",
                       "report", "cancel", "done"}]
  /\ hand \in [Calls -> Starts \cup {None}]
  /\ shown \in {"none", "connecting", "streaming", "stopped", "error"}

\* A session that a call can find in the table has not been closed or cancelled
\* by anybody, so no new call starts on a connection of the past.
TableIsOpen == table # None => conn[table] = "open" /\ table \notin dead

\* No connection is open that nobody can close any more: it is in the table,
\* about to be put there, or in the hands of the Stop that removed it.
NoLeak ==
  \A s \in Starts : conn[s] = "open" =>
    \/ table = s
    \/ pc[s] = "publish"
    \/ \E c \in Stops \cup Starts : hand[c] = s /\ pc[c] = "drop"

\* A connected session is never left without a run whose end will tear it
\* down: there is one that is not cancelled, or a call is about to launch one.
Watched ==
  table # None =>
    \/ \E x \in Streams :
         x[1] = table /\ (run[x] = "ended" \/ (run[x] = "on" /\ x \notin cut))
    \/ pc[table] = "launch"
    \/ \E c \in Intervals : hand[c] = table /\ pc[c] = "launch"

\* A session whose link is gone does not stay in the table, whatever interval
\* changes and stops happen meanwhile.
LostIsNoticed == \A s \in Starts : (s \in lost) ~> (table # s)

-----------------------------------------------------------------------------
(* Statements of the repository that the program does not keep.            *)

\* monitor.go: "One *session per host"; Start replaces an existing session, so
\* two sessions of the host are never open for good.
OneSession ==
  Cardinality({s \in Starts : conn[s] = "open" /\ pc[s] = "done"}) <= 1

\* SetInterval restarts the sampler stream: a session that nobody is working on
\* has one run that is not cancelled, not two.
OneRun ==
  \A s \in Starts :
    (\A c \in Calls : ~Busy(c)) =>
      Cardinality({x \in Streams : x[1] = s /\ run[x] = "on" /\ ~Cancelled(x)}) <= 1
=============================================================================
