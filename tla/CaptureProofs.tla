--------------------------- MODULE CaptureProofs ---------------------------
(***************************************************************************)
(* Proofs about Capture, for any captures, any calls under way and any     *)
(* combination of faults: what a marker, a look at /proc and a delete may  *)
(* conclude about a tcpdump.                                               *)
(***************************************************************************)
EXTENDS Capture, TLAPS

Wraps   == {"none", "boot", "claim", "start", "poll", "finish", "report", "tidy", "gone"}
Tcps    == {"none", "starting", "open", "dying", "gone"}
Reasons == {"done", "signal", "signal-forced", "guard", "error", "orphan"}
Sights  == {"unlisted", "ours", "unknown", "bare", "gone"}
Places  == {"idle", "start", "launch", "verify", "clean", "stop", "force", "forced",
            "mark", "delete", "deleting", "held", "fresh", "remove", "forget", "forgetting", "drop"}

CapTypes ==
  /\ wrap \in [Caps -> Wraps] /\ why \in [Caps -> Reasons] /\ keeper \in [Caps -> BOOLEAN]
  /\ tcp \in [Caps -> Tcps] /\ files \in [Caps -> SUBSET Files]
  /\ done \in [Caps -> Reasons \cup {None}] /\ child \in [Caps -> BOOLEAN]

CallTypes ==
  call \in [Callers -> [at : Places, cap : Caps \cup {None}, view : [Caps -> Sights],
                        kills : SUBSET Procs]]

\* The wrapper is past its start: tcpdump's pid is on record or never will be.
Begun(c) == wrap[c] \notin {"none", "boot", "claim", "start"}

\* Nobody is left of the capture, as far as its record goes.
Dead(c) == wrap[c] = "gone" /\ (child[c] => ~TcpLives(c))

Closed(c) == Begun(c) /\ (child[c] => tcp[c] # "open")

-----------------------------------------------------------------------------
(* The invariant of one capture: which files there are at which stage of   *)
(* the wrapper, and what they say of the processes.                        *)

Stages(c) ==
  /\ wrap[c] \in {"none", "boot", "claim"} => tcp[c] = "none"
  /\ ~Begun(c) => ~child[c] /\ "tpid" \notin files[c] /\ done[c] = None
  /\ wrap[c] \in {"none", "boot"} => "pid" \notin files[c]
  /\ WrapLives(c) /\ wrap[c] # "boot" /\ "meta" \in files[c] => "pid" \in files[c]
  /\ wrap[c] \in {"report", "tidy"} => ~keeper[c]
  /\ wrap[c] = "tidy" /\ why[c] # "orphan" => ~TcpLives(c)

Children(c) ==
  /\ child[c] /\ "pid" \in files[c] => "tpid" \in files[c]
  /\ child[c] /\ "meta" \in files[c] /\ "tpid" \notin files[c] => ~TcpLives(c)
  /\ child[c] => tcp[c] # "starting"
  /\ "pcap" \in files[c] => tcp[c] \notin {"none", "starting"}
  /\ keeper[c] => TcpLives(c)
  /\ (child[c] \/ wrap[c] = "start") /\ ~keeper[c] => tcp[c] \notin {"starting", "open"}

Markers(c) ==
  /\ done[c] # None => Closed(c)
  /\ child[c] /\ done[c] \notin {None, "orphan"} =>
       ~TcpLives(c) \/ (done[c] = "signal-forced" /\ tcp[c] = "dying")

HostInv == CapTypes /\ \A c \in Caps : Stages(c) /\ Children(c) /\ Markers(c)

\* What a call under way knows: whom it signalled, and what its picture means.
CallKnows(k) ==
  LET c == call[k].cap IN
  /\ call[k].at \notin {"idle", "start"} => c \in Caps
  /\ call[k].at \in {"forced", "mark"} => Begun(c)
  /\ call[k].at = "forced" /\ child[c] /\ TcpLives(c) => "tcp" \in call[k].kills
  /\ call[k].at = "mark" => Closed(c)
  /\ \A d \in Caps : call[k].view[d] = "gone" => Dead(d)

CallInv == CallTypes /\ \A k \in Callers : CallKnows(k)

\* What the watcher's looks and its snapshot mean.
WatchInv ==
  /\ looks \in [Watchers -> [Caps -> Sights] \cup {None}]
  /\ \A w \in Watchers : looks[w] # None => \A c \in Caps : looks[w][c] = "gone" => Dead(c)
  /\ snap # None =>
       \A c \in Caps : snap[c] = "interrupted" /\ c \notin young =>
         Dead(c) /\ done[c] \in {None, "signal-forced"}

\* What never comes back: a wrapper that is past a stage, a timeout or tcpdump that ended.
Onward(c) ==
  /\ Begun(c) => Begun(c)' /\ child'[c] = child[c] /\ (~keeper[c] => ~keeper'[c])
  /\ wrap[c] = "gone" => wrap'[c] = "gone"
  /\ Begun(c) /\ child[c] =>
       /\ tcp[c] # "open" => tcp'[c] # "open"
       /\ ~TcpLives(c) => ~TcpLives(c)'
  /\ wrap[c] = "gone" /\ done[c] \in {None, "signal-forced"} => done'[c] \in {None, "signal-forced"}

HostKept == HostInv' /\ \A c \in Caps : Onward(c)

-----------------------------------------------------------------------------
(* Steps of the host.                                                      *)

LEMMA Rests == ASSUME HostInv, UNCHANGED <<wrap, why, keeper, tcp, files, done, child>> PROVE HostKept
BY DEF HostInv, CapTypes, Stages, Children, Markers, HostKept, Onward, Begun, Closed, TcpLives, WrapLives

\* One capture's step leaves the others alone.
LEMMA OneMoves ==
  ASSUME HostInv, NEW c \in Caps, CapTypes',
         \A q \in Caps \ {c} :
           /\ wrap'[q] = wrap[q] /\ why'[q] = why[q] /\ keeper'[q] = keeper[q] /\ tcp'[q] = tcp[q]
           /\ files'[q] = files[q] /\ done'[q] = done[q] /\ child'[q] = child[q],
         Stages(c)', Children(c)', Markers(c)', Onward(c)
  PROVE  HostKept
<1>1. ASSUME NEW q \in Caps \ {c} PROVE Stages(q)' /\ Children(q)' /\ Markers(q)' /\ Onward(q)
  BY <1>1 DEF HostInv, Stages, Children, Markers, Onward, Begun, Closed, TcpLives, WrapLives
<1> QED
  BY <1>1 DEF HostKept, HostInv

LEMMA WrapperStep == ASSUME HostInv, NEW c \in Caps, WrapperSteps(c) PROVE HostKept
<1> USE DEF HostInv, CapTypes, Stages, Children, Markers, Onward, Begun, Closed, TcpLives,
            WrapLives, Goes, Finishing, Wraps, Tcps, Reasons, Files
<1>1. CASE Claim(c)
  BY <1>1, OneMoves DEF Claim
<1>2. CASE Spawn(c)
  BY <1>2, OneMoves, ZenonT(30) DEF Spawn
<1>3. CASE Opened(c)
  <2>1. PICK found \in BOOLEAN : child' = [child EXCEPT ![c] = found]
    BY <1>3 DEF Opened
  <2>2. /\ wrap[c] = "start" /\ "pcap" \in files[c] /\ wrap' = [wrap EXCEPT ![c] = "poll"]
        /\ files' = [files EXCEPT ![c] = @ \cup {"tpid", "started"}]
        /\ UNCHANGED <<why, keeper, tcp, done>>
    BY <1>3 DEF Opened
  <2>3. CapTypes'
    BY <2>1, <2>2
  <2>4. Stages(c)' /\ Children(c)' /\ Markers(c)' /\ Onward(c)
    BY <2>1, <2>2
  <2> QED
    BY <2>1, <2>2, <2>3, <2>4, OneMoves
<1>4. CASE NoTcpdump(c) \/ StartFails(c) \/ GuardFires(c) \/ StopSeen(c)
  BY <1>4, OneMoves, SMTT(30) DEF NoTcpdump, StartFails, GuardFires, StopSeen
<1>5. ASSUME NEW reason \in {"done", "guard", "error"}, TcpWasOver(c, reason) PROVE HostKept
  BY <1>5, OneMoves DEF TcpWasOver
<1>6. CASE GroupOver(c)
  BY <1>6, OneMoves DEF GroupOver
<1>7. CASE GraceOver(c)
  <2>1. /\ wrap[c] = "finish" /\ wrap' = [wrap EXCEPT ![c] = "report"]
        /\ keeper' = [keeper EXCEPT ![c] = FALSE]
        /\ tcp' = [tcp EXCEPT ![c] = IF TcpLives(c) THEN "dying" ELSE tcp[c]]
        /\ why' = [why EXCEPT ![c] = IF why[c] = "signal" THEN "signal-forced" ELSE why[c]]
        /\ UNCHANGED <<files, done, child>>
    BY <1>7 DEF GraceOver
  <2>2. CapTypes'
    BY <2>1
  <2>3. Stages(c)' /\ Children(c)' /\ Markers(c)' /\ Onward(c)
    BY <2>1
  <2>4. \A q \in Caps \ {c} :
          /\ wrap'[q] = wrap[q] /\ why'[q] = why[q] /\ keeper'[q] = keeper[q] /\ tcp'[q] = tcp[q]
          /\ files'[q] = files[q] /\ done'[q] = done[q] /\ child'[q] = child[q]
    BY <2>1
  <2> HIDE DEF HostInv, CapTypes, Stages, Children, Markers, Onward
  <2> QED
    BY <2>2, <2>3, <2>4, OneMoves
<1>8. CASE Report(c)
  BY <1>8, OneMoves DEF Report
<1>9. CASE Tidy(c)
  BY <1>9, OneMoves DEF Tidy
<1> QED
  BY <1>1, <1>2, <1>3, <1>4, <1>5, <1>6, <1>7, <1>8, <1>9 DEF WrapperSteps

LEMMA TcpOpensStep == ASSUME HostInv, NEW c \in Caps, TcpOpens(c) PROVE HostKept
BY OneMoves DEF TcpOpens, HostInv, CapTypes, Stages, Children, Markers, Onward, Begun, Closed,
  TcpLives, WrapLives, Wraps, Tcps, Files

LEMMA TcpEndsStep == ASSUME HostInv, NEW c \in Caps, TcpEnds(c) PROVE HostKept
<1>1. /\ TcpLives(c) /\ tcp' = [tcp EXCEPT ![c] = "gone"] /\ keeper' = [keeper EXCEPT ![c] = FALSE]
      /\ UNCHANGED <<wrap, why, files, done, child>>
  BY DEF TcpEnds
<1>2. CapTypes'
  BY <1>1 DEF HostInv, CapTypes, Tcps
<1>3. Stages(c)' /\ Children(c)' /\ Markers(c)' /\ Onward(c)
  BY <1>1 DEF HostInv, CapTypes, Stages, Children, Markers, Onward, Begun, Closed, TcpLives, WrapLives
<1>4. \A q \in Caps \ {c} : tcp'[q] = tcp[q] /\ keeper'[q] = keeper[q]
  BY <1>1 DEF HostInv, CapTypes
<1> QED
  BY <1>1, <1>2, <1>3, <1>4, OneMoves

LEMMA KilledStep == ASSUME HostInv, NEW c \in Caps, Killed(c) PROVE HostKept
BY OneMoves DEF Killed, Goes, HostInv, CapTypes, Stages, Children, Markers, Onward, Begun, Closed,
  TcpLives, WrapLives, Wraps

LEMMA RebootStep == ASSUME HostInv, Reboot PROVE HostKept
<1> USE DEF HostInv, CapTypes, Stages, Children, Markers, Onward, Begun, Closed, TcpLives,
            WrapLives, Wraps, Tcps, Reasons
<1>1. CapTypes'
  BY DEF Reboot
<1>2. ASSUME NEW c \in Caps PROVE Stages(c)' /\ Children(c)' /\ Markers(c)' /\ Onward(c)
  BY <1>2 DEF Reboot
<1> QED
  BY <1>1, <1>2 DEF HostKept

\* Sidecar files are removed: the savefile of a capture that is closed, or was never begun.
LEMMA RemovedStep ==
  ASSUME HostInv, NEW c \in Caps, NEW which \in {Files, Files \ {"pcap"}}, Removed(c, which)
  PROVE  HostKept
<1> USE DEF HostInv, CapTypes, Stages, Children, Markers, Onward, Begun, Closed, TcpLives,
            WrapLives, Files, Removed
<1>1. CapTypes'
  OBVIOUS
<1>2. Stages(c)' /\ Children(c)' /\ Markers(c)' /\ Onward(c)
  OBVIOUS
<1> QED
  BY <1>1, <1>2, OneMoves

\* A file that says nothing of a process is added.
LEMMA AddedStep ==
  ASSUME HostInv, NEW c \in Caps, NEW f \in {"meta", "stop"}, f = "meta" => wrap[c] = "none",
         files' = [files EXCEPT ![c] = @ \cup {f}],
         UNCHANGED <<wrap, why, keeper, tcp, done, child>>
  PROVE  HostKept
BY OneMoves DEF HostInv, CapTypes, Stages, Children, Markers, Onward, Begun, Closed, TcpLives,
  WrapLives, Files

LEMMA LaunchStep == ASSUME HostInv, CallInv, NEW k \in Callers, Launch(k) PROVE HostKept
<1>1. call[k].cap \in Caps
  BY DEF Launch, CallInv, CallKnows
<1> QED
  BY <1>1, OneMoves DEF Launch, Goes, HostInv, CapTypes, Stages, Children, Markers, Onward, Begun,
    Closed, TcpLives, WrapLives, Wraps

LEMMA ForceTermStep ==
  ASSUME HostInv, CallInv, NEW k \in Callers, NEW kills, ForceTerm(k, kills)
  PROVE  HostKept
<1>1. PICK c \in Caps : c = call[k].cap
  BY DEF ForceTerm, CallInv, CallKnows
<1>2. CASE UNCHANGED <<wrap, why>>
  BY <1>2, Rests DEF ForceTerm
<1>3. CASE /\ wrap[c] \in {"claim", "start", "poll"} /\ why' = [why EXCEPT ![c] = "signal"]
           /\ wrap' = [wrap EXCEPT ![c] = IF wrap[c] = "claim" THEN "gone" ELSE "finish"]
  <2> UNCHANGED <<keeper, tcp, files, done, child>>
    BY DEF ForceTerm
  <2>1. CapTypes'
    BY <1>1, <1>3 DEF HostInv, CapTypes, Wraps, Reasons
  <2>2. Stages(c)' /\ Children(c)' /\ Markers(c)' /\ Onward(c)
    BY <1>1, <1>3 DEF HostInv, CapTypes, Stages, Children, Markers, Onward, Begun, Closed, TcpLives,
      WrapLives
  <2> QED
    BY <1>1, <1>3, <2>1, <2>2, OneMoves
<1> QED
  BY <1>1, <1>2, <1>3 DEF ForceTerm, Goes

LEMMA ForceKillStep == ASSUME HostInv, CallInv, NEW k \in Callers, ForceKill(k) PROVE HostKept
<1>0. PICK c \in Caps : c = call[k].cap
  BY DEF ForceKill, CallInv, CallKnows
<1> DEFINE own == {p \in {q \in call[k].kills : Exists(c, q)} : Lives(c, p)}
<1>1. Begun(c) /\ (child[c] /\ TcpLives(c) => "tcp" \in own)
  BY <1>0 DEF ForceKill, CallInv, CallKnows, Lives, Exists
<1>2. /\ wrap' = [wrap EXCEPT ![c] = IF "wrap" \in own THEN "gone" ELSE wrap[c]]
      /\ keeper' = [keeper EXCEPT ![c] = keeper[c] /\ "keeper" \notin own]
      /\ tcp' = [tcp EXCEPT ![c] = IF "tcp" \in own THEN "dying" ELSE tcp[c]]
      /\ UNCHANGED <<why, files, done, child>>
  BY <1>0 DEF ForceKill
<1>3. /\ "tcp" \in own => TcpLives(c)
      /\ "wrap" \in own => WrapLives(c)
  BY DEF Lives
<1> HIDE DEF own
<1>4. CapTypes'
  BY <1>1, <1>2 DEF HostInv, CapTypes, Wraps, Tcps
<1>5. Stages(c)' /\ Children(c)' /\ Markers(c)' /\ Onward(c)
  BY <1>1, <1>2, <1>3 DEF HostInv, CapTypes, Stages, Children, Markers, Onward, Begun, Closed,
    TcpLives, WrapLives
<1> QED
  BY <1>1, <1>2, <1>4, <1>5, OneMoves

\* A marker of a forced stop is written when nobody on record writes any more.
LEMMA ForceMarkStep == ASSUME HostInv, CallInv, NEW k \in Callers, ForceMark(k) PROVE HostKept
<1>0. PICK c \in Caps : c = call[k].cap
  BY DEF ForceMark, CallInv, CallKnows
<1>1. Closed(c)
  BY <1>0 DEF ForceMark, CallInv, CallKnows
<1>2. /\ done' = [done EXCEPT ![c] = IF done[c] = None THEN "signal-forced" ELSE done[c]]
      /\ UNCHANGED <<wrap, why, keeper, tcp, files, child>>
  BY <1>0 DEF ForceMark
<1>3. CapTypes'
  BY <1>1, <1>2 DEF HostInv, CapTypes, Reasons
<1>4. Stages(c)' /\ Children(c)' /\ Markers(c)' /\ Onward(c)
  BY <1>1, <1>2 DEF HostInv, CapTypes, Stages, Children, Markers, Onward, Begun, Closed, TcpLives,
    WrapLives, Tcps
<1> QED
  BY <1>1, <1>2, <1>3, <1>4, OneMoves

LEMMA CallsMoveHost == ASSUME HostInv, CallInv, NEW k \in Callers, CallSteps(k) PROVE HostKept
<1>1. call[k].at \notin {"idle", "start"} => call[k].cap \in Caps
  BY DEF CallInv, CallKnows
<1>2. CASE StartLook(k) \/ VerifyStarted(k) \/ ForceBusy(k) \/ DeleteLook(k) \/ DeleteCheck(k)
           \/ DeleteHeld(k) \/ DeleteFresh(k) \/ ForgetLook(k) \/ ForgetCheck(k) \/ GiveUp(k)
  BY <1>2, Rests DEF StartLook, VerifyStarted, ForceBusy, DeleteLook, DeleteCheck, DeleteHeld, DeleteFresh,
    ForgetLook, ForgetCheck, GiveUp, hostVars
<1>3. ASSUME NEW c \in Caps, StartMeta(k, c) PROVE HostKept
  BY <1>3, AddedStep DEF StartMeta
<1>4. CASE Launch(k)
  BY <1>4, LaunchStep
<1>5. CASE LaunchFails(k)
  BY <1>1, <1>5, RemovedStep DEF LaunchFails
<1>6. CASE VerifyFailed(k)
  BY <1>1, <1>6, AddedStep DEF VerifyFailed
<1>7. CASE StartClean(k)
  BY <1>1, <1>7, RemovedStep DEF StartClean
<1>8. ASSUME NEW c \in Caps, NEW place \in {"stop", "force", "delete", "forget"}, Resolve(k, c, place)
      PROVE  HostKept
  BY <1>8, Rests DEF Resolve, hostVars
<1>9. CASE StopMark(k)
  BY <1>1, <1>9, AddedStep DEF StopMark
<1>10. ASSUME NEW kills \in SUBSET Procs, ForceTerm(k, kills) PROVE HostKept
  BY <1>10, ForceTermStep
<1>11. CASE ForceKill(k)
  BY <1>11, ForceKillStep
<1>12. CASE ForceMark(k)
  BY <1>12, ForceMarkStep
<1>13. CASE DeleteRemove(k)
  BY <1>1, <1>13, RemovedStep DEF DeleteRemove
<1>14. CASE ForgetDrop(k)
  BY <1>1, <1>14, RemovedStep DEF ForgetDrop
<1> QED
  BY <1>2, <1>3, <1>4, <1>5, <1>6, <1>7, <1>8, <1>9, <1>10, <1>11, <1>12, <1>13, <1>14
     DEF CallSteps

LEMMA HostStep == ASSUME HostInv, CallInv, [Next]_vars PROVE HostKept
<1>1. CASE WatchNext \/ UNCHANGED vars
  BY <1>1, Rests DEF WatchNext, Connect, Disconnect, Look, Tell, vars, hostVars
<1>2. ASSUME NEW c \in Caps, WrapperSteps(c) \/ TcpOpens(c) \/ TcpEnds(c) \/ Killed(c) PROVE HostKept
  BY <1>2, WrapperStep, TcpOpensStep, TcpEndsStep, KilledStep
<1>3. ASSUME NEW c \in Caps, NEW who \in Strangers \cup {None}, Recycle(c, who) PROVE HostKept
  BY <1>3, Rests DEF Recycle
<1>4. CASE Reboot
  BY <1>4, RebootStep
<1>5. ASSUME NEW k \in Callers, CallSteps(k) PROVE HostKept
  BY <1>5, CallsMoveHost
<1> QED
  BY <1>1, <1>2, <1>3, <1>4, <1>5 DEF Next, CallsNext

-----------------------------------------------------------------------------
(* Steps of the calls.                                                     *)

\* What a listing sees: a capture none of whose pids is seen has ended, unless its wrapper
\* had not registered itself (capListScript's three-valued read of /proc).
LEMMA GoneIsDead == ASSUME HostInv, NEW c \in Caps PROVE Sight(c) \in Sights /\ (Sight(c) = "gone" => Dead(c))
BY DEF HostInv, CapTypes, Stages, Children, Sight, Sights, Dead, Recorded, Lives, PathFits, WrapLives, TcpLives,
  Wraps, Begun

LEMMA DeadStays == ASSUME HostKept, HostInv, NEW c \in Caps, Dead(c) PROVE Dead(c)'
BY DEF HostKept, HostInv, CapTypes, Onward, Dead, Begun

LEMMA ClosedStays == ASSUME HostKept, NEW c \in Caps, Closed(c) PROVE Closed(c)'
BY DEF HostKept, Onward, Closed

\* What a call knows stays true while others move.
LEMMA KnowsStays ==
  ASSUME HostInv, HostKept, NEW k \in Callers, CallKnows(k), call'[k] = call[k]
  PROVE  CallKnows(k)'
<1>1. CASE call[k].cap \in Caps
  <2>1. Onward(call[k].cap)
    BY <1>1 DEF HostKept
  <2> QED
    BY <1>1, <2>1, DeadStays, ClosedStays DEF CallKnows, Onward
<1>2. CASE call[k].cap \notin Caps
  BY <1>2, DeadStays DEF CallKnows
<1> QED
  BY <1>1, <1>2

\* A call that moves: the others know what they knew.
LEMMA OneCalls ==
  ASSUME HostInv, HostKept, CallInv, NEW k \in Callers, NEW new,
         new \in [at : Places, cap : Caps \cup {None}, view : [Caps -> Sights], kills : SUBSET Procs],
         call' = [call EXCEPT ![k] = new], CallKnows(k)'
  PROVE  CallInv'
<1>1. ASSUME NEW j \in Callers \ {k} PROVE CallKnows(j)'
  BY <1>1, KnowsStays DEF CallInv, CallTypes
<1> QED
  BY <1>1 DEF CallInv, CallTypes

\* A call goes to a place where it has no picture and has signalled nobody.
LEMMA PlainCall ==
  ASSUME HostInv, HostKept, CallInv, NEW k \in Callers, NEW c \in Caps, NEW place \in Places,
         place \notin {"forced", "mark"}, At(k, place, c)
  PROVE  CallInv'
<1> DEFINE new == [Idle EXCEPT !.at = place, !.cap = c]
<1>1. call' = [call EXCEPT ![k] = new] /\ call'[k] = new
  BY DEF At, CallInv, CallTypes
<1>2. Idle \in [at : Places, cap : Caps \cup {None}, view : [Caps -> Sights], kills : SUBSET Procs]
  BY DEF Idle, Places, Sights
<1>3. new \in [at : Places, cap : Caps \cup {None}, view : [Caps -> Sights], kills : SUBSET Procs]
  BY <1>2
<1>4. new.at = place /\ new.cap = c /\ new.view = Idle.view
  BY <1>2
<1>5. \A d \in Caps : Idle.view[d] # "gone"
  BY DEF Idle
<1> HIDE DEF new
<1>6. CallKnows(k)'
  BY <1>1, <1>4, <1>5 DEF CallKnows
<1> QED
  BY <1>1, <1>3, <1>6, OneCalls

LEMMA Returns == ASSUME HostInv, HostKept, CallInv, NEW k \in Callers, Return(k) PROVE CallInv'
<1>1. call' = [call EXCEPT ![k] = Idle] /\ call'[k] = Idle
  BY DEF Return, CallInv, CallTypes
<1>2. Idle \in [at : Places, cap : Caps \cup {None}, view : [Caps -> Sights], kills : SUBSET Procs]
  BY DEF Idle, Places, Sights
<1>3. CallKnows(k)'
  BY <1>1 DEF CallKnows, Idle
<1> QED
  BY <1>1, <1>2, <1>3, OneCalls

\* A call takes a picture, and changes nothing on the host.
LEMMA LooksKnow ==
  ASSUME HostInv, HostKept, CallInv, NEW k \in Callers, NEW place \in {"start", "deleting", "forgetting"},
         NEW c \in Caps \cup {None}, place # "start" => c \in Caps, Looks(k, place, c),
         UNCHANGED <<hide, hostVars>>
  PROVE  CallInv'
<1>1. PICK v \in Pictures :
        call' = [call EXCEPT ![k] = [at |-> place, cap |-> c, view |-> v, kills |-> {}]]
  BY DEF Looks
<1> DEFINE new == [at |-> place, cap |-> c, view |-> v, kills |-> {}]
<1>2. v \in [Caps -> Sights] /\ \A d \in Caps : v[d] = "gone" => Dead(d)
  <2>1. View \in [Caps -> Sights] /\ \A d \in Caps : View[d] = "gone" => Dead(d)
    BY GoneIsDead DEF View
  <2>2. CASE v = View
    BY <2>1, <2>2
  <2>3. CASE v = [d \in Caps |-> "unlisted"]
    BY <2>3 DEF Sights
  <2> QED
    BY <2>2, <2>3 DEF Pictures
<1>3. new \in [at : Places, cap : Caps \cup {None}, view : [Caps -> Sights], kills : SUBSET Procs]
  BY <1>2 DEF Places
<1>4. call' = [call EXCEPT ![k] = new] /\ call'[k] = new
  BY <1>1 DEF CallInv, CallTypes
<1>5. \A d \in Caps : new.view[d] = "gone" => Dead(d)'
  BY <1>2, DeadStays
<1>6. new.at = place /\ new.cap = c
  OBVIOUS
<1> HIDE DEF new
<1>7. CallKnows(k)'
  BY <1>4, <1>5, <1>6 DEF CallKnows
<1> QED
  BY <1>3, <1>4, <1>7, OneCalls

\* Whom a forced stop signals: a tcpdump on record that lives is among them.
LEMMA ForceTermKnows ==
  ASSUME HostInv, HostKept, CallInv, NEW k \in Callers, NEW kills, ForceTerm(k, kills)
  PROVE  CallInv'
<1>1. CASE kills = {}
  BY <1>1, Returns DEF ForceTerm
<1>2. CASE kills # {}
  <2>1. PICK c \in Caps : c = call[k].cap
    BY DEF ForceTerm, CallInv, CallKnows
  <2> DEFINE new == [call[k] EXCEPT !.at = "forced", !.kills = kills]
  <2>2. /\ kills \subseteq Procs /\ kills \subseteq Recorded(c)
        /\ \A p \in Recorded(c) : Lives(c, p) => p \in kills
    BY <2>1 DEF ForceTerm, Recorded, Procs, Confirmed, CommFits, PathFits
  <2>3. Begun(c)' /\ (child'[c] /\ TcpLives(c)' => "tcp" \in kills)
    <3>1. "pid" \in files[c] \/ "tpid" \in files[c]
      BY <1>2, <2>2 DEF Recorded
    <3>2. CASE Begun(c)
      <4>1. child[c] => "tpid" \in files[c]
        BY <3>1 DEF HostInv, Children
      <4>2. child[c] /\ TcpLives(c) => "tcp" \in kills
        BY <2>2, <4>1 DEF Recorded, Lives
      <4> QED
        BY <3>2, <4>2 DEF HostKept, Onward, HostInv, CapTypes, TcpLives
    <3>3. CASE ~Begun(c)
      <4>1. wrap[c] \in {"claim", "start"} /\ "pid" \in files[c] /\ ~child[c]
        BY <3>1, <3>3 DEF HostInv, CapTypes, Stages, Wraps, Begun
      <4>2. "wrap" \in kills
        BY <2>2, <4>1 DEF Recorded, Lives, WrapLives
      <4>3. Begun(c)' /\ ~child'[c]
        BY <2>1, <4>1, <4>2 DEF ForceTerm, Goes, Begun, HostInv, CapTypes
      <4> QED
        BY <4>3
    <3> QED
      BY <3>2, <3>3
  <2>4. call' = [call EXCEPT ![k] = new] /\ call'[k] = new
    BY <1>2 DEF ForceTerm, CallInv, CallTypes
  <2>5. call[k] \in [at : Places, cap : Caps \cup {None}, view : [Caps -> Sights], kills : SUBSET Procs]
    BY DEF CallInv, CallTypes
  <2>6. new \in [at : Places, cap : Caps \cup {None}, view : [Caps -> Sights], kills : SUBSET Procs]
    BY <2>2, <2>5 DEF Places
  <2>7. new.at = "forced" /\ new.cap = c /\ new.kills = kills /\ new.view = call[k].view
    BY <2>1, <2>5
  <2>8. \A d \in Caps : call[k].view[d] = "gone" => Dead(d)'
    BY DeadStays DEF CallInv, CallKnows
  <2> HIDE DEF new
  <2>9. CallKnows(k)'
    BY <2>3, <2>4, <2>7, <2>8 DEF CallKnows
  <2> QED
    BY <2>4, <2>6, <2>9, OneCalls
<1> QED
  BY <1>1, <1>2

LEMMA ForceKillKnows ==
  ASSUME HostInv, HostKept, CallInv, NEW k \in Callers, ForceKill(k)
  PROVE  CallInv'
<1>1. PICK c \in Caps : c = call[k].cap
  BY DEF ForceKill, CallInv, CallKnows
<1> DEFINE new == [call[k] EXCEPT !.at = "mark"]
<1>2. Closed(c)'
  <2>1. Begun(c) /\ (child[c] /\ TcpLives(c) => "tcp" \in call[k].kills)
    BY <1>1 DEF ForceKill, CallInv, CallKnows
  <2>2. CASE child[c] /\ TcpLives(c)
    <3>1. tcp'[c] = "dying"
      BY <1>1, <2>1, <2>2 DEF ForceKill, Lives, Exists, HostInv, CapTypes
    <3> QED
      BY <2>1, <3>1 DEF HostKept, Onward, Closed
  <2>3. CASE ~(child[c] /\ TcpLives(c))
    BY <2>1, <2>3 DEF HostKept, Onward, Closed, TcpLives
  <2> QED
    BY <2>2, <2>3
<1>3. call' = [call EXCEPT ![k] = new] /\ call'[k] = new
  BY DEF ForceKill, CallInv, CallTypes
<1>4. call[k] \in [at : Places, cap : Caps \cup {None}, view : [Caps -> Sights], kills : SUBSET Procs]
  BY DEF CallInv, CallTypes
<1>5. new \in [at : Places, cap : Caps \cup {None}, view : [Caps -> Sights], kills : SUBSET Procs]
  BY <1>4 DEF Places
<1>6. new.at = "mark" /\ new.cap = c /\ new.view = call[k].view
  BY <1>1, <1>4
<1>7. \A d \in Caps : call[k].view[d] = "gone" => Dead(d)'
  BY DeadStays DEF CallInv, CallKnows
<1> HIDE DEF new
<1>8. CallKnows(k)'
  BY <1>2, <1>3, <1>6, <1>7 DEF CallKnows, Closed
<1> QED
  BY <1>3, <1>5, <1>8, OneCalls

\* DeleteCheck and ForgetCheck go on without their picture.
LEMMA CallStep ==
  ASSUME HostInv, HostKept, CallInv, NEW k \in Callers, CallSteps(k)
  PROVE  CallInv'
<1>1. call[k].at \notin {"idle", "start"} => call[k].cap \in Caps
  BY DEF CallInv, CallKnows
<1>2. CASE LaunchFails(k) \/ VerifyStarted(k) \/ StartClean(k) \/ StopMark(k) \/ ForceBusy(k)
           \/ ForceMark(k) \/ DeleteRemove(k) \/ ForgetDrop(k) \/ GiveUp(k)
  BY <1>2, Returns DEF LaunchFails, VerifyStarted, StartClean, StopMark, ForceBusy, ForceMark,
    DeleteRemove, ForgetDrop, GiveUp
<1>3. CASE StartLook(k)
  BY <1>3, LooksKnow DEF StartLook
<1>4. ASSUME NEW c \in Caps, StartMeta(k, c) PROVE CallInv'
  BY <1>4, PlainCall DEF StartMeta, Places
<1>5. CASE Launch(k) \/ VerifyFailed(k) \/ DeleteCheck(k) \/ DeleteHeld(k) \/ DeleteFresh(k) \/ ForgetCheck(k)
  BY <1>1, <1>5, PlainCall DEF Launch, VerifyFailed, DeleteCheck, DeleteHeld, DeleteFresh, ForgetCheck, Places
<1>6. ASSUME NEW c \in Caps, NEW place \in {"stop", "force", "delete", "forget"}, Resolve(k, c, place)
      PROVE  CallInv'
  BY <1>6, PlainCall DEF Resolve, Places
<1>9. CASE DeleteLook(k) \/ ForgetLook(k)
  BY <1>1, <1>9, LooksKnow DEF DeleteLook, ForgetLook
<1>7. ASSUME NEW kills \in SUBSET Procs, ForceTerm(k, kills) PROVE CallInv'
  BY <1>7, ForceTermKnows
<1>8. CASE ForceKill(k)
  BY <1>8, ForceKillKnows
<1> QED
  BY <1>2, <1>3, <1>4, <1>5, <1>6, <1>7, <1>8, <1>9 DEF CallSteps

LEMMA CallsStep == ASSUME HostInv, HostKept, CallInv, [Next]_vars PROVE CallInv'
<1>1. CASE call' = call
  BY <1>1, KnowsStays DEF CallInv, CallTypes
<1>2. CASE Reboot
  <2>1. Idle \in [at : Places, cap : Caps \cup {None}, view : [Caps -> Sights], kills : SUBSET Procs]
    BY DEF Idle, Places, Sights
  <2>2. call' = [k \in Callers |-> Idle]
    BY <1>2 DEF Reboot
  <2>3. Idle.at = "idle" /\ \A d \in Caps : Idle.view[d] # "gone"
    BY DEF Idle
  <2> QED
    BY <2>1, <2>2, <2>3 DEF CallInv, CallTypes, CallKnows
<1>3. ASSUME NEW k \in Callers, CallSteps(k) PROVE CallInv'
  BY <1>3, CallStep
<1>4. ASSUME NEW c \in Caps, WrapperSteps(c) \/ TcpOpens(c) \/ TcpEnds(c) \/ Killed(c)
             \/ \E who \in Strangers \cup {None} : Recycle(c, who)
      PROVE  call' = call
  BY <1>4 DEF WrapperSteps, Claim, Spawn, Opened, NoTcpdump, StartFails, GuardFires, StopSeen, TcpWasOver,
    Finishing, GroupOver, GraceOver, Report, Tidy, TcpOpens, TcpEnds, Killed, Recycle
<1>5. WatchNext \/ UNCHANGED vars => call' = call
  BY DEF WatchNext, Connect, Disconnect, Look, Tell, vars
<1> QED
  BY <1>1, <1>2, <1>3, <1>4, <1>5 DEF Next, CallsNext

-----------------------------------------------------------------------------
(* The watcher.                                                            *)

LEMMA InterruptedIsGone ==
  ASSUME HostInv, NEW c \in Caps, NEW sight \in Sights, Status(c, sight) = "interrupted"
  PROVE  sight \in {"gone", "bare"} /\ done[c] = None
BY DEF HostInv, CapTypes, Reasons, Sights, Status

LEMMA WatchStep == ASSUME HostInv, HostKept, WatchInv, [Next]_vars PROVE WatchInv'
<1>1. CASE UNCHANGED <<looks, snap, young>>
  BY <1>1, DeadStays DEF WatchInv, HostKept, Onward, Dead
<1>2. CASE Cut
  BY <1>2 DEF WatchInv, Cut
<1>3. CASE Connect
  BY <1>3, <1>1 DEF Connect
<1>4. ASSUME NEW w \in Watchers, Look(w) PROVE WatchInv'
  <2>1. View \in [Caps -> Sights] /\ \A d \in Caps : View[d] = "gone" => Dead(d)
    BY GoneIsDead DEF View
  <2>2. looks' = [looks EXCEPT ![w] = View] /\ snap' = snap /\ young' = young
    BY <1>4 DEF Look
  <2>3. looks' \in [Watchers -> [Caps -> Sights] \cup {None}]
    BY <2>1, <2>2 DEF WatchInv
  <2>4. ASSUME NEW v \in Watchers, looks'[v] # None, NEW c \in Caps, looks'[v][c] = "gone" PROVE Dead(c)'
    BY <2>1, <2>2, <2>4, DeadStays DEF WatchInv
  <2>5. snap # None =>
          \A c \in Caps : snap[c] = "interrupted" /\ c \notin young =>
            Dead(c)' /\ done'[c] \in {None, "signal-forced"}
    BY DeadStays DEF WatchInv, HostKept, Onward, Dead
  <2> QED
    BY <2>2, <2>3, <2>4, <2>5 DEF WatchInv
<1>5. ASSUME NEW w \in Watchers, Tell(w) PROVE WatchInv'
  <2> DEFINE lite == [c \in Caps |-> IF looks[w][c] = "unlisted" THEN "unlisted"
                                     ELSE Status(c, looks[w][c])]
  <2>1. /\ looks' = [looks EXCEPT ![w] = None] /\ snap' = lite /\ UNCHANGED hostVars
        /\ young' = {c \in Caps : looks[w][c] = "bare"}
    BY <1>5 DEF Tell
  <2>2. looks[w] \in [Caps -> Sights] /\ looks[w] # None
    BY <1>5 DEF Tell, WatchInv
  <2>3. ASSUME NEW c \in Caps, lite[c] = "interrupted", c \notin young'
        PROVE  Dead(c)' /\ done'[c] = None
    <3>1. Status(c, looks[w][c]) = "interrupted"
      BY <2>3
    <3>2. looks[w][c] = "gone" /\ done[c] = None
      BY <2>1, <2>2, <2>3, <3>1, InterruptedIsGone
    <3>3. Dead(c)
      BY <2>2, <3>2 DEF WatchInv
    <3> QED
      BY <2>1, <3>2, <3>3, DeadStays DEF hostVars
  <2>4. /\ looks' \in [Watchers -> [Caps -> Sights] \cup {None}]
        /\ \A v \in Watchers : looks'[v] # None => looks'[v] = looks[v]
    BY <2>1 DEF WatchInv
  <2>5. \A v \in Watchers : looks[v] # None => \A c \in Caps : looks[v][c] = "gone" => Dead(c)'
    BY DeadStays DEF WatchInv
  <2>6. \A c \in Caps : snap'[c] = "interrupted" /\ c \notin young' =>
          Dead(c)' /\ done'[c] \in {None, "signal-forced"}
    BY <2>1, <2>3
  <2> QED
    BY <2>4, <2>5, <2>6 DEF WatchInv
<1>6. ASSUME NEW c \in Caps, WrapperSteps(c) \/ TcpOpens(c) \/ TcpEnds(c) \/ Killed(c)
             \/ \E who \in Strangers \cup {None} : Recycle(c, who)
      PROVE  UNCHANGED <<looks, snap, young>>
  BY <1>6 DEF WrapperSteps, Claim, Spawn, Opened, NoTcpdump, StartFails, GuardFires, StopSeen, TcpWasOver,
    Finishing, GroupOver, GraceOver, Report, Tidy, TcpOpens, TcpEnds, Killed, Recycle, watchVars
<1>7. ASSUME NEW k \in Callers, CallSteps(k) PROVE UNCHANGED <<looks, snap, young>>
  BY <1>7 DEF CallSteps, StartLook, StartMeta, Launch, LaunchFails, VerifyStarted, VerifyFailed, StartClean,
    Resolve, StopMark, ForceTerm, ForceBusy, ForceKill, ForceMark, DeleteLook, DeleteCheck, DeleteHeld,
    DeleteFresh, DeleteRemove, ForgetLook, ForgetCheck, ForgetDrop, GiveUp, watchVars
<1> QED
  BY <1>1, <1>2, <1>3, <1>4, <1>5, <1>6, <1>7
     DEF Next, CallsNext, WatchNext, Disconnect, Reboot, vars, watchVars

-----------------------------------------------------------------------------
(* The theorems.                                                           *)

CaptureInv == HostInv /\ CallInv /\ WatchInv

LEMMA InitInv == Init => CaptureInv
<1> SUFFICES ASSUME Init PROVE CaptureInv
  OBVIOUS
<1>1. HostInv
  BY DEF Init, HostInv, CapTypes, Stages, Children, Markers, Closed, Begun, TcpLives, WrapLives, Wraps,
    Tcps, Reasons
<1>2. CallInv
  <2>1. Idle \in [at : Places, cap : Caps \cup {None}, view : [Caps -> Sights], kills : SUBSET Procs]
    BY DEF Idle, Places, Sights
  <2>2. Idle.at = "idle" /\ \A d \in Caps : Idle.view[d] # "gone"
    BY DEF Idle
  <2> QED
    BY <2>1, <2>2 DEF Init, CallInv, CallTypes, CallKnows
<1>3. WatchInv
  BY DEF Init, WatchInv
<1> QED
  BY <1>1, <1>2, <1>3 DEF CaptureInv

LEMMA StepInv == ASSUME CaptureInv, [Next]_vars PROVE CaptureInv' /\ HostKept
BY HostStep, CallsStep, WatchStep DEF CaptureInv, HostKept

\* A marker is true of the tcpdump on record: whichever of the wrapper, the two phases of a
\* forced stop, a kill of the wrapper and a reboot come first (I6 in pcap.go and pcapd.sh).
THEOREM MarkersAreTrue == Spec => []DoneIsOver
<1>1. CaptureInv => DoneIsOver
  BY DEF CaptureInv, HostInv, Markers, DoneIsOver
<1> QED
  BY <1>1, InitInv, StepInv, PTL DEF Spec

\* The watcher says "interrupted" of a capture that had a pid on record when it looked
\* only if that capture died, although it reads pids and markers at different moments and
\* captures end, restart hosts and get deleted in between, and pids go to strangers.
THEOREM WatcherIsRight == Spec => []InterruptedDied
<1>1. CaptureInv => InterruptedDied
  BY DEF CaptureInv, WatchInv, Dead, WrapLives, TcpLives, InterruptedDied
<1> QED
  BY <1>1, InitInv, StepInv, PTL DEF Spec

\* A process on record that is gone for good.
Over(c, p) == Begun(c) /\ ~Lives(c, p) /\ (p = "tcp" => child[c])

\* Strangers have pids of processes that are over, and none that a forced stop has confirmed.
StrangersInv ==
  /\ ~hit
  /\ alien \in [Caps -> Strangers \cup {None}]
  /\ \A c \in Caps : alien[c] # None => Over(c, alien[c].proc)
  /\ \A k \in Callers, c \in Caps :
       call[k].at = "forced" /\ call[k].cap = c /\ alien[c] # None => alien[c].proc \notin call[k].kills

LEMMA OverStays ==
  ASSUME HostInv, HostKept, NEW c \in Caps, NEW p \in Procs, Over(c, p) PROVE Over(c, p)'
<1>1. CASE p = "wrap"
  BY <1>1 DEF Over, Lives, WrapLives, HostInv, CapTypes, Wraps, HostKept, Onward, Begun
<1>2. CASE p = "keeper"
  BY <1>2 DEF Over, Lives, HostKept, Onward
<1>3. CASE p = "tcp"
  BY <1>3 DEF Over, Lives, HostKept, Onward
<1> QED
  BY <1>1, <1>2, <1>3 DEF Procs

LEMMA StrangersRest ==
  ASSUME HostInv, HostKept, StrangersInv, ~hit', alien' \in [Caps -> Strangers \cup {None}],
         \A c \in Caps : alien'[c] = None \/ alien'[c] = alien[c],
         \A k \in Callers : call'[k].at = "forced" => call'[k] = call[k]
  PROVE  StrangersInv'
<1>1. ASSUME NEW c \in Caps, alien'[c] # None PROVE Over(c, alien[c].proc)' /\ alien'[c] = alien[c]
  <2>1. alien'[c] = alien[c] /\ alien[c] # None
    BY <1>1
  <2>2. PICK p \in Procs : p = alien[c].proc
    BY <2>1 DEF StrangersInv, Strangers
  <2>3. Over(c, p)'
    BY <2>1, <2>2, OverStays DEF StrangersInv
  <2> QED
    BY <2>1, <2>2, <2>3
<1> QED
  BY <1>1 DEF StrangersInv

\* Only a process that is over loses its pid, and not to a forced stop's cost.
LEMMA RecycleStrangers ==
  ASSUME HostInv, HostKept, CallInv, StrangersInv, "fastReuse" \notin Faults,
         NEW c \in Caps, NEW who \in Strangers \cup {None}, Recycle(c, who)
  PROVE  StrangersInv'
<1>1. /\ alien' = [alien EXCEPT ![c] = who] /\ hit' = hit /\ call' = call
      /\ UNCHANGED <<wrap, keeper, tcp, child>>
  BY DEF Recycle
<1>2. alien' \in [Caps -> Strangers \cup {None}] /\ \A d \in Caps \ {c} : alien'[d] = alien[d]
  BY <1>1 DEF StrangersInv
<1>3. alien'[c] = who
  BY <1>1 DEF StrangersInv
<1>4. who # None => Over(c, who.proc)
  BY DEF Recycle, Recorded, Over, Lives, WrapLives, TcpLives, HostInv, CapTypes, Wraps, Stages, Children, Begun
<1>5. \A d \in Caps, p \in Procs : Over(d, p) => Over(d, p)'
  BY OverStays
<1>6. ASSUME NEW d \in Caps, alien'[d] # None PROVE Over(d, alien[d].proc)'
  <2>1. PICK p \in Procs : p = alien'[d].proc
    BY <1>2, <1>6 DEF Strangers
  <2>2. Over(d, p)
    BY <1>2, <1>3, <1>4, <1>6, <2>1 DEF StrangersInv
  <2> QED
    BY <1>5, <2>1, <2>2
<1>7. ASSUME NEW k \in Callers, NEW d \in Caps, call'[k].at = "forced", call'[k].cap = d, alien'[d] # None
      PROVE  alien'[d].proc \notin call'[k].kills
  BY <1>1, <1>2, <1>3, <1>7 DEF Recycle, StrangersInv
<1> QED
  BY <1>1, <1>2, <1>6, <1>7 DEF StrangersInv

\* No stranger passes both checks, so the confirmed pids are the capture's.
LEMMA ForceTermStrangers ==
  ASSUME HostInv, HostKept, CallInv, StrangersInv, "examiner" \notin Kinds,
         NEW k \in Callers, NEW kills, ForceTerm(k, kills)
  PROVE  StrangersInv'
<1>1. PICK c \in Caps : c = call[k].cap
  BY DEF ForceTerm, CallInv, CallKnows
<1>2. kills = {p \in Recorded(c) : Confirmed(c, p)} /\ alien' = alien
      /\ hit' = (hit \/ \E p \in kills : ~Lives(c, p))
  BY <1>1 DEF ForceTerm
<1>3. ASSUME NEW p \in kills PROVE Lives(c, p)
  BY <1>2, <1>3 DEF Confirmed, CommFits, PathFits, Stranger, StrangersInv, Strangers
<1>4. ~hit' /\ (alien[c] # None => alien[c].proc \notin kills)
  BY <1>2, <1>3 DEF StrangersInv, Over
<1>5. \A j \in Callers \ {k} : call'[j] = call[j]
  BY DEF ForceTerm, Return, CallInv, CallTypes
<1>6. call'[k].at = "forced" => call'[k].kills = kills /\ call'[k].cap = c
  BY <1>1 DEF ForceTerm, Return, Idle, CallInv, CallTypes
<1>7. \A d \in Caps : alien'[d] # None => Over(d, alien[d].proc)'
  <2> SUFFICES ASSUME NEW d \in Caps, alien'[d] # None PROVE Over(d, alien[d].proc)'
    OBVIOUS
  <2>1. PICK p \in Procs : p = alien[d].proc
    BY <1>2 DEF StrangersInv, Strangers
  <2> QED
    BY <1>2, <2>1, OverStays DEF StrangersInv
<1>8. ASSUME NEW j \in Callers, NEW d \in Caps, call'[j].at = "forced", call'[j].cap = d, alien'[d] # None
      PROVE  alien'[d].proc \notin call'[j].kills
  BY <1>2, <1>4, <1>5, <1>6, <1>8 DEF StrangersInv
<1> QED
  BY <1>2, <1>4, <1>7, <1>8 DEF StrangersInv

\* The pids a forced stop kills are those it confirmed, and none of them is a stranger's.
LEMMA ForceKillStrangers ==
  ASSUME HostInv, HostKept, CallInv, StrangersInv, NEW k \in Callers, ForceKill(k)
  PROVE  StrangersInv'
<1>1. PICK c \in Caps : c = call[k].cap
  BY DEF ForceKill, CallInv, CallKnows
<1>2. \A p \in call[k].kills : Exists(c, p) => Lives(c, p)
  BY <1>1 DEF ForceKill, StrangersInv, Exists, Stranger
<1>3. ~hit' /\ alien' = alien
  BY <1>1, <1>2 DEF ForceKill, StrangersInv
<1>4. \A j \in Callers : call'[j].at = "forced" => call'[j] = call[j]
  BY DEF ForceKill, CallInv, CallTypes
<1> QED
  BY <1>3, <1>4, StrangersRest DEF StrangersInv

LEMMA StrangersStep ==
  ASSUME HostInv, HostKept, CallInv, StrangersInv, [Next]_vars,
         "examiner" \notin Kinds, "fastReuse" \notin Faults
  PROVE  StrangersInv'
<1>1. ASSUME UNCHANGED <<hit, alien, call>> PROVE StrangersInv'
  BY <1>1, StrangersRest DEF StrangersInv
<1>2. CASE WatchNext \/ UNCHANGED vars
  BY <1>1, <1>2 DEF WatchNext, Connect, Disconnect, Look, Tell, vars, hostVars
<1>3. ASSUME NEW c \in Caps, WrapperSteps(c) \/ TcpOpens(c) \/ TcpEnds(c) \/ Killed(c)
      PROVE  StrangersInv'
  BY <1>1, <1>3 DEF WrapperSteps, Claim, Spawn, Opened, NoTcpdump, StartFails, GuardFires, StopSeen, TcpWasOver,
    Finishing, GroupOver, GraceOver, Report, Tidy, TcpOpens, TcpEnds, Killed
<1>4. ASSUME NEW c \in Caps, NEW who \in Strangers \cup {None}, Recycle(c, who) PROVE StrangersInv'
  BY <1>4, RecycleStrangers
<1>5. CASE Reboot
  BY <1>5 DEF Reboot, StrangersInv, Idle
<1>6. ASSUME NEW k \in Callers, CallSteps(k) PROVE StrangersInv'
  <2>1. ASSUME ~hit', alien' \in [Caps -> Strangers \cup {None}],
               \A c \in Caps : alien'[c] = None \/ alien'[c] = alien[c],
               call'[k].at # "forced", \A j \in Callers \ {k} : call'[j] = call[j]
        PROVE  StrangersInv'
    BY <2>1, StrangersRest
  <2>2. ASSUME Return(k) PROVE call'[k].at # "forced" /\ \A j \in Callers \ {k} : call'[j] = call[j]
    BY <2>2 DEF Return, Idle, CallInv, CallTypes
  <2>3. ASSUME NEW c, NEW place \in Places \ {"forced"}, At(k, place, c)
        PROVE  call'[k].at # "forced" /\ \A j \in Callers \ {k} : call'[j] = call[j]
    BY <2>3 DEF At, Idle, CallInv, CallTypes
  <2>4. ASSUME NEW c, NEW place \in Places \ {"forced"}, Looks(k, place, c)
        PROVE  call'[k].at # "forced" /\ \A j \in Callers \ {k} : call'[j] = call[j]
    BY <2>4 DEF Looks, CallInv, CallTypes
  <2>5. CASE LaunchFails(k) \/ StartClean(k) \/ DeleteRemove(k) \/ ForgetDrop(k)
    BY <2>1, <2>2, <2>5 DEF LaunchFails, StartClean, DeleteRemove, ForgetDrop, Removed, StrangersInv
  <2>6. CASE VerifyStarted(k) \/ StopMark(k) \/ ForceBusy(k) \/ ForceMark(k) \/ GiveUp(k)
    BY <2>1, <2>2, <2>6 DEF VerifyStarted, StopMark, ForceBusy, ForceMark, GiveUp, hostVars, StrangersInv
  <2>7. CASE Launch(k) \/ VerifyFailed(k) \/ DeleteCheck(k) \/ DeleteHeld(k) \/ DeleteFresh(k) \/ ForgetCheck(k)
    BY <2>1, <2>3, <2>7 DEF Launch, VerifyFailed, DeleteCheck, DeleteHeld, DeleteFresh, ForgetCheck, hostVars,
      StrangersInv, Places
  <2>8. CASE StartLook(k) \/ DeleteLook(k) \/ ForgetLook(k)
    BY <2>1, <2>4, <2>8 DEF StartLook, DeleteLook, ForgetLook, hostVars, StrangersInv, Places
  <2>9. ASSUME NEW c \in Caps, StartMeta(k, c) PROVE StrangersInv'
    BY <2>1, <2>3, <2>9 DEF StartMeta, StrangersInv, Places
  <2>10. ASSUME NEW c \in Caps, NEW place \in {"stop", "force", "delete", "forget"}, Resolve(k, c, place)
         PROVE  StrangersInv'
    BY <2>1, <2>3, <2>10 DEF Resolve, hostVars, StrangersInv, Places
  <2>11. ASSUME NEW kills \in SUBSET Procs, ForceTerm(k, kills) PROVE StrangersInv'
    BY <2>11, ForceTermStrangers
  <2>12. CASE ForceKill(k)
    BY <2>12, ForceKillStrangers
  <2> QED
    BY <1>6, <2>5, <2>6, <2>7, <2>8, <2>9, <2>10, <2>11, <2>12 DEF CallSteps
<1> QED
  BY <1>2, <1>3, <1>4, <1>5, <1>6 DEF Next, CallsNext

\* Neither signal of a forced stop reaches a process of somebody else (I5), although strangers
\* get pids that are still on record, at any time, and may have the capture's name or its path:
\* where none has both, and none gets a pid within the five seconds between the two signals.
THEOREM StopsOnlyOurs ==
  ASSUME "examiner" \notin Kinds, "fastReuse" \notin Faults
  PROVE  Spec => []OthersUntouched
<1>1. Init => StrangersInv
  BY DEF Init, StrangersInv, Idle
<1>2. CaptureInv /\ StrangersInv /\ [Next]_vars => StrangersInv'
  BY HostStep, StrangersStep DEF CaptureInv
<1>3. CaptureInv /\ [Next]_vars => CaptureInv'
  BY StepInv
<1>4. StrangersInv => OthersUntouched
  BY DEF StrangersInv, OthersUntouched
<1> QED
  BY <1>1, <1>2, <1>3, <1>4, InitInv, PTL DEF Spec

-----------------------------------------------------------------------------
(* Deletes.                                                                *)

Launches(k, c) == call[k].at = "launch" /\ call[k].cap = c

\* A tcpdump of the capture that is on record no longer writes, or there will never be one.
Shut(c) == Closed(c) \/ (wrap[c] = "none" /\ \A j \in Callers : ~Launches(j, c))

\* What a call that launches or removes knows of its capture: a delete that no longer finds
\* the meta file, or did not see it, is about a capture that somebody else removed.
Deletes(k) ==
  LET c == call[k].cap IN
  /\ call[k].at = "launch" => wrap[c] = "none" /\ \A j \in Callers : Launches(j, c) => j = k
  /\ call[k].at = "clean" => Closed(c)
  /\ call[k].at = "delete" /\ "meta" \notin files[c] => Shut(c)
  /\ call[k].at = "deleting" /\ call[k].view[c] = "unlisted" => Shut(c)
  /\ call[k].at \in {"held", "fresh", "remove"} => Shut(c)

Deleting == {"delete", "deleting", "held", "fresh", "remove"}

\* A meta file is only removed with its capture shut, or with no delete about to look for it.
MetaKept ==
  \A c \in Caps : "meta" \in files[c] /\ "meta" \notin files'[c] =>
    Shut(c)' \/ \A j \in Callers : call'[j].cap = c => call'[j].at # "delete"

DeletesInv == NothingOpenDeleted /\ \A k \in Callers : Deletes(k)

LEMMA ShutStays ==
  ASSUME HostKept, NEW c \in Caps, Shut(c), wrap[c] = "none" => wrap'[c] = "none",
         \A j \in Callers : Launches(j, c)' => Launches(j, c)
  PROVE  Shut(c)'
BY ClosedStays DEF Shut, Launches

\* A call goes elsewhere than to one of these places, and launches nothing.
LEMMA OthersDelete ==
  ASSUME CallInv, HostKept, DeletesInv, NEW k \in Callers, MetaKept,
         \A j \in Callers \ {k} : call'[j] = call[j],
         call'[k].at \notin {"launch", "clean"} \cup Deleting,
         \A c \in Caps : wrap[c] = "none" => wrap'[c] = "none"
  PROVE  \A j \in Callers : Deletes(j)'
<1>1. ASSUME NEW j \in Callers \ {k} PROVE Deletes(j)'
  <2>1. call[j].at \in {"launch", "clean"} \cup Deleting => call[j].cap \in Caps
    BY <1>1 DEF CallInv, CallKnows, Deleting
  <2>2. \A i \in Callers, d \in Caps : Launches(i, d)' => Launches(i, d)
    BY DEF Launches
  <2>3. \A d \in Caps : Shut(d) => Shut(d)'
    BY <2>2, ShutStays
  <2>4. call'[j] = call[j] /\ Deletes(j)
    BY DEF DeletesInv
  <2>5. CASE call[j].at \in {"launch", "clean"}
    BY <2>1, <2>2, <2>4, <2>5, ClosedStays DEF Deletes
  <2>6. CASE call[j].at \in Deleting
    BY <2>1, <2>3, <2>4, <2>6 DEF Deletes, Deleting, MetaKept
  <2> QED
    BY <2>4, <2>5, <2>6 DEF Deletes, Deleting
<1>2. Deletes(k)'
  BY DEF Deletes, Deleting
<1> QED
  BY <1>1, <1>2

LEMMA MetaStep ==
  ASSUME CallInv, HostInv, HostKept, DeletesInv, [Next]_vars, "forgotten" \notin Faults
  PROVE  MetaKept
<1>1. ASSUME \A c \in Caps : "meta" \in files[c] => "meta" \in files'[c] PROVE MetaKept
  BY <1>1 DEF MetaKept
<1>2. CASE files' = files
  BY <1>1, <1>2
<1>3. CASE WatchNext \/ UNCHANGED vars \/ Reboot
  BY <1>2, <1>3 DEF WatchNext, Connect, Disconnect, Look, Tell, vars, hostVars, Reboot
<1>4. ASSUME NEW c \in Caps, WrapperSteps(c) \/ TcpOpens(c) \/ TcpEnds(c) \/ Killed(c)
             \/ \E who \in Strangers \cup {None} : Recycle(c, who)
      PROVE  MetaKept
  <2>1. CASE Claim(c) \/ Opened(c) \/ Tidy(c) \/ TcpOpens(c)
    <3>1. files \in [Caps -> SUBSET Files]
      BY DEF HostInv, CapTypes
    <3>2. \A d \in Caps : "meta" \in files[d] => "meta" \in files'[d]
      <4>1. CASE Claim(c)
        BY <3>1, <4>1 DEF Claim
      <4>2. CASE Opened(c)
        BY <3>1, <4>2 DEF Opened
      <4>3. CASE Tidy(c)
        BY <3>1, <4>3 DEF Tidy
      <4>4. CASE TcpOpens(c)
        BY <3>1, <4>4 DEF TcpOpens
      <4> QED
        BY <2>1, <4>1, <4>2, <4>3, <4>4
    <3> QED
      BY <1>1, <3>2
  <2>2. CASE files' = files
    BY <1>2, <2>2
  <2> QED
    BY <1>4, <2>1, <2>2 DEF WrapperSteps, Spawn, NoTcpdump, StartFails, GuardFires, StopSeen, TcpWasOver,
      Finishing, GroupOver, GraceOver, Report, TcpEnds, Killed, Recycle
<1>5. ASSUME NEW k \in Callers, CallSteps(k) PROVE MetaKept
  <2>1. call[k].at \notin {"idle", "start"} => call[k].cap \in Caps
    BY DEF CallInv, CallKnows
  <2>2. ASSUME Return(k) PROVE call'[k].at = "idle" /\ \A j \in Callers \ {k} : call'[j] = call[j]
    BY <2>2 DEF Return, Idle, CallInv, CallTypes
  <2>3. ASSUME Removed(call[k].cap, Files) \/ Removed(call[k].cap, Files \ {"pcap"})
        PROVE  \A d \in Caps \ {call[k].cap} : files'[d] = files[d]
    BY <2>3 DEF Removed, HostInv, CapTypes
  <2>4. CASE LaunchFails(k)
    <3>1. PICK c \in Caps : c = call[k].cap
      BY <2>1, <2>4 DEF LaunchFails
    <3>2. wrap[c] = "none" /\ (\A j \in Callers : Launches(j, c) => j = k) /\ wrap' = wrap
      BY <2>4, <3>1 DEF LaunchFails, Removed, DeletesInv, Deletes
    <3>3. \A j \in Callers : ~Launches(j, c)'
      BY <2>2, <2>4, <3>2 DEF LaunchFails, Launches
    <3> QED
      BY <2>3, <2>4, <3>1, <3>2, <3>3 DEF LaunchFails, MetaKept, Shut
  <2>5. CASE StartClean(k) \/ DeleteRemove(k)
    <3>1. PICK c \in Caps : c = call[k].cap
      BY <2>1, <2>5 DEF StartClean, DeleteRemove
    <3>2. Shut(c) /\ wrap' = wrap
      BY <2>5, <3>1 DEF StartClean, DeleteRemove, Removed, DeletesInv, Deletes, Shut
    <3>3. \A j \in Callers : Launches(j, c)' => Launches(j, c)
      BY <2>2, <2>5 DEF StartClean, DeleteRemove, Launches
    <3>4. Shut(c)'
      BY <3>2, <3>3, ShutStays
    <3> QED
      BY <2>3, <2>5, <3>1, <3>4 DEF StartClean, DeleteRemove, MetaKept
  <2>6. CASE ForgetDrop(k)
    <3>1. \A j \in Callers : call'[j].cap = call[k].cap => call'[j].at # "delete"
      BY <2>2, <2>6 DEF ForgetDrop
    <3> QED
      BY <2>1, <2>3, <2>6, <3>1 DEF ForgetDrop, MetaKept
  <2>7. CASE VerifyFailed(k) \/ StopMark(k)
    BY <1>1, <2>1, <2>7 DEF VerifyFailed, StopMark, HostInv, CapTypes
  <2>8. ASSUME NEW c \in Caps, StartMeta(k, c) PROVE MetaKept
    BY <1>1, <2>8 DEF StartMeta, HostInv, CapTypes
  <2>9. CASE StartLook(k) \/ Launch(k) \/ VerifyStarted(k) \/ ForceBusy(k) \/ ForceKill(k) \/ ForceMark(k)
             \/ DeleteLook(k) \/ DeleteCheck(k) \/ DeleteHeld(k) \/ DeleteFresh(k) \/ ForgetLook(k)
             \/ ForgetCheck(k) \/ GiveUp(k)
    BY <1>2, <2>9 DEF StartLook, Launch, VerifyStarted, ForceBusy, ForceKill, ForceMark, DeleteLook,
      DeleteCheck, DeleteHeld, DeleteFresh, ForgetLook, ForgetCheck, GiveUp, hostVars
  <2>10. ASSUME NEW c \in Caps, NEW place \in {"stop", "force", "delete", "forget"}, Resolve(k, c, place)
         PROVE  MetaKept
    BY <1>2, <2>10 DEF Resolve, hostVars
  <2>11. ASSUME NEW kills \in SUBSET Procs, ForceTerm(k, kills) PROVE MetaKept
    BY <1>2, <2>11 DEF ForceTerm
  <2> QED
    BY <1>5, <2>4, <2>5, <2>6, <2>7, <2>8, <2>9, <2>10, <2>11 DEF CallSteps
<1> QED
  BY <1>1, <1>3, <1>4, <1>5 DEF Next, CallsNext

LEMMA LaunchDeletes ==
  ASSUME CallInv, HostInv, HostKept, DeletesInv, NEW k \in Callers, Launch(k)
  PROVE  \A j \in Callers : Deletes(j)'
<1>1. PICK c \in Caps : c = call[k].cap
  BY DEF Launch, CallInv, CallKnows
<1>2. /\ call' = [call EXCEPT ![k] = [Idle EXCEPT !.at = "verify", !.cap = c]]
      /\ wrap' = [wrap EXCEPT ![c] = "boot"] /\ files' = files
      /\ Launches(k, c)
  BY <1>1 DEF Launch, At, Goes, Launches
<1>3. call'[k].at = "verify" /\ \A j \in Callers \ {k} : call'[j] = call[j]
  BY <1>2 DEF CallInv, CallTypes, Idle
<1>4. \A d \in Caps \ {c} : wrap'[d] = wrap[d]
  BY <1>2 DEF HostInv, CapTypes
<1>5. \A i \in Callers, d \in Caps : Launches(i, d)' => Launches(i, d)
  BY <1>3 DEF Launches
<1>6. ASSUME NEW d \in Caps, Shut(d) PROVE Shut(d)'
  <2>1. CASE d = c
    BY <1>2, <1>6, <2>1, ClosedStays DEF Shut
  <2>2. CASE d # c
    BY <1>4, <1>5, <1>6, <2>2, ShutStays
  <2> QED
    BY <2>1, <2>2
<1>7. ASSUME NEW j \in Callers \ {k} PROVE Deletes(j)'
  <2>1. call'[j] = call[j] /\ Deletes(j)
    BY <1>3 DEF DeletesInv
  <2>2. call[j].at \notin {"idle", "start"} => call[j].cap \in Caps
    BY <1>7 DEF CallInv, CallKnows
  <2>3. CASE call[j].at = "launch"
    <3>1. call[j].cap # c
      BY <1>2, <2>1, <2>3 DEF Deletes, Launches
    <3> QED
      BY <1>4, <1>5, <2>1, <2>2, <2>3, <3>1 DEF Deletes
  <2>4. CASE call[j].at = "clean"
    BY <2>1, <2>2, <2>4, ClosedStays DEF Deletes
  <2>5. CASE call[j].at \in Deleting
    BY <1>2, <1>6, <2>1, <2>2, <2>5 DEF Deletes, Deleting
  <2> QED
    BY <2>1, <2>3, <2>4, <2>5 DEF Deletes, Deleting
<1> QED
  BY <1>3, <1>7 DEF Deletes

\* The new capture's id is nobody else's.
LEMMA MetaDeletes ==
  ASSUME CallInv, HostInv, HostKept, DeletesInv, NEW k \in Callers, NEW c \in Caps, StartMeta(k, c)
  PROVE  \A j \in Callers : Deletes(j)'
<1>1. /\ call' = [call EXCEPT ![k] = [Idle EXCEPT !.at = "launch", !.cap = c]]
      /\ \A j \in Callers : call[j].cap # c
      /\ wrap[c] = "none" /\ wrap' = wrap /\ files' = [files EXCEPT ![c] = @ \cup {"meta"}]
  BY DEF StartMeta, At
<1>2. call'[k].at = "launch" /\ call'[k].cap = c /\ \A j \in Callers \ {k} : call'[j] = call[j]
  BY <1>1 DEF CallInv, CallTypes, Idle
<1>3. Deletes(k)'
  BY <1>1, <1>2 DEF Deletes, Launches
<1>4. \A d \in Caps \ {c} : files'[d] = files[d]
  BY <1>1 DEF HostInv, CapTypes
<1>5. ASSUME NEW j \in Callers \ {k} PROVE Deletes(j)'
  <2>1. call[j].at \notin {"idle", "start"} => call[j].cap \in Caps
    BY <1>5 DEF CallInv, CallKnows
  <2>2. call'[j] = call[j] /\ call[j].cap # c /\ Deletes(j)
    BY <1>1, <1>2 DEF DeletesInv
  <2>3. \A i \in Callers, d \in Caps \ {c} : Launches(i, d)' => Launches(i, d)
    BY <1>2 DEF Launches
  <2>4. \A d \in Caps \ {c} : Shut(d) => Shut(d)'
    BY <1>1, <2>3, ShutStays
  <2>5. CASE call[j].at \in {"launch", "clean"}
    BY <1>1, <2>1, <2>2, <2>3, <2>5, ClosedStays DEF Deletes
  <2>6. CASE call[j].at \in Deleting
    BY <1>4, <2>1, <2>2, <2>4, <2>6 DEF Deletes, Deleting
  <2> QED
    BY <2>2, <2>5, <2>6 DEF Deletes, Deleting
<1> QED
  BY <1>3, <1>5

\* One call goes on with what it knows; nothing happens to the wrappers, and nobody launches.
LEMMA GoesToDelete ==
  ASSUME CallInv, HostInv, HostKept, DeletesInv, NEW k \in Callers, MetaKept, wrap' = wrap,
         \A j \in Callers \ {k} : call'[j] = call[j], call'[k].at # "launch", Deletes(k)'
  PROVE  \A j \in Callers : Deletes(j)'
<1>1. \A i \in Callers, d \in Caps : Launches(i, d)' => Launches(i, d)
  BY DEF Launches
<1>2. \A d \in Caps : Shut(d) => Shut(d)'
  BY <1>1, ShutStays
<1>3. ASSUME NEW j \in Callers \ {k} PROVE Deletes(j)'
  <2>1. call[j].at \notin {"idle", "start"} => call[j].cap \in Caps
    BY <1>3 DEF CallInv, CallKnows
  <2>2. call'[j] = call[j] /\ Deletes(j)
    BY DEF DeletesInv
  <2>3. CASE call[j].at \in {"launch", "clean"}
    BY <1>1, <2>1, <2>2, <2>3, ClosedStays DEF Deletes
  <2>4. CASE call[j].at \in Deleting
    BY <1>2, <2>1, <2>2, <2>4 DEF Deletes, Deleting, MetaKept
  <2> QED
    BY <2>2, <2>3, <2>4 DEF Deletes, Deleting
<1> QED
  BY <1>3

\* What a delete's listing means: a capture that it does not have is shut.
LEMMA DeleteLooks ==
  ASSUME CallInv, HostInv, HostKept, DeletesInv, NEW k \in Callers, MetaKept, DeleteLook(k),
         "listFails" \notin Faults
  PROVE  \A j \in Callers : Deletes(j)'
<1>1. PICK c \in Caps : c = call[k].cap
  BY DEF DeleteLook, CallInv, CallKnows
<1>2. call' = [call EXCEPT ![k] = [at |-> "deleting", cap |-> c, view |-> View, kills |-> {}]]
  BY <1>1 DEF DeleteLook, Looks, Pictures
<1>3. /\ call'[k].at = "deleting" /\ call'[k].cap = c /\ call'[k].view = View
      /\ \A j \in Callers \ {k} : call'[j] = call[j]
  BY <1>2 DEF CallInv, CallTypes
<1>4. View[c] = "unlisted" => "meta" \notin files[c]
  BY DEF View, Sight
<1>5. View[c] = "unlisted" => Shut(c)
  BY <1>1, <1>4 DEF DeleteLook, DeletesInv, Deletes
<1>6. wrap' = wrap
  BY DEF DeleteLook, hostVars
<1>7. \A j \in Callers : Launches(j, c)' => Launches(j, c)
  BY <1>3 DEF Launches
<1>8. View[c] = "unlisted" => Shut(c)'
  BY <1>5, <1>6, <1>7, ShutStays
<1>9. Deletes(k)'
  BY <1>3, <1>8 DEF Deletes
<1> QED
  BY <1>3, <1>6, <1>9, GoesToDelete

\* A delete that its look and its guards allow finds no tcpdump at work.
LEMMA CheckCloses ==
  ASSUME CallInv, HostInv, DeletesInv, "early" \notin Faults,
         NEW k \in Callers, NEW c \in Caps, c = call[k].cap, DeleteCheck(k)
  PROVE  Shut(c)
<1>1. CASE call[k].view[c] = "unlisted"
  BY <1>1 DEF DeleteCheck, DeletesInv, Deletes
<1>2. CASE done[c] # None
  BY <1>2 DEF HostInv, Markers, Shut
<1>3. CASE done[c] = None /\ call[k].view[c] = "gone"
  BY <1>3 DEF CallInv, CallKnows, Dead, Shut, Closed, Begun, TcpLives
<1>4. CASE done[c] = None /\ call[k].view[c] = "bare"
  <2>1. ~WrapLives(c) /\ ~TcpLives(c) /\ \A j \in Callers : ~Launches(j, c)
    BY <1>4 DEF DeleteCheck, Comes, Launches
  <2> QED
    BY <2>1 DEF HostInv, CapTypes, Wraps, WrapLives, TcpLives, Shut, Closed, Begun
<1>5. CASE done[c] = None /\ call[k].view[c] \notin {"unlisted", "gone", "bare"}
  <2>1. Status(c, call[k].view[c]) \in Active
    BY <1>5 DEF Status, Active
  <2> QED
    BY <1>5, <2>1 DEF DeleteCheck, Active
<1> QED
  BY <1>1, <1>2, <1>3, <1>4, <1>5

LEMMA DeletesStep ==
  ASSUME CallInv, HostInv, HostKept, DeletesInv, [Next]_vars,
         "slowStart" \notin Faults, "listFails" \notin Faults, "early" \notin Faults, "forgotten" \notin Faults
  PROVE  \A j \in Callers : Deletes(j)'
<1>0. MetaKept
  BY MetaStep
<1>1. ASSUME call' = call, \A c \in Caps : wrap[c] = "none" => wrap'[c] = "none"
      PROVE  \A j \in Callers : Deletes(j)'
  <2> SUFFICES ASSUME NEW j \in Callers PROVE Deletes(j)'
    OBVIOUS
  <2>1. call[j].at \notin {"idle", "start"} => call[j].cap \in Caps
    BY DEF CallInv, CallKnows
  <2>2. \A d \in Caps : Shut(d) => Shut(d)'
    BY <1>1, ShutStays DEF Launches
  <2>3. Deletes(j)
    BY DEF DeletesInv
  <2>4. CASE call[j].at \in {"launch", "clean"}
    BY <1>1, <2>1, <2>3, <2>4, ClosedStays DEF Deletes, Launches
  <2>5. CASE call[j].at \in Deleting
    BY <1>0, <1>1, <2>1, <2>2, <2>3, <2>5 DEF Deletes, Deleting, MetaKept
  <2> QED
    BY <1>1, <2>4, <2>5 DEF Deletes, Deleting
<1>2. CASE WatchNext \/ UNCHANGED vars
  BY <1>1, <1>2 DEF WatchNext, Connect, Disconnect, Look, Tell, vars, hostVars
<1>3. ASSUME NEW c \in Caps, WrapperSteps(c) \/ TcpOpens(c) \/ TcpEnds(c) \/ Killed(c)
             \/ \E who \in Strangers \cup {None} : Recycle(c, who)
      PROVE  call' = call /\ \A d \in Caps : wrap[d] = "none" => wrap'[d] = "none"
  BY <1>3 DEF WrapperSteps, Claim, Spawn, Opened, NoTcpdump, StartFails, GuardFires, StopSeen, TcpWasOver,
    Finishing, GroupOver, GraceOver, Report, Tidy, TcpOpens, TcpEnds, Killed, Recycle, Goes, HostInv, CapTypes
<1>4. CASE Reboot
  BY <1>4 DEF Reboot, Idle, Deletes
<1>5. ASSUME NEW k \in Callers, CallSteps(k) PROVE \A j \in Callers : Deletes(j)'
  <2>1. call[k].at \notin {"idle", "start"} => call[k].cap \in Caps
    BY DEF CallInv, CallKnows
  <2>2. ASSUME Return(k), \A c \in Caps : wrap[c] = "none" => wrap'[c] = "none"
        PROVE  \A j \in Callers : Deletes(j)'
    <3>1. call'[k].at = "idle" /\ \A j \in Callers \ {k} : call'[j] = call[j]
      BY <2>2 DEF Return, Idle, CallInv, CallTypes
    <3> QED
      BY <1>0, <2>2, <3>1, OthersDelete DEF Deleting
  <2>3. CASE LaunchFails(k) \/ VerifyStarted(k) \/ StartClean(k) \/ StopMark(k) \/ ForceBusy(k)
             \/ ForceMark(k) \/ DeleteRemove(k) \/ ForgetDrop(k) \/ GiveUp(k)
    BY <2>2, <2>3 DEF LaunchFails, VerifyStarted, StartClean, StopMark, ForceBusy, ForceMark,
      DeleteRemove, ForgetDrop, GiveUp, Removed, hostVars
  <2>4. ASSUME NEW c, NEW place \in {"start", "forgetting"}, Looks(k, place, c), wrap' = wrap
        PROVE  \A j \in Callers : Deletes(j)'
    <3>1. call'[k].at = place /\ \A j \in Callers \ {k} : call'[j] = call[j]
      BY <2>4 DEF Looks, CallInv, CallTypes
    <3> QED
      BY <1>0, <2>4, <3>1, OthersDelete DEF Deleting
  <2>5. ASSUME NEW c \in Caps, StartMeta(k, c) PROVE \A j \in Callers : Deletes(j)'
    BY <2>5, MetaDeletes
  <2>6. CASE Launch(k)
    BY <2>6, LaunchDeletes
  <2>7. ASSUME NEW c \in Caps, NEW place \in {"clean", "held", "fresh", "remove"}, At(k, place, c),
               wrap' = wrap, Shut(c), place = "clean" => Closed(c)
        PROVE  \A j \in Callers : Deletes(j)'
    <3>1. call'[k].at = place /\ call'[k].cap = c /\ \A j \in Callers \ {k} : call'[j] = call[j]
      BY <2>7 DEF At, Idle, CallInv, CallTypes
    <3>2. \A j \in Callers : Launches(j, c)' => Launches(j, c)
      BY <3>1 DEF Launches
    <3>3. Shut(c)' /\ (place = "clean" => Closed(c)')
      BY <2>7, <3>2, ShutStays, ClosedStays
    <3>4. Deletes(k)'
      BY <3>1, <3>3 DEF Deletes
    <3> QED
      BY <1>0, <2>7, <3>1, <3>4, GoesToDelete
  <2>8. CASE VerifyFailed(k)
    <3>1. Closed(call[k].cap)
      BY <2>1, <2>8 DEF VerifyFailed, HostInv, Markers
    <3> QED
      BY <2>1, <2>7, <2>8, <3>1 DEF VerifyFailed, Shut
  <2>9. CASE DeleteCheck(k)
    <3>1. Shut(call[k].cap)
      BY <2>1, <2>9, CheckCloses DEF DeleteCheck
    <3> QED
      BY <2>1, <2>7, <2>9, <3>1 DEF DeleteCheck, hostVars
  <2>10. CASE DeleteHeld(k) \/ DeleteFresh(k)
    <3>1. Shut(call[k].cap)
      BY <2>10 DEF DeleteHeld, DeleteFresh, DeletesInv, Deletes
    <3> QED
      BY <2>1, <2>7, <2>10, <3>1 DEF DeleteHeld, DeleteFresh, hostVars
  <2>11. CASE DeleteLook(k)
    BY <1>0, <2>11, DeleteLooks
  <2>12. ASSUME NEW c \in Caps, NEW place \in {"stop", "force", "delete", "forget"}, Resolve(k, c, place)
         PROVE  \A j \in Callers : Deletes(j)'
    <3>1. /\ call'[k].at = place /\ call'[k].cap = c /\ \A j \in Callers \ {k} : call'[j] = call[j]
          /\ wrap' = wrap /\ "meta" \in files'[c]
      BY <2>12 DEF Resolve, At, Idle, hostVars, CallInv, CallTypes
    <3>2. Deletes(k)'
      BY <3>1 DEF Deletes
    <3> QED
      BY <1>0, <3>1, <3>2, GoesToDelete
  <2>13. CASE StartLook(k) \/ ForgetLook(k)
    BY <2>4, <2>13 DEF StartLook, ForgetLook, hostVars
  <2>14. CASE ForgetCheck(k)
    <3>1. wrap' = wrap /\ call'[k].at = "drop" /\ \A j \in Callers \ {k} : call'[j] = call[j]
      BY <2>14 DEF ForgetCheck, At, Idle, hostVars, CallInv, CallTypes
    <3> QED
      BY <1>0, <3>1, OthersDelete DEF Deleting
  <2>15. ASSUME NEW kills \in SUBSET Procs, ForceTerm(k, kills) PROVE \A j \in Callers : Deletes(j)'
    <3>1. /\ \A c \in Caps : wrap[c] = "none" => wrap'[c] = "none"
          /\ call'[k].at \in {"idle", "forced"} /\ \A j \in Callers \ {k} : call'[j] = call[j]
      BY <2>15 DEF ForceTerm, Goes, Return, Idle, HostInv, CapTypes, CallInv, CallTypes
    <3> QED
      BY <1>0, <3>1, OthersDelete DEF Deleting
  <2>16. CASE ForceKill(k)
    <3>1. /\ Begun(call[k].cap) /\ call[k].cap \in Caps
      BY <2>1, <2>16 DEF ForceKill, CallInv, CallKnows
    <3>2. /\ \A c \in Caps : wrap[c] = "none" => wrap'[c] = "none"
          /\ call'[k].at = "mark" /\ \A j \in Callers \ {k} : call'[j] = call[j]
      BY <2>16, <3>1 DEF ForceKill, Begun, HostInv, CapTypes, CallInv, CallTypes
    <3> QED
      BY <1>0, <3>2, OthersDelete DEF Deleting
  <2> QED
    BY <1>5, <2>3, <2>5, <2>6, <2>8, <2>9, <2>10, <2>11, <2>12, <2>13, <2>14, <2>15, <2>16 DEF CallSteps
<1> QED
  BY <1>1, <1>2, <1>3, <1>4, <1>5 DEF Next, CallsNext

\* Files of a closed or unborn capture are removed.
LEMMA RemovesClosed ==
  ASSUME HostInv, NothingOpenDeleted, NEW c \in Caps, Closed(c) \/ wrap[c] = "none", Removed(c, Files)
  PROVE  NothingOpenDeleted'
<1>1. ~(child[c] /\ tcp[c] = "open")
  BY DEF HostInv, Stages, Closed, Begun
<1>2. \A d \in Caps \ {c} : files'[d] = files[d]
  BY DEF Removed, HostInv, CapTypes
<1> QED
  BY <1>1, <1>2 DEF Removed, NothingOpenDeleted

LEMMA OpenStep ==
  ASSUME CallInv, HostInv, DeletesInv, [Next]_vars
  PROVE  NothingOpenDeleted'
<1> USE DEF DeletesInv, NothingOpenDeleted
<1>1. CASE WatchNext \/ UNCHANGED vars \/ Reboot
  BY <1>1 DEF WatchNext, Connect, Disconnect, Look, Tell, vars, hostVars, Reboot, TcpLives
<1>2. ASSUME NEW c \in Caps, WrapperSteps(c) PROVE NothingOpenDeleted'
  <2>1. CASE Opened(c)
    <3>1. "pcap" \in files'[c] /\ \A d \in Caps \ {c} : files'[d] = files[d] /\ child'[d] = child[d]
      BY <2>1 DEF Opened, HostInv, CapTypes
    <3> QED
      BY <2>1, <3>1 DEF Opened
  <2>2. CASE Claim(c)
    BY <2>2 DEF Claim, HostInv, CapTypes
  <2>3. CASE Spawn(c)
    BY <2>3 DEF Spawn, HostInv, CapTypes
  <2>4. CASE GraceOver(c) \/ Tidy(c)
    BY <2>4 DEF GraceOver, Tidy, HostInv, CapTypes
  <2>5. CASE NoTcpdump(c) \/ StartFails(c) \/ GuardFires(c) \/ StopSeen(c) \/ GroupOver(c) \/ Report(c)
    BY <2>5 DEF NoTcpdump, StartFails, GuardFires, StopSeen, Finishing, GroupOver, Report
  <2>6. ASSUME NEW reason \in {"done", "guard", "error"}, TcpWasOver(c, reason) PROVE NothingOpenDeleted'
    BY <2>6 DEF TcpWasOver, Finishing
  <2> QED
    BY <1>2, <2>1, <2>2, <2>3, <2>4, <2>5, <2>6 DEF WrapperSteps
<1>3. ASSUME NEW c \in Caps, TcpOpens(c) \/ TcpEnds(c) \/ Killed(c)
             \/ \E who \in Strangers \cup {None} : Recycle(c, who) PROVE NothingOpenDeleted'
  BY <1>3 DEF TcpOpens, TcpEnds, Killed, Recycle, HostInv, CapTypes
<1>4. ASSUME NEW k \in Callers, CallSteps(k) PROVE NothingOpenDeleted'
  <2>1. call[k].at \notin {"idle", "start"} => call[k].cap \in Caps
    BY DEF CallInv, CallKnows
  <2>2. CASE LaunchFails(k) \/ StartClean(k) \/ DeleteRemove(k)
    <3>1. Closed(call[k].cap) \/ wrap[call[k].cap] = "none"
      BY <2>2 DEF LaunchFails, StartClean, DeleteRemove, Deletes, Shut
    <3> QED
      BY <2>1, <2>2, <3>1, RemovesClosed DEF LaunchFails, StartClean, DeleteRemove
  <2>3. CASE ForgetDrop(k)
    BY <2>1, <2>3 DEF ForgetDrop, Removed, HostInv, CapTypes
  <2>4. CASE VerifyFailed(k) \/ StopMark(k)
    BY <2>1, <2>4 DEF VerifyFailed, StopMark, HostInv, CapTypes
  <2>5. ASSUME NEW c \in Caps, StartMeta(k, c) PROVE NothingOpenDeleted'
    BY <2>5 DEF StartMeta, HostInv, CapTypes
  <2>6. CASE StartLook(k) \/ Launch(k) \/ VerifyStarted(k) \/ ForceBusy(k) \/ ForceMark(k)
             \/ DeleteLook(k) \/ DeleteCheck(k) \/ DeleteHeld(k) \/ DeleteFresh(k) \/ ForgetLook(k)
             \/ ForgetCheck(k) \/ GiveUp(k)
    BY <2>6 DEF StartLook, Launch, VerifyStarted, ForceBusy, ForceMark, DeleteLook, DeleteCheck, DeleteHeld,
      DeleteFresh, ForgetLook, ForgetCheck, GiveUp, hostVars
  <2>7. ASSUME NEW c \in Caps, NEW place \in {"stop", "force", "delete", "forget"}, Resolve(k, c, place)
        PROVE  NothingOpenDeleted'
    BY <2>7 DEF Resolve, hostVars
  <2>8. ASSUME NEW kills \in SUBSET Procs, ForceTerm(k, kills) PROVE NothingOpenDeleted'
    BY <2>8 DEF ForceTerm
  <2>9. CASE ForceKill(k)
    BY <2>1, <2>9 DEF ForceKill, HostInv, CapTypes
  <2> QED
    BY <1>4, <2>2, <2>3, <2>4, <2>5, <2>6, <2>7, <2>8, <2>9 DEF CallSteps
<1> QED
  BY <1>1, <1>2, <1>3, <1>4 DEF Next, CallsNext

\* No call removes a savefile that a tcpdump on record still writes, although a delete looks
\* for the meta file, for the processes and for the age of the file in commands of their own,
\* and goes on without a status for a capture that vanished between them (DeleteCapture and the
\* cleanup of a failed StartCapture, against starts, stops, deletes and forgets of others): where
\* starts are verified in time, no listing fails, and nobody deletes a capture in the second of
\* its launch, or one that is being forgotten.
THEOREM DeletesAreSafe ==
  ASSUME "slowStart" \notin Faults, "listFails" \notin Faults, "early" \notin Faults, "forgotten" \notin Faults
  PROVE  Spec => []NothingOpenDeleted
<1>1. Init => DeletesInv
  BY DEF Init, DeletesInv, NothingOpenDeleted, Deletes, Launches, Idle
<1>2. CaptureInv /\ DeletesInv /\ [Next]_vars => DeletesInv'
  BY HostStep, DeletesStep, OpenStep DEF CaptureInv, DeletesInv
<1>3. CaptureInv /\ [Next]_vars => CaptureInv'
  BY StepInv
<1>4. DeletesInv => NothingOpenDeleted
  BY DEF DeletesInv
<1> QED
  BY <1>1, <1>2, <1>3, <1>4, InitInv, PTL DEF Spec
=============================================================================
