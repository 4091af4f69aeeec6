----------------------------- MODULE Recording -----------------------------
(***************************************************************************)
(* Scheduled recordings (internal/monitor/monitor.go, cmd/sampler): a      *)
(* detached sampler on the host that outlives the session, the listing     *)
(* that tells how each ended from what is left on the disk, the stop, the  *)
(* deletion, and the hourly slices a window is played from.  HostTools     *)
(* gives this part its initial state and its place beside Nethogs.         *)
(*                                                                         *)
(* Abstractions.  Time is counted in ticks, HourTicks of them an hour, and *)
(* a frame is its time.  A killed sampler's file holds the frames it has   *)
(* written.  One rm, and the read of marker and meta in a listing, are one *)
(* step.  Disk space is a reason to end and nothing else: the gzip of an   *)
(* hour does not fail under an awk that lives.                             *)
(***************************************************************************)
EXTENDS Integers, Sequences, SequencesExt, FiniteSets

CONSTANTS
  Recs,       \* recordings
  Splitters,  \* calls that split a recording: an open dialog each
  MaxT,       \* bound: last tick at which a frame is taken
  HourTicks,
  None,
  RecFaults   \* what may go wrong, see AllRecFaults

AllRecFaults ==
  {"early",         \* a listing looks before the new sampler has replaced its shell
   "splitRunning",  \* a recording is split while it is being written
   "splitTwice",    \* two calls split one recording
   "zcatDies",      \* the zcat of a split is killed, awk is not
   "clockBack"}     \* the host's clock is set back while it is recorded

ASSUME RecordingAssumption ==
  /\ RecFaults \subseteq AllRecFaults /\ None \notin Recs
  /\ MaxT \in Nat /\ HourTicks \in Nat \ {0}

VARIABLES
  sampler,  \* the sampler process of each recording
  asked,    \* recordings whose sampler has a signal to stop waiting
  frames,   \* what has been recorded
  disk,     \* files of the recording on the host: gz, marker and meta
  slices,   \* its slice directory; cut: history, its split lost its zcat
  ended,    \* history: how the sampler ended
  look,     \* what a listing under way has found in /proc
  status,   \* what the last listing said
  stops,    \* recordings a StopScheduled is waiting for
  split,    \* each splitter's position
  served    \* recordings whose slice index a dialog has been given

recVars == <<sampler, asked, frames, disk, slices, ended, look, status, stops, split, served>>

NoFiles  == [meta |-> FALSE, gz |-> "none", marker |-> "none"]
NoSlices == [dir |-> FALSE, held |-> {}, done |-> FALSE, cut |-> FALSE]
NoSplit  == [at |-> "idle", rec |-> None, pos |-> 0]

RecInit ==
  /\ sampler = [r \in Recs |-> "none"]
  /\ asked = {} /\ stops = {} /\ served = {}
  /\ frames = [r \in Recs |-> <<>>]
  /\ disk = [r \in Recs |-> NoFiles]
  /\ slices = [r \in Recs |-> NoSlices]
  /\ ended = [r \in Recs |-> "no"]
  /\ look = [r \in Recs |-> "idle"]
  /\ status = [r \in Recs |-> "unlisted"]
  /\ split = [w \in Splitters |-> NoSplit]

\* states in which /proc shows the sampler by its own name, with the path it writes to
Seen  == {"up", "writing", "closing", "closed", "marked"}
Alive == Seen \cup {"forked"}
Hour(t) == t \div HourTicks

-----------------------------------------------------------------------------
(* the sampler *)

Become(r, p) == sampler' = [sampler EXCEPT ![r] = p]

StartScheduled(r) ==
  /\ sampler[r] = "none"
  /\ Become(r, "unborn")
  /\ disk' = [disk EXCEPT ![r].meta = TRUE]
  /\ UNCHANGED <<asked, frames, slices, ended, look, status, stops, split, served>>

Launch(r) ==
  /\ sampler[r] = "unborn"
  /\ Become(r, "forked")
  /\ UNCHANGED <<asked, frames, disk, slices, ended, look, status, stops, split, served>>

\* The launch fails or the session is lost before it: the meta file stays.
LaunchFails(r) ==
  /\ sampler[r] = "unborn"
  /\ Become(r, "gone")
  /\ ended' = [ended EXCEPT ![r] = "died"]
  /\ UNCHANGED <<asked, frames, disk, slices, look, status, stops, split, served>>

Exec(r) ==
  /\ sampler[r] = "forked"
  /\ Become(r, "up")
  /\ UNCHANGED <<asked, frames, disk, slices, ended, look, status, stops, split, served>>

OpenOutput(r) ==
  /\ sampler[r] = "up"
  /\ Become(r, "writing")
  /\ disk' = [disk EXCEPT ![r].gz = "open"]
  /\ UNCHANGED <<asked, frames, slices, ended, look, status, stops, split, served>>

TakesFrame(r, t) ==
  /\ sampler[r] = "writing"
  /\ (\E u \in ToSet(frames[r]) : t <= u) => "clockBack" \in RecFaults
  /\ Len(frames[r]) <= MaxT
  /\ frames' = [frames EXCEPT ![r] = Append(@, t)]
  /\ UNCHANGED <<sampler, asked, disk, slices, ended, look, status, stops, split, served>>

\* stop: the gzip trailer first ...
Ends(r, why) ==
  /\ sampler[r] = "writing"
  /\ why = "signal" => r \in asked
  /\ Become(r, "closing")
  /\ ended' = [ended EXCEPT ![r] = why]
  /\ UNCHANGED <<asked, frames, disk, slices, look, status, stops, split, served>>

Written(r) == sampler[r] = "closing"

\* A mistake: the marker is written without the writers being closed.
Marked_Open(r) == sampler[r] \in {"closing", "closed"}

Marked(r) == sampler[r] = "closed"

Finalizes(r) ==
  /\ Written(r)
  /\ Become(r, "closed")
  /\ disk' = [disk EXCEPT ![r].gz = IF @ = "open" THEN "whole" ELSE @]
  /\ UNCHANGED <<asked, frames, slices, ended, look, status, stops, split, served>>

\* ... then the marker, in a directory that is there even if the recording was deleted.
Marks(r) ==
  /\ Marked(r)
  /\ Become(r, "marked")
  /\ disk' = [disk EXCEPT ![r].marker = ended[r]]
  /\ UNCHANGED <<asked, frames, slices, ended, look, status, stops, split, served>>

Exits(r) ==
  /\ sampler[r] = "marked"
  /\ Become(r, "gone")
  /\ UNCHANGED <<asked, frames, disk, slices, ended, look, status, stops, split, served>>

\* the effect of SIGKILL on a process
Cutting(r) ==
  /\ Become(r, "gone")
  /\ ended' = [ended EXCEPT ![r] = IF sampler[r] = "marked" THEN @ ELSE "died"]
  /\ disk' = [disk EXCEPT ![r].gz = IF @ = "open" THEN "torn" ELSE @]

Dies(r) ==
  /\ sampler[r] \in Alive
  /\ Cutting(r)
  /\ UNCHANGED <<asked, frames, slices, look, status, stops, split, served>>

-----------------------------------------------------------------------------
(* listing, stop and deletion *)

\* what ListScheduled makes of one recording's line
StatusOf(alive, marker) ==
  IF alive THEN "running"
  ELSE CASE marker = "none"     -> "interrupted"
         [] marker = "signal"   -> "stopped"
         [] marker = "low-disk" -> "low-disk"
         [] OTHER               -> "done"

ListLooks(r) ==
  /\ disk[r].meta /\ look[r] = "idle"
  /\ sampler[r] \in {"unborn", "forked"} => "early" \in RecFaults
  /\ look' = [look EXCEPT ![r] = IF sampler[r] \in Seen THEN "alive" ELSE "dead"]
  /\ UNCHANGED <<sampler, asked, frames, disk, slices, ended, status, stops, split, served>>

\* the marker, read after the walk of /proc
MarkerSeen(r) == disk[r].marker

ListReads(r) ==
  /\ look[r] # "idle"
  /\ look' = [look EXCEPT ![r] = "idle"]
  /\ status' = [status EXCEPT ![r] =
       IF disk[r].meta THEN StatusOf(look[r] = "alive", MarkerSeen(r)) ELSE "unlisted"]
  /\ UNCHANGED <<sampler, asked, frames, disk, slices, ended, stops, split, served>>

\* resolveRecFile
Resolves(r) == disk[r].gz # "none"

StopScheduled(r) ==
  /\ Resolves(r) /\ r \notin stops
  /\ sampler[r] \in Seen
  /\ asked' = asked \cup {r}
  /\ stops' = stops \cup {r}
  /\ UNCHANGED <<sampler, frames, disk, slices, ended, look, status, split, served>>

StopIsOver(r) ==
  /\ r \in stops /\ sampler[r] = "gone"
  /\ stops' = stops \ {r}
  /\ UNCHANGED <<sampler, asked, frames, disk, slices, ended, look, status, split, served>>

\* after two seconds
StopKills(r) ==
  /\ r \in stops /\ sampler[r] # "gone"
  /\ stops' = stops \ {r}
  /\ Cutting(r)
  /\ UNCHANGED <<asked, frames, slices, look, status, split, served>>

DeleteScheduled(r) ==
  /\ Resolves(r)
  /\ disk' = [disk EXCEPT ![r] = NoFiles]
  /\ slices' = [slices EXCEPT ![r] = NoSlices]
  /\ served' = served \ {r}
  /\ UNCHANGED <<sampler, asked, frames, ended, look, status, stops, split>>

-----------------------------------------------------------------------------
(* slices *)

Splitting(r) == \E w \in Splitters : split[w].rec = r
SplitTo(w, s) == split' = [split EXCEPT ![w] = s]

\* A mistake: a directory is taken for a finished split.
AlreadySplit_Dir(r) == slices[r].dir

\* the marker .done
AlreadySplit(r) == slices[r].done

\* A finished index is given out; without one the split begins.
PrepareScheduledSlices(w, r) ==
  /\ split[w] = NoSplit /\ Resolves(r)
  /\ sampler[r] # "gone" => "splitRunning" \in RecFaults
  /\ Splitting(r) => "splitTwice" \in RecFaults
  /\ IF AlreadySplit(r)
       THEN served' = served \cup {r} /\ UNCHANGED split
       ELSE SplitTo(w, [at |-> "begun", rec |-> r, pos |-> 0]) /\ UNCHANGED served
  /\ UNCHANGED <<sampler, asked, frames, disk, slices, ended, look, status, stops>>

SplitClears(w) ==
  /\ split[w].at = "begun"
  /\ slices' = [slices EXCEPT ![split[w].rec] = [NoSlices EXCEPT !.dir = TRUE]]
  /\ SplitTo(w, [split[w] EXCEPT !.at = "reading"])
  /\ UNCHANGED <<sampler, asked, frames, disk, ended, look, status, stops, served>>

\* Opening the pipe of an hour anew empties that hour's file.
Filed(held, t, before) ==
  {u \in held : Hour(u) # Hour(t) \/ (before # -1 /\ Hour(before) = Hour(t))} \cup {t}

SplitReads(w) ==
  LET r == split[w].rec
      i == split[w].pos + 1
  IN  /\ split[w].at = "reading"
      /\ disk[r].gz # "none" /\ i <= Len(frames[r])
      /\ slices' = [slices EXCEPT ![r].held =
           IF slices[r].dir THEN Filed(@, frames[r][i], IF i = 1 THEN -1 ELSE frames[r][i - 1]) ELSE @]
      /\ SplitTo(w, [split[w] EXCEPT !.pos = i])
      /\ UNCHANGED <<sampler, asked, frames, disk, ended, look, status, stops, served>>

\* The pipeline is as good as its awk: to it, a zcat that dies is the end of the file.
ZcatDies(w) ==
  /\ "zcatDies" \in RecFaults
  /\ split[w].at = "reading"
  /\ SplitTo(w, [split[w] EXCEPT !.at = "starved"])
  /\ UNCHANGED <<sampler, asked, frames, disk, slices, ended, look, status, stops, served>>

\* awk has read everything there is, or everything it gets
AtEnd(w) ==
  \/ split[w].at = "starved"
  \/ /\ split[w].at = "reading"
     /\ disk[split[w].rec].gz = "none" \/ split[w].pos >= Len(frames[split[w].rec])

SplitEnds(w) ==
  LET r == split[w].rec
  IN  /\ AtEnd(w)
      /\ slices' = [slices EXCEPT ![r].done = slices[r].dir,
                                  ![r].cut = slices[r].dir /\ split[w].at = "starved"]
      /\ served' = IF slices[r].dir THEN served \cup {r} ELSE served
      /\ SplitTo(w, NoSplit)
      /\ UNCHANGED <<sampler, asked, frames, disk, ended, look, status, stops>>

\* The channel drops and awk dies writing to it, or it is killed.
SplitDies(w) ==
  /\ split[w] # NoSplit
  /\ SplitTo(w, NoSplit)
  /\ UNCHANGED <<sampler, asked, frames, disk, slices, ended, look, status, stops, served>>

\* the frames of a window: of the hours it overlaps, or of the whole file
SliceKeys(a, b) == Hour(a) .. Hour(b - 1)

DownloadScheduledSlices(r, a, b) ==
  {t \in slices[r].held : Hour(t) \in SliceKeys(a, b) /\ a <= t /\ t < b}

\* a scan of the file, of its first n frames
DownloadScheduledDay(r, a, b, n) == {t \in ToSet(SubSeq(frames[r], 1, n)) : a <= t /\ t < b}

-----------------------------------------------------------------------------
\* The host goes down: no process, no call and no listing is left.
RecReboot ==
  /\ sampler' = [r \in Recs |-> IF sampler[r] = "none" THEN "none" ELSE "gone"]
  /\ ended' = [r \in Recs |->
       IF sampler[r] \in {"none", "gone", "marked"} THEN ended[r] ELSE "died"]
  /\ disk' = [r \in Recs |-> [disk[r] EXCEPT !.gz = IF @ = "open" THEN "torn" ELSE @]]
  /\ look' = [r \in Recs |-> "idle"]
  /\ split' = [w \in Splitters |-> NoSplit]
  /\ stops' = {}
  /\ UNCHANGED <<asked, frames, slices, status, served>>

\* The session ends: what runs on the host goes on, the answers are lost.
RecCut ==
  /\ look' = [r \in Recs |-> "idle"]
  /\ UNCHANGED <<sampler, asked, frames, disk, slices, ended, status, stops, split, served>>

RecNext ==
  \/ \E r \in Recs :
       \/ StartScheduled(r) \/ Launch(r) \/ LaunchFails(r) \/ Exec(r) \/ OpenOutput(r)
       \/ \E t \in 0 .. MaxT : TakesFrame(r, t)
       \/ \E why \in {"deadline", "low-disk", "signal"} : Ends(r, why)
       \/ Finalizes(r) \/ Marks(r) \/ Exits(r) \/ Dies(r)
       \/ ListLooks(r) \/ ListReads(r) \/ StopScheduled(r) \/ StopIsOver(r) \/ StopKills(r)
       \/ DeleteScheduled(r)
  \/ \E w \in Splitters :
       \/ \E r \in Recs : PrepareScheduledSlices(w, r)
       \/ SplitClears(w) \/ SplitReads(w) \/ ZcatDies(w) \/ SplitEnds(w)
       \/ SplitDies(w)
  \/ RecReboot \/ RecCut

-----------------------------------------------------------------------------
(* What a listing says of a recording is how its sampler ended.  A row     *)
(* shown as interrupted is one whose sampler died without its marker, and  *)
(* no listing that falls into the last moments of a sampler says so of one *)
(* that ended well; and what is shown as complete has its gzip trailer     *)
(* (ListScheduled's /proc walk and marker against the sampler's stop).     *)
StatusTells == \A r \in Recs :
  /\ status[r] = "interrupted" => ended[r] = "died"
  /\ status[r] \in {"done", "stopped", "low-disk"} =>
       /\ status[r] = StatusOf(FALSE, ended[r])
       /\ disk[r].gz \in {"whole", "none"}

(* Whatever window is played from the slices of a recording once they have *)
(* been given out or marked complete, it holds what a scan of the file's   *)
(* first n frames finds, and n is all of them unless the zcat of that very *)
(* split died: .done means that awk came to an end, not that the split is  *)
(* whole, but no split that dies, is begun again, or has its recording     *)
(* deleted under it passes for a finished one (PrepareScheduledSlices and  *)
(* DownloadScheduledSlices against DownloadScheduledDay).                  *)
SlicesWhole == \A r \in Recs :
  Resolves(r) /\ (r \in served \/ slices[r].done) =>
    \E n \in 0 .. Len(frames[r]) :
      /\ n < Len(frames[r]) => slices[r].cut
      /\ \A a \in 0 .. MaxT, b \in 1 .. MaxT + 1 : a < b =>
           DownloadScheduledSlices(r, a, b) = DownloadScheduledDay(r, a, b, n)
=============================================================================
