----------------------------- MODULE LogCollect -----------------------------
(***************************************************************************)
(* Bulk log collection (internal/monitor/logcollect_run.go, download.go,   *)
(* app_logcollect.go).  A collection stages copies on its host, writes a   *)
(* manifest of what arrived, makes an archive, downloads it, reads it back *)
(* and only then removes what is on the host; what is left after a failure *)
(* can be fetched again or deleted, also by the app of a colleague while   *)
(* the collection that made it is still running.                           *)
(*                                                                         *)
(* Abstractions.  Each client collects from a host of its own and has one  *)
(* operation under way (the busy guards of the app; operations of one app  *)
(* that overlap in spite of them are those of two clients here).  All      *)
(* clients save into one folder under one stem, as two hosts with the same *)
(* server directory do.  Sizes are units of disk: a copy takes one, an     *)
(* archive one, and a log may have grown by one when it is copied.  The    *)
(* planning of the entries is data (see the module Rules).                 *)
(***************************************************************************)
EXTENDS Integers, FiniteSets

CONSTANTS
  Clients,  \* apps that collect, each from its own host
  Ids,      \* collection ids; newCollectID gives each at most once
  Entries,  \* files and commands selected in a collection
  Mode,     \* how each of them is taken: "whole", "filter" or "cmd"
  Names,    \* local file names: the stem, the stem with -2, ...
  Disk,     \* size of a host's staging filesystem
  Reserve,  \* logMinFreeBytes
  Margin,   \* what logCopyOverhead adds to the size of the copies
  None,
  Faults    \* what may go wrong, see AllFaults

AllFaults ==
  {"drop",    \* a channel is cut and its call returns without the verdict
   "linger",  \* a remote script goes on after its channel is gone
   "crash",   \* the app is closed or dies
   "torn",    \* a download is damaged where its reader meets it: it does not read through
   "silent",  \* a download is damaged where nobody looks: data bytes, the gzip trailer
   "keep"}    \* a removal fails and leaves everything where it is

ASSUME LogCollectAssumption ==
  /\ Mode \in [Entries -> {"whole", "filter", "cmd"}]
  /\ IsFiniteSet(Ids) /\ IsFiniteSet(Entries)
  /\ Names \subseteq Nat /\ {Disk, Reserve, Margin} \subseteq Nat
  /\ Faults \subseteq AllFaults

VARIABLES
  task,    \* what each client is doing
  owner,   \* whose collection an id is; None before it is drawn
  work,    \* the script at work on a collection's staging tree
  said,    \* verdict its last script printed
  todo,    \* entries the copy script has not reached
  keeps,   \* outcome the copy script reported for each entry
  tree,    \* files in the staging tree; None when there is no tree
  man,     \* manifest in the staging tree
  arc,     \* archive on the host
  stopf,   \* STOP file in the control directory
  grown,   \* units the copied logs had grown by
  local,   \* files in the folder of the PC
  told,    \* collections whose result names what is left, or whose app died first
  asked,   \* collections the operator cancelled or deleted
  crowded  \* a gate passed while another script was writing to that host

hostVars == <<work, said, todo, keeps, tree, man, arc, stopf, grown>>
histVars == <<told, asked, crowded>>
vars     == <<task, owner, hostVars, local, histVars>>

\* Kinds of names in a staging tree: as it is, or marked as cut to the time range.
Kinds == {"whole", "cut"}
Places == {"idle", "gate", "stage", "copy", "manifest", "archive", "tar", "abandon",
           "claim", "stat", "download", "verify", "cleanup"}
Outcomes == {"todo", "whole", "filtered", "nocut", "none", "fail", "cmd", "silent"}

Idle == [at |-> "idle", id |-> None, fetch |-> FALSE, cancel |-> FALSE,
         takes |-> None, name |-> None, got |-> None]

Taken == [Entries -> Kinds \cup {"skipped"}]

\* An archive: whole if it reads through to the end of its tar, same if its bytes are those
\* that tar wrote.
Contents == [of : Ids, files : SUBSET (Entries \X Kinds), man : Taken \cup {None},
             whole : BOOLEAN, same : BOOLEAN]

\* A placeholder: the name is claimed and no byte arrived.
Empty == [of |-> None, files |-> {}, man |-> None, whole |-> FALSE, same |-> FALSE]

ASSUME NoneAssumption ==
  /\ None \notin Ids \cup Clients \cup Names
  /\ None \notin Contents \cup {Empty}

Held(c) == (tree[c] # None /\ tree[c] # {}) \/ arc[c] # None

\* What a collection takes of its host's disk, unit by unit: each copy, what the logs had
\* grown by, the archive.
Units(c) ==
  (IF tree[c] # None THEN ({"copy"} \X tree[c]) \cup ({"growth"} \X (1 .. grown[c])) ELSE {})
  \cup (IF arc[c] # None THEN {"archive"} \X {1} ELSE {})

Used(k) == UNION {{c} \X Units(c) : c \in {d \in Ids : owner[d] = k}}

Free(k) == Disk - Cardinality(Used(k))

-----------------------------------------------------------------------------
Init ==
  /\ task = [k \in Clients |-> Idle]
  /\ owner = [c \in Ids |-> None]
  /\ work = [c \in Ids |-> "off"]
  /\ said = [c \in Ids |-> "nothing"]
  /\ todo = [c \in Ids |-> {}]
  /\ keeps = [c \in Ids |-> [e \in Entries |-> "todo"]]
  /\ tree = [c \in Ids |-> None]
  /\ man = [c \in Ids |-> None]
  /\ arc = [c \in Ids |-> None]
  /\ stopf = [c \in Ids |-> FALSE]
  /\ grown = [c \in Ids |-> 0]
  /\ local = [n \in Names |-> None]
  /\ told = {} /\ asked = {}
  /\ crowded = [k \in Clients |-> FALSE]

Goes(k, place) == task' = [task EXCEPT ![k].at = place]
Ends(k) == task' = [task EXCEPT ![k] = Idle]

-----------------------------------------------------------------------------
(* Defects: what an operator or action below would be with a plausible     *)
(* mistake in it.                                                          *)

\* The gate forgets that copies and archive are there together at the end of tar.
Fits_NoArchive(k) == Free(k) >= Cardinality(Entries) + Margin + Reserve

\* The verdicts of the copy script are believed without looking at the tree.
Found_Blind(c) == [e \in Entries |-> IF keeps[c][e] = "filtered" THEN "cut" ELSE keeps[c][e]]

\* A removal that fails in abandon is not mentioned.
Abandon_Quiet(k, ok) ==
  /\ task[k].at = "abandon"
  /\ ok \/ "keep" \in Faults
  /\ tree' = [tree EXCEPT ![task[k].id] = IF ok THEN None ELSE @]
  /\ arc' = [arc EXCEPT ![task[k].id] = IF ok THEN None ELSE @]
  /\ task' = [task EXCEPT ![k] = Idle]
  /\ UNCHANGED <<owner, work, said, todo, keeps, man, stopf, grown, local, histVars>>

\* Extra files fail a comparison, missing ones do not.
Matches_Extra(got, takes) ==
  got.man # None /\ \A f \in got.files : f[1] \in Entries

\* InspectLogArchive stops when it has seen the manifest and a file.
Verified_Glance(k) ==
  LET got == local[task[k].name] IN
  IF task[k].fetch THEN got.man # None /\ got.files # {} ELSE got.whole

-----------------------------------------------------------------------------
(* The calls of a client.                                                  *)

\* CollectLogs registers the cancel and plans.
Begin(k) ==
  /\ task[k].at = "idle"
  /\ Goes(k, "gate")
  /\ UNCHANGED <<owner, hostVars, local, histVars>>

\* logGate, on what the host says now: the copies with their overhead, the archive
\* and the reserve must fit.
Fits(k) == Free(k) >= Cardinality(Entries) + Margin + 1 + Reserve

\* A collection passes the gate: the staging tree is made and its lists uploaded.
Gate(k, c) ==
  /\ task[k].at = "gate" /\ ~task[k].cancel
  /\ owner[c] = None
  /\ Fits(k)
  /\ task' = [task EXCEPT ![k].at = "stage", ![k].id = c]
  /\ owner' = [owner EXCEPT ![c] = k]
  /\ tree' = [tree EXCEPT ![c] = {}]
  /\ todo' = [todo EXCEPT ![c] = Entries]
  /\ crowded' = [crowded EXCEPT ![k] =
                   @ \/ \E d \in Ids : owner[d] = k /\ work[d] # "off"]
  /\ UNCHANGED <<work, said, keeps, man, arc, stopf, grown, local, told, asked>>

GateRefuses(k) ==
  /\ task[k].at = "gate"
  /\ task[k].cancel \/ ~Fits(k)
  /\ Ends(k)
  /\ UNCHANGED <<owner, hostVars, local, histVars>>

\* An upload fails, or the operator cancelled.
StageFails(k) ==
  /\ task[k].at = "stage"
  /\ task[k].cancel \/ tree[task[k].id] = None \/ "drop" \in Faults
  /\ Goes(k, "abandon")
  /\ UNCHANGED <<owner, hostVars, local, histVars>>

StartCopy(k) ==
  LET c == task[k].id IN
  /\ task[k].at = "stage" /\ ~task[k].cancel /\ tree[c] # None
  /\ Goes(k, "copy")
  /\ work' = [work EXCEPT ![c] = "copy"]
  /\ UNCHANGED <<owner, said, todo, keeps, tree, man, arc, stopf, grown, local, histVars>>

\* The goroutine beside the copy puts the STOP file.
TouchStop(k) ==
  LET c == task[k].id IN
  /\ task[k].at = "copy" /\ task[k].cancel /\ tree[c] # None /\ ~stopf[c]
  /\ stopf' = [stopf EXCEPT ![c] = TRUE]
  /\ UNCHANGED <<task, owner, work, said, todo, keeps, tree, man, arc, grown, local, histVars>>

\* A script returned, or its channel was cut.
Cut(c) == "drop" \in Faults /\ work[c] # "off"
Left(c) == work' = [work EXCEPT ![c] = IF "linger" \in Faults THEN @ ELSE "off"]

\* Its output was read; nobody reads what it may print afterwards.
Read(c) ==
  /\ Left(c)
  /\ said' = [said EXCEPT ![c] = "nothing"]
  /\ keeps' = [keeps EXCEPT ![c] = [e \in Entries |-> "todo"]]
  /\ todo' = [todo EXCEPT ![c] = IF work[c] = "off" \/ "linger" \notin Faults THEN {} ELSE @]

\* applyCopyResults: under which name an entry is expected.
Promised(c, e) ==
  CASE keeps[c][e] = "filtered"                -> "cut"
    [] keeps[c][e] \in {"whole", "nocut", "cmd"} -> "whole"
    [] keeps[c][e] \in {"none", "fail", "silent", "todo"} -> "skipped"

\* applyFound: and whether it is there.
Found(c) ==
  [e \in Entries |-> IF tree[c] # None /\ <<e, Promised(c, e)>> \in tree[c]
                     THEN Promised(c, e) ELSE "skipped"]

CopyReturns(k) ==
  LET c == task[k].id
      good == ~task[k].cancel /\ said[c] = "DONE|copy"
                /\ \E e \in Entries : Found(c)[e] # "skipped"
  IN /\ task[k].at = "copy"
     /\ work[c] = "off" \/ Cut(c)
     /\ task' = [task EXCEPT ![k].at = IF good THEN "manifest" ELSE "abandon",
                             ![k].takes = IF good THEN Found(c) ELSE None]
     /\ Read(c)
     /\ UNCHANGED <<owner, tree, man, arc, stopf, grown, local, histVars>>

\* The manifest is uploaded into the tree it describes; then a cancel is looked for.
Manifest(k) ==
  LET c == task[k].id IN
  /\ task[k].at = "manifest" /\ tree[c] # None
  /\ man' = [man EXCEPT ![c] = task[k].takes]
  /\ Goes(k, IF task[k].cancel THEN "abandon" ELSE "archive")
  /\ UNCHANGED <<owner, work, said, todo, keeps, tree, arc, stopf, grown, local, histVars>>

ManifestFails(k) ==
  /\ task[k].at = "manifest"
  /\ tree[task[k].id] = None \/ "drop" \in Faults
  /\ Goes(k, "abandon")
  /\ UNCHANGED <<owner, hostVars, local, histVars>>

\* A result that names what is left.
Tells(k) ==
  /\ Ends(k)
  /\ told' = told \cup {task[k].id}
  /\ UNCHANGED <<asked, crowded>>

\* The archive script begins; it refuses a tree that is not there.
StartTar(k) ==
  LET c == task[k].id IN
  /\ task[k].at = "archive" /\ tree[c] # None
  /\ Goes(k, "tar")
  /\ work' = [work EXCEPT ![c] = "tar"]
  /\ said' = [said EXCEPT ![c] = "nothing"]
  /\ arc' = [arc EXCEPT ![c] = [of |-> c, files |-> tree[c], man |-> man[c],
                              whole |-> FALSE, same |-> TRUE]]
  /\ UNCHANGED <<owner, todo, keeps, tree, man, stopf, grown, local, histVars>>

TarRefused(k) ==
  /\ task[k].at = "archive"
  /\ tree[task[k].id] = None
  /\ Tells(k)
  /\ UNCHANGED <<owner, hostVars, local>>

\* The verdict is read: a finished archive of a cancelled collection is given up, one
\* that failed is kept and named.
TarReturns(k) ==
  LET c == task[k].id IN
  /\ task[k].at = "tar"
  /\ work[c] = "off" \/ Cut(c)
  /\ Read(c)
  /\ IF said[c] # "OK" THEN Tells(k)
     ELSE Goes(k, IF task[k].cancel THEN "abandon" ELSE "claim") /\ UNCHANGED histVars
  /\ UNCHANGED <<owner, tree, man, arc, stopf, grown, local>>

\* The tree goes, and with it the manifest, the STOP file and the space of the copies.
TreeGoes(c) ==
  /\ tree' = [tree EXCEPT ![c] = None]
  /\ man' = [man EXCEPT ![c] = None]
  /\ stopf' = [stopf EXCEPT ![c] = FALSE]
  /\ grown' = [grown EXCEPT ![c] = 0]

\* removeCollect: the tree, then the archive of one id.  It fails when the link is gone at
\* its start or halfway, and cannot empty a tree that a script is writing to; the archive
\* goes all the same.
Removes(c, ok) ==
  /\ \/ ok /\ TreeGoes(c) /\ arc' = [arc EXCEPT ![c] = None]
     \/ ~ok /\ "keep" \in Faults /\ UNCHANGED <<arc, tree, man, stopf, grown>>
     \/ ~ok /\ "drop" \in Faults /\ TreeGoes(c) /\ UNCHANGED arc
     \/ ~ok /\ work[c] # "off" /\ arc' = [arc EXCEPT ![c] = None]
         /\ UNCHANGED <<tree, man, stopf, grown>>
  /\ UNCHANGED <<work, said, todo, keeps>>

\* abandon: what was staged is taken back; if that fails the result says so.
Abandon(k, ok) ==
  /\ task[k].at = "abandon"
  /\ Removes(task[k].id, ok)
  /\ IF ok THEN Ends(k) /\ UNCHANGED histVars ELSE Tells(k)
  /\ UNCHANGED <<owner, local>>

\* claimLocalPath: the first free name is taken (O_EXCL).
FirstFree == {n \in Names : local[n] = None /\ \A m \in Names : m < n => local[m] # None}

Claim(k, n) ==
  /\ task[k].at = "claim"
  /\ n \in FirstFree
  /\ local' = [local EXCEPT ![n] = Empty]
  /\ task' = [task EXCEPT ![k].at = "stat", ![k].name = n]
  /\ UNCHANGED <<owner, hostVars, histVars>>

ClaimFails(k) ==
  /\ task[k].at = "claim" /\ FirstFree = {}
  /\ Tells(k)
  /\ UNCHANGED <<owner, hostVars, local>>

\* The archive is there: its size is taken and the transfer begins.
StartDownload(k) ==
  LET c == task[k].id IN
  /\ task[k].at = "stat" /\ arc[c] # None
  /\ task' = [task EXCEPT ![k].at = "download", ![k].got = arc[c]]
  /\ UNCHANGED <<owner, hostVars, local, histVars>>

\* Every byte of that size arrived and the temporary file was renamed over the name.
Downloaded(k, how) ==
  LET t == task[k] IN
  /\ t.at = "download"
  /\ local' = [local EXCEPT ![t.name] =
                 [t.got EXCEPT !.whole = @ /\ how # "torn", !.same = how = "intact"]]
  /\ task' = [task EXCEPT ![k].at = "verify", ![k].got = None]
  /\ UNCHANGED <<owner, hostVars, histVars>>

\* Refused, cut off, cancelled or stalled: the placeholder is taken back.
DownloadFails(k) ==
  LET t == task[k] IN
  /\ \/ t.at = "stat" /\ (arc[t.id] = None \/ "drop" \in Faults)
     \/ t.at = "download" /\ (t.cancel \/ "drop" \in Faults)
  /\ local' = [local EXCEPT ![t.name] = IF @ = Empty THEN None ELSE @]
  /\ Tells(k)
  /\ UNCHANGED <<owner, hostVars>>

\* matchArchive: everything the entries promise is in the archive, with the manifest.
Matches(got, takes) ==
  /\ got.man # None
  /\ \A e \in Entries : takes[e] # "skipped" => <<e, takes[e]>> \in got.files

\* VerifyLogArchive, or InspectLogArchive when the entries are gone.  Both read to the end
\* of the tar and compare names and sizes; neither reaches the gzip trailer with its checksum.
Verified(k) ==
  LET got == local[task[k].name] IN
  /\ got.whole
  /\ IF task[k].fetch THEN got.man # None /\ got.files # {} ELSE Matches(got, task[k].takes)

Verify(k) ==
  /\ task[k].at = "verify"
  /\ IF Verified(k) THEN Goes(k, "cleanup") /\ UNCHANGED histVars ELSE Tells(k)
  /\ UNCHANGED <<owner, hostVars, local>>

\* CleanupLogCollect; its failure is told and is not a failed collection.
Cleanup(k, ok) ==
  /\ task[k].at = "cleanup"
  /\ Removes(task[k].id, ok)
  /\ IF ok THEN Ends(k) /\ UNCHANGED histVars ELSE Tells(k)
  /\ UNCHANGED <<owner, local>>

\* RedownloadLogCollect: an archive that ListLogCollects shows, of whatever client.
Refetch(k, c) ==
  /\ task[k].at = "idle" /\ arc[c] # None
  /\ task' = [task EXCEPT ![k] = [Idle EXCEPT !.at = "claim", !.id = c, !.fetch = TRUE]]
  /\ UNCHANGED <<owner, hostVars, local, histVars>>

\* DeleteLogCollectLeftover, at any client: nothing asks whether the collection is in use.
Delete(c, ok) ==
  /\ tree[c] # None \/ arc[c] # None
  /\ Removes(c, ok)
  /\ asked' = asked \cup {c}
  /\ UNCHANGED <<task, owner, local, told, crowded>>

\* CancelLogCollect reaches every step up to the end of the download.
Cancel(k) ==
  /\ ~task[k].fetch /\ ~task[k].cancel
  /\ task[k].at \notin {"idle", "verify", "cleanup"}
  /\ task' = [task EXCEPT ![k].cancel = TRUE]
  /\ asked' = asked \cup ({task[k].id} \ {None})
  /\ UNCHANGED <<owner, hostVars, local, told, crowded>>

Crash(k) ==
  /\ "crash" \in Faults
  /\ task[k].at # "idle"
  /\ Ends(k)
  /\ IF task[k].id # None
     THEN told' = told \cup {task[k].id} /\ Left(task[k].id)
     ELSE UNCHANGED <<told, work>>
  /\ UNCHANGED <<owner, said, todo, keeps, tree, man, arc, stopf, grown, local,
                 asked, crowded>>

ClientSteps(k) ==
  \/ Begin(k) \/ \E c \in Ids : Gate(k, c) \/ Refetch(k, c)
  \/ GateRefuses(k) \/ StageFails(k) \/ StartCopy(k) \/ TouchStop(k) \/ CopyReturns(k)
  \/ Manifest(k) \/ ManifestFails(k) \/ StartTar(k) \/ TarRefused(k) \/ TarReturns(k)
  \/ \E ok \in BOOLEAN : Abandon(k, ok) \/ Cleanup(k, ok)
  \/ \E how \in {"intact"} \cup (Faults \cap {"torn", "silent"}) : Downloaded(k, how)
  \/ \E n \in Names : Claim(k, n)
  \/ ClaimFails(k) \/ StartDownload(k) \/ DownloadFails(k) \/ Verify(k)
  \/ Cancel(k) \/ Crash(k)

-----------------------------------------------------------------------------
(* The scripts on the host.                                                *)

\* What one job of the copy script may come to, and the files it leaves.
Results(e) ==
  CASE Mode[e] = "whole"  -> {<<"whole", {"whole"}>>, <<"fail", {}>>}
    [] Mode[e] = "filter" -> {<<"filtered", {"cut"}>>, <<"nocut", {"whole"}>>, <<"whole", {"whole"}>>,
                              <<"none", {}>>, <<"fail", {}>>, <<"fail", {"cut"}>>}
    [] Mode[e] = "cmd"    -> {<<"cmd", {"whole"}>>, <<"silent", {"whole"}>>}

\* One job; the STOP file is looked for before each.  In a tree that is gone it fails.
CopyOne(c, e, r) ==
  /\ work[c] = "copy" /\ e \in todo[c] /\ ~stopf[c]
  /\ IF tree[c] = None THEN r = <<"fail", {}>> ELSE r \in Results(e)
  /\ keeps' = [keeps EXCEPT ![c][e] = r[1]]
  /\ todo' = [todo EXCEPT ![c] = @ \ {e}]
  /\ tree' = [tree EXCEPT ![c] = IF @ = None THEN None ELSE @ \cup ({e} \X r[2])]
  /\ grown' = [grown EXCEPT ![c] = IF r[2] # {} /\ @ < Margin THEN @ + 1 ELSE @]
  /\ UNCHANGED <<task, owner, work, said, man, arc, stopf, local, histVars>>

CopyEnds(c) ==
  /\ work[c] = "copy" /\ (todo[c] = {} \/ stopf[c])
  /\ work' = [work EXCEPT ![c] = "off"]
  /\ said' = [said EXCEPT ![c] = IF stopf[c] THEN "STOPPED|copy" ELSE "DONE|copy"]
  /\ UNCHANGED <<task, owner, todo, keeps, tree, man, arc, stopf, grown, local, histVars>>

\* tar and gzip -t are through: the archive holds what was there while tar read, and the
\* staging tree is removed.  An archive that was deleted meanwhile does not pass.
TarEnds(c, files) ==
  /\ work[c] = "tar" /\ arc[c] # None
  /\ files \subseteq arc[c].files
  /\ tree[c] # None => files = arc[c].files
  /\ arc' = [arc EXCEPT ![c].files = files, ![c].whole = TRUE]
  /\ TreeGoes(c)
  /\ said' = [said EXCEPT ![c] = "OK"]
  /\ work' = [work EXCEPT ![c] = "off"]
  /\ UNCHANGED <<task, owner, todo, keeps, local, histVars>>

\* tar failed, or the archive is gone or not readable: both are kept.
TarFails(c) ==
  /\ work[c] = "tar"
  /\ work' = [work EXCEPT ![c] = "off"]
  /\ said' = [said EXCEPT ![c] = "ERR"]
  /\ UNCHANGED <<task, owner, todo, keeps, tree, man, arc, stopf, grown, local, histVars>>

HostSteps(c) ==
  \/ \E e \in Entries, o \in Outcomes, left \in SUBSET Kinds : CopyOne(c, e, <<o, left>>)
  \/ CopyEnds(c)
  \/ \E files \in SUBSET (Entries \X Kinds) : TarEnds(c, files)
  \/ TarFails(c)

Next ==
  \/ \E k \in Clients : ClientSteps(k)
  \/ \E c \in Ids : HostSteps(c) \/ \E ok \in BOOLEAN : Delete(c, ok)

Spec == Init /\ [][Next]_vars
-----------------------------------------------------------------------------
(* Properties.                                                             *)

TypeOK ==
  /\ \A k \in Clients :
       /\ task[k].at \in Places /\ {task[k].fetch, task[k].cancel} \subseteq BOOLEAN
       /\ task[k].id \in Ids \cup {None} /\ task[k].name \in Names \cup {None}
       /\ task[k].takes \in Taken \cup {None} /\ task[k].got \in Contents \cup {None}
  /\ owner \in [Ids -> Clients \cup {None}]
  /\ work \in [Ids -> {"off", "copy", "tar"}]
  /\ said \in [Ids -> {"nothing", "DONE|copy", "STOPPED|copy", "OK", "ERR"}]
  /\ todo \in [Ids -> SUBSET Entries]
  /\ keeps \in [Ids -> [Entries -> Outcomes]]
  /\ \A c \in Ids : tree[c] = None \/ tree[c] \subseteq Entries \X Kinds
  /\ man \in [Ids -> Taken \cup {None}]
  /\ arc \in [Ids -> Contents \cup {None}]
  /\ stopf \in [Ids -> BOOLEAN]
  /\ grown \in [Ids -> 0 .. Margin]
  /\ \A n \in Names : local[n] \in Contents \cup {None, Empty}
  /\ told \cup asked \subseteq Ids
  /\ crowded \in [Clients -> BOOLEAN]

\* An archive worth having: it reads through, with the manifest and the files of the host's.
\* Its bytes are the host's as well, unless damage may come where neither check looks.
Good(got) == got.whole /\ (got.same \/ "silent" \in Faults)

\* The module's head: the host's archive goes only when a good one is on the PC or the
\* operator asked, whoever else fetches or deletes it, and whatever is cut or dies.
OnPC(c) == \E n \in Names : local[n] # None /\ local[n].of = c /\ Good(local[n])
OnHost(c) == arc[c] # None /\ arc[c].whole

Place ==
  [c \in Ids |-> CASE OnHost(c) /\ OnPC(c)   -> "both"
                   [] OnHost(c) /\ ~OnPC(c)  -> "host"
                   [] ~OnHost(c) /\ OnPC(c)  -> "pc"
                   [] ~OnHost(c) /\ ~OnPC(c) -> "nowhere"]

Handover == INSTANCE SafeHandover WITH place <- Place, asked <- asked

HandsOver == Handover!Spec

\* An archive that passed the comparison with its manifest holds every entry the manifest
\* does not call skipped: nothing that was ticked is missing without a word.
Accounted ==
  \A k \in Clients : task[k].at = "cleanup" /\ ~task[k].fetch =>
    LET got == local[task[k].name] IN
      \A e \in Entries : got.man[e] # "skipped" => <<e, got.man[e]>> \in got.files

\* A leftover nobody knows of is how a server would fill up: what a collection leaves on
\* its host when it returns is named in its result, unless the app died.
LeftoversAreTold ==
  \A c \in Ids : Held(c) /\ (\A k \in Clients : task[k].id # c) => c \in told

\* The gate keeps the reserve of the disk free through copy and archive, after any number
\* of failed collections, as long as it measured while nothing else was writing.
ReserveKept == \A k \in Clients : ~crowded[k] => Free(k) >= Reserve
=============================================================================
