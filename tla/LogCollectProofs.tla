-------------------------- MODULE LogCollectProofs --------------------------
(***************************************************************************)
(* Proofs about LogCollect, for any clients, collections, entries, names   *)
(* and faults.  The invariant has five parts: types; what a client's task  *)
(* knows of its collection; what it knows of the file it writes; where     *)
(* whole copies of an archive can be; what the collections of a client can *)
(* still come to take of its host's disk.                                  *)
(***************************************************************************)
EXTENDS LogCollect, FiniteSetTheorems, TLAPS

Tasks ==
  [at : Places, id : Ids \cup {None}, fetch : BOOLEAN, cancel : BOOLEAN,
   takes : Taken \cup {None}, name : Names \cup {None}, got : Contents \cup {None}]

Staged == SUBSET (Entries \X Kinds)

HostTypes ==
  /\ work \in [Ids -> {"off", "copy", "tar"}]
  /\ said \in [Ids -> {"nothing", "DONE|copy", "STOPPED|copy", "OK", "ERR"}]
  /\ todo \in [Ids -> SUBSET Entries]
  /\ keeps \in [Ids -> [Entries -> Outcomes]]
  /\ tree \in [Ids -> Staged \cup {None}]
  /\ man \in [Ids -> Taken \cup {None}]
  /\ arc \in [Ids -> Contents \cup {None}]
  /\ stopf \in [Ids -> BOOLEAN]
  /\ grown \in [Ids -> 0 .. Margin]

Types ==
  /\ task \in [Clients -> Tasks]
  /\ owner \in [Ids -> Clients \cup {None}]
  /\ HostTypes
  /\ local \in [Names -> Contents \cup {None, Empty}]
  /\ told \in SUBSET Ids /\ asked \in SUBSET Ids
  /\ crowded \in [Clients -> BOOLEAN]

-----------------------------------------------------------------------------
(* Types.                                                                  *)

\* Only the place of k's task changes.
OnlyPlace(k, place) ==
  /\ task'[k].at = place
  /\ task'[k].id = task[k].id /\ task'[k].fetch = task[k].fetch
  /\ task'[k].cancel = task[k].cancel /\ task'[k].takes = task[k].takes
  /\ task'[k].name = task[k].name /\ task'[k].got = task[k].got

Others(k) == \A j \in Clients \ {k} : task'[j] = task[j]

LEMMA IdleTask ==
  /\ Idle \in Tasks
  /\ Idle.at = "idle" /\ Idle.id = None /\ Idle.fetch = FALSE /\ Idle.cancel = FALSE
  /\ Idle.takes = None /\ Idle.name = None /\ Idle.got = None
BY DEF Idle, Tasks, Places

LEMMA GoesTask ==
  ASSUME Types, NEW k \in Clients, NEW place \in Places, Goes(k, place)
  PROVE  task' \in [Clients -> Tasks] /\ OnlyPlace(k, place) /\ Others(k)
<1>1. task[k] \in Tasks
  BY DEF Types
<1>2. [task[k] EXCEPT !.at = place] \in Tasks
  BY <1>1 DEF Tasks
<1>3. task' = [task EXCEPT ![k] = [task[k] EXCEPT !.at = place]]
  BY DEF Goes
<1>4. task' \in [Clients -> Tasks]
  BY <1>2, <1>3 DEF Types
<1>5. Others(k)
  BY <1>3 DEF Types, Others
<1>6. task'[k] = [task[k] EXCEPT !.at = place]
  BY <1>3 DEF Types
<1>7. OnlyPlace(k, place)
  BY <1>1, <1>6 DEF OnlyPlace, Tasks
<1> QED
  BY <1>4, <1>5, <1>7

LEMMA EndsTask ==
  ASSUME Types, NEW k \in Clients, Ends(k)
  PROVE  task' \in [Clients -> Tasks] /\ task'[k] = Idle /\ Others(k)
BY IdleTask DEF Types, Ends, Others

LEMMA GateTask ==
  ASSUME Types, NEW k \in Clients, NEW c \in Ids, Gate(k, c)
  PROVE  /\ task' \in [Clients -> Tasks] /\ Others(k)
         /\ task'[k].at = "stage" /\ task'[k].id = c /\ task'[k].fetch = task[k].fetch
         /\ task'[k].cancel = FALSE /\ task'[k].takes = task[k].takes /\ task'[k].got = task[k].got
<1>1. task[k] \in Tasks
  BY DEF Types
<1> DEFINE new == [task[k] EXCEPT !.at = "stage", !.id = c]
<1>2. new \in Tasks
  BY <1>1 DEF Tasks, Places
<1>3. task' = [task EXCEPT ![k] = new]
  BY DEF Gate, Types
<1>4. new.at = "stage" /\ new.id = c /\ new.fetch = task[k].fetch
      /\ new.cancel = task[k].cancel /\ new.takes = task[k].takes /\ new.got = task[k].got
  BY <1>1 DEF Tasks
<1>5. task[k].cancel = FALSE
  BY <1>1 DEF Gate, Tasks
<1> HIDE DEF new
<1> QED
  BY <1>2, <1>3, <1>4, <1>5 DEF Types, Others

LEMMA CopyTask ==
  ASSUME Types, NEW k \in Clients, CopyReturns(k), task[k].id \in Ids
  PROVE  /\ task' \in [Clients -> Tasks] /\ Others(k)
         /\ task'[k].at \in {"manifest", "abandon"} /\ task'[k].id = task[k].id
         /\ task'[k].fetch = task[k].fetch /\ task'[k].cancel = task[k].cancel
         /\ task'[k].got = task[k].got
<1>1. task[k] \in Tasks
  BY DEF Types
<1>2. PICK good \in BOOLEAN :
        task' = [task EXCEPT ![k].at = IF good THEN "manifest" ELSE "abandon",
                             ![k].takes = IF good THEN Found(task[k].id) ELSE None]
  BY DEF CopyReturns
<1>3. Found(task[k].id) \in Taken
  <2>1. \A e \in Entries : Promised(task[k].id, e) \in Kinds \cup {"skipped"}
    BY DEF Types, HostTypes, Promised, Outcomes, Kinds
  <2> QED
    BY <2>1 DEF Found, Taken
<1>4. PICK place, takes : /\ place = IF good THEN "manifest" ELSE "abandon"
                          /\ takes = IF good THEN Found(task[k].id) ELSE None
  OBVIOUS
<1>5. place \in {"manifest", "abandon"} /\ takes \in Taken \cup {None}
  BY <1>3, <1>4
<1> DEFINE new == [task[k] EXCEPT !.at = place, !.takes = takes]
<1>6. new \in Tasks
  BY <1>1, <1>5 DEF Tasks, Places
<1>7. task' = [task EXCEPT ![k] = new]
  BY <1>2, <1>4 DEF Types
<1>8. new.at = place /\ new.id = task[k].id /\ new.fetch = task[k].fetch
      /\ new.cancel = task[k].cancel /\ new.got = task[k].got
  BY <1>1 DEF Tasks
<1> HIDE DEF new
<1> QED
  BY <1>5, <1>6, <1>7, <1>8 DEF Types, Others

LEMMA ClaimTask ==
  ASSUME Types, NEW k \in Clients, NEW n \in Names, Claim(k, n)
  PROVE  /\ task' \in [Clients -> Tasks] /\ Others(k)
         /\ task'[k].at = "stat" /\ task'[k].name = n /\ task'[k].id = task[k].id
         /\ task'[k].fetch = task[k].fetch /\ task'[k].cancel = task[k].cancel
         /\ task'[k].takes = task[k].takes /\ task'[k].got = task[k].got
<1>1. task[k] \in Tasks
  BY DEF Types
<1> DEFINE new == [task[k] EXCEPT !.at = "stat", !.name = n]
<1>2. new \in Tasks
  BY <1>1 DEF Tasks, Places
<1>3. task' = [task EXCEPT ![k] = new]
  BY DEF Claim, Types
<1>4. new.at = "stat" /\ new.name = n /\ new.id = task[k].id /\ new.fetch = task[k].fetch
      /\ new.cancel = task[k].cancel /\ new.takes = task[k].takes /\ new.got = task[k].got
  BY <1>1 DEF Tasks
<1> HIDE DEF new
<1> QED
  BY <1>2, <1>3, <1>4 DEF Types, Others

LEMMA StartDownloadTask ==
  ASSUME Types, NEW k \in Clients, NEW got \in Contents, got = arc[task[k].id], StartDownload(k)
  PROVE  /\ task' \in [Clients -> Tasks] /\ Others(k)
         /\ task'[k].at = "download" /\ task'[k].got = got /\ task'[k].id = task[k].id
         /\ task'[k].fetch = task[k].fetch /\ task'[k].cancel = task[k].cancel
         /\ task'[k].takes = task[k].takes /\ task'[k].name = task[k].name
<1>1. task[k] \in Tasks
  BY DEF Types
<1> DEFINE new == [task[k] EXCEPT !.at = "download", !.got = got]
<1>2. new \in Tasks
  BY <1>1 DEF Tasks, Places
<1>3. task' = [task EXCEPT ![k] = new]
  BY DEF StartDownload, Types
<1>4. new.at = "download" /\ new.got = got /\ new.id = task[k].id /\ new.fetch = task[k].fetch
      /\ new.cancel = task[k].cancel /\ new.takes = task[k].takes /\ new.name = task[k].name
  BY <1>1 DEF Tasks
<1> HIDE DEF new
<1> QED
  BY <1>2, <1>3, <1>4 DEF Types, Others

LEMMA DownloadedTask ==
  ASSUME Types, NEW k \in Clients, NEW how, Downloaded(k, how)
  PROVE  /\ task' \in [Clients -> Tasks] /\ Others(k)
         /\ task'[k].at = "verify" /\ task'[k].got = None /\ task'[k].id = task[k].id
         /\ task'[k].fetch = task[k].fetch /\ task'[k].cancel = task[k].cancel
         /\ task'[k].takes = task[k].takes /\ task'[k].name = task[k].name
<1>1. task[k] \in Tasks
  BY DEF Types
<1> DEFINE new == [task[k] EXCEPT !.at = "verify", !.got = None]
<1>2. new \in Tasks
  BY <1>1 DEF Tasks, Places
<1>3. task' = [task EXCEPT ![k] = new]
  BY DEF Downloaded, Types
<1>4. new.at = "verify" /\ new.got = None /\ new.id = task[k].id /\ new.fetch = task[k].fetch
      /\ new.cancel = task[k].cancel /\ new.takes = task[k].takes /\ new.name = task[k].name
  BY <1>1 DEF Tasks
<1> HIDE DEF new
<1> QED
  BY <1>2, <1>3, <1>4 DEF Types, Others

LEMMA RefetchTask ==
  ASSUME Types, NEW k \in Clients, NEW c \in Ids, Refetch(k, c)
  PROVE  /\ task' \in [Clients -> Tasks] /\ Others(k)
         /\ task'[k].at = "claim" /\ task'[k].id = c /\ task'[k].fetch = TRUE
         /\ task'[k].cancel = FALSE /\ task'[k].got = None
<1> DEFINE new == [Idle EXCEPT !.at = "claim", !.id = c, !.fetch = TRUE]
<1>1. new \in Tasks
  BY IdleTask DEF Tasks, Places
<1>2. task' = [task EXCEPT ![k] = new]
  BY DEF Refetch
<1>3. new.at = "claim" /\ new.id = c /\ new.fetch = TRUE /\ new.cancel = FALSE /\ new.got = None
  BY IdleTask DEF Tasks
<1> HIDE DEF new
<1> QED
  BY <1>1, <1>2, <1>3 DEF Types, Others

LEMMA CancelTask ==
  ASSUME Types, NEW k \in Clients, Cancel(k)
  PROVE  /\ task' \in [Clients -> Tasks] /\ Others(k)
         /\ task'[k].cancel = TRUE /\ task'[k].at = task[k].at /\ task'[k].id = task[k].id
         /\ task'[k].fetch = task[k].fetch /\ task'[k].takes = task[k].takes
         /\ task'[k].name = task[k].name /\ task'[k].got = task[k].got
<1>1. task[k] \in Tasks
  BY DEF Types
<1> DEFINE new == [task[k] EXCEPT !.cancel = TRUE]
<1>2. new \in Tasks
  BY <1>1 DEF Tasks
<1>3. task' = [task EXCEPT ![k] = new]
  BY DEF Cancel, Types
<1>4. new.cancel = TRUE /\ new.at = task[k].at /\ new.id = task[k].id /\ new.fetch = task[k].fetch
      /\ new.takes = task[k].takes /\ new.name = task[k].name /\ new.got = task[k].got
  BY <1>1 DEF Tasks
<1> HIDE DEF new
<1> QED
  BY <1>2, <1>3, <1>4 DEF Types, Others

LEMMA LeftTypes == ASSUME HostTypes, NEW c, Left(c) PROVE work' \in [Ids -> {"off", "copy", "tar"}]
BY DEF HostTypes, Left

LEMMA ReadTypes ==
  ASSUME HostTypes, NEW c, Read(c)
  PROVE  /\ work' \in [Ids -> {"off", "copy", "tar"}]
         /\ said' \in [Ids -> {"nothing", "DONE|copy", "STOPPED|copy", "OK", "ERR"}]
         /\ keeps' \in [Ids -> [Entries -> Outcomes]]
         /\ todo' \in [Ids -> SUBSET Entries]
<1>1. work' \in [Ids -> {"off", "copy", "tar"}]
  BY LeftTypes DEF Read
<1>2. said' \in [Ids -> {"nothing", "DONE|copy", "STOPPED|copy", "OK", "ERR"}]
  BY DEF HostTypes, Read
<1>3. keeps' \in [Ids -> [Entries -> Outcomes]]
  <2>1. [e \in Entries |-> "todo"] \in [Entries -> Outcomes]
    BY DEF Outcomes
  <2> QED
    BY <2>1 DEF HostTypes, Read
<1>4. todo' \in [Ids -> SUBSET Entries]
  BY DEF HostTypes, Read
<1> QED
  BY <1>1, <1>2, <1>3, <1>4

LEMMA GoneTypes ==
  ASSUME HostTypes, NEW c, TreeGoes(c)
  PROVE  /\ tree' \in [Ids -> Staged \cup {None}]
         /\ man' \in [Ids -> Taken \cup {None}]
         /\ stopf' \in [Ids -> BOOLEAN] /\ grown' \in [Ids -> 0 .. Margin]
<1>1. 0 \in 0 .. Margin
  BY LogCollectAssumption
<1>2. grown' \in [Ids -> 0 .. Margin]
  BY <1>1 DEF HostTypes, TreeGoes
<1>3. tree' \in [Ids -> Staged \cup {None}]
  BY DEF HostTypes, TreeGoes
<1>4. man' \in [Ids -> Taken \cup {None}] /\ stopf' \in [Ids -> BOOLEAN]
  BY DEF HostTypes, TreeGoes
<1> QED
  BY <1>2, <1>3, <1>4

LEMMA RemovesTypes == ASSUME HostTypes, NEW c, NEW ok, Removes(c, ok) PROVE HostTypes'
<1>1. [arc EXCEPT ![c] = None] \in [Ids -> Contents \cup {None}]
  BY DEF HostTypes
<1> QED
  BY <1>1, GoneTypes DEF HostTypes, Removes

-----------------------------------------------------------------------------
(* What a task knows of its collection, and an id of its client.           *)

Knows(k) ==
  /\ task[k].at \in {"idle", "gate"} => task[k].id = None /\ task[k].fetch = FALSE
  /\ task[k].at \notin {"idle", "gate"} =>
       task[k].id \in Ids /\ (task[k].fetch = FALSE => owner[task[k].id] = k)
  /\ task[k].fetch = TRUE => task[k].at \in {"claim", "stat", "download", "verify", "cleanup"}
  /\ task[k].at = "download" => task[k].got # None /\ task[k].got.of = task[k].id
  /\ task[k].at # "download" => task[k].got = None

Drawn(c) ==
  /\ arc[c] # None => arc[c].of = c
  /\ owner[c] = None => arc[c] = None /\ tree[c] = None /\ \A k \in Clients : task[k].id # c

Basic == Types /\ (\A k \in Clients : Knows(k)) /\ (\A c \in Ids : Drawn(c))

\* Nobody's collection and nobody's task changes but k's.
LEMMA BasicFrame ==
  ASSUME Basic, Types', NEW k \in Clients, Others(k), Knows(k)',
         owner' = owner,
         \A c \in Ids : /\ arc'[c] # None => arc'[c].of = c
                        /\ owner[c] = None => arc'[c] = None /\ tree'[c] = None /\ task'[k].id # c
  PROVE  Basic'
<1>1. ASSUME NEW j \in Clients \ {k} PROVE Knows(j)'
  BY <1>1 DEF Basic, Knows, Others
<1>2. ASSUME NEW c \in Ids PROVE Drawn(c)'
  BY <1>2 DEF Basic, Drawn, Others
<1> QED
  BY <1>1, <1>2 DEF Basic

\* Steps of a client that leave the host and the folder alone.
LEMMA PlainBasic ==
  ASSUME Basic, NEW k \in Clients, UNCHANGED <<owner, hostVars, local, crowded>>,
         told' \in SUBSET Ids, asked' \in SUBSET Ids,
         task' \in [Clients -> Tasks], Others(k), Knows(k)',
         \A c \in Ids : owner[c] = None => task'[k].id # c
  PROVE  Basic'
<1>1. Types'
  BY DEF Basic, Types, HostTypes, hostVars
<1> QED
  BY <1>1, BasicFrame DEF Basic, Drawn, hostVars

LEMMA EndsBasic ==
  ASSUME Basic, NEW k \in Clients, UNCHANGED <<owner, hostVars, local, crowded>>,
         told' \in SUBSET Ids, asked' \in SUBSET Ids, Ends(k)
  PROVE  Basic'
<1>1. task' \in [Clients -> Tasks] /\ task'[k] = Idle /\ Others(k)
  BY EndsTask DEF Basic
<1>2. Knows(k)'
  BY <1>1, IdleTask DEF Knows
<1> QED
  BY <1>1, <1>2, IdleTask, NoneAssumption, PlainBasic

LEMMA GoesBasic ==
  ASSUME Basic, NEW k \in Clients, UNCHANGED <<owner, hostVars, local, histVars>>,
         NEW place \in Places \ {"idle", "gate", "download"}, Goes(k, place),
         task[k].at \notin {"idle", "gate", "download"}, task[k].fetch = TRUE => place = "cleanup"
  PROVE  Basic'
<1>1. task' \in [Clients -> Tasks] /\ OnlyPlace(k, place) /\ Others(k)
  BY GoesTask DEF Basic
<1>2. Knows(k)'
  BY <1>1 DEF Basic, Knows, OnlyPlace
<1>3. \A c \in Ids : owner[c] = None => task'[k].id # c
  BY <1>1 DEF OnlyPlace, Basic, Drawn
<1> QED
  BY <1>1, <1>2, <1>3, PlainBasic DEF histVars, Basic, Types

LEMMA TellsTypes == ASSUME Basic, NEW k \in Clients, Tells(k), task[k].id \in Ids
                    PROVE  told' \in SUBSET Ids /\ asked' \in SUBSET Ids /\ crowded' = crowded
BY DEF Tells, Basic, Types

LEMMA BasicClient == ASSUME Basic, NEW k \in Clients, ClientSteps(k) PROVE Basic'
<1> DEFINE c == task[k].id
<1>0. /\ task[k] \in Tasks /\ Knows(k)
      /\ c \in Ids => Drawn(c)
  BY DEF Basic, Types
<1>1. CASE Begin(k)
  <2>1. task' \in [Clients -> Tasks] /\ OnlyPlace(k, "gate") /\ Others(k)
    BY <1>1, GoesTask DEF Begin, Basic, Places
  <2>2. Knows(k)' /\ \A d \in Ids : task'[k].id # d
    BY <1>0, <1>1, <2>1, NoneAssumption DEF Begin, Knows, OnlyPlace
  <2> QED
    BY <1>1, <2>1, <2>2, PlainBasic DEF Begin, histVars, Basic, Types
<1>2. ASSUME NEW d \in Ids, Gate(k, d) PROVE Basic'
  <2>1. /\ task' \in [Clients -> Tasks] /\ Others(k)
        /\ task'[k].at = "stage" /\ task'[k].id = d /\ task'[k].fetch = FALSE /\ task'[k].got = None
    <3>1. task[k].at = "gate"
      BY <1>2 DEF Gate
    <3> QED
      BY <1>0, <1>2, <3>1, GateTask, ZenonT(40) DEF Basic, Knows
  <2>2. Types'
    <3>0. {} \in Staged
      BY DEF Staged
    <3>1. HostTypes'
      BY <1>2, <3>0 DEF Gate, Basic, Types, HostTypes
    <3>2. owner' \in [Ids -> Clients \cup {None}] /\ crowded' \in [Clients -> BOOLEAN]
      BY <1>2 DEF Gate, Basic, Types
    <3> QED
      BY <1>2, <2>1, <3>1, <3>2 DEF Gate, Basic, Types
  <2>3. owner' = [owner EXCEPT ![d] = k] /\ owner[d] = None /\ tree' = [tree EXCEPT ![d] = {}] /\ arc' = arc
    BY <1>2 DEF Gate
  <2>4. ASSUME NEW j \in Clients PROVE Knows(j)'
    <3>1. CASE j = k
      BY <2>1, <2>3, <3>1 DEF Basic, Types, Knows
    <3>2. CASE j # k
      <4>1. task'[j] = task[j] /\ Knows(j) /\ task[j].id # d
        BY <2>1, <2>3, <2>4, <3>2 DEF Others, Basic, Drawn
      <4> QED
        BY <2>3, <4>1 DEF Knows, Basic, Types
    <3> QED
      BY <3>1, <3>2
  <2>5. ASSUME NEW e \in Ids PROVE Drawn(e)'
    <3>1. CASE e = d
      BY <2>3, <3>1, NoneAssumption DEF Basic, Types, Drawn
    <3>2. CASE e # d
      BY <2>1, <2>3, <2>5, <3>2 DEF Basic, Types, Drawn, Others
    <3> QED
      BY <3>1, <3>2
  <2> QED
    BY <2>2, <2>4, <2>5 DEF Basic
<1>3. CASE GateRefuses(k)
  BY <1>3, EndsBasic DEF GateRefuses, histVars, Basic, Types
<1>4. CASE StageFails(k) \/ ManifestFails(k)
  <2>1. task[k].fetch = FALSE
    BY <1>0, <1>4 DEF StageFails, ManifestFails, Knows, Tasks
  <2> QED
    BY <1>4, <2>1, GoesBasic DEF StageFails, ManifestFails, Places
<1>5. CASE StartCopy(k)
  <2>1. task' \in [Clients -> Tasks] /\ OnlyPlace(k, "copy") /\ Others(k)
    BY <1>5, GoesTask DEF StartCopy, Basic, Places
  <2>2. Types'
    BY <1>5, <2>1 DEF StartCopy, Basic, Types, HostTypes, histVars
  <2>3. Knows(k)'
    BY <1>0, <1>5, <2>1 DEF StartCopy, Knows, OnlyPlace
  <2> QED
    BY <1>5, <2>1, <2>2, <2>3, BasicFrame DEF StartCopy, OnlyPlace, Basic, Drawn
<1>6. CASE TouchStop(k)
  <2>1. Types'
    BY <1>6 DEF TouchStop, Basic, Types, HostTypes, histVars
  <2> QED
    BY <1>6, <2>1 DEF TouchStop, Basic, Knows, Drawn
<1>7. CASE CopyReturns(k)
  <2>1. /\ task' \in [Clients -> Tasks] /\ Others(k)
        /\ task'[k].at \in {"manifest", "abandon"} /\ task'[k].id = c
        /\ task'[k].fetch = task[k].fetch /\ task'[k].got = task[k].got
    BY <1>0, <1>7, CopyTask DEF CopyReturns, Basic, Knows
  <2>2. Types'
    BY <1>7, <2>1, ReadTypes, SMTT(40) DEF CopyReturns, Basic, Types, HostTypes, histVars
  <2>3. Knows(k)'
    BY <1>0, <1>7, <2>1 DEF CopyReturns, Knows
  <2>4. UNCHANGED <<owner, tree, arc>>
    BY <1>7 DEF CopyReturns
  <2>5. \A d \in Ids : /\ arc'[d] # None => arc'[d].of = d
                       /\ owner[d] = None => arc'[d] = None /\ tree'[d] = None /\ task'[k].id # d
    BY <2>1, <2>4 DEF Basic, Drawn
  <2> QED
    BY <2>1, <2>2, <2>3, <2>4, <2>5, BasicFrame
<1>8. CASE Manifest(k)
  <2>1. PICK place \in {"abandon", "archive"} : Goes(k, place)
    BY <1>8 DEF Manifest
  <2>2. task' \in [Clients -> Tasks] /\ OnlyPlace(k, place) /\ Others(k)
    BY <2>1, GoesTask DEF Basic, Places
  <2>3. Types'
    BY <1>0, <1>8, <2>2 DEF Manifest, Basic, Types, HostTypes, histVars, Tasks
  <2>4. Knows(k)'
    BY <1>0, <1>8, <2>2 DEF Manifest, Knows, OnlyPlace
  <2> QED
    BY <1>8, <2>2, <2>3, <2>4, BasicFrame DEF Manifest, OnlyPlace, Basic, Drawn
<1>9. CASE StartTar(k)
  <2>1. task' \in [Clients -> Tasks] /\ OnlyPlace(k, "tar") /\ Others(k)
    BY <1>9, GoesTask DEF StartTar, Basic, Places
  <2>2. c \in Ids /\ owner[c] # None
    BY <1>0, <1>9 DEF StartTar, Knows, Drawn
  <2> DEFINE new == [of |-> c, files |-> tree[c], man |-> man[c], whole |-> FALSE, same |-> TRUE]
  <2>3. new \in Contents
    <3>1. tree[c] \in Staged /\ man[c] \in Taken \cup {None}
      BY <1>9, <2>2 DEF StartTar, Basic, Types, HostTypes
    <3>2. Contents = [of : Ids, files : Staged, man : Taken \cup {None},
                     whole : BOOLEAN, same : BOOLEAN]
      BY DEF Contents, Staged
    <3> QED
      BY <2>2, <3>1, <3>2
  <2>4. arc' = [arc EXCEPT ![c] = new] /\ new.of = c
    BY <1>9 DEF StartTar
  <2> HIDE DEF new
  <2>5. Types'
    <3>1. arc' \in [Ids -> Contents \cup {None}]
      BY <2>3, <2>4 DEF Basic, Types, HostTypes
    <3>2. HostTypes'
      BY <1>9, <3>1 DEF StartTar, Basic, Types, HostTypes
    <3> QED
      BY <1>9, <2>1, <3>2 DEF StartTar, Basic, Types, histVars
  <2>6. Knows(k)'
    BY <1>0, <1>9, <2>1 DEF StartTar, Knows, OnlyPlace
  <2>7. \A d \in Ids : /\ arc'[d] # None => arc'[d].of = d
                       /\ owner[d] = None => arc'[d] = None /\ tree'[d] = None /\ task'[k].id # d
    BY <1>9, <2>1, <2>2, <2>4 DEF StartTar, OnlyPlace, Basic, Types, HostTypes, Drawn
  <2> QED
    BY <1>9, <2>1, <2>5, <2>6, <2>7, BasicFrame DEF StartTar
<1>10. CASE TarRefused(k) \/ ClaimFails(k)
  <2>1. c \in Ids /\ Tells(k)
    BY <1>0, <1>10 DEF TarRefused, ClaimFails, Knows
  <2> QED
    BY <1>10, <2>1, TellsTypes, EndsBasic DEF TarRefused, ClaimFails, Tells
<1>11. CASE TarReturns(k)
  <2>1. c \in Ids /\ task[k].fetch = FALSE /\ task[k].got = None
    BY <1>0, <1>11 DEF TarReturns, Knows, Tasks
  <2>2. CASE Tells(k)
    <3>1. task' \in [Clients -> Tasks] /\ task'[k] = Idle /\ Others(k)
      BY <2>2, EndsTask DEF Tells, Basic
    <3>2. Types'
      BY <1>11, <2>1, <2>2, <3>1, ReadTypes, TellsTypes DEF TarReturns, Basic, Types, HostTypes
    <3>3. Knows(k)'
      BY <3>1, IdleTask DEF Knows
    <3> QED
      BY <1>11, <3>1, <3>2, <3>3, IdleTask, NoneAssumption, BasicFrame DEF TarReturns, Basic, Drawn
  <2>3. ASSUME NEW place \in {"abandon", "claim"}, Goes(k, place), UNCHANGED histVars PROVE Basic'
    <3>1. task' \in [Clients -> Tasks] /\ OnlyPlace(k, place) /\ Others(k)
      BY <2>3, GoesTask DEF Basic, Places
    <3>2. Types'
      BY <1>11, <2>3, <3>1, ReadTypes DEF TarReturns, Basic, Types, HostTypes, histVars
    <3>3. Knows(k)'
      BY <1>0, <1>11, <2>1, <3>1 DEF TarReturns, Knows, OnlyPlace
    <3> QED
      BY <1>11, <3>1, <3>2, <3>3, BasicFrame DEF TarReturns, OnlyPlace, Basic, Drawn
  <2> QED
    BY <1>11, <2>2, <2>3 DEF TarReturns
<1>12. ASSUME NEW ok \in BOOLEAN, Abandon(k, ok) \/ Cleanup(k, ok) PROVE Basic'
  <2>1. c \in Ids /\ Removes(c, ok) /\ UNCHANGED <<owner, local>>
    BY <1>0, <1>12 DEF Abandon, Cleanup, Knows
  <2>2. Ends(k) /\ told' \in SUBSET Ids /\ asked' \in SUBSET Ids /\ crowded' = crowded
    BY <1>12, <2>1, TellsTypes DEF Abandon, Cleanup, Tells, histVars, Basic, Types
  <2>3. task' \in [Clients -> Tasks] /\ task'[k] = Idle /\ Others(k)
    BY <2>2, EndsTask DEF Basic
  <2>4. Types'
    BY <2>1, <2>2, <2>3, RemovesTypes DEF Basic, Types
  <2>5. \A d \in Ids : arc'[d] \in {arc[d], None} /\ tree'[d] \in {tree[d], None}
    BY <2>1 DEF Removes, TreeGoes, Basic, Types, HostTypes
  <2>6. Knows(k)'
    BY <2>3, IdleTask DEF Knows
  <2> QED
    BY <2>1, <2>3, <2>4, <2>5, <2>6, IdleTask, NoneAssumption, BasicFrame DEF Basic, Drawn
<1>13. ASSUME NEW n \in Names, Claim(k, n) PROVE Basic'
  <2>1. task' \in [Clients -> Tasks] /\ Others(k) /\ task'[k].at = "stat" /\ task'[k].id = c
        /\ task'[k].fetch = task[k].fetch /\ task'[k].got = task[k].got
    BY <1>13, ClaimTask DEF Basic
  <2>2. Types'
    BY <1>13, <2>1 DEF Claim, Basic, Types, HostTypes, hostVars, histVars
  <2>3. Knows(k)'
    BY <1>0, <1>13, <2>1 DEF Claim, Knows
  <2> QED
    BY <1>13, <2>1, <2>2, <2>3, BasicFrame DEF Claim, hostVars, Basic, Drawn
<1>14. CASE StartDownload(k)
  <2>1. c \in Ids /\ arc[c] \in Contents /\ arc[c].of = c
    BY <1>0, <1>14 DEF StartDownload, Knows, Drawn, Basic, Types, HostTypes
  <2>2. task' \in [Clients -> Tasks] /\ Others(k) /\ task'[k].at = "download" /\ task'[k].got = arc[c]
        /\ task'[k].id = c /\ task'[k].fetch = task[k].fetch
    BY <1>14, <2>1, StartDownloadTask DEF Basic
  <2>3. Knows(k)'
    BY <1>0, <1>14, <2>1, <2>2 DEF StartDownload, Knows
  <2>4. \A d \in Ids : owner[d] = None => task'[k].id # d
    BY <2>2 DEF Basic, Drawn
  <2> QED
    BY <1>14, <2>2, <2>3, <2>4, PlainBasic DEF StartDownload, histVars, Basic, Types
<1>15. ASSUME NEW how \in {"intact", "torn", "silent"}, Downloaded(k, how) PROVE Basic'
  <2>1. task' \in [Clients -> Tasks] /\ Others(k) /\ task'[k].at = "verify" /\ task'[k].got = None
        /\ task'[k].id = c /\ task'[k].fetch = task[k].fetch
    BY <1>15, DownloadedTask DEF Basic
  <2>2. task[k].got \in Contents
    BY <1>0, <1>15 DEF Downloaded, Knows, Tasks
  <2>3. [task[k].got EXCEPT !.whole = task[k].got.whole /\ how # "torn", !.same = how = "intact"] \in Contents
    BY <2>2 DEF Contents
  <2>4. local' \in [Names -> Contents \cup {None, Empty}]
    BY <1>15, <2>3 DEF Downloaded, Basic, Types
  <2>5. Types'
    BY <1>15, <2>1, <2>4 DEF Downloaded, Basic, Types, HostTypes, hostVars, histVars
  <2>6. Knows(k)'
    BY <1>0, <1>15, <2>1 DEF Downloaded, Knows
  <2> QED
    BY <1>15, <2>1, <2>5, <2>6, BasicFrame DEF Downloaded, hostVars, Basic, Drawn
<1>16. CASE DownloadFails(k)
  <2>1. c \in Ids /\ Tells(k)
    BY <1>0, <1>16 DEF DownloadFails, Knows
  <2>2. task' \in [Clients -> Tasks] /\ task'[k] = Idle /\ Others(k)
    BY <2>1, EndsTask DEF Tells, Basic
  <2>3. local' \in [Names -> Contents \cup {None, Empty}]
    BY <1>16 DEF DownloadFails, Basic, Types
  <2>4. Types'
    BY <1>16, <2>1, <2>2, <2>3, TellsTypes DEF DownloadFails, Basic, Types, HostTypes, hostVars
  <2>5. Knows(k)'
    BY <2>2, IdleTask DEF Knows
  <2> QED
    BY <1>16, <2>2, <2>4, <2>5, IdleTask, NoneAssumption, BasicFrame DEF DownloadFails, hostVars, Basic, Drawn
<1>17. CASE Verify(k)
  <2>1. CASE Goes(k, "cleanup") /\ UNCHANGED histVars
    BY <1>17, <2>1, GoesBasic DEF Verify, Places
  <2>2. CASE Tells(k)
    <3>1. c \in Ids
      BY <1>0, <1>17 DEF Verify, Knows
    <3> QED
      BY <1>17, <2>2, <3>1, TellsTypes, EndsBasic DEF Verify, Tells
  <2> QED
    BY <1>17, <2>1, <2>2 DEF Verify
<1>18. ASSUME NEW d \in Ids, Refetch(k, d) PROVE Basic'
  <2>1. task' \in [Clients -> Tasks] /\ Others(k) /\ task'[k].at = "claim" /\ task'[k].id = d
        /\ task'[k].fetch = TRUE /\ task'[k].got = None
    BY <1>18, RefetchTask DEF Basic
  <2>2. Knows(k)'
    BY <2>1 DEF Knows
  <2>3. \A e \in Ids : owner[e] = None => task'[k].id # e
    BY <1>18, <2>1 DEF Refetch, Basic, Drawn
  <2> QED
    BY <1>18, <2>1, <2>2, <2>3, PlainBasic DEF Refetch, histVars, Basic, Types
<1>19. CASE Cancel(k)
  <2>1. task' \in [Clients -> Tasks] /\ Others(k) /\ task'[k].at = task[k].at /\ task'[k].id = c
        /\ task'[k].fetch = task[k].fetch /\ task'[k].got = task[k].got
    BY <1>19, CancelTask DEF Basic
  <2>2. Knows(k)'
    BY <1>0, <1>19, <2>1 DEF Cancel, Knows
  <2>3. asked' \in SUBSET Ids /\ told' \in SUBSET Ids
    BY <1>0, <1>19 DEF Cancel, Basic, Types, Tasks
  <2>4. \A e \in Ids : owner[e] = None => task'[k].id # e
    BY <2>1 DEF Basic, Drawn
  <2> QED
    BY <1>19, <2>1, <2>2, <2>3, <2>4, PlainBasic DEF Cancel
<1>20. CASE Crash(k)
  <2>1. task' \in [Clients -> Tasks] /\ task'[k] = Idle /\ Others(k)
    BY <1>20, EndsTask DEF Crash, Basic
  <2>2. work' \in [Ids -> {"off", "copy", "tar"}] /\ told' \in SUBSET Ids
    BY <1>0, <1>20, LeftTypes DEF Crash, Basic, Types, HostTypes, Tasks
  <2>3. Types'
    BY <1>20, <2>1, <2>2 DEF Crash, Basic, Types, HostTypes
  <2>4. Knows(k)'
    BY <2>1, IdleTask DEF Knows
  <2> QED
    BY <1>20, <2>1, <2>3, <2>4, IdleTask, NoneAssumption, BasicFrame DEF Crash, Basic, Drawn
<1> QED
  BY <1>1, <1>2, <1>3, <1>4, <1>5, <1>6, <1>7, <1>8, <1>9, <1>10, <1>11, <1>12, <1>13, <1>14, <1>15,
     <1>16, <1>17, <1>18, <1>19, <1>20 DEF ClientSteps

LEMMA BasicHost == ASSUME Basic, NEW c \in Ids, HostSteps(c) \/ \E ok \in BOOLEAN : Delete(c, ok) PROVE Basic'
<1>1. ASSUME HostTypes', UNCHANGED <<task, owner, local, told, crowded>>, asked' \in SUBSET Ids,
             \A d \in Ids : /\ arc'[d] # None => arc[d] # None /\ arc'[d].of = arc[d].of
                            /\ tree'[d] # None => tree[d] # None
      PROVE  Basic'
  BY <1>1 DEF Basic, Types, Knows, Drawn
<1>2. ASSUME NEW e \in Entries, NEW o \in Outcomes, NEW left \in SUBSET Kinds, CopyOne(c, e, <<o, left>>)
      PROVE  Basic'
  <2>1. keeps' = [keeps EXCEPT ![c] = [keeps[c] EXCEPT ![e] = o]]
    BY <1>2 DEF CopyOne, Basic, Types, HostTypes
  <2>2. keeps' \in [Ids -> [Entries -> Outcomes]]
    BY <2>1 DEF Basic, Types, HostTypes
  <2>3. tree' = [tree EXCEPT ![c] = IF tree[c] = None THEN None ELSE tree[c] \cup ({e} \X left)]
    BY <1>2 DEF CopyOne
  <2>4. tree' \in [Ids -> Staged \cup {None}] /\ \A d \in Ids : tree'[d] # None => tree[d] # None
    <3>1. tree[c] # None => tree[c] \cup ({e} \X left) \in Staged
      <4>1. tree[c] # None => tree[c] \in Staged
        BY DEF Basic, Types, HostTypes
      <4>2. {e} \X left \in Staged
        BY DEF Staged
      <4>3. \A A, B \in Staged : A \cup B \in Staged
        BY DEF Staged
      <4> QED
        BY <4>1, <4>2, <4>3
    <3> QED
      BY <2>3, <3>1 DEF Basic, Types, HostTypes
  <2>5. grown' \in [Ids -> 0 .. Margin]
    <3>1. grown[c] \in 0 .. Margin /\ Margin \in Nat
      BY LogCollectAssumption DEF Basic, Types, HostTypes
    <3>2. grown'  = [grown EXCEPT ![c] = IF left # {} /\ grown[c] < Margin THEN grown[c] + 1 ELSE grown[c]]
      BY <1>2 DEF CopyOne
    <3>3. (IF left # {} /\ grown[c] < Margin THEN grown[c] + 1 ELSE grown[c]) \in 0 .. Margin
      BY <3>1
    <3> QED
      BY <3>2, <3>3 DEF Basic, Types, HostTypes
  <2>6. todo' \in [Ids -> SUBSET Entries]
    BY <1>2 DEF CopyOne, Basic, Types, HostTypes
  <2>7. HostTypes'
    BY <1>2, <2>2, <2>4, <2>5, <2>6 DEF CopyOne, Basic, Types, HostTypes
  <2> QED
    BY <1>1, <1>2, <2>4, <2>7 DEF CopyOne, histVars, Basic, Types
<1>3. CASE CopyEnds(c)
  <2>1. HostTypes'
    BY <1>3 DEF CopyEnds, Basic, Types, HostTypes
  <2> QED
    BY <1>1, <1>3, <2>1 DEF CopyEnds, histVars, Basic, Types
<1>4. ASSUME NEW files \in SUBSET (Entries \X Kinds), TarEnds(c, files) PROVE Basic'
  <2>1. arc[c] \in Contents
    BY <1>4 DEF TarEnds, Basic, Types, HostTypes
  <2> DEFINE new == [arc[c] EXCEPT !.files = files, !.whole = TRUE]
  <2>2. new \in Contents /\ new.of = arc[c].of
    BY <2>1 DEF Contents
  <2>3. arc' = [arc EXCEPT ![c] = new]
    BY <1>4 DEF TarEnds, Basic, Types, HostTypes
  <2> HIDE DEF new
  <2>4. arc' \in [Ids -> Contents \cup {None}]
    BY <2>2, <2>3 DEF Basic, Types, HostTypes
  <2>5. HostTypes'
    BY <1>4, <2>4, GoneTypes DEF TarEnds, Basic, Types, HostTypes
  <2>6. \A d \in Ids : /\ arc'[d] # None => arc[d] # None /\ arc'[d].of = arc[d].of
                       /\ tree'[d] # None => tree[d] # None
    BY <1>4, <2>2, <2>3 DEF TarEnds, TreeGoes, Basic, Types, HostTypes
  <2> QED
    BY <1>1, <1>4, <2>5, <2>6 DEF TarEnds, histVars, Basic, Types
<1>5. CASE TarFails(c)
  <2>1. HostTypes'
    BY <1>5 DEF TarFails, Basic, Types, HostTypes
  <2> QED
    BY <1>1, <1>5, <2>1 DEF TarFails, histVars, Basic, Types
<1>6. ASSUME NEW ok \in BOOLEAN, Delete(c, ok) PROVE Basic'
  <2>1. HostTypes'
    BY <1>6, RemovesTypes DEF Delete, Basic, Types
  <2>2. \A d \in Ids : arc'[d] \in {arc[d], None} /\ tree'[d] \in {tree[d], None}
    BY <1>6 DEF Delete, Removes, TreeGoes, Basic, Types, HostTypes
  <2> QED
    BY <1>1, <1>6, <2>1, <2>2 DEF Delete, Basic, Types
<1> QED
  BY <1>2, <1>3, <1>4, <1>5, <1>6 DEF HostSteps

LEMMA BasicStep == Basic /\ [Next]_vars => Basic'
<1> SUFFICES ASSUME Basic, [Next]_vars PROVE Basic'
  OBVIOUS
<1>1. CASE UNCHANGED vars
  BY <1>1 DEF vars, hostVars, histVars, Basic, Types, HostTypes, Knows, Drawn
<1> QED
  BY <1>1, BasicClient, BasicHost DEF Next

LEMMA BasicInit == Init => Basic
<1> SUFFICES ASSUME Init PROVE Basic
  OBVIOUS
<1>1. 0 \in 0 .. Margin /\ [e \in Entries |-> "todo"] \in [Entries -> Outcomes]
  BY LogCollectAssumption DEF Outcomes
<1>2. HostTypes
  <2>1. work \in [Ids -> {"off", "copy", "tar"}] /\ grown \in [Ids -> 0 .. Margin]
    BY <1>1 DEF Init
  <2>2. said \in [Ids -> {"nothing", "DONE|copy", "STOPPED|copy", "OK", "ERR"}]
    BY DEF Init
  <2>3. keeps \in [Ids -> [Entries -> Outcomes]] /\ todo \in [Ids -> SUBSET Entries]
    BY <1>1 DEF Init
  <2>4. /\ tree \in [Ids -> Staged \cup {None}]
        /\ man \in [Ids -> Taken \cup {None}]
    BY DEF Init
  <2>5. arc \in [Ids -> Contents \cup {None}] /\ stopf \in [Ids -> BOOLEAN]
    BY DEF Init
  <2> QED
    BY <2>1, <2>2, <2>3, <2>4, <2>5 DEF HostTypes
<1>3. Types
  BY <1>2, IdleTask DEF Init, Types
<1> QED
  BY <1>3, IdleTask, NoneAssumption DEF Init, Basic, Knows, Drawn

\* The types and the bookkeeping of ids hold, for any collection of faults (the state that
\* CollectLogs, its scripts and the calls on leftovers share).
THEOREM CollectTypes == Spec => []TypeOK
<1>1. Basic => TypeOK
  <2> SUFFICES ASSUME Basic PROVE TypeOK
    OBVIOUS
  <2>1. ASSUME NEW k \in Clients
        PROVE  /\ task[k].at \in Places /\ {task[k].fetch, task[k].cancel} \subseteq BOOLEAN
               /\ task[k].id \in Ids \cup {None} /\ task[k].name \in Names \cup {None}
               /\ task[k].takes \in Taken \cup {None} /\ task[k].got \in Contents \cup {None}
    BY DEF Basic, Types, Tasks
  <2>2. \A c \in Ids : tree[c] = None \/ tree[c] \subseteq Entries \X Kinds
    BY DEF Basic, Types, HostTypes, Staged
  <2> QED
    BY <2>1, <2>2 DEF Basic, Types, HostTypes, TypeOK
<1> QED
  BY <1>1, BasicInit, BasicStep, PTL DEF Spec

-----------------------------------------------------------------------------
(* Leftovers.                                                              *)

\* Whatever is left of a collection on its host is known to a client at work or was told.
Known ==
  \A c \in Ids : tree[c] # None \/ arc[c] # None => c \in told \/ \E k \in Clients : task[k].id = c

LEMMA KnownFrame ==
  ASSUME Known, NEW k \in Clients, Others(k), told \subseteq told',
         \A c \in Ids : tree'[c] # None \/ arc'[c] # None =>
                          tree[c] # None \/ arc[c] # None \/ task'[k].id = c,
         task[k].id \in Ids =>
           \/ task'[k].id = task[k].id \/ task[k].id \in told'
           \/ tree'[task[k].id] = None /\ arc'[task[k].id] = None
  PROVE  Known'
BY DEF Known, Others

LEMMA KnownEnds ==
  ASSUME Basic, Known, NEW k \in Clients, Tells(k), UNCHANGED <<tree, arc>>
  PROVE  Known'
<1>1. task' \in [Clients -> Tasks] /\ task'[k] = Idle /\ Others(k)
  BY EndsTask DEF Tells, Basic
<1> QED
  BY <1>1, KnownFrame DEF Tells

LEMMA KnownClient == ASSUME Basic, Known, NEW k \in Clients, ClientSteps(k) PROVE Known'
<1>0. Knows(k)
  BY DEF Basic
<1>1. CASE Begin(k)
  BY <1>0, <1>1, GoesTask, KnownFrame DEF Begin, hostVars, histVars, Basic, OnlyPlace, Places
<1>2. ASSUME NEW d \in Ids, Gate(k, d) PROVE Known'
  <2>1. Others(k) /\ task'[k].id = d /\ task[k].id = None
    <3>1. task[k].at = "gate"
      BY <1>2 DEF Gate
    <3> QED
      BY <1>0, <1>2, <3>1, GateTask, ZenonT(40) DEF Basic, Knows
  <2>2. \A c \in Ids \ {d} : tree'[c] = tree[c]
    BY <1>2 DEF Gate, Basic, Types, HostTypes
  <2> QED
    BY <1>2, <2>1, <2>2, NoneAssumption, KnownFrame DEF Gate
<1>3. CASE GateRefuses(k)
  <2>1. task[k].id = None /\ Others(k)
    BY <1>0, <1>3, EndsTask DEF GateRefuses, Knows, Basic
  <2> QED
    BY <1>3, <2>1, NoneAssumption, KnownFrame DEF GateRefuses, hostVars, histVars
<1>4. CASE StageFails(k) \/ ManifestFails(k)
  BY <1>4, GoesTask, KnownFrame DEF StageFails, ManifestFails, hostVars, histVars, Basic, OnlyPlace, Places
<1>5. CASE StartCopy(k)
  BY <1>5, GoesTask, KnownFrame DEF StartCopy, histVars, Basic, OnlyPlace, Places
<1>6. CASE TouchStop(k)
  BY <1>6 DEF TouchStop, histVars, Known
<1>7. CASE CopyReturns(k)
  <2>1. Others(k) /\ task'[k].id = task[k].id
    BY <1>0, <1>7, CopyTask DEF Basic, Knows, CopyReturns
  <2> QED
    BY <1>7, <2>1, KnownFrame DEF CopyReturns, histVars
<1>8. CASE Manifest(k)
  BY <1>8, GoesTask, KnownFrame DEF Manifest, histVars, Basic, OnlyPlace, Places
<1>9. CASE StartTar(k)
  <2>1. Others(k) /\ task'[k].id = task[k].id
    BY <1>9, GoesTask DEF StartTar, Basic, OnlyPlace, Places
  <2>2. \A c \in Ids : arc'[c] = arc[c] \/ c = task[k].id
    BY <1>9 DEF StartTar, Basic, Types, HostTypes
  <2> QED
    BY <1>9, <2>1, <2>2, KnownFrame DEF StartTar, histVars
<1>10. CASE TarRefused(k) \/ ClaimFails(k)
  BY <1>10, KnownEnds DEF TarRefused, ClaimFails, hostVars
<1>11. CASE TarReturns(k)
  <2>1. UNCHANGED <<tree, arc>>
    BY <1>11 DEF TarReturns
  <2>2. CASE Tells(k)
    BY <2>1, <2>2, KnownEnds
  <2>3. ASSUME NEW place \in {"abandon", "claim"}, Goes(k, place), UNCHANGED histVars PROVE Known'
    BY <2>1, <2>3, GoesTask, KnownFrame DEF histVars, Basic, OnlyPlace, Places
  <2> QED
    BY <1>11, <2>2, <2>3 DEF TarReturns
<1>12. ASSUME NEW ok \in BOOLEAN, Abandon(k, ok) \/ Cleanup(k, ok) PROVE Known'
  <2>1. task[k].id \in Ids /\ Removes(task[k].id, ok)
    BY <1>0, <1>12 DEF Abandon, Cleanup, Knows
  <2>2. \A d \in Ids : arc'[d] \in {arc[d], None} /\ tree'[d] \in {tree[d], None}
    BY <2>1 DEF Removes, TreeGoes, Basic, Types, HostTypes
  <2>3. Others(k) /\ told \subseteq told'
    BY <1>12, EndsTask DEF Abandon, Cleanup, Tells, histVars, Basic
  <2>4. CASE ok = TRUE
    <3>1. tree'[task[k].id] = None /\ arc'[task[k].id] = None
      BY <2>1, <2>4 DEF Removes, TreeGoes, Basic, Types, HostTypes
    <3> QED
      BY <2>2, <2>3, <3>1, KnownFrame
  <2>5. CASE ok = FALSE
    <3>1. task[k].id \in told'
      BY <1>12, <2>5 DEF Abandon, Cleanup, Tells
    <3> QED
      BY <2>2, <2>3, <3>1, KnownFrame
  <2> QED
    BY <2>4, <2>5
<1>13. ASSUME NEW n \in Names, Claim(k, n) PROVE Known'
  BY <1>13, ClaimTask, KnownFrame DEF Claim, hostVars, histVars, Basic
<1>14. CASE StartDownload(k)
  <2>1. arc[task[k].id] \in Contents
    BY <1>0, <1>14 DEF StartDownload, Knows, Basic, Types, HostTypes
  <2>2. Others(k) /\ task'[k].id = task[k].id
    BY <1>14, <2>1, StartDownloadTask DEF Basic
  <2> QED
    BY <1>14, <2>2, KnownFrame DEF StartDownload, hostVars, histVars
<1>15. ASSUME NEW how \in {"intact", "torn", "silent"}, Downloaded(k, how) PROVE Known'
  BY <1>15, DownloadedTask, KnownFrame DEF Downloaded, hostVars, histVars, Basic
<1>16. CASE DownloadFails(k)
  BY <1>16, KnownEnds DEF DownloadFails, hostVars
<1>17. CASE Verify(k)
  <2>1. UNCHANGED <<tree, arc>>
    BY <1>17 DEF Verify, hostVars
  <2>2. CASE Tells(k)
    BY <2>1, <2>2, KnownEnds
  <2>3. CASE Goes(k, "cleanup") /\ UNCHANGED histVars
    BY <2>1, <2>3, GoesTask, KnownFrame DEF histVars, Basic, OnlyPlace, Places
  <2> QED
    BY <1>17, <2>2, <2>3 DEF Verify
<1>18. ASSUME NEW d \in Ids, Refetch(k, d) PROVE Known'
  <2>1. task[k].id = None /\ Others(k)
    BY <1>0, <1>18, RefetchTask DEF Refetch, Knows, Basic
  <2> QED
    BY <1>18, <2>1, NoneAssumption, KnownFrame DEF Refetch, hostVars, histVars
<1>19. CASE Cancel(k)
  BY <1>19, CancelTask, KnownFrame DEF Cancel, hostVars, Basic
<1>20. CASE Crash(k)
  <2>1. Others(k) /\ UNCHANGED <<tree, arc>>
    BY <1>20, EndsTask DEF Crash, Basic
  <2>2. told \subseteq told' /\ (task[k].id \in Ids => task[k].id \in told')
    BY <1>20, NoneAssumption DEF Crash
  <2> QED
    BY <2>1, <2>2, KnownFrame
<1> QED
  BY <1>1, <1>2, <1>3, <1>4, <1>5, <1>6, <1>7, <1>8, <1>9, <1>10, <1>11, <1>12, <1>13, <1>14, <1>15,
     <1>16, <1>17, <1>18, <1>19, <1>20 DEF ClientSteps

LEMMA KnownHost ==
  ASSUME Basic, Known, NEW c \in Ids, HostSteps(c) \/ \E ok \in BOOLEAN : Delete(c, ok)
  PROVE  Known'
<1>1. ASSUME UNCHANGED <<task, told>>,
             \A d \in Ids : tree'[d] # None \/ arc'[d] # None => tree[d] # None \/ arc[d] # None
      PROVE  Known'
  BY <1>1 DEF Known
<1>2. ASSUME NEW e \in Entries, NEW o \in Outcomes, NEW left \in SUBSET Kinds, CopyOne(c, e, <<o, left>>)
      PROVE  Known'
  <2>1. \A d \in Ids : tree'[d] # None => tree[d] # None
    BY <1>2 DEF CopyOne, Basic, Types, HostTypes
  <2> QED
    BY <1>1, <1>2, <2>1 DEF CopyOne, histVars
<1>3. CASE CopyEnds(c) \/ TarFails(c)
  BY <1>1, <1>3 DEF CopyEnds, TarFails, histVars
<1>4. ASSUME NEW files \in SUBSET (Entries \X Kinds), TarEnds(c, files) PROVE Known'
  <2>1. \A d \in Ids \ {c} : arc'[d] = arc[d] /\ tree'[d] = tree[d]
    BY <1>4 DEF TarEnds, TreeGoes, Basic, Types, HostTypes
  <2> QED
    BY <1>1, <1>4, <2>1 DEF TarEnds, histVars
<1>5. ASSUME NEW ok \in BOOLEAN, Delete(c, ok) PROVE Known'
  <2>1. \A d \in Ids : arc'[d] \in {arc[d], None} /\ tree'[d] \in {tree[d], None}
    BY <1>5 DEF Delete, Removes, TreeGoes, Basic, Types, HostTypes
  <2> QED
    BY <1>1, <1>5, <2>1 DEF Delete
<1> QED
  BY <1>2, <1>3, <1>4, <1>5 DEF HostSteps

\* Nothing stays behind on a host that nobody was told of: across failed uploads, cut channels,
\* scripts that go on, failed removals, deletions by others, and any number of collections
\* (the result of CollectLogs, its abandon and its cleanup).
THEOREM NothingForgotten == Spec => []LeftoversAreTold
<1>1. Init => Known
  BY DEF Init, Known
<1>2. Basic /\ Known /\ [Next]_vars => Known'
  <2> SUFFICES ASSUME Basic, Known, [Next]_vars PROVE Known'
    OBVIOUS
  <2>1. CASE UNCHANGED vars
    BY <2>1 DEF vars, hostVars, histVars, Known
  <2> QED
    BY <2>1, KnownClient, KnownHost DEF Next
<1>3. Known => LeftoversAreTold
  BY DEF Known, LeftoversAreTold, Held
<1> QED
  BY <1>1, <1>2, <1>3, BasicInit, BasicStep, PTL DEF Spec

-----------------------------------------------------------------------------
(* The file a task writes: its name is its own, and the manifest in it is  *)
(* the one the task made.                                                  *)

Writes(k) == task[k].at \in {"stat", "download", "verify", "cleanup"}

KnowsFile(k) ==
  /\ task[k].at = "archive" /\ tree[task[k].id] # None => man[task[k].id] = task[k].takes
  /\ task[k].at \in {"tar", "claim", "stat"} /\ task[k].fetch = FALSE /\ arc[task[k].id] # None =>
       arc[task[k].id].man = task[k].takes
  /\ task[k].at = "download" /\ task[k].fetch = FALSE => task[k].got.man = task[k].takes
  /\ task[k].at \in {"stat", "download"} => task[k].name \in Names /\ local[task[k].name] = Empty
  /\ task[k].at \in {"verify", "cleanup"} =>
       /\ task[k].name \in Names /\ local[task[k].name] \in Contents
       /\ local[task[k].name].of = task[k].id
       /\ task[k].fetch = FALSE => local[task[k].name].man = task[k].takes
  /\ task[k].at = "cleanup" =>
       /\ local[task[k].name].whole
       /\ task[k].fetch = FALSE => Matches(local[task[k].name], task[k].takes)

OwnNames ==
  \A j, k \in Clients : Writes(j) /\ Writes(k) /\ task[j].name = task[k].name => j = k

FileInv == (\A k \in Clients : KnowsFile(k)) /\ OwnNames

\* The owner of a collection is the only one to stage and archive it.
LEMMA OneOwner ==
  ASSUME Basic, NEW j \in Clients, NEW k \in Clients, j # k,
         task[j].at \notin {"idle", "gate"}, task[j].fetch = FALSE,
         task[k].at \notin {"idle", "gate"}, task[k].fetch = FALSE
  PROVE  task[j].id # task[k].id
BY DEF Basic, Knows

LEMMA NotIdle == ASSUME Basic, NEW k \in Clients, task[k].at \in {"archive", "tar", "claim", "stat", "download"}
                 PROVE  task[k].id \in Ids /\ owner[task[k].id] # None
BY DEF Basic, Knows, Drawn

\* Collections of others keep their manifest, names of others their file.
LEMMA FileFrame ==
  ASSUME Basic, FileInv, NEW k \in Clients, Others(k), KnowsFile(k)',
         \A c \in Ids : owner[c] # None /\ (c # task[k].id \/ task[k].fetch = TRUE) =>
           /\ tree'[c] # None => tree[c] # None /\ man'[c] = man[c]
           /\ arc'[c] # None => arc[c] # None /\ arc'[c].man = arc[c].man,
         \A n \in Names : local'[n] = local[n] \/ local[n] = None \/ (Writes(k) /\ n = task[k].name),
         Writes(k)' => (Writes(k) /\ task'[k].name = task[k].name) \/ local[task'[k].name] = None
  PROVE  FileInv'
<1>1. ASSUME NEW j \in Clients, Writes(j) PROVE task[j].name \in Names /\ local[task[j].name] # None
  BY <1>1, NoneAssumption DEF FileInv, KnowsFile, Writes
<1>2. ASSUME NEW j \in Clients \ {k} PROVE KnowsFile(j)'
  <2>1. task'[j] = task[j]
    BY <1>2 DEF Others
  <2>2. Writes(j) => local'[task[j].name] = local[task[j].name]
    BY <1>1, <1>2 DEF FileInv, OwnNames
  <2>3. ASSUME task[j].at \in {"archive", "tar", "claim", "stat"}, task[j].fetch = FALSE
        PROVE  /\ tree'[task[j].id] # None =>
                    tree[task[j].id] # None /\ man'[task[j].id] = man[task[j].id]
               /\ arc'[task[j].id] # None =>
                    arc[task[j].id] # None /\ arc'[task[j].id].man = arc[task[j].id].man
    <3>1. task[j].id \in Ids /\ owner[task[j].id] # None
      BY <1>2, <2>3, NotIdle
    <3>2. task[j].id # task[k].id \/ task[k].fetch = TRUE
      <4>1. CASE task[k].at \in {"idle", "gate"}
        BY <3>1, <4>1, NoneAssumption DEF Basic, Knows
      <4>2. CASE task[k].at \notin {"idle", "gate"}
        <5>1. task[k].fetch \in BOOLEAN
          BY DEF Basic, Types, Tasks
        <5>2. task[j].at \notin {"idle", "gate"}
          BY <2>3
        <5>3. CASE task[k].fetch = FALSE
          BY <1>2, <2>3, <4>2, <5>2, <5>3, OneOwner
        <5> QED
          BY <5>1, <5>3
      <4> QED
        BY <4>1, <4>2
    <3> QED
      BY <3>1, <3>2
  <2>4. task[j].at = "archive" => task[j].fetch = FALSE
    BY <1>2 DEF Basic, Knows, Types, Tasks
  <2>5. PICK c, n, takes, at : /\ c = task[j].id /\ n = task[j].name
                               /\ takes = task[j].takes /\ at = task[j].at
    OBVIOUS
  <2>6. KnowsFile(j)
    BY <1>2 DEF FileInv
  <2>7. at = "archive" /\ tree'[c] # None => man'[c] = takes
    BY <2>3, <2>4, <2>5, <2>6 DEF KnowsFile
  <2>8. at \in {"tar", "claim", "stat"} /\ task[j].fetch = FALSE /\ arc'[c] # None =>
          arc'[c].man = takes
    BY <2>3, <2>5, <2>6 DEF KnowsFile
  <2>9. at \in {"stat", "download"} => n \in Names /\ local'[n] = Empty
    BY <2>2, <2>5, <2>6 DEF KnowsFile, Writes
  <2>10. at \in {"verify", "cleanup"} =>
           /\ n \in Names /\ local'[n] \in Contents /\ local'[n].of = c
           /\ task[j].fetch = FALSE => local'[n].man = takes
    BY <2>2, <2>5, <2>6 DEF KnowsFile, Writes
  <2>11. at = "cleanup" => /\ local'[n].whole
                           /\ task[j].fetch = FALSE => Matches(local'[n], takes)
    <3>1. SUFFICES ASSUME at = "cleanup"
                   PROVE  local'[n].whole /\ (task[j].fetch = FALSE => Matches(local'[n], takes))
      OBVIOUS
    <3>2. local'[n] = local[n]
      BY <2>2, <2>5, <3>1 DEF Writes
    <3> QED
      BY <2>5, <2>6, <3>1, <3>2 DEF KnowsFile
  <2>12. at = "download" /\ task[j].fetch = FALSE => task[j].got.man = takes
    BY <2>5, <2>6 DEF KnowsFile
  <2> QED
    BY <2>1, <2>5, <2>7, <2>8, <2>9, <2>10, <2>11, <2>12 DEF KnowsFile, Matches
<1>3. OwnNames'
  BY <1>1 DEF FileInv, OwnNames, Writes, Others
<1> QED
  BY <1>2, <1>3 DEF FileInv

\* The task is not at its file before and after.
LEMMA FileEnds ==
  ASSUME Basic, FileInv, NEW k \in Clients, Ends(k),
         \A c \in Ids : /\ tree'[c] # None => tree[c] # None /\ man'[c] = man[c]
                        /\ arc'[c] # None => arc[c] # None /\ arc'[c].man = arc[c].man,
         \A n \in Names : local'[n] = local[n] \/ (Writes(k) /\ n = task[k].name)
  PROVE  FileInv'
<1>1. task'[k] = Idle /\ Others(k)
  BY EndsTask DEF Basic
<1>2. KnowsFile(k)' /\ ~Writes(k)'
  BY <1>1, IdleTask DEF KnowsFile, Writes
<1> QED
  BY <1>1, <1>2, FileFrame

LEMMA FileClient == ASSUME Basic, FileInv, NEW k \in Clients, ClientSteps(k) PROVE FileInv'
<1>0. Knows(k) /\ KnowsFile(k) /\ task[k] \in Tasks
  BY DEF Basic, FileInv, Types
<1>1. CASE Begin(k)
  <2>1. OnlyPlace(k, "gate") /\ Others(k)
    BY <1>1, GoesTask DEF Begin, Basic, Places
  <2>2. KnowsFile(k)' /\ ~Writes(k)'
    BY <2>1 DEF OnlyPlace, KnowsFile, Writes
  <2> QED
    BY <1>1, <2>1, <2>2, FileFrame DEF Begin, hostVars
<1>2. ASSUME NEW d \in Ids, Gate(k, d) PROVE FileInv'
  <2>1. Others(k) /\ task'[k].at = "stage"
    BY <1>2, GateTask DEF Basic
  <2>2. KnowsFile(k)' /\ ~Writes(k)'
    BY <2>1 DEF KnowsFile, Writes
  <2>3. owner[d] = None /\ \A c \in Ids \ {d} : tree'[c] = tree[c]
    BY <1>2 DEF Gate, Basic, Types, HostTypes
  <2> QED
    BY <1>2, <2>1, <2>2, <2>3, FileFrame DEF Gate
<1>3. CASE GateRefuses(k)
  BY <1>3, FileEnds DEF GateRefuses, hostVars
<1>4. CASE StageFails(k) \/ ManifestFails(k)
  <2>1. OnlyPlace(k, "abandon") /\ Others(k)
    BY <1>4, GoesTask DEF StageFails, ManifestFails, Basic, Places
  <2>2. KnowsFile(k)' /\ ~Writes(k)'
    BY <2>1 DEF OnlyPlace, KnowsFile, Writes
  <2> QED
    BY <1>4, <2>1, <2>2, FileFrame DEF StageFails, ManifestFails, hostVars
<1>5. CASE StartCopy(k)
  <2>1. OnlyPlace(k, "copy") /\ Others(k)
    BY <1>5, GoesTask DEF StartCopy, Basic, Places
  <2>2. KnowsFile(k)' /\ ~Writes(k)'
    BY <2>1 DEF OnlyPlace, KnowsFile, Writes
  <2> QED
    BY <1>5, <2>1, <2>2, FileFrame DEF StartCopy
<1>6. CASE TouchStop(k)
  BY <1>6 DEF TouchStop, FileInv, KnowsFile, OwnNames, Writes, Matches
<1>7. CASE CopyReturns(k)
  <2>1. Others(k) /\ task'[k].at \in {"manifest", "abandon"}
    BY <1>0, <1>7, CopyTask DEF CopyReturns, Basic, Knows
  <2>2. KnowsFile(k)' /\ ~Writes(k)'
    BY <2>1 DEF KnowsFile, Writes
  <2> QED
    BY <1>7, <2>1, <2>2, FileFrame DEF CopyReturns
<1>8. CASE Manifest(k)
  <2>1. PICK place \in {"abandon", "archive"} : Goes(k, place)
    BY <1>8 DEF Manifest
  <2>2. OnlyPlace(k, place) /\ Others(k)
    BY <2>1, GoesTask DEF Basic, Places
  <2>3. task[k].id \in Ids /\ task[k].fetch = FALSE
    BY <1>0, <1>8 DEF Manifest, Knows, Tasks
  <2>4. man'[task[k].id] = task[k].takes /\ \A c \in Ids \ {task[k].id} : man'[c] = man[c]
    BY <1>8, <2>3 DEF Manifest, Basic, Types, HostTypes
  <2>5. KnowsFile(k)' /\ ~Writes(k)'
    BY <2>2, <2>4 DEF OnlyPlace, KnowsFile, Writes
  <2> QED
    BY <1>8, <2>2, <2>3, <2>4, <2>5, FileFrame DEF Manifest
<1>9. CASE StartTar(k)
  <2>1. OnlyPlace(k, "tar") /\ Others(k)
    BY <1>9, GoesTask DEF StartTar, Basic, Places
  <2>2. task[k].id \in Ids /\ task[k].fetch = FALSE
    BY <1>0, <1>9 DEF StartTar, Knows, Tasks
  <2>3. arc'[task[k].id].man = man[task[k].id] /\ \A c \in Ids \ {task[k].id} : arc'[c] = arc[c]
    BY <1>9, <2>2 DEF StartTar, Basic, Types, HostTypes
  <2>4. KnowsFile(k)' /\ ~Writes(k)'
    BY <1>0, <1>9, <2>1, <2>3 DEF StartTar, OnlyPlace, KnowsFile, Writes
  <2> QED
    BY <1>9, <2>1, <2>2, <2>3, <2>4, FileFrame DEF StartTar
<1>10. CASE TarRefused(k) \/ ClaimFails(k)
  BY <1>10, FileEnds DEF TarRefused, ClaimFails, Tells, hostVars
<1>11. CASE TarReturns(k)
  <2>1. UNCHANGED <<tree, arc, man, local>>
    BY <1>11 DEF TarReturns
  <2>2. CASE Tells(k)
    BY <2>1, <2>2, FileEnds DEF Tells
  <2>3. ASSUME NEW place \in {"abandon", "claim"}, Goes(k, place) PROVE FileInv'
    <3>1. OnlyPlace(k, place) /\ Others(k)
      BY <2>3, GoesTask DEF Basic, Places
    <3>2. KnowsFile(k)' /\ ~Writes(k)'
      BY <1>0, <1>11, <2>1, <3>1 DEF TarReturns, OnlyPlace, KnowsFile, Writes
    <3> QED
      BY <2>1, <3>1, <3>2, FileFrame
  <2> QED
    BY <1>11, <2>2, <2>3 DEF TarReturns
<1>12. ASSUME NEW ok \in BOOLEAN, Abandon(k, ok) \/ Cleanup(k, ok) PROVE FileInv'
  <2>1. Removes(task[k].id, ok) /\ Ends(k) /\ UNCHANGED local
    BY <1>12 DEF Abandon, Cleanup, Tells
  <2>2. \A c \in Ids : /\ arc'[c] \in {arc[c], None}
                       /\ tree'[c] = None \/ (tree'[c] = tree[c] /\ man'[c] = man[c])
    BY <2>1 DEF Removes, TreeGoes, Basic, Types, HostTypes
  <2> QED
    BY <2>1, <2>2, FileEnds
<1>13. ASSUME NEW n \in Names, Claim(k, n) PROVE FileInv'
  <2>1. Others(k) /\ task'[k].at = "stat" /\ task'[k].name = n /\ task'[k].id = task[k].id
        /\ task'[k].fetch = task[k].fetch /\ task'[k].takes = task[k].takes
    BY <1>13, ClaimTask DEF Basic
  <2>2. local[n] = None /\ local'[n] = Empty /\ \A m \in Names \ {n} : local'[m] = local[m]
    BY <1>13 DEF Claim, FirstFree, Basic, Types
  <2>3. KnowsFile(k)'
    BY <1>0, <1>13, <2>1, <2>2 DEF Claim, hostVars, KnowsFile
  <2> QED
    BY <1>13, <2>1, <2>2, <2>3, FileFrame DEF Claim, hostVars
<1>14. CASE StartDownload(k)
  <2>1. arc[task[k].id] \in Contents
    BY <1>0, <1>14 DEF StartDownload, Knows, Basic, Types, HostTypes
  <2>2. Others(k) /\ task'[k].at = "download" /\ task'[k].got = arc[task[k].id]
        /\ task'[k].id = task[k].id /\ task'[k].fetch = task[k].fetch
        /\ task'[k].takes = task[k].takes /\ task'[k].name = task[k].name
    BY <1>14, <2>1, StartDownloadTask DEF Basic
  <2>3. KnowsFile(k)'
    BY <1>0, <1>14, <2>2 DEF StartDownload, KnowsFile
  <2> QED
    BY <1>14, <2>2, <2>3, FileFrame DEF StartDownload, hostVars, Writes
<1>15. ASSUME NEW how \in {"intact", "torn", "silent"}, Downloaded(k, how) PROVE FileInv'
  <2>1. Others(k) /\ task'[k].at = "verify" /\ task'[k].id = task[k].id
        /\ task'[k].fetch = task[k].fetch /\ task'[k].takes = task[k].takes
        /\ task'[k].name = task[k].name
    BY <1>15, DownloadedTask DEF Basic
  <2>2. task[k].got \in Contents /\ task[k].got.of = task[k].id /\ task[k].name \in Names
    BY <1>0, <1>15 DEF Downloaded, Knows, KnowsFile, Tasks
  <2> DEFINE new == [task[k].got EXCEPT !.whole = task[k].got.whole /\ how # "torn",
                                     !.same = how = "intact"]
  <2>3. new \in Contents /\ new.of = task[k].got.of /\ new.man = task[k].got.man
    BY <2>2 DEF Contents
  <2>4. local' = [local EXCEPT ![task[k].name] = new]
    BY <1>15 DEF Downloaded
  <2> HIDE DEF new
  <2>5. local'[task[k].name] = new /\ \A n \in Names \ {task[k].name} : local'[n] = local[n]
    BY <2>2, <2>4 DEF Basic, Types
  <2>6. KnowsFile(k)'
    BY <1>0, <1>15, <2>1, <2>2, <2>3, <2>5 DEF Downloaded, KnowsFile
  <2> QED
    BY <1>15, <2>1, <2>5, <2>6, FileFrame DEF Downloaded, hostVars, Writes
<1>16. CASE DownloadFails(k)
  <2>1. \A n \in Names : local'[n] = local[n] \/ n = task[k].name
    BY <1>16 DEF DownloadFails, Basic, Types
  <2>2. Writes(k)
    BY <1>16 DEF DownloadFails, Writes
  <2> QED
    BY <1>16, <2>1, <2>2, FileEnds DEF DownloadFails, Tells, hostVars
<1>17. CASE Verify(k)
  <2>1. CASE Verified(k) /\ Goes(k, "cleanup")
    <3>1. OnlyPlace(k, "cleanup") /\ Others(k)
      BY <2>1, GoesTask DEF Basic, Places
    <3>2. /\ local[task[k].name].whole
          /\ task[k].fetch = FALSE => Matches(local[task[k].name], task[k].takes)
      BY <2>1 DEF Verified
    <3>3. KnowsFile(k)'
      BY <1>0, <1>17, <3>1, <3>2 DEF Verify, OnlyPlace, KnowsFile, Matches
    <3> QED
      BY <1>17, <3>1, <3>3, FileFrame DEF Verify, OnlyPlace, hostVars, Writes
  <2>2. CASE Tells(k)
    BY <1>17, <2>2, FileEnds DEF Verify, Tells, hostVars
  <2> QED
    BY <1>17, <2>1, <2>2 DEF Verify
<1>18. ASSUME NEW d \in Ids, Refetch(k, d) PROVE FileInv'
  <2>1. Others(k) /\ task'[k].at = "claim" /\ task'[k].fetch = TRUE
    BY <1>18, RefetchTask DEF Basic
  <2>2. KnowsFile(k)' /\ ~Writes(k)'
    BY <2>1 DEF KnowsFile, Writes
  <2> QED
    BY <1>18, <2>1, <2>2, FileFrame DEF Refetch, hostVars
<1>19. CASE Cancel(k)
  <2>1. Others(k) /\ task'[k].at = task[k].at /\ task'[k].id = task[k].id
        /\ task'[k].fetch = task[k].fetch /\ task'[k].takes = task[k].takes
        /\ task'[k].name = task[k].name /\ task'[k].got = task[k].got
    BY <1>19, CancelTask DEF Basic
  <2>2. KnowsFile(k)'
    BY <1>0, <1>19, <2>1 DEF Cancel, hostVars, KnowsFile, Matches
  <2> QED
    BY <1>19, <2>1, <2>2, FileFrame DEF Cancel, hostVars, Writes
<1>20. CASE Crash(k)
  BY <1>20, FileEnds DEF Crash
<1> QED
  BY <1>1, <1>2, <1>3, <1>4, <1>5, <1>6, <1>7, <1>8, <1>9, <1>10, <1>11, <1>12, <1>13, <1>14, <1>15,
     <1>16, <1>17, <1>18, <1>19, <1>20 DEF ClientSteps

LEMMA FileHost ==
  ASSUME Basic, FileInv, NEW c \in Ids, HostSteps(c) \/ \E ok \in BOOLEAN : Delete(c, ok)
  PROVE  FileInv'
<1>1. ASSUME UNCHANGED <<task, local>>,
             \A d \in Ids : /\ tree'[d] # None => tree[d] # None /\ man'[d] = man[d]
                            /\ arc'[d] # None => arc[d] # None /\ arc'[d].man = arc[d].man
      PROVE  FileInv'
  <2>1. ASSUME NEW k \in Clients PROVE KnowsFile(k)'
    <3>1. KnowsFile(k)
      BY DEF FileInv
    <3>2. task[k].at \in {"archive", "tar", "claim", "stat"} => task[k].id \in Ids
      BY NotIdle
    <3> QED
      BY <1>1, <3>1, <3>2 DEF KnowsFile, Matches
  <2>2. OwnNames'
    BY <1>1 DEF FileInv, OwnNames, Writes
  <2> QED
    BY <2>1, <2>2 DEF FileInv
<1>2. ASSUME NEW e \in Entries, NEW o \in Outcomes, NEW left \in SUBSET Kinds, CopyOne(c, e, <<o, left>>)
      PROVE  FileInv'
  <2>1. \A d \in Ids : tree'[d] # None => tree[d] # None
    BY <1>2 DEF CopyOne, Basic, Types, HostTypes
  <2> QED
    BY <1>1, <1>2, <2>1 DEF CopyOne
<1>3. CASE CopyEnds(c) \/ TarFails(c)
  BY <1>1, <1>3 DEF CopyEnds, TarFails
<1>4. ASSUME NEW files \in SUBSET (Entries \X Kinds), TarEnds(c, files) PROVE FileInv'
  <2>1. arc[c] \in Contents
    BY <1>4 DEF TarEnds, Basic, Types, HostTypes
  <2> DEFINE new == [arc[c] EXCEPT !.files = files, !.whole = TRUE]
  <2>2. new.man = arc[c].man
    BY <2>1 DEF Contents
  <2>3. arc' = [arc EXCEPT ![c] = new]
    BY <1>4 DEF TarEnds, Basic, Types, HostTypes
  <2> HIDE DEF new
  <2>4. \A d \in Ids : /\ arc'[d] # None => arc[d] # None /\ arc'[d].man = arc[d].man
                       /\ tree'[d] # None => tree[d] # None /\ man'[d] = man[d]
    BY <1>4, <2>2, <2>3 DEF TarEnds, TreeGoes, Basic, Types, HostTypes
  <2> QED
    BY <1>1, <1>4, <2>4 DEF TarEnds
<1>5. ASSUME NEW ok \in BOOLEAN, Delete(c, ok) PROVE FileInv'
  <2>1. \A d \in Ids : /\ arc'[d] \in {arc[d], None}
                       /\ tree'[d] = None \/ (tree'[d] = tree[d] /\ man'[d] = man[d])
    BY <1>5 DEF Delete, Removes, TreeGoes, Basic, Types, HostTypes
  <2> QED
    BY <1>1, <1>5, <2>1 DEF Delete
<1> QED
  BY <1>2, <1>3, <1>4, <1>5 DEF HostSteps

LEMMA FileInit == Init => FileInv
BY IdleTask DEF Init, FileInv, KnowsFile, OwnNames, Writes

LEMMA FileStep == Basic /\ FileInv /\ [Next]_vars => FileInv'
<1> SUFFICES ASSUME Basic, FileInv, [Next]_vars PROVE FileInv'
  OBVIOUS
<1>1. CASE UNCHANGED vars
  BY <1>1 DEF vars, hostVars, histVars, FileInv, KnowsFile, OwnNames, Writes, Matches
<1> QED
  BY <1>1, FileClient, FileHost DEF Next

\* An archive that passed the comparison holds every entry its manifest does not call skipped,
\* whichever of the jobs failed, whoever deleted its tree while tar read it, and whatever else
\* the clients save in the folder (matchArchive, after createLogArchive and the download).
THEOREM ArchiveIsComplete == Spec => []Accounted
<1>1. Basic /\ FileInv => Accounted
  <2> SUFFICES ASSUME Basic, FileInv, NEW k \in Clients, task[k].at = "cleanup", ~task[k].fetch
               PROVE  \A e \in Entries : local[task[k].name].man[e] # "skipped" =>
                        <<e, local[task[k].name].man[e]>> \in local[task[k].name].files
    BY DEF Accounted
  <2>1. task[k].fetch = FALSE
    BY DEF Basic, Types, Tasks
  <2>2. KnowsFile(k)
    BY DEF FileInv
  <2>3. /\ local[task[k].name].man = task[k].takes
        /\ Matches(local[task[k].name], task[k].takes)
    BY <2>1, <2>2 DEF KnowsFile
  <2> QED
    BY <2>3 DEF Matches
<1> QED
  BY <1>1, BasicInit, BasicStep, FileInit, FileStep, PTL DEF Spec

-----------------------------------------------------------------------------
(* Whose bytes they are: what reads through on the PC is what tar wrote,   *)
(* unless its damage is of the silent kind.                                *)

Sames ==
  /\ \A c \in Ids : arc[c] # None => arc[c].same = TRUE
  /\ \A k \in Clients : task[k].got # None => task[k].got.same = TRUE
  /\ \A n \in Names : local[n] # None /\ local[n].whole => Good(local[n])

LEMMA SamesFrame ==
  ASSUME Sames, \A c \in Ids : arc'[c] \in {arc[c], None} \/ arc'[c].same = TRUE,
         \A k \in Clients : \/ task'[k].got \in {task[k].got, None}
                            \/ \E c \in Ids : arc[c] # None /\ task'[k].got = arc[c],
         \A n \in Names : local'[n] \in {local[n], None} \/ ~local'[n].whole \/ Good(local'[n])
  PROVE  Sames'
BY DEF Sames, Good

LEMMA SamesClient == ASSUME Basic, Sames, NEW k \in Clients, ClientSteps(k) PROVE Sames'
<1>0. Knows(k) /\ task[k] \in Tasks /\ ~Empty.whole
  BY DEF Basic, Types, Empty
<1>1. ASSUME Others(k), task'[k].got \in {task[k].got, None},
             \A c \in Ids : arc'[c] \in {arc[c], None},
             \A n \in Names : local'[n] \in {local[n], None, Empty}
      PROVE  Sames'
  BY <1>0, <1>1, SamesFrame DEF Others
<1>2. ASSUME NEW place \in Places, Goes(k, place) PROVE Others(k) /\ task'[k].got = task[k].got
  BY <1>2, GoesTask DEF OnlyPlace, Basic
<1>3. ASSUME Ends(k) PROVE Others(k) /\ task'[k].got = None
  BY <1>3, EndsTask, IdleTask DEF Basic
<1>4. CASE Begin(k) \/ StageFails(k) \/ StartCopy(k) \/ Manifest(k) \/ ManifestFails(k)
  BY <1>1, <1>2, <1>4 DEF Begin, StageFails, StartCopy, Manifest, ManifestFails, hostVars, Places
<1>5. CASE GateRefuses(k) \/ TarRefused(k) \/ ClaimFails(k) \/ Crash(k)
  BY <1>1, <1>3, <1>5 DEF GateRefuses, TarRefused, ClaimFails, Crash, Tells, hostVars
<1>6. CASE TarReturns(k) \/ Verify(k)
  BY <1>1, <1>2, <1>3, <1>6 DEF TarReturns, Verify, Tells, hostVars, Places
<1>7. ASSUME NEW d \in Ids, Gate(k, d) \/ Refetch(k, d) PROVE Sames'
  BY <1>1, <1>7, GateTask, RefetchTask DEF Gate, Refetch, hostVars, Basic
<1>8. CASE TouchStop(k)
  BY <1>8 DEF TouchStop, Sames
<1>9. CASE CopyReturns(k)
  BY <1>0, <1>1, <1>9, CopyTask DEF CopyReturns, Knows, Basic
<1>10. CASE StartTar(k)
  <2>1. Others(k) /\ task'[k].got = task[k].got
    BY <1>2, <1>10 DEF StartTar, Places
  <2>2. PICK c \in Ids : c = task[k].id
    BY <1>0, <1>10 DEF StartTar, Knows
  <2>3. arc' = [arc EXCEPT ![c] = [of |-> c, files |-> tree[c], man |-> man[c], whole |-> FALSE, same |-> TRUE]]
    BY <1>10, <2>2 DEF StartTar
  <2>4. \A d \in Ids : arc'[d] = arc[d] \/ arc'[d].same = TRUE
    BY <2>3 DEF Basic, Types, HostTypes
  <2> QED
    BY <1>10, <2>1, <2>4, SamesFrame DEF StartTar, Others
<1>11. ASSUME NEW ok \in BOOLEAN, Abandon(k, ok) \/ Cleanup(k, ok) PROVE Sames'
  <2>1. Removes(task[k].id, ok) /\ Ends(k) /\ UNCHANGED local
    BY <1>11 DEF Abandon, Cleanup, Tells
  <2>2. \A c \in Ids : arc'[c] \in {arc[c], None}
    BY <2>1 DEF Removes, TreeGoes, Basic, Types, HostTypes
  <2> QED
    BY <1>1, <1>3, <2>1, <2>2
<1>12. ASSUME NEW n \in Names, Claim(k, n) PROVE Sames'
  <2>1. \A m \in Names : local'[m] \in {local[m], Empty}
    BY <1>12 DEF Claim, Basic, Types
  <2> QED
    BY <1>1, <1>12, <2>1, ClaimTask DEF Claim, hostVars, Basic
<1>13. CASE StartDownload(k)
  <2>1. task[k].id \in Ids /\ arc[task[k].id] # None /\ arc[task[k].id] \in Contents
    BY <1>0, <1>13 DEF StartDownload, Knows, Basic, Types, HostTypes
  <2>2. Others(k) /\ task'[k].got = arc[task[k].id]
    BY <1>13, <2>1, StartDownloadTask DEF Basic
  <2> QED
    BY <1>13, <2>1, <2>2, SamesFrame DEF StartDownload, hostVars, Others
<1>14. ASSUME NEW how \in {"intact"} \cup (Faults \cap {"torn", "silent"}), Downloaded(k, how) PROVE Sames'
  <2>1. Others(k) /\ task'[k].got = None
    BY <1>14, DownloadedTask DEF Basic
  <2>2. task[k].got \in Contents /\ task[k].got # None
    BY <1>0, <1>14, NoneAssumption DEF Downloaded, Knows, Tasks
  <2> DEFINE new == [task[k].got EXCEPT !.whole = task[k].got.whole /\ how # "torn", !.same = how = "intact"]
  <2>3. local' = [local EXCEPT ![task[k].name] = new]
    BY <1>14 DEF Downloaded
  <2>4. new.whole => Good(new)
    BY <2>2 DEF Good, Contents
  <2> HIDE DEF new
  <2>5. \A n \in Names : local'[n] = local[n] \/ local'[n] = new
    BY <2>3 DEF Basic, Types
  <2>6. \A n \in Names : local'[n] = local[n] \/ ~local'[n].whole \/ Good(local'[n])
    BY <2>4, <2>5
  <2> QED
    BY <1>14, <2>1, <2>6, SamesFrame DEF Downloaded, hostVars, Others
<1>15. CASE DownloadFails(k)
  <2>1. \A n \in Names : local'[n] \in {local[n], None}
    BY <1>15 DEF DownloadFails, Basic, Types
  <2> QED
    BY <1>1, <1>3, <1>15, <2>1 DEF DownloadFails, Tells, hostVars
<1>16. CASE Cancel(k)
  BY <1>1, <1>16, CancelTask DEF Cancel, hostVars, Basic
<1> QED
  BY <1>4, <1>5, <1>6, <1>7, <1>8, <1>9, <1>10, <1>11, <1>12, <1>13, <1>14, <1>15, <1>16 DEF ClientSteps

LEMMA SamesHost ==
  ASSUME Basic, Sames, NEW c \in Ids, HostSteps(c) \/ \E ok \in BOOLEAN : Delete(c, ok)
  PROVE  Sames'
<1>1. ASSUME UNCHANGED <<task, arc, local>> PROVE Sames'
  BY <1>1 DEF Sames
<1>2. ASSUME NEW files \in SUBSET (Entries \X Kinds), TarEnds(c, files) PROVE Sames'
  <2>1. arc[c] \in Contents /\ arc[c] # None
    BY <1>2 DEF TarEnds, Basic, Types, HostTypes
  <2> DEFINE new == [arc[c] EXCEPT !.files = files, !.whole = TRUE]
  <2>2. new.same = arc[c].same
    BY <2>1 DEF Contents
  <2>3. arc' = [arc EXCEPT ![c] = new]
    BY <1>2 DEF TarEnds, Basic, Types, HostTypes
  <2> HIDE DEF new
  <2>4. \A d \in Ids : arc'[d] = arc[d] \/ arc'[d].same = TRUE
    BY <2>1, <2>2, <2>3 DEF Sames, Basic, Types, HostTypes
  <2> QED
    BY <1>2, <2>4, SamesFrame DEF TarEnds
<1>3. ASSUME NEW ok \in BOOLEAN, Delete(c, ok) PROVE Sames'
  <2>1. \A d \in Ids : arc'[d] \in {arc[d], None}
    BY <1>3 DEF Delete, Removes, TreeGoes, Basic, Types, HostTypes
  <2> QED
    BY <1>3, <2>1, SamesFrame DEF Delete
<1> QED
  BY <1>1, <1>2, <1>3 DEF HostSteps, CopyOne, CopyEnds, TarFails

LEMMA SamesInit == Init => Sames
BY IdleTask DEF Init, Sames

LEMMA SamesStep == Basic /\ Sames /\ [Next]_vars => Sames'
<1> SUFFICES ASSUME Basic, Sames, [Next]_vars PROVE Sames'
  OBVIOUS
<1>1. CASE UNCHANGED vars
  BY <1>1 DEF vars, hostVars, Sames
<1> QED
  BY <1>1, SamesClient, SamesHost DEF Next

-----------------------------------------------------------------------------
(* Where whole copies of an archive are.                                   *)

\* No whole archive of c exists, nor did one when a transfer under way began.
Unmade(c) ==
  /\ ~OnHost(c) /\ ~OnPC(c)
  /\ \A k \in Clients : task[k].got # None /\ task[k].got.of = c => ~task[k].got.whole

SpreadTask(k) ==
  /\ task[k].at \notin {"idle", "gate"} /\ task[k].cancel = TRUE => task[k].id \in asked
  /\ task[k].at \in {"stage", "copy", "manifest", "archive"} =>
       arc[task[k].id] = None /\ Unmade(task[k].id)
  /\ task[k].at = "abandon" => arc[task[k].id] = None \/ task[k].id \in asked
  /\ task[k].at = "download" /\ task[k].got.whole =>
       OnHost(task[k].id) \/ OnPC(task[k].id) \/ task[k].id \in asked

SpreadId(c) == owner[c] = None \/ work[c] = "tar" => Unmade(c)

Spread == (\A k \in Clients : SpreadTask(k)) /\ (\A c \in Ids : SpreadId(c))

\* What a step of client k may do to archives and files.
Careful(k) ==
  /\ Others(k) /\ asked \subseteq asked'
  /\ \A n \in Names :
       \/ local'[n] = local[n]
       \/ /\ local[n] \in {None, Empty}
          /\ \/ local'[n] \in {None, Empty}
             \/ /\ task[k].got # None /\ local'[n].of = task[k].got.of
                /\ local'[n].whole => task[k].got.whole
  /\ \/ task'[k].got \in {task[k].got, None}
     \/ \E c \in Ids : arc[c] # None /\ task'[k].got = arc[c]
  /\ \A c \in Ids :
       /\ \/ arc'[c] \in {arc[c], None}
          \/ arc[c] = None /\ c = task[k].id /\ task[k].at = "archive" /\ ~arc'[c].whole
       /\ OnHost(c) /\ arc'[c] = None => OnPC(c) \/ c \in asked'
       /\ owner'[c] = None => owner[c] = None
       /\ work'[c] = "tar" => work[c] = "tar" \/ Unmade(c)

LEMMA FilesStay ==
  ASSUME Basic, NEW k \in Clients, Careful(k), NEW c \in Ids, OnPC(c)
  PROVE  OnPC(c)'
<1>1. PICK n \in Names : local[n] # None /\ local[n].of = c /\ Good(local[n])
  BY DEF OnPC
<1>2. local[n] # Empty
  BY <1>1, NoneAssumption DEF Empty
<1>3. local'[n] = local[n]
  BY <1>1, <1>2 DEF Careful
<1> QED
  BY <1>1, <1>3 DEF OnPC

LEMMA UnmadeStays ==
  ASSUME Basic, NEW k \in Clients, Careful(k), NEW c \in Ids, Unmade(c)
  PROVE  Unmade(c)'
<1>1. ~OnHost(c)'
  BY DEF Unmade, OnHost, Careful
<1>2. ~OnPC(c)'
  <2>1. SUFFICES ASSUME NEW n \in Names, local'[n] # None, local'[n].of = c, Good(local'[n]) PROVE FALSE
    BY DEF OnPC, Good
  <2>2. local'[n] # Empty
    BY <2>1, NoneAssumption DEF Empty
  <2>3. CASE local'[n] = local[n]
    BY <2>1, <2>3 DEF Unmade, OnPC
  <2>4. CASE /\ task[k].got # None /\ local'[n].of = task[k].got.of
             /\ local'[n].whole => task[k].got.whole
    BY <2>1, <2>4 DEF Unmade, Good
  <2> QED
    BY <2>1, <2>2, <2>3, <2>4 DEF Careful
<1>3. ASSUME NEW j \in Clients, task'[j].got # None, task'[j].got.of = c PROVE ~task'[j].got.whole
  <2>1. CASE task'[j].got = task[j].got
    BY <1>3, <2>1 DEF Unmade
  <2>2. CASE \E d \in Ids : arc[d] # None /\ task'[j].got = arc[d]
    <3>1. PICK d \in Ids : arc[d] # None /\ task'[j].got = arc[d]
      BY <2>2
    <3>2. d = c
      BY <1>3, <3>1 DEF Basic, Drawn
    <3> QED
      BY <3>1, <3>2 DEF Unmade, OnHost
  <2> QED
    BY <1>3, <2>1, <2>2 DEF Careful, Others
<1> QED
  BY <1>1, <1>2, <1>3 DEF Unmade

LEMMA SpreadFrame ==
  ASSUME Basic, Spread, NEW k \in Clients, Careful(k), SpreadTask(k)'
  PROVE  Spread'
<1>1. ASSUME NEW c \in Ids PROVE SpreadId(c)'
  BY UnmadeStays DEF Careful, Spread, SpreadId
<1>2. ASSUME NEW j \in Clients \ {k} PROVE SpreadTask(j)'
  <2>1. task'[j] = task[j] /\ SpreadTask(j) /\ Knows(j)
    BY <1>2 DEF Careful, Others, Spread, Basic
  <2>2. PICK c, at, got : c = task[j].id /\ at = task[j].at /\ got = task[j].got
    OBVIOUS
  <2>3. at \notin {"idle", "gate"} => c \in Ids
    BY <2>1, <2>2 DEF Knows
  <2>4. at \in {"stage", "copy", "manifest", "archive", "abandon"} /\ arc[c] = None => arc'[c] = None
    <3>1. SUFFICES ASSUME at \in {"stage", "copy", "manifest", "archive", "abandon"}, arc[c] = None,
                          c = task[k].id, task[k].at = "archive"
                   PROVE  FALSE
      BY <2>3 DEF Careful
    <3>2. task[j].fetch = FALSE /\ task[k].fetch = FALSE
      BY <1>2, <2>2, <3>1 DEF Basic, Knows, Types, Tasks
    <3> QED
      BY <1>2, <2>2, <3>1, <3>2, OneOwner
  <2>5. at \in {"stage", "copy", "manifest", "archive"} => arc'[c] = None /\ Unmade(c)'
    BY <2>1, <2>2, <2>3, <2>4, UnmadeStays DEF SpreadTask
  <2>6. at = "abandon" => arc'[c] = None \/ c \in asked'
    BY <2>1, <2>2, <2>4 DEF SpreadTask, Careful
  <2>7. at = "download" /\ got.whole => OnHost(c)' \/ OnPC(c)' \/ c \in asked'
    <3>1. SUFFICES ASSUME at = "download", got.whole PROVE OnHost(c)' \/ OnPC(c)' \/ c \in asked'
      OBVIOUS
    <3>2. c \in Ids /\ (OnHost(c) \/ OnPC(c) \/ c \in asked)
      BY <2>1, <2>2, <2>3, <3>1 DEF SpreadTask
    <3>3. CASE OnHost(c)
      <4>1. arc'[c] = arc[c] \/ OnPC(c) \/ c \in asked'
        BY <3>2, <3>3 DEF Careful, OnHost
      <4> QED
        BY <3>2, <3>3, <4>1, FilesStay DEF OnHost
    <3> QED
      BY <3>2, <3>3, FilesStay DEF Careful
  <2>8. at \notin {"idle", "gate"} /\ task[j].cancel = TRUE => c \in asked'
    BY <2>1, <2>2 DEF SpreadTask, Careful
  <2> QED
    BY <2>1, <2>2, <2>5, <2>6, <2>7, <2>8 DEF SpreadTask, Unmade, OnHost, OnPC
<1> QED
  BY <1>1, <1>2 DEF Spread

NoNewTar == \A c \in Ids : work'[c] = "tar" => work[c] = "tar"

LEMMA ScriptsEnd == ASSUME Basic, NEW c \in Ids, Left(c) PROVE NoNewTar
BY DEF Left, NoNewTar, Basic, Types, HostTypes

\* Steps that end a task.
LEMMA SpreadEnds ==
  ASSUME Basic, Spread, NEW k \in Clients, Ends(k), NoNewTar, UNCHANGED owner,
         asked \subseteq asked',
         \A n \in Names : local'[n] = local[n] \/ {local[n], local'[n]} \subseteq {None, Empty},
         \A c \in Ids : arc'[c] = arc[c] \/ (arc'[c] = None /\ (OnHost(c) => OnPC(c) \/ c \in asked'))
  PROVE  Spread'
<1>1. task'[k] = Idle /\ Others(k)
  BY EndsTask DEF Basic
<1>2. SpreadTask(k)'
  BY <1>1, IdleTask DEF SpreadTask
<1>3. Careful(k)
  BY <1>1, IdleTask DEF Careful, NoNewTar, OnHost
<1> QED
  BY <1>2, <1>3, SpreadFrame

\* Steps that leave archives and files where they are.
LEMMA SpreadStays ==
  ASSUME Basic, Spread, NEW k \in Clients, Others(k), UNCHANGED <<owner, arc, local>>,
         asked \subseteq asked', task'[k].got \in {task[k].got, None},
         \A c \in Ids : work'[c] = "tar" => work[c] = "tar" \/ Unmade(c)
  PROVE  /\ \A c \in Ids : Unmade(c) => Unmade(c)'
         /\ SpreadTask(k)' => Spread'
<1>1. Careful(k)
  BY DEF Careful, OnHost
<1> QED
  BY <1>1, UnmadeStays, SpreadFrame

\* Steps to another place of a collection.
LEMMA SpreadPlace ==
  ASSUME Basic, Spread, NEW k \in Clients, Others(k), UNCHANGED <<owner, arc, local, asked>>, NoNewTar,
         task[k].at \notin {"idle", "gate"}, task'[k].id = task[k].id,
         task'[k].cancel = task[k].cancel, task'[k].got = task[k].got, task'[k].at # "download",
         task'[k].at \in {"stage", "copy", "manifest", "archive"} =>
           task[k].at \in {"stage", "copy", "manifest", "archive"},
         task'[k].at = "abandon" =>
           task[k].at \in {"stage", "copy", "manifest", "archive"} \/ task[k].id \in asked
  PROVE  Spread'
<1>1. task[k].id \in Ids /\ SpreadTask(k)
  BY DEF Basic, Knows, Spread
<1>2. PICK c : c = task[k].id
  OBVIOUS
<1>3. Unmade(c) => Unmade(c)'
  BY <1>1, <1>2, SpreadStays DEF NoNewTar
<1>4. SpreadTask(k)'
  BY <1>1, <1>2, <1>3 DEF SpreadTask, Unmade, OnHost, OnPC
<1> QED
  BY <1>4, SpreadStays DEF NoNewTar

LEMMA RemovesSpread ==
  ASSUME Basic, NEW c \in Ids, NEW ok \in BOOLEAN, Removes(c, ok)
  PROVE  /\ NoNewTar
         /\ \A d \in Ids \ {c} : arc'[d] = arc[d]
         /\ arc'[c] \in {arc[c], None}
BY DEF Removes, NoNewTar, Basic, Types, HostTypes

LEMMA SpreadClient ==
  ASSUME Basic, FileInv, Sames, Spread, NEW k \in Clients, ClientSteps(k)
  PROVE  Spread'
<1>0. Knows(k) /\ KnowsFile(k) /\ SpreadTask(k) /\ task[k] \in Tasks
  BY DEF Basic, FileInv, Spread, Types
<1>1. CASE Begin(k)
  <2>1. OnlyPlace(k, "gate") /\ Others(k)
    BY <1>1, GoesTask DEF Begin, Basic, Places
  <2>2. SpreadTask(k)'
    BY <2>1 DEF OnlyPlace, SpreadTask
  <2> QED
    BY <1>1, <2>1, <2>2, SpreadStays DEF Begin, OnlyPlace, hostVars, histVars
<1>2. ASSUME NEW d \in Ids, Gate(k, d) PROVE Spread'
  <2>1. Others(k) /\ task'[k].at = "stage" /\ task'[k].id = d /\ task'[k].cancel = FALSE
        /\ task'[k].got = task[k].got
    BY <1>2, GateTask DEF Basic
  <2>2. owner[d] = None /\ arc[d] = None /\ Unmade(d)
    BY <1>2 DEF Gate, Basic, Drawn, Spread, SpreadId
  <2>3. Careful(k)
    <3>1. \A c \in Ids : owner'[c] = None => owner[c] = None
      BY <1>2, <2>2 DEF Gate, Basic, Types
    <3> QED
      BY <1>2, <2>1, <3>1 DEF Careful, Gate, OnHost
  <2>4. Unmade(d)'
    BY <2>2, <2>3, UnmadeStays
  <2>5. arc'[d] = None
    BY <1>2, <2>2 DEF Gate
  <2>6. SpreadTask(k)'
    BY <2>1, <2>4, <2>5 DEF SpreadTask, Unmade, OnHost, OnPC
  <2> QED
    BY <2>3, <2>6, SpreadFrame
<1>3. CASE GateRefuses(k)
  BY <1>3, SpreadEnds DEF GateRefuses, hostVars, histVars, NoNewTar
<1>4. CASE StageFails(k) \/ ManifestFails(k)
  <2>1. OnlyPlace(k, "abandon") /\ Others(k)
    BY <1>4, GoesTask DEF StageFails, ManifestFails, Basic, Places
  <2>2. task[k].at \in {"stage", "manifest"} /\ UNCHANGED <<owner, arc, local, asked, work>>
    BY <1>4 DEF StageFails, ManifestFails, hostVars, histVars
  <2> QED
    BY <2>1, <2>2, SpreadPlace DEF OnlyPlace, NoNewTar
<1>5. CASE StartCopy(k)
  <2>1. OnlyPlace(k, "copy") /\ Others(k)
    BY <1>5, GoesTask DEF StartCopy, Basic, Places
  <2>2. NoNewTar
    BY <1>5 DEF StartCopy, NoNewTar, Basic, Types, HostTypes
  <2> QED
    BY <1>5, <2>1, <2>2, SpreadPlace DEF OnlyPlace, StartCopy, histVars
<1>6. CASE TouchStop(k)
  BY <1>6, SMTT(40) DEF TouchStop, histVars, Spread, SpreadTask, SpreadId, Unmade, OnHost, OnPC
<1>7. CASE CopyReturns(k)
  <2>1. task[k].id \in Ids /\ task[k].at = "copy"
    BY <1>0, <1>7 DEF CopyReturns, Knows
  <2>2. /\ Others(k) /\ task'[k].at \in {"manifest", "abandon"} /\ task'[k].id = task[k].id
        /\ task'[k].cancel = task[k].cancel /\ task'[k].got = task[k].got
    BY <1>7, <2>1, CopyTask DEF Basic
  <2>3. NoNewTar
    BY <1>7, <2>1, ScriptsEnd DEF CopyReturns, Read
  <2> QED
    BY <1>7, <2>1, <2>2, <2>3, SpreadPlace DEF CopyReturns, histVars
<1>8. CASE Manifest(k)
  <2>1. PICK place \in {"abandon", "archive"} : Goes(k, place)
    BY <1>8 DEF Manifest
  <2>2. OnlyPlace(k, place) /\ Others(k)
    BY <2>1, GoesTask DEF Basic, Places
  <2> QED
    BY <1>8, <2>2, SpreadPlace DEF OnlyPlace, Manifest, histVars, NoNewTar
<1>9. CASE StartTar(k)
  <2>1. OnlyPlace(k, "tar") /\ Others(k)
    BY <1>9, GoesTask DEF StartTar, Basic, Places
  <2>2. task[k].at = "archive" /\ task[k].id \in Ids
    BY <1>0, <1>9 DEF StartTar, Knows
  <2>3. arc[task[k].id] = None /\ Unmade(task[k].id)
    BY <1>0, <2>2 DEF SpreadTask
  <2>4. /\ arc'[task[k].id].whole = FALSE
        /\ \A c \in Ids \ {task[k].id} : arc'[c] = arc[c] /\ work'[c] = work[c]
    BY <1>9, <2>2 DEF StartTar, Basic, Types, HostTypes
  <2>5. Careful(k)
    BY <1>9, <2>1, <2>2, <2>3, <2>4 DEF Careful, StartTar, OnlyPlace, OnHost, histVars
  <2>6. SpreadTask(k)'
    BY <1>0, <1>9, <2>1, <2>2 DEF SpreadTask, StartTar, OnlyPlace, histVars
  <2> QED
    BY <2>5, <2>6, SpreadFrame
<1>10. CASE TarRefused(k) \/ ClaimFails(k)
  BY <1>10, SpreadEnds DEF TarRefused, ClaimFails, Tells, hostVars, NoNewTar
<1>11. CASE TarReturns(k)
  <2>1. task[k].id \in Ids /\ task[k].at = "tar"
    BY <1>0, <1>11 DEF TarReturns, Knows
  <2>2. NoNewTar /\ UNCHANGED <<owner, arc, local>>
    BY <1>11, <2>1, ScriptsEnd DEF TarReturns, Read
  <2>3. CASE Tells(k)
    BY <2>2, <2>3, SpreadEnds DEF Tells
  <2>4. CASE Goes(k, IF task[k].cancel THEN "abandon" ELSE "claim") /\ UNCHANGED histVars
    <3>1. PICK place \in {"abandon", "claim"} :
            Goes(k, place) /\ (place = "abandon" => task[k].cancel = TRUE)
      BY <1>0, <2>4 DEF Tasks
    <3>2. OnlyPlace(k, place) /\ Others(k)
      BY <3>1, GoesTask DEF Basic, Places
    <3>3. place = "abandon" => task[k].id \in asked
      BY <1>0, <2>1, <3>1 DEF SpreadTask
    <3> QED
      BY <2>1, <2>2, <2>4, <3>1, <3>2, <3>3, SpreadPlace DEF OnlyPlace, histVars
  <2> QED
    BY <1>11, <2>3, <2>4 DEF TarReturns
<1>12. ASSUME NEW ok \in BOOLEAN, Abandon(k, ok) \/ Cleanup(k, ok) PROVE Spread'
  <2>1. task[k].id \in Ids /\ Removes(task[k].id, ok)
    BY <1>0, <1>12 DEF Abandon, Cleanup, Knows
  <2>2. Ends(k) /\ UNCHANGED <<owner, local, asked>>
    BY <1>12 DEF Abandon, Cleanup, Tells, histVars
  <2>3. OnHost(task[k].id) => OnPC(task[k].id) \/ task[k].id \in asked
    <3>1. CASE task[k].at = "abandon"
      BY <1>0, <3>1 DEF SpreadTask, OnHost
    <3>2. CASE task[k].at = "cleanup"
      BY <1>0, <3>2, NoneAssumption DEF KnowsFile, OnPC, Sames
    <3> QED
      BY <1>12, <3>1, <3>2 DEF Abandon, Cleanup
  <2>4. NoNewTar /\ \A c \in Ids : arc'[c] = arc[c] \/ (arc'[c] = None /\ c = task[k].id)
    BY <2>1, RemovesSpread
  <2> QED
    BY <2>2, <2>3, <2>4, SpreadEnds
<1>13. ASSUME NEW n \in Names, Claim(k, n) PROVE Spread'
  <2>1. Others(k) /\ task'[k].at = "stat" /\ task'[k].id = task[k].id
        /\ task'[k].cancel = task[k].cancel /\ task'[k].got = task[k].got
    BY <1>13, ClaimTask DEF Basic
  <2>2. \A m \in Names : local'[m] = local[m] \/ {local[m], local'[m]} \subseteq {None, Empty}
    BY <1>13 DEF Claim, FirstFree, Basic, Types
  <2>3. Careful(k)
    BY <1>13, <2>1, <2>2 DEF Careful, Claim, hostVars, histVars, OnHost
  <2>4. SpreadTask(k)'
    BY <1>0, <1>13, <2>1 DEF SpreadTask, Claim, histVars
  <2> QED
    BY <2>3, <2>4, SpreadFrame
<1>14. CASE StartDownload(k)
  <2>1. task[k].id \in Ids /\ arc[task[k].id] # None /\ arc[task[k].id] \in Contents
    BY <1>0, <1>14 DEF StartDownload, Knows, Basic, Types, HostTypes
  <2>2. Others(k) /\ task'[k].at = "download" /\ task'[k].got = arc[task[k].id]
        /\ task'[k].id = task[k].id /\ task'[k].cancel = task[k].cancel
    BY <1>14, <2>1, StartDownloadTask DEF Basic
  <2>3. Careful(k)
    BY <1>14, <2>1, <2>2 DEF Careful, StartDownload, hostVars, histVars, OnHost
  <2>4. SpreadTask(k)'
    BY <1>0, <1>14, <2>1, <2>2 DEF SpreadTask, StartDownload, hostVars, histVars, OnHost
  <2> QED
    BY <2>3, <2>4, SpreadFrame
<1>15. ASSUME NEW how \in {"intact", "torn", "silent"}, Downloaded(k, how) PROVE Spread'
  <2>1. Others(k) /\ task'[k].at = "verify" /\ task'[k].id = task[k].id
        /\ task'[k].cancel = task[k].cancel /\ task'[k].got = None
    BY <1>15, DownloadedTask DEF Basic
  <2>2. task[k].got \in Contents /\ task[k].got # None /\ task[k].name \in Names
        /\ local[task[k].name] = Empty
    BY <1>0, <1>15 DEF Downloaded, Knows, KnowsFile, Tasks
  <2> DEFINE new == [task[k].got EXCEPT !.whole = task[k].got.whole /\ how # "torn",
                                     !.same = how = "intact"]
  <2>3. new.of = task[k].got.of /\ (new.whole => task[k].got.whole)
    BY <2>2 DEF Contents
  <2>4. local' = [local EXCEPT ![task[k].name] = new]
    BY <1>15 DEF Downloaded
  <2> HIDE DEF new
  <2>5. local'[task[k].name] = new /\ \A n \in Names \ {task[k].name} : local'[n] = local[n]
    BY <2>2, <2>4 DEF Basic, Types
  <2>6. Careful(k)
    BY <1>15, <2>1, <2>2, <2>3, <2>5 DEF Careful, Downloaded, hostVars, histVars, OnHost
  <2>7. SpreadTask(k)'
    BY <1>0, <1>15, <2>1 DEF SpreadTask, Downloaded, histVars
  <2> QED
    BY <2>6, <2>7, SpreadFrame
<1>16. CASE DownloadFails(k)
  <2>1. \A n \in Names : local'[n] = local[n] \/ {local[n], local'[n]} \subseteq {None, Empty}
    BY <1>16 DEF DownloadFails, Basic, Types
  <2> QED
    BY <1>16, <2>1, SpreadEnds DEF DownloadFails, Tells, hostVars, NoNewTar
<1>17. CASE Verify(k)
  <2>1. UNCHANGED <<owner, arc, local, work, asked>>
    BY <1>17 DEF Verify, Tells, hostVars, histVars
  <2>2. CASE Tells(k)
    BY <2>1, <2>2, SpreadEnds DEF Tells, NoNewTar
  <2>3. CASE Goes(k, "cleanup")
    <3>1. OnlyPlace(k, "cleanup") /\ Others(k)
      BY <2>3, GoesTask DEF Basic, Places
    <3> QED
      BY <1>17, <2>1, <3>1, SpreadPlace DEF Verify, OnlyPlace, NoNewTar
  <2> QED
    BY <1>17, <2>2, <2>3 DEF Verify
<1>18. ASSUME NEW d \in Ids, Refetch(k, d) PROVE Spread'
  <2>1. Others(k) /\ task'[k].at = "claim" /\ task'[k].cancel = FALSE /\ task'[k].got = None
    BY <1>18, RefetchTask DEF Basic
  <2>2. SpreadTask(k)'
    BY <2>1 DEF SpreadTask
  <2> QED
    BY <1>18, <2>1, <2>2, SpreadStays DEF Refetch, hostVars, histVars
<1>19. CASE Cancel(k)
  <2>1. Others(k) /\ task'[k].at = task[k].at /\ task'[k].id = task[k].id
        /\ task'[k].got = task[k].got
    BY <1>19, CancelTask DEF Basic
  <2>2. UNCHANGED <<owner, arc, local, work>> /\ asked \subseteq asked'
        /\ (task[k].id \in Ids => task[k].id \in asked')
    BY <1>19, NoneAssumption DEF Cancel, hostVars
  <2>3. PICK c : c = task[k].id
    OBVIOUS
  <2>4. c \in Ids /\ Unmade(c) => Unmade(c)'
    BY <2>1, <2>2, SpreadStays
  <2>5. task[k].at \notin {"idle", "gate"} => c \in Ids
    BY <1>0, <2>3 DEF Knows
  <2>6. SpreadTask(k)'
    BY <1>0, <2>1, <2>2, <2>3, <2>4, <2>5 DEF SpreadTask, Unmade, OnHost, OnPC
  <2> QED
    BY <2>1, <2>2, <2>6, SpreadStays
<1>20. CASE Crash(k)
  <2>1. NoNewTar
    BY <1>0, <1>20, ScriptsEnd DEF Crash, NoNewTar, Tasks
  <2> QED
    BY <1>20, <2>1, SpreadEnds DEF Crash
<1> QED
  BY <1>1, <1>2, <1>3, <1>4, <1>5, <1>6, <1>7, <1>8, <1>9, <1>10, <1>11, <1>12, <1>13, <1>14, <1>15,
     <1>16, <1>17, <1>18, <1>19, <1>20 DEF ClientSteps

LEMMA SpreadHost ==
  ASSUME Basic, Spread, NEW c \in Ids, HostSteps(c) \/ \E ok \in BOOLEAN : Delete(c, ok)
  PROVE  Spread'
<1>1. ASSUME UNCHANGED <<task, owner, local>>, NoNewTar, asked \subseteq asked',
             \A d \in Ids : arc'[d] = arc[d] \/ (arc'[d] = None /\ d \in asked')
      PROVE  Spread'
  <2>1. ASSUME NEW d \in Ids, Unmade(d) PROVE Unmade(d)'
    BY <1>1, <2>1 DEF Unmade, OnHost, OnPC
  <2>2. ASSUME NEW k \in Clients PROVE SpreadTask(k)'
    <3>1. SpreadTask(k) /\ (task[k].at \notin {"idle", "gate"} => task[k].id \in Ids)
      BY DEF Spread, Basic, Knows
    <3>2. PICK d : d = task[k].id
      OBVIOUS
    <3>3. d \in Ids /\ Unmade(d) => Unmade(d)'
      BY <2>1
    <3> QED
      BY <1>1, <3>1, <3>2, <3>3 DEF SpreadTask, Unmade, OnHost, OnPC
  <2>3. ASSUME NEW d \in Ids PROVE SpreadId(d)'
    BY <1>1, <2>1 DEF Spread, SpreadId, NoNewTar
  <2> QED
    BY <2>2, <2>3 DEF Spread
<1>2. ASSUME NEW e \in Entries, NEW o \in Outcomes, NEW left \in SUBSET Kinds, CopyOne(c, e, <<o, left>>)
      PROVE  Spread'
  BY <1>1, <1>2 DEF CopyOne, histVars, NoNewTar
<1>3. CASE CopyEnds(c) \/ TarFails(c)
  <2>1. NoNewTar
    BY <1>3 DEF CopyEnds, TarFails, NoNewTar, Basic, Types, HostTypes
  <2> QED
    BY <1>1, <1>3, <2>1 DEF CopyEnds, TarFails, histVars
<1>4. ASSUME NEW files \in SUBSET (Entries \X Kinds), TarEnds(c, files) PROVE Spread'
  <2>1. arc[c] # None /\ owner[c] # None /\ UNCHANGED <<task, owner, local, asked>>
    BY <1>4 DEF TarEnds, Basic, Drawn, histVars
  <2>2. arc[c] \in Contents
    BY <2>1 DEF Basic, Types, HostTypes
  <2> DEFINE new == [arc[c] EXCEPT !.files = files, !.whole = TRUE]
  <2>3. new \in Contents /\ new.whole
    BY <2>2 DEF Contents
  <2>4. arc' = [arc EXCEPT ![c] = new]
    BY <1>4 DEF TarEnds, Basic, Types, HostTypes
  <2> HIDE DEF new
  <2>5. arc'[c] = new /\ (\A d \in Ids \ {c} : arc'[d] = arc[d]) /\ OnHost(c)'
    BY <2>3, <2>4, NoneAssumption DEF OnHost, Basic, Types, HostTypes
  <2>6. work'[c] = "off" /\ \A d \in Ids \ {c} : work'[d] = work[d]
    BY <1>4 DEF TarEnds, Basic, Types, HostTypes
  <2>7. ASSUME NEW d \in Ids \ {c}, Unmade(d) PROVE Unmade(d)'
    BY <2>1, <2>5, <2>7 DEF Unmade, OnHost, OnPC
  <2>8. ASSUME NEW d \in Ids PROVE SpreadId(d)'
    BY <2>1, <2>6, <2>7 DEF Spread, SpreadId
  <2>9. ASSUME NEW k \in Clients PROVE SpreadTask(k)'
    <3>1. SpreadTask(k) /\ (task[k].at \notin {"idle", "gate"} => task[k].id \in Ids)
      BY DEF Spread, Basic, Knows
    <3>2. PICK d : d = task[k].id
      OBVIOUS
    <3>3. d \in Ids \ {c} /\ Unmade(d) => Unmade(d)'
      BY <2>7
    <3>4. CASE d = c
      BY <2>1, <2>5, <3>1, <3>2, <3>4 DEF SpreadTask
    <3>5. CASE d # c
      BY <2>1, <2>5, <3>1, <3>2, <3>3, <3>5 DEF SpreadTask, OnHost, OnPC
    <3> QED
      BY <3>4, <3>5
  <2> QED
    BY <2>8, <2>9 DEF Spread
<1>5. ASSUME NEW ok \in BOOLEAN, Delete(c, ok) PROVE Spread'
  BY <1>1, <1>5, RemovesSpread DEF Delete
<1> QED
  BY <1>2, <1>3, <1>4, <1>5 DEF HostSteps

LEMMA SpreadInit == Init => Spread
<1> SUFFICES ASSUME Init PROVE Spread
  OBVIOUS
<1>1. \A c \in Ids : Unmade(c)
  BY IdleTask DEF Init, Unmade, OnHost, OnPC
<1> QED
  BY <1>1, IdleTask DEF Init, Spread, SpreadTask, SpreadId

-----------------------------------------------------------------------------
(* Every step is a step of the promised handover.                          *)

Abstract == <<Place, asked>>

LEMMA PlaceIs ==
  /\ Place = [c \in Ids |-> Place[c]]
  /\ \A c \in Ids : /\ Place[c] = "both" <=> OnHost(c) /\ OnPC(c)
                    /\ Place[c] = "host" <=> OnHost(c) /\ ~OnPC(c)
                    /\ Place[c] = "pc" <=> ~OnHost(c) /\ OnPC(c)
                    /\ Place[c] = "nowhere" <=> ~OnHost(c) /\ ~OnPC(c)
BY DEF Place

\* One archive changes its place.
LEMMA OneMoves ==
  ASSUME NEW c \in Ids, asked \subseteq asked',
         \A d \in Ids \ {c} : (OnHost(d)' <=> OnHost(d)) /\ (OnPC(d)' <=> OnPC(d)),
         \/ ~OnHost(c) /\ ~OnPC(c) /\ OnHost(c)' /\ ~OnPC(c)'
         \/ OnHost(c) /\ ~OnPC(c) /\ OnHost(c)' /\ OnPC(c)'
         \/ OnHost(c) /\ OnPC(c) /\ ~OnHost(c)' /\ OnPC(c)'
         \/ c \in asked' /\ OnHost(c) /\ ~OnPC(c) /\ ~OnHost(c)' /\ ~OnPC(c)'
         \/ c \in asked' /\ ~OnHost(c) /\ ~OnPC(c) /\ ~OnHost(c)' /\ OnPC(c)'
  PROVE  Handover!Next
<1>1. /\ Place' = [d \in Ids |-> Place'[d]]
      /\ \A d \in Ids \ {c} : Place'[d] = Place[d]
  BY DEF Place
<1>2. ASSUME NEW from, NEW to, Place[c] = from, Place'[c] = to
      PROVE  Handover!Moves(c, from, to)
  <2>1. Place' = [Place EXCEPT ![c] = to]
    BY <1>1, <1>2, PlaceIs
  <2> QED
    BY <1>2, <2>1 DEF Handover!Moves
<1>3. CASE ~OnHost(c) /\ ~OnPC(c) /\ OnHost(c)' /\ ~OnPC(c)'
  <2>1. Place[c] = "nowhere" /\ Place'[c] = "host"
    BY <1>3 DEF Place
  <2> QED
    BY <1>2, <2>1 DEF Handover!Next, Handover!Archive
<1>4. CASE OnHost(c) /\ ~OnPC(c) /\ OnHost(c)' /\ OnPC(c)'
  <2>1. Place[c] = "host" /\ Place'[c] = "both"
    BY <1>4 DEF Place
  <2> QED
    BY <1>2, <2>1 DEF Handover!Next, Handover!Receive
<1>5. CASE OnHost(c) /\ OnPC(c) /\ ~OnHost(c)' /\ OnPC(c)'
  <2>1. Place[c] = "both" /\ Place'[c] = "pc"
    BY <1>5 DEF Place
  <2> QED
    BY <1>2, <2>1 DEF Handover!Next, Handover!Release
<1>6. CASE c \in asked' /\ OnHost(c) /\ ~OnPC(c) /\ ~OnHost(c)' /\ ~OnPC(c)'
  <2>1. Place[c] = "host" /\ Place'[c] = "nowhere"
    BY <1>6 DEF Place
  <2> QED
    BY <1>2, <1>6, <2>1 DEF Handover!Next, Handover!GiveUp
<1>7. CASE c \in asked' /\ ~OnHost(c) /\ ~OnPC(c) /\ ~OnHost(c)' /\ OnPC(c)'
  <2>1. Place[c] = "nowhere" /\ Place'[c] = "pc"
    BY <1>7 DEF Place
  <2> QED
    BY <1>2, <1>7, <2>1 DEF Handover!Next, Handover!Late
<1> QED
  BY <1>3, <1>4, <1>5, <1>6, <1>7

\* No archive changes its place.
LEMMA NoneMoves ==
  ASSUME \A d \in Ids : (OnHost(d)' <=> OnHost(d)) /\ (OnPC(d)' <=> OnPC(d)),
         asked' = asked \/ \E c \in Ids : asked' = asked \cup {c}
  PROVE  [Handover!Next]_Abstract
<1>1. Place' = Place
  BY DEF Place
<1> QED
  BY <1>1 DEF Handover!Next, Handover!Ask, Abstract

LEMMA HandQuiet ==
  ASSUME UNCHANGED <<arc, local>>, asked' = asked \/ \E c \in Ids : asked' = asked \cup {c}
  PROVE  [Handover!Next]_Abstract
BY NoneMoves DEF OnHost, OnPC

\* A removal of an archive that is on the PC, or that the operator gave up.
LEMMA HandRemoves ==
  ASSUME Basic, NEW c \in Ids, NEW ok \in BOOLEAN, Removes(c, ok), UNCHANGED local,
         asked' = asked \/ asked' = asked \cup {c},
         OnHost(c) => OnPC(c) \/ c \in asked'
  PROVE  [Handover!Next]_Abstract
<1>1. (\A d \in Ids \ {c} : arc'[d] = arc[d]) /\ arc'[c] \in {arc[c], None}
  BY RemovesSpread
<1>2. \A d \in Ids : OnPC(d)' <=> OnPC(d)
  BY DEF OnPC
<1>3. \A d \in Ids \ {c} : OnHost(d)' <=> OnHost(d)
  BY <1>1 DEF OnHost
<1>4. OnHost(c)' => OnHost(c)
  BY <1>1 DEF OnHost
<1>5. CASE OnHost(c) /\ ~OnHost(c)'
  BY <1>2, <1>3, <1>5, OneMoves
<1>6. CASE OnHost(c) <=> OnHost(c)'
  BY <1>2, <1>3, <1>6, NoneMoves
<1> QED
  BY <1>4, <1>5, <1>6

\* Files that come and go empty.
LEMMA HandEmpty ==
  ASSUME UNCHANGED <<arc, asked>>,
         \A n \in Names : local'[n] = local[n] \/ {local[n], local'[n]} \subseteq {None, Empty}
  PROVE  [Handover!Next]_Abstract
<1>1. ~Good(Empty)
  BY DEF Empty, Good
<1>2. \A d \in Ids : OnPC(d)' <=> OnPC(d)
  BY <1>1 DEF OnPC
<1> QED
  BY <1>2, NoneMoves DEF OnHost

LEMMA HandDownloaded ==
  ASSUME Basic, FileInv, Spread, NEW k \in Clients, NEW how \in {"intact", "torn", "silent"}, Downloaded(k, how)
  PROVE  [Handover!Next]_Abstract
<1>1. PICK c, n, got : c = task[k].id /\ n = task[k].name /\ got = task[k].got
  OBVIOUS
<1>2. c \in Ids /\ got \in Contents /\ got # None /\ got.of = c /\ n \in Names /\ local[n] = Empty
  <2>1. Knows(k) /\ KnowsFile(k) /\ task[k] \in Tasks /\ task[k].at = "download"
    BY DEF Basic, FileInv, Types, Downloaded
  <2> QED
    BY <1>1, <2>1 DEF Knows, KnowsFile, Tasks
<1> DEFINE new == [got EXCEPT !.whole = got.whole /\ how # "torn", !.same = how = "intact"]
<1>3. new \in Contents /\ new.of = c /\ (new.whole => got.whole)
  BY <1>2 DEF Contents
<1>4. local' = [local EXCEPT ![n] = new]
  BY <1>1 DEF Downloaded
<1> HIDE DEF new
<1>5. local'[n] = new /\ \A m \in Names \ {n} : local'[m] = local[m]
  BY <1>2, <1>4 DEF Basic, Types
<1>6. ~Good(Empty) /\ Empty # None /\ new # None
  BY <1>3, NoneAssumption DEF Empty, Good
<1>7. \A d \in Ids \ {c} : OnPC(d)' <=> OnPC(d)
  BY <1>2, <1>3, <1>5, <1>6 DEF OnPC
<1>8. OnPC(c)' <=> OnPC(c) \/ Good(new)
  BY <1>2, <1>3, <1>5, <1>6 DEF OnPC
<1>9. UNCHANGED <<arc, asked>> /\ \A d \in Ids : OnHost(d)' <=> OnHost(d)
  BY DEF Downloaded, hostVars, histVars, OnHost
<1>10. CASE OnPC(c) \/ ~Good(new)
  BY <1>7, <1>8, <1>9, <1>10, NoneMoves
<1>11. CASE ~OnPC(c) /\ Good(new)
  <2>1. OnHost(c) \/ c \in asked
    BY <1>1, <1>3, <1>11 DEF Spread, SpreadTask, Downloaded, Good
  <2> QED
    BY <1>2, <1>7, <1>8, <1>9, <1>11, <2>1, OneMoves
<1> QED
  BY <1>10, <1>11

LEMMA HandClient ==
  ASSUME Basic, FileInv, Sames, Spread, NEW k \in Clients, ClientSteps(k)
  PROVE  [Handover!Next]_Abstract
<1>0. Knows(k) /\ KnowsFile(k) /\ SpreadTask(k) /\ task[k] \in Tasks
  BY DEF Basic, FileInv, Spread, Types
<1>1. CASE Begin(k) \/ GateRefuses(k) \/ StageFails(k) \/ StartCopy(k) \/ TouchStop(k)
           \/ CopyReturns(k) \/ Manifest(k) \/ ManifestFails(k)
  BY <1>1, HandQuiet DEF Begin, GateRefuses, StageFails, StartCopy, TouchStop, CopyReturns, Manifest,
     ManifestFails, hostVars, histVars
<1>2. CASE (\E d \in Ids : Gate(k, d) \/ Refetch(k, d)) \/ TarRefused(k) \/ TarReturns(k)
           \/ ClaimFails(k) \/ StartDownload(k) \/ Verify(k) \/ Crash(k)
  BY <1>2, HandQuiet DEF Gate, Refetch, TarRefused, TarReturns, ClaimFails, StartDownload, Verify, Crash,
     Tells, hostVars, histVars
<1>3. CASE StartTar(k)
  <2>1. task[k].at = "archive" /\ task[k].id \in Ids
    BY <1>0, <1>3 DEF StartTar, Knows
  <2>2. arc[task[k].id] = None
    BY <1>0, <2>1 DEF SpreadTask
  <2>3. /\ arc'[task[k].id].whole = FALSE
        /\ \A c \in Ids \ {task[k].id} : arc'[c] = arc[c]
    BY <1>3, <2>1 DEF StartTar, Basic, Types, HostTypes
  <2> QED
    BY <1>3, <2>2, <2>3, NoneMoves DEF StartTar, histVars, OnHost, OnPC
<1>4. ASSUME NEW ok \in BOOLEAN, Abandon(k, ok) \/ Cleanup(k, ok) PROVE [Handover!Next]_Abstract
  <2>1. task[k].id \in Ids /\ Removes(task[k].id, ok) /\ UNCHANGED <<local, asked>>
    BY <1>0, <1>4 DEF Abandon, Cleanup, Knows, Tells, histVars
  <2>2. OnHost(task[k].id) => OnPC(task[k].id) \/ task[k].id \in asked
    <3>1. CASE task[k].at = "abandon"
      BY <1>0, <3>1 DEF SpreadTask, OnHost
    <3>2. CASE task[k].at = "cleanup"
      BY <1>0, <3>2, NoneAssumption DEF KnowsFile, OnPC, Sames
    <3> QED
      BY <1>4, <3>1, <3>2 DEF Abandon, Cleanup
  <2>3. PICK c \in Ids : c = task[k].id
    BY <2>1
  <2> QED
    BY <2>1, <2>2, <2>3, HandRemoves
<1>5. ASSUME NEW n \in Names, Claim(k, n) PROVE [Handover!Next]_Abstract
  <2>1. \A m \in Names : local'[m] = local[m] \/ {local[m], local'[m]} \subseteq {None, Empty}
    BY <1>5 DEF Claim, FirstFree, Basic, Types
  <2> QED
    BY <1>5, <2>1, HandEmpty DEF Claim, hostVars, histVars
<1>6. CASE DownloadFails(k)
  <2>1. \A n \in Names : local'[n] = local[n] \/ {local[n], local'[n]} \subseteq {None, Empty}
    BY <1>6 DEF DownloadFails, Basic, Types
  <2> QED
    BY <1>6, <2>1, HandEmpty DEF DownloadFails, Tells, hostVars
<1>7. CASE Cancel(k)
  <2>1. asked' = asked \cup ({task[k].id} \ {None}) /\ UNCHANGED <<arc, local>>
    BY <1>7 DEF Cancel, hostVars
  <2>2. task[k].id = None \/ task[k].id \in Ids
    BY <1>0 DEF Tasks
  <2>3. asked' = asked \/ (task[k].id \in Ids /\ asked' = asked \cup {task[k].id})
    BY <2>1, <2>2
  <2> QED
    BY <2>1, <2>3, HandQuiet
<1> QED
  BY <1>1, <1>2, <1>3, <1>4, <1>5, <1>6, <1>7, HandDownloaded DEF ClientSteps

LEMMA HandHost ==
  ASSUME Basic, Spread, NEW c \in Ids, HostSteps(c) \/ \E ok \in BOOLEAN : Delete(c, ok)
  PROVE  [Handover!Next]_Abstract
<1>1. ASSUME NEW e \in Entries, NEW o \in Outcomes, NEW left \in SUBSET Kinds, CopyOne(c, e, <<o, left>>)
      PROVE  [Handover!Next]_Abstract
  BY <1>1, HandQuiet DEF CopyOne, histVars
<1>2. CASE CopyEnds(c) \/ TarFails(c)
  BY <1>2, HandQuiet DEF CopyEnds, TarFails, histVars
<1>3. ASSUME NEW files \in SUBSET (Entries \X Kinds), TarEnds(c, files)
      PROVE  [Handover!Next]_Abstract
  <2>1. work[c] = "tar" /\ UNCHANGED <<task, local, asked>>
    BY <1>3 DEF TarEnds, histVars
  <2>2. Unmade(c)
    BY <2>1 DEF Spread, SpreadId
  <2>3. arc[c] \in Contents
    BY <1>3 DEF TarEnds, Basic, Types, HostTypes
  <2> DEFINE new == [arc[c] EXCEPT !.files = files, !.whole = TRUE]
  <2>4. new \in Contents /\ new.whole
    BY <2>3 DEF Contents
  <2>5. arc' = [arc EXCEPT ![c] = new]
    BY <1>3 DEF TarEnds, Basic, Types, HostTypes
  <2> HIDE DEF new
  <2>6. OnHost(c)' /\ \A d \in Ids \ {c} : OnHost(d)' <=> OnHost(d)
    BY <2>4, <2>5, NoneAssumption DEF OnHost, Basic, Types, HostTypes
  <2>7. \A d \in Ids : OnPC(d)' <=> OnPC(d)
    BY <2>1 DEF OnPC
  <2> QED
    BY <2>1, <2>2, <2>6, <2>7, OneMoves DEF Unmade
<1>4. ASSUME NEW ok \in BOOLEAN, Delete(c, ok) PROVE [Handover!Next]_Abstract
  <2>1. Removes(c, ok) /\ UNCHANGED local /\ asked' = asked \cup {c}
    BY <1>4 DEF Delete
  <2> QED
    BY <2>1, HandRemoves
<1> QED
  BY <1>1, <1>2, <1>3, <1>4 DEF HostSteps

\* The collection implements SafeHandover: an archive that was whole on its host is never
\* removed before one that reads through is on the PC, unless the operator asked, whatever is
\* cut, damaged, deleted by a colleague, or dies between the steps (CollectLogs to its cleanup,
\* RedownloadLogCollect, DeleteLogCollectLeftover).  Where no download is damaged at a place the
\* checks do not read ("silent" \notin Faults), the bytes on the PC are those of the host.
THEOREM ArchivesAreHandedOver == Spec => HandsOver
<1>1. Init => Handover!Init
  BY DEF Init, Handover!Init, Place, OnHost, OnPC
<1>2. Basic /\ FileInv /\ Sames /\ Spread /\ [Next]_vars => [Handover!Next]_Abstract
  <2> SUFFICES ASSUME Basic, FileInv, Sames, Spread, [Next]_vars PROVE [Handover!Next]_Abstract
    OBVIOUS
  <2>1. CASE UNCHANGED vars
    BY <2>1, HandQuiet DEF vars, hostVars, histVars
  <2> QED
    BY <2>1, HandClient, HandHost DEF Next
<1>3. Basic /\ FileInv /\ Sames /\ Spread /\ [Next]_vars => Spread'
  <2> SUFFICES ASSUME Basic, FileInv, Sames, Spread, [Next]_vars PROVE Spread'
    OBVIOUS
  <2>1. CASE UNCHANGED vars
    BY <2>1 DEF vars, hostVars, histVars, Spread, SpreadTask, SpreadId, Unmade, OnHost, OnPC
  <2> QED
    BY <2>1, SpreadClient, SpreadHost DEF Next
<1> QED
  BY <1>1, <1>2, <1>3, BasicInit, BasicStep, FileInit, FileStep, SamesInit, SamesStep,
     SpreadInit, PTL DEF Spec, HandsOver, Handover!Spec, Abstract

-----------------------------------------------------------------------------
(***************************************************************************)
(* The reserve.  A collection takes at most one unit for each entry, the   *)
(* margin and one for the archive (Need): no entry is staged twice.  Of    *)
(* the collections of a client at most the one that passed the gate last   *)
(* grows, unless a script of another was still writing then; what the gate *)
(* found free covers its Need, and all others only shrink.                 *)
(***************************************************************************)
Need == Cardinality(Entries) + Margin + 1

Staging == {"stage", "copy", "manifest", "archive", "tar"}

Growing(k) ==
  {c \in Ids : /\ owner[c] = k
               /\ work[c] # "off" \/ (task[k].id = c /\ task[k].at \in Staging)}

\* What k's other collections take.
Beside(k, c) == {x \in Used(k) : x[1] # c}

OneEach(c) ==
  tree[c] # None => \A f \in tree[c] : f[1] \notin todo[c] /\ \A g \in tree[c] : g[1] = f[1] => g = f

Room(k) ==
  crowded[k] = FALSE =>
    /\ \A c, d \in Growing(k) : c = d
    /\ Cardinality(Used(k)) + Reserve <= Disk
    /\ \A c \in Growing(k) : Cardinality(Beside(k, c)) + Need + Reserve <= Disk

RoomInv == (\A c \in Ids : OneEach(c)) /\ \A k \in Clients : Room(k)

-----------------------------------------------------------------------------
LEMMA UsedIs ==
  ASSUME NEW k
  PROVE  \A x : x \in Used(k) <=> \E c \in Ids : owner[c] = k /\ \E u \in Units(c) : x = <<c, u>>
<1>1. ASSUME NEW x, x \in Used(k) PROVE \E c \in Ids : owner[c] = k /\ \E u \in Units(c) : x = <<c, u>>
  <2>1. PICK c \in Ids : owner[c] = k /\ x \in {c} \X Units(c)
    BY <1>1 DEF Used
  <2> QED
    BY <2>1
<1>2. ASSUME NEW c \in Ids, owner[c] = k, NEW u \in Units(c) PROVE <<c, u>> \in Used(k)
  <2>1. <<c, u>> \in {c} \X Units(c)
    OBVIOUS
  <2>2. {c} \X Units(c) \in {{e} \X Units(e) : e \in {d \in Ids : owner[d] = k}}
    BY <1>2
  <2> QED
    BY <2>1, <2>2 DEF Used
<1> QED
  BY <1>1, <1>2

UsedParts == \A k : \A x : x \in Used(k) <=> \E c \in Ids : owner[c] = k /\ \E u \in Units(c) : x = <<c, u>>

LEMMA UsedAre == UsedParts
BY UsedIs DEF UsedParts

LEMMA UsedNextParts == UsedParts'
BY UsedAre, PTL

LEMMA UsedNext ==
  ASSUME NEW k
  PROVE  \A x : x \in Used(k)' <=> \E c \in Ids : owner'[c] = k /\ \E u \in Units(c)' : x = <<c, u>>
BY UsedNextParts DEF UsedParts

LEMMA UnionSize ==
  ASSUME NEW S, IsFiniteSet(S), NEW T, IsFiniteSet(T)
  PROVE  /\ IsFiniteSet(S \cup T) /\ Cardinality(S \cup T) \in Nat
         /\ Cardinality(S \cup T) <= Cardinality(S) + Cardinality(T)
<1>1. /\ IsFiniteSet(S \cup T)
      /\ Cardinality(S \cup T) = Cardinality(S) + Cardinality(T) - Cardinality(S \cap T)
  BY FS_Union
<1>2. IsFiniteSet(S \cap T)
  BY FS_Intersection
<1>3. /\ Cardinality(S) \in Nat /\ Cardinality(T) \in Nat /\ Cardinality(S \cap T) \in Nat
      /\ Cardinality(S \cup T) \in Nat
  BY <1>1, <1>2, FS_CardinalityType
<1> QED
  BY <1>1, <1>3

LEMMA UnitsFinite ==
  ASSUME Types, NEW c \in Ids
  PROVE  /\ Units(c) \subseteq ({"copy"} \X (Entries \X Kinds)) \cup ({"growth"} \X (1 .. Margin)) \cup ({"archive"} \X {1})
         /\ OneEach(c) => Cardinality(Units(c)) <= Need
         /\ IsFiniteSet(Units(c)) /\ Cardinality(Units(c)) \in Nat
<1> DEFINE copies == IF tree[c] # None THEN tree[c] ELSE {}
           n      == IF tree[c] # None THEN grown[c] ELSE 0
           A      == {"copy"} \X copies
           B      == {"growth"} \X (1 .. n)
           C      == IF arc[c] # None THEN {"archive"} \X {1} ELSE {}
<1>1. n \in 0 .. Margin /\ Margin \in Nat /\ copies \subseteq Entries \X Kinds
  BY LogCollectAssumption DEF Types, HostTypes, Staged
<1>2. IsFiniteSet({"whole", "cut"}) /\ IsFiniteSet(Entries)
  <2>1. IsFiniteSet({"whole"})
    BY FS_Singleton
  <2>2. IsFiniteSet({"whole"} \cup {"cut"})
    BY <2>1, FS_AddElement
  <2>3. {"whole", "cut"} = {"whole"} \cup {"cut"}
    OBVIOUS
  <2> QED
    BY <2>2, <2>3, LogCollectAssumption
<1>3. IsFiniteSet(copies) /\ Cardinality(copies) \in Nat
  <2>1. IsFiniteSet(Entries \X Kinds)
    BY <1>2, FS_Product DEF Kinds
  <2> QED
    BY <1>1, <2>1, FS_Subset, FS_CardinalityType
<1>4. IsFiniteSet(A) /\ Cardinality(A) = Cardinality(copies)
  <2>1. IsFiniteSet({"copy"}) /\ Cardinality({"copy"}) = 1
    BY FS_Singleton
  <2>2. IsFiniteSet(A) /\ Cardinality(A) = 1 * Cardinality(copies)
    BY <1>3, <2>1, FS_Product
  <2> QED
    BY <1>3, <2>2
<1>5. IsFiniteSet(B) /\ Cardinality(B) = n
  <2>1. IsFiniteSet({"growth"}) /\ Cardinality({"growth"}) = 1
    BY FS_Singleton
  <2>2. IsFiniteSet(1 .. n) /\ Cardinality(1 .. n) = n
    <3>1. n \in Int /\ n >= 0 /\ 1 \in Int
      BY <1>1
    <3>2. IsFiniteSet(1 .. n) /\ Cardinality(1 .. n) = IF 1 > n THEN 0 ELSE n - 1 + 1
      BY <3>1, FS_Interval
    <3> HIDE DEF n
    <3> QED
      BY <3>1, <3>2
  <2>3. IsFiniteSet(B) /\ Cardinality(B) = 1 * Cardinality(1 .. n)
    BY <2>1, <2>2, FS_Product
  <2> QED
    BY <1>1, <2>2, <2>3
<1>6. IsFiniteSet(C) /\ Cardinality(C) \in 0 .. 1
  <2>1. IsFiniteSet({<<"archive", 1>>}) /\ Cardinality({<<"archive", 1>>}) = 1
    BY FS_Singleton
  <2>2. {"archive"} \X {1} = {<<"archive", 1>>}
    OBVIOUS
  <2> QED
    BY <2>1, <2>2, FS_EmptySet
<1>7. Units(c) = (A \cup B) \cup C
  <2>1. CASE tree[c] # None
    BY <2>1 DEF Units
  <2>2. CASE tree[c] = None
    <3>1. A = {} /\ B = {}
      BY <2>2
    <3> QED
      BY <2>2, <3>1 DEF Units
  <2> QED
    BY <2>1, <2>2
<1> HIDE DEF A, B, C
<1>8. /\ IsFiniteSet(A \cup B) /\ Cardinality(A \cup B) \in Nat
      /\ Cardinality(A \cup B) <= Cardinality(A) + Cardinality(B)
  BY <1>4, <1>5, UnionSize
<1>9. /\ IsFiniteSet((A \cup B) \cup C) /\ Cardinality((A \cup B) \cup C) \in Nat
      /\ Cardinality((A \cup B) \cup C) <= Cardinality(A \cup B) + Cardinality(C)
  BY <1>6, <1>8, UnionSize
<1>10. OneEach(c) => Cardinality(copies) <= Cardinality(Entries)
  <2> SUFFICES ASSUME OneEach(c) PROVE Cardinality(copies) <= Cardinality(Entries)
    OBVIOUS
  <2> DEFINE of == [f \in copies |-> f[1]]
  <2>1. \A f, g \in copies : f[1] = g[1] => f = g
    BY DEF OneEach
  <2>2. of \in [copies -> Entries]
    BY <1>1
  <2>3. of \in Injection(copies, Entries)
    BY <2>1, <2>2 DEF Injection, IsInjective
  <2> QED
    BY <1>2, <2>3, FS_Injection
<1>11. Cardinality(Entries) \in Nat
  BY <1>2, FS_CardinalityType
<1>12. OneEach(c) => Cardinality(Units(c)) <= Need
  BY <1>1, <1>3, <1>4, <1>5, <1>6, <1>7, <1>8, <1>9, <1>10, <1>11 DEF Need
<1>13. Units(c) \subseteq ({"copy"} \X (Entries \X Kinds)) \cup ({"growth"} \X (1 .. Margin)) \cup ({"archive"} \X {1})
  BY <1>1, <1>7 DEF A, B, C
<1> QED
  BY <1>7, <1>9, <1>12, <1>13

LEMMA UsedFinite ==
  ASSUME Types, NEW k
  PROVE  /\ IsFiniteSet(Used(k)) /\ Cardinality(Used(k)) \in Nat
         /\ \A c : IsFiniteSet(Beside(k, c)) /\ Cardinality(Beside(k, c)) \in Nat
<1> DEFINE mine == {d \in Ids : owner[d] = k}
           parts == {{c} \X Units(c) : c \in mine}
<1>1. IsFiniteSet(mine)
  BY FS_Subset, LogCollectAssumption
<1> DEFINE part == [c \in mine |-> {c} \X Units(c)]
<1>2. part \in Surjection(mine, parts)
  BY DEF Surjection
<1>3. IsFiniteSet(parts)
  BY <1>1, <1>2, FS_Surjection
<1>4. \A T \in parts : IsFiniteSet(T)
  <2> SUFFICES ASSUME NEW c \in mine PROVE IsFiniteSet({c} \X Units(c))
    OBVIOUS
  <2>1. IsFiniteSet({c}) /\ IsFiniteSet(Units(c))
    BY UnitsFinite, FS_Singleton
  <2> QED
    BY <2>1, FS_Product
<1>5. Used(k) = UNION parts
  BY DEF Used
<1> HIDE DEF parts
<1>6. IsFiniteSet(Used(k))
  BY <1>3, <1>4, <1>5, FS_UNION
<1>7. \A c : Beside(k, c) \in SUBSET Used(k)
  BY DEF Beside
<1> QED
  BY <1>6, <1>7, FS_Subset, FS_CardinalityType

Sizes ==
  /\ \A c \in Ids : /\ IsFiniteSet(Units(c)) /\ Cardinality(Units(c)) \in Nat
                    /\ OneEach(c) => Cardinality(Units(c)) <= Need
  /\ \A k \in Clients : /\ IsFiniteSet(Used(k)) /\ Cardinality(Used(k)) \in Nat
                        /\ \A c \in Ids : IsFiniteSet(Beside(k, c)) /\ Cardinality(Beside(k, c)) \in Nat

LEMMA SizesAre == Types => Sizes
BY UnitsFinite, UsedFinite DEF Sizes

LEMMA SizesNext == Types' => Sizes'
BY SizesAre, PTL

\* One collection takes no more than Need.
LEMMA RoomFits ==
  ASSUME Types, Types', NEW k \in Clients, NEW c \in Ids, OneEach(c)',
         Cardinality(Beside(k, c)') + Need + Reserve <= Disk
  PROVE  Cardinality(Used(k)') + Reserve <= Disk
<1>1. /\ IsFiniteSet(Beside(k, c)') /\ Cardinality(Beside(k, c)') \in Nat
      /\ IsFiniteSet(Units(c)') /\ Cardinality(Units(c)') \in Nat /\ Cardinality(Units(c)') <= Need
      /\ IsFiniteSet(Used(k)') /\ Cardinality(Used(k)') \in Nat
  BY SizesNext DEF Sizes
<1>2. Used(k)' \subseteq Beside(k, c)' \cup ({c} \X Units(c)')
  BY UsedNext DEF Beside
<1>3. /\ IsFiniteSet({c} \X Units(c)') /\ Cardinality({c} \X Units(c)') = Cardinality(Units(c)')
  <2>1. IsFiniteSet({c}) /\ Cardinality({c}) = 1
    BY FS_Singleton
  <2>2. /\ IsFiniteSet({c} \X Units(c)')
        /\ Cardinality({c} \X Units(c)') = 1 * Cardinality(Units(c)')
    BY <1>1, <2>1, FS_Product
  <2> QED
    BY <1>1, <2>2
<1> DEFINE both == Beside(k, c)' \cup ({c} \X Units(c)')
<1>4. /\ IsFiniteSet(both) /\ Cardinality(both) \in Nat
      /\ Cardinality(both) <= Cardinality(Beside(k, c)') + Cardinality(Units(c)')
  BY <1>1, <1>3, UnionSize
<1>5. Cardinality(Used(k)') <= Cardinality(both)
  BY <1>2, <1>4, FS_Subset
<1> HIDE DEF both
<1>6. Disk \in Nat /\ Reserve \in Nat /\ Need \in Nat
  BY LogCollectAssumption, FS_CardinalityType DEF Need
<1> QED
  BY <1>1, <1>4, <1>5, <1>6

\* Nothing that client k's collections take is new, except for one that grows.
LEMMA RoomFrame ==
  ASSUME Types, Types', RoomInv, owner' = owner, crowded' = crowded,
         \A c \in Ids : OneEach(c)',
         \A k \in Clients : Growing(k)' \subseteq Growing(k),
         \A k \in Clients : \A c \in Ids : owner[c] = k /\ c \notin Growing(k) => Units(c)' \subseteq Units(c)
  PROVE  RoomInv'
<1> SUFFICES ASSUME NEW k \in Clients, crowded[k] = FALSE PROVE Room(k)'
  BY DEF RoomInv, Room
<1>1. /\ \A c, d \in Growing(k) : c = d
      /\ Cardinality(Used(k)) + Reserve <= Disk
      /\ \A c \in Growing(k) : Cardinality(Beside(k, c)) + Need + Reserve <= Disk
  BY DEF RoomInv, Room
<1>2. \A c, d \in Growing(k)' : c = d
  BY <1>1
<1>3. ASSUME NEW c \in Growing(k)
      PROVE  /\ Cardinality(Used(k)') + Reserve <= Disk
             /\ Cardinality(Beside(k, c)') + Need + Reserve <= Disk
  <2>1. c \in Ids
    BY DEF Growing
  <2>2. Beside(k, c)' \subseteq Beside(k, c)
    <3> SUFFICES ASSUME NEW x, x \in Used(k)', x[1] # c PROVE x \in Used(k)
      BY DEF Beside
    <3>1. PICK d \in Ids : owner[d] = k /\ \E u \in Units(d)' : x = <<d, u>>
      BY UsedNext
    <3>2. PICK u \in Units(d)' : x = <<d, u>>
      BY <3>1
    <3>3. d \notin Growing(k)
      BY <1>1, <1>3, <3>2
    <3> QED
      BY <3>1, <3>2, <3>3, UsedIs
  <2>3. /\ IsFiniteSet(Beside(k, c)) /\ Cardinality(Beside(k, c)) \in Nat
        /\ Cardinality(Beside(k, c)') \in Nat
    BY <2>1, SizesAre, SizesNext DEF Sizes
  <2>4. Cardinality(Beside(k, c)') <= Cardinality(Beside(k, c))
    BY <2>2, <2>3, FS_Subset
  <2>5. Disk \in Nat /\ Reserve \in Nat /\ Need \in Nat
    BY LogCollectAssumption, FS_CardinalityType DEF Need
  <2>6. Cardinality(Beside(k, c)') + Need + Reserve <= Disk
    BY <1>1, <1>3, <2>3, <2>4, <2>5
  <2> QED
    BY <2>1, <2>6, RoomFits
<1>4. CASE Growing(k) = {}
  <2>1. Used(k)' \subseteq Used(k)
    BY <1>4, UsedNext, UsedIs
  <2>2. /\ IsFiniteSet(Used(k)) /\ Cardinality(Used(k)) \in Nat /\ Cardinality(Used(k)') \in Nat
    BY SizesAre, SizesNext DEF Sizes
  <2>3. Cardinality(Used(k)') <= Cardinality(Used(k))
    BY <2>1, <2>2, FS_Subset
  <2>4. Cardinality(Used(k)') + Reserve <= Disk
    BY <1>1, <2>2, <2>3, LogCollectAssumption
  <2> QED
    BY <1>4, <2>4 DEF Room
<1> QED
  BY <1>2, <1>3, <1>4 DEF Room

-----------------------------------------------------------------------------
(* No step but the gate, the copy script and the start of tar makes a      *)
(* collection take more.                                                   *)

Smaller(c) ==
  /\ tree'[c] = None \/ (tree'[c] = tree[c] /\ grown'[c] = grown[c] /\ todo'[c] \subseteq todo[c])
  /\ arc'[c] = None \/ arc[c] # None

LEMMA SmallerUnits ==
  ASSUME Types, NEW c \in Ids, Smaller(c)
  PROVE  Units(c)' \subseteq Units(c) /\ (OneEach(c) => OneEach(c)')
<1>1. Units(c)' \subseteq Units(c)
  BY DEF Smaller, Units
<1>2. OneEach(c) => OneEach(c)'
  BY DEF Smaller, OneEach
<1> QED
  BY <1>1, <1>2

\* Nothing that is not at work begins to be.
Calmer(c) ==
  /\ work'[c] # "off" => work[c] # "off" \/ \E k \in Clients : task[k].id = c /\ task[k].at \in Staging
  /\ \A k \in Clients : task'[k].id = c /\ task'[k].at \in Staging => task[k].id = c /\ task[k].at \in Staging

LEMMA CalmerGrowing ==
  ASSUME Basic, owner' = owner, \A c \in Ids : Calmer(c), NEW k \in Clients
  PROVE  Growing(k)' \subseteq Growing(k)
<1> SUFFICES ASSUME NEW c \in Ids, owner[c] = k, c \in Growing(k)' PROVE c \in Growing(k)
  BY DEF Growing
<1>1. ASSUME NEW j \in Clients, task[j].id = c, task[j].at \in Staging PROVE j = k
  <2>1. task[j] \in Tasks /\ Knows(j)
    BY DEF Basic, Types
  <2>2. task[j].fetch = FALSE
    BY <1>1, <2>1 DEF Knows, Tasks, Staging
  <2> QED
    BY <1>1, <2>1, <2>2 DEF Knows, Staging
<1> QED
  BY <1>1 DEF Calmer, Growing

LEMMA RoomQuiet ==
  ASSUME Basic, Types', RoomInv, owner' = owner, crowded' = crowded,
         \A c \in Ids : Smaller(c) /\ Calmer(c)
  PROVE  RoomInv'
<1>1. \A c \in Ids : OneEach(c)' /\ Units(c)' \subseteq Units(c)
  BY SmallerUnits DEF Basic, RoomInv
<1>2. \A k \in Clients : Growing(k)' \subseteq Growing(k)
  BY CalmerGrowing
<1> QED
  BY <1>1, <1>2, RoomFrame DEF Basic

\* Clients' steps that leave copies, archives and scripts alone.
LEMMA RoomPlain ==
  ASSUME Basic, Types', RoomInv, NEW k \in Clients, UNCHANGED <<owner, crowded, work, todo, tree, arc, grown>>,
         Others(k), task'[k].at \in Staging => task'[k].id = task[k].id /\ task[k].at \in Staging
  PROVE  RoomInv'
<1>1. ASSUME NEW c \in Ids PROVE Smaller(c) /\ Calmer(c)
  BY DEF Smaller, Calmer, Others
<1> QED
  BY <1>1, RoomQuiet

LEMMA RemovesRoom ==
  ASSUME Types, NEW d \in Ids, NEW ok, Removes(d, ok), NEW c \in Ids
  PROVE  Smaller(c) /\ work'[c] = work[c]
<1>1. work' = work /\ todo' = todo
  BY DEF Removes
<1>2. arc'[c] \in {arc[c], None}
  BY DEF Removes, Types, HostTypes
<1>3. tree'[c] = None \/ (tree'[c] = tree[c] /\ grown'[c] = grown[c])
  BY DEF Removes, TreeGoes, Types, HostTypes
<1> QED
  BY <1>1, <1>2, <1>3 DEF Smaller

LEMMA ReadRoom ==
  ASSUME Types, NEW d, Read(d), NEW c \in Ids
  PROVE  /\ work'[c] # "off" => work[c] # "off"
         /\ todo'[c] \subseteq todo[c]
<1>1. work'[c] \in {work[c], "off"}
  BY DEF Read, Left, Types, HostTypes
<1>2. todo'[c] \in {todo[c], {}}
  BY DEF Read, Types, HostTypes
<1> QED
  BY <1>1, <1>2

LEMMA RoomEnds ==
  ASSUME Basic, Types', RoomInv, NEW k \in Clients, Ends(k), owner' = owner, crowded' = crowded,
         \A c \in Ids : Smaller(c) /\ (work'[c] # "off" => work[c] # "off")
  PROVE  RoomInv'
<1>1. task'[k] = Idle /\ Others(k)
  BY EndsTask DEF Basic
<1>2. \A c \in Ids : Calmer(c)
  BY <1>1, IdleTask DEF Calmer, Others, Staging
<1> QED
  BY <1>2, RoomQuiet

\* The gate measured what the others take, and none of them grows.
LEMMA RoomGate ==
  ASSUME Basic, Types', RoomInv, NEW k \in Clients, NEW d \in Ids, Gate(k, d)
  PROVE  RoomInv'
<1>1. /\ task[k].at = "gate" /\ owner[d] = None /\ Fits(k)
      /\ owner' = [owner EXCEPT ![d] = k] /\ tree' = [tree EXCEPT ![d] = {}]
      /\ todo' = [todo EXCEPT ![d] = Entries] /\ work' = work /\ arc' = arc /\ grown' = grown
  BY DEF Gate
<1>2. Others(k) /\ task'[k].at = "stage" /\ task'[k].id = d
  BY GateTask DEF Basic
<1>3. ASSUME NEW c \in Ids PROVE OneEach(c)'
  BY <1>1, <1>3 DEF OneEach, RoomInv, Basic, Types, HostTypes
<1>4. ASSUME NEW c \in Ids, c # d PROVE owner'[c] = owner[c] /\ Units(c)' = Units(c)
  <2>1. owner'[c] = owner[c] /\ tree'[c] = tree[c]
    BY <1>1, <1>4 DEF Basic, Types, HostTypes
  <2> QED
    BY <1>1, <2>1 DEF Units
<1>5. owner'[d] = k
  BY <1>1 DEF Basic, Types
<1>6. ASSUME NEW j \in Clients, j # k, crowded'[j] = FALSE PROVE Room(j)'
  <2>1. crowded[j] = FALSE
    BY <1>6 DEF Gate, Basic, Types
  <2>2. task'[j] = task[j]
    BY <1>2, <1>6 DEF Others
  <2>3. Growing(j)' = Growing(j)
    BY <1>1, <1>4, <1>5, <1>6, <2>2, NoneAssumption DEF Growing
  <2>4. \A x : x \in Used(j)' <=> x \in Used(j)
    BY <1>1, <1>4, <1>5, <1>6, UsedIs, UsedNext, NoneAssumption
  <2>5. Used(j)' = Used(j) /\ \A c \in Ids : Beside(j, c)' = Beside(j, c)
    BY <2>4 DEF Beside
  <2>6. Room(j) /\ Growing(j) \subseteq Ids
    BY <1>6 DEF RoomInv, Growing
  <2>7. /\ \A a, b \in Growing(j) : a = b
        /\ Cardinality(Used(j)) + Reserve <= Disk
        /\ \A a \in Growing(j) : a \in Ids /\ Cardinality(Beside(j, a)) + Need + Reserve <= Disk
    BY <2>1, <2>6 DEF Room
  <2>8. Cardinality(Used(j)') = Cardinality(Used(j))
    BY <2>5
  <2>9. \A a \in Ids : Cardinality(Beside(j, a)') = Cardinality(Beside(j, a))
    BY <2>5
  <2> QED
    BY <2>3, <2>7, <2>8, <2>9 DEF Room
<1>7. ASSUME crowded'[k] = FALSE PROVE Room(k)'
  <2>1. \A e \in Ids : owner[e] = k => work[e] = "off"
    BY <1>7 DEF Gate, Basic, Types
  <2>2. \A c \in Growing(k)' : c = d
    BY <1>1, <1>2, <1>4, <2>1 DEF Growing
  <2>3. Beside(k, d)' \subseteq Used(k)
    <3> SUFFICES ASSUME NEW x, x \in Used(k)', x[1] # d PROVE x \in Used(k)
      BY DEF Beside
    <3>1. PICK c \in Ids : owner'[c] = k /\ \E u \in Units(c)' : x = <<c, u>>
      BY UsedNext
    <3>2. c # d
      BY <3>1
    <3> QED
      BY <1>4, <3>1, <3>2, UsedIs
  <2>4. Cardinality(Used(k)) + Need + Reserve <= Disk
    <3>1. Cardinality(Used(k)) \in Nat /\ Cardinality(Entries) \in Nat /\ {Disk, Reserve, Margin} \subseteq Nat
      BY SizesAre, FS_CardinalityType, LogCollectAssumption DEF Basic, Sizes
    <3> QED
      BY <1>1, <3>1 DEF Fits, Free, Need
  <2>5. /\ IsFiniteSet(Used(k)) /\ Cardinality(Used(k)) \in Nat
        /\ IsFiniteSet(Beside(k, d)') /\ Cardinality(Beside(k, d)') \in Nat
    BY SizesAre, SizesNext DEF Basic, Sizes
  <2>6. Cardinality(Beside(k, d)') <= Cardinality(Used(k))
    BY <2>3, <2>5, FS_Subset
  <2>7. Cardinality(Beside(k, d)') + Need + Reserve <= Disk
    <3>1. Disk \in Nat /\ Reserve \in Nat /\ Need \in Nat
      BY LogCollectAssumption, FS_CardinalityType DEF Need
    <3> QED
      BY <2>4, <2>5, <2>6, <3>1
  <2>8. Cardinality(Used(k)') + Reserve <= Disk
    BY <1>3, <2>7, RoomFits DEF Basic
  <2> QED
    BY <2>2, <2>7, <2>8 DEF Room
<1>8. \A j \in Clients : Room(j)'
  BY <1>6, <1>7 DEF Room
<1> QED
  BY <1>3, <1>8 DEF RoomInv

LEMMA RoomClient ==
  ASSUME Basic, Types', RoomInv, NEW k \in Clients, ClientSteps(k)
  PROVE  RoomInv'
<1> DEFINE c == task[k].id
<1>0. task[k] \in Tasks /\ Knows(k)
  BY DEF Basic, Types
<1>1. CASE Begin(k)
  <2>1. OnlyPlace(k, "gate") /\ Others(k)
    BY <1>1, GoesTask DEF Begin, Basic, Places
  <2> QED
    BY <1>1, <2>1, RoomPlain DEF Begin, OnlyPlace, Staging, hostVars, histVars
<1>2. ASSUME NEW d \in Ids, Gate(k, d) PROVE RoomInv'
  BY <1>2, RoomGate
<1>3. CASE GateRefuses(k)
  BY <1>3, RoomEnds DEF GateRefuses, Smaller, hostVars, histVars
<1>4. CASE StageFails(k) \/ ManifestFails(k)
  <2>1. OnlyPlace(k, "abandon") /\ Others(k)
    BY <1>4, GoesTask DEF StageFails, ManifestFails, Basic, Places
  <2> QED
    BY <1>4, <2>1, RoomPlain DEF StageFails, ManifestFails, OnlyPlace, Staging, hostVars, histVars
<1>5. CASE StartCopy(k)
  <2>1. OnlyPlace(k, "copy") /\ Others(k)
    BY <1>5, GoesTask DEF StartCopy, Basic, Places
  <2>2. ASSUME NEW d \in Ids PROVE Smaller(d) /\ Calmer(d)
    <3>1. work'[d] = work[d] \/ (d = c /\ task[k].at = "stage")
      BY <1>5 DEF StartCopy, Basic, Types, HostTypes
    <3>2. task[k].at = "stage" /\ Smaller(d)
      BY <1>5 DEF StartCopy, Smaller
    <3> QED
      BY <2>1, <3>1, <3>2 DEF Calmer, OnlyPlace, Others, Staging
  <2> QED
    BY <1>5, <2>2, RoomQuiet DEF StartCopy, histVars
<1>6. CASE TouchStop(k)
  BY <1>6, RoomPlain DEF TouchStop, Others, histVars
<1>7. CASE CopyReturns(k)
  <2>1. c \in Ids
    BY <1>0, <1>7 DEF CopyReturns, Knows
  <2>2. task'[k].id = c /\ Others(k) /\ task[k].at = "copy"
    BY <1>7, <2>1, CopyTask DEF CopyReturns, Basic
  <2>3. ASSUME NEW d \in Ids PROVE Smaller(d) /\ Calmer(d)
    <3>1. (work'[d] # "off" => work[d] # "off") /\ todo'[d] \subseteq todo[d]
      BY <1>7, ReadRoom DEF CopyReturns, Basic
    <3>2. Smaller(d)
      BY <1>7, <3>1 DEF CopyReturns, Smaller
    <3> QED
      BY <2>2, <3>1, <3>2 DEF Calmer, Others, Staging
  <2> QED
    BY <1>7, <2>3, RoomQuiet DEF CopyReturns, histVars
<1>8. CASE Manifest(k)
  <2>1. PICK place \in {"abandon", "archive"} : Goes(k, place)
    BY <1>8 DEF Manifest
  <2>2. OnlyPlace(k, place) /\ Others(k)
    BY <2>1, GoesTask DEF Basic, Places
  <2> QED
    BY <1>8, <2>2, RoomPlain DEF Manifest, OnlyPlace, Staging, histVars
<1>9. CASE StartTar(k)
  <2>1. OnlyPlace(k, "tar") /\ Others(k) /\ task[k].at = "archive"
    BY <1>9, GoesTask DEF StartTar, Basic, Places
  <2>2. c \in Ids /\ owner[c] = k
    BY <1>0, <2>1 DEF Knows, Tasks
  <2>3. ASSUME NEW d \in Ids PROVE Calmer(d) /\ (d # c => Smaller(d)) /\ (OneEach(d) => OneEach(d)')
    <3>1. /\ tree'[d] = tree[d] /\ grown'[d] = grown[d] /\ todo'[d] = todo[d]
          /\ d # c => work'[d] = work[d] /\ arc'[d] = arc[d]
      BY <1>9 DEF StartTar, Basic, Types, HostTypes
    <3>2. d # c => Smaller(d)
      BY <3>1 DEF Smaller
    <3>3. Calmer(d)
      BY <2>1, <3>1 DEF Calmer, OnlyPlace, Others, Staging
    <3> QED
      BY <3>1, <3>2, <3>3 DEF OneEach
  <2>4. owner' = owner /\ crowded' = crowded
    BY <1>9 DEF StartTar, histVars
  <2>5. \A j \in Clients : Growing(j)' \subseteq Growing(j)
    BY <2>3, <2>4, CalmerGrowing
  <2>6. c \in Growing(k)
    BY <2>1, <2>2 DEF Growing, Staging
  <2>7. \A d \in Ids : d # c => Units(d)' \subseteq Units(d)
    BY <2>3, SmallerUnits DEF Basic
  <2>8. \A d \in Ids : OneEach(d)'
    BY <2>3 DEF RoomInv
  <2> QED
    BY <2>2, <2>4, <2>5, <2>6, <2>7, <2>8, RoomFrame DEF Basic
<1>10. CASE TarRefused(k) \/ ClaimFails(k) \/ DownloadFails(k)
  BY <1>10, RoomEnds DEF TarRefused, ClaimFails, DownloadFails, Tells, Smaller, hostVars
<1>11. CASE TarReturns(k)
  <2>1. ASSUME NEW d \in Ids PROVE Smaller(d) /\ (work'[d] # "off" => work[d] # "off")
    BY <1>11, ReadRoom DEF TarReturns, Smaller, Basic
  <2>2. owner' = owner
    BY <1>11 DEF TarReturns
  <2>3. CASE Tells(k)
    BY <2>1, <2>2, <2>3, RoomEnds DEF Tells
  <2>4. ASSUME NEW place \in {"abandon", "claim"}, Goes(k, place), UNCHANGED histVars PROVE RoomInv'
    <3>1. OnlyPlace(k, place) /\ Others(k)
      BY <2>4, GoesTask DEF Basic, Places
    <3>2. \A d \in Ids : Calmer(d)
      BY <2>1, <3>1 DEF Calmer, OnlyPlace, Others, Staging
    <3> QED
      BY <2>1, <2>2, <2>4, <3>2, RoomQuiet DEF histVars
  <2> QED
    BY <1>11, <2>3, <2>4 DEF TarReturns
<1>12. ASSUME NEW ok \in BOOLEAN, Abandon(k, ok) \/ Cleanup(k, ok) PROVE RoomInv'
  <2>1. c \in Ids /\ Removes(c, ok) /\ owner' = owner
    BY <1>0, <1>12 DEF Abandon, Cleanup, Knows
  <2>2. Ends(k) /\ crowded' = crowded
    BY <1>12 DEF Abandon, Cleanup, Tells, histVars
  <2>3. \A d \in Ids : Smaller(d) /\ work'[d] = work[d]
    BY <2>1, RemovesRoom DEF Basic
  <2> QED
    BY <2>1, <2>2, <2>3, RoomEnds
<1>13. ASSUME NEW n \in Names, Claim(k, n) PROVE RoomInv'
  <2>1. Others(k) /\ task'[k].at = "stat"
    BY <1>13, ClaimTask DEF Basic
  <2> QED
    BY <1>13, <2>1, RoomPlain DEF Claim, Staging, hostVars, histVars
<1>14. CASE StartDownload(k)
  <2>1. c \in Ids /\ arc[c] \in Contents
    BY <1>0, <1>14 DEF StartDownload, Knows, Basic, Types, HostTypes
  <2>2. Others(k) /\ task'[k].at = "download"
    BY <1>14, <2>1, StartDownloadTask DEF Basic
  <2> QED
    BY <1>14, <2>2, RoomPlain DEF StartDownload, Staging, hostVars, histVars
<1>15. ASSUME NEW how \in {"intact", "torn", "silent"}, Downloaded(k, how) PROVE RoomInv'
  <2>1. Others(k) /\ task'[k].at = "verify"
    BY <1>15, DownloadedTask DEF Basic
  <2> QED
    BY <1>15, <2>1, RoomPlain DEF Downloaded, Staging, hostVars, histVars
<1>16. CASE Verify(k)
  <2>1. CASE Tells(k)
    BY <1>16, <2>1, RoomEnds DEF Verify, Tells, Smaller, hostVars
  <2>2. CASE Goes(k, "cleanup") /\ UNCHANGED histVars
    <3>1. OnlyPlace(k, "cleanup") /\ Others(k)
      BY <2>2, GoesTask DEF Basic, Places
    <3> QED
      BY <1>16, <2>2, <3>1, RoomPlain DEF Verify, OnlyPlace, Staging, hostVars, histVars
  <2> QED
    BY <1>16, <2>1, <2>2 DEF Verify
<1>17. ASSUME NEW d \in Ids, Refetch(k, d) PROVE RoomInv'
  <2>1. Others(k) /\ task'[k].at = "claim"
    BY <1>17, RefetchTask DEF Basic
  <2> QED
    BY <1>17, <2>1, RoomPlain DEF Refetch, Staging, hostVars, histVars
<1>18. CASE Cancel(k)
  <2>1. Others(k) /\ task'[k].at = task[k].at /\ task'[k].id = c
    BY <1>18, CancelTask DEF Basic
  <2> QED
    BY <1>18, <2>1, RoomPlain DEF Cancel, hostVars
<1>19. CASE Crash(k)
  <2>1. \A d \in Ids : work'[d] # "off" => work[d] # "off"
    BY <1>19 DEF Crash, Left, Basic, Types, HostTypes
  <2> QED
    BY <1>19, <2>1, RoomEnds DEF Crash, Smaller
<1> QED
  BY <1>1, <1>2, <1>3, <1>4, <1>5, <1>6, <1>7, <1>8, <1>9, <1>10, <1>11, <1>12, <1>13, <1>14, <1>15,
     <1>16, <1>17, <1>18, <1>19 DEF ClientSteps

LEMMA RoomHost ==
  ASSUME Basic, Types', RoomInv, NEW c \in Ids, HostSteps(c) \/ \E ok \in BOOLEAN : Delete(c, ok)
  PROVE  RoomInv'
<1>1. ASSUME NEW e \in Entries, NEW o \in Outcomes, NEW left \in SUBSET Kinds, CopyOne(c, e, <<o, left>>)
      PROVE  RoomInv'
  <2>1. owner' = owner /\ crowded' = crowded /\ task' = task /\ work' = work /\ arc' = arc /\ work[c] = "copy"
    BY <1>1 DEF CopyOne, histVars
  <2>2. ASSUME NEW d \in Ids, d # c PROVE Smaller(d)
    <3>1. tree'[d] = tree[d] /\ grown'[d] = grown[d] /\ todo'[d] = todo[d]
      BY <1>1, <2>2 DEF CopyOne, Basic, Types, HostTypes
    <3> QED
      BY <2>1, <3>1 DEF Smaller
  <2>3. \A f, g \in left : f = g
    <3>1. <<o, left>> = <<"fail", {}>> \/ <<o, left>> \in Results(e)
      BY <1>1 DEF CopyOne
    <3>2. Mode[e] \in {"whole", "filter", "cmd"}
      BY LogCollectAssumption
    <3>3. CASE Mode[e] = "whole"
      BY <3>1, <3>3 DEF Results
    <3>4. CASE Mode[e] = "filter"
      BY <3>1, <3>4 DEF Results
    <3>5. CASE Mode[e] = "cmd"
      BY <3>1, <3>5 DEF Results
    <3> QED
      BY <3>2, <3>3, <3>4, <3>5
  <2>4. OneEach(c)'
    <3>1. /\ tree'[c] = IF tree[c] = None THEN None ELSE tree[c] \cup ({e} \X left)
          /\ todo'[c] = todo[c] \ {e} /\ e \in todo[c]
      BY <1>1 DEF CopyOne, Basic, Types, HostTypes
    <3>2. CASE tree[c] = None
      BY <3>1, <3>2 DEF OneEach
    <3>3. CASE tree[c] # None
      <4>1. \A f \in tree[c] : f[1] \notin todo[c] /\ \A g \in tree[c] : g[1] = f[1] => g = f
        BY <3>3 DEF OneEach, RoomInv
      <4>2. \A f \in {e} \X left : f[1] = e /\ \A g \in {e} \X left : g = f
        BY <2>3
      <4> QED
        BY <3>1, <3>3, <4>1, <4>2 DEF OneEach
    <3> QED
      BY <3>2, <3>3
  <2>5. \A k \in Clients : Growing(k)' \subseteq Growing(k)
    BY <2>1 DEF Growing
  <2>6. \A d \in Ids : d # c => Units(d)' \subseteq Units(d) /\ OneEach(d)'
    BY <2>2, SmallerUnits DEF Basic, RoomInv
  <2>7. \A k \in Clients : owner[c] = k => c \in Growing(k)
    BY <2>1 DEF Growing
  <2> QED
    BY <2>1, <2>4, <2>5, <2>6, <2>7, RoomFrame DEF Basic
<1>2. CASE CopyEnds(c) \/ TarFails(c)
  <2>1. ASSUME NEW d \in Ids PROVE Smaller(d) /\ Calmer(d)
    <3>1. (work'[d] = work[d] \/ work'[d] = "off") /\ task' = task
      BY <1>2 DEF CopyEnds, TarFails, Basic, Types, HostTypes
    <3> QED
      BY <1>2, <3>1 DEF CopyEnds, TarFails, Smaller, Calmer
  <2> QED
    BY <1>2, <2>1, RoomQuiet DEF CopyEnds, TarFails, histVars
<1>3. ASSUME NEW files \in SUBSET (Entries \X Kinds), TarEnds(c, files) PROVE RoomInv'
  <2>1. ASSUME NEW d \in Ids PROVE Smaller(d) /\ Calmer(d)
    <3>1. (work'[d] = work[d] \/ work'[d] = "off") /\ task' = task
      BY <1>3 DEF TarEnds, Basic, Types, HostTypes
    <3>2. todo'[d] = todo[d] /\ (tree'[d] = None \/ (tree'[d] = tree[d] /\ grown'[d] = grown[d]))
      BY <1>3 DEF TarEnds, TreeGoes, Basic, Types, HostTypes
    <3>3. arc'[d] = None \/ arc[d] # None
      <4>1. d # c => arc'[d] = arc[d]
        BY <1>3 DEF TarEnds, Basic, Types, HostTypes
      <4>2. arc[c] # None
        BY <1>3 DEF TarEnds
      <4> QED
        BY <4>1, <4>2
    <3> QED
      BY <3>1, <3>2, <3>3 DEF Smaller, Calmer
  <2> QED
    BY <1>3, <2>1, RoomQuiet DEF TarEnds, histVars
<1>4. ASSUME NEW ok \in BOOLEAN, Delete(c, ok) PROVE RoomInv'
  <2>1. \A d \in Ids : Smaller(d) /\ work'[d] = work[d]
    BY <1>4, RemovesRoom DEF Delete, Basic
  <2>2. task' = task /\ owner' = owner /\ crowded' = crowded
    BY <1>4 DEF Delete
  <2>3. \A d \in Ids : Smaller(d) /\ Calmer(d)
    BY <2>1, <2>2 DEF Calmer
  <2> QED
    BY <2>2, <2>3, RoomQuiet
<1> QED
  BY <1>1, <1>2, <1>3, <1>4 DEF HostSteps

LEMMA RoomInit == Init /\ Reserve <= Disk => RoomInv
<1> SUFFICES ASSUME Init, Reserve <= Disk PROVE RoomInv
  OBVIOUS
<1>1. \A c \in Ids : OneEach(c)
  BY DEF Init, OneEach
<1> SUFFICES ASSUME NEW k \in Clients PROVE Room(k)
  BY <1>1 DEF RoomInv
<1>2. \A c \in Ids : owner[c] # k
  BY NoneAssumption DEF Init
<1>3. Growing(k) = {} /\ Used(k) = {}
  BY <1>2, UsedIs DEF Growing
<1>4. Cardinality(Used(k)) = 0
  BY <1>3, FS_EmptySet
<1>5. Cardinality(Used(k)) + Reserve <= Disk
  BY <1>4, LogCollectAssumption
<1> QED
  BY <1>2, <1>3, <1>5 DEF Room

LEMMA RoomStep == Basic /\ Types' /\ RoomInv /\ [Next]_vars => RoomInv'
<1> SUFFICES ASSUME Basic, Types', RoomInv, [Next]_vars PROVE RoomInv'
  OBVIOUS
<1>1. CASE UNCHANGED vars
  <2>1. \A c \in Ids : Smaller(c) /\ Calmer(c)
    BY <1>1 DEF vars, hostVars, Smaller, Calmer
  <2> QED
    BY <1>1, <2>1, RoomQuiet DEF vars, histVars
<1> QED
  BY <1>1, RoomClient, RoomHost DEF Next

\* On a disk that has the reserve to begin with, the gate keeps it free through copy and
\* archive, whatever fails, lingers or is deleted (logGate's sum is large enough).
THEOREM ReserveStays == ASSUME Reserve <= Disk PROVE Spec => []ReserveKept
<1>1. Basic => Types
  BY DEF Basic
<1>2. Basic /\ RoomInv => ReserveKept
  <2> SUFFICES ASSUME Basic, RoomInv, NEW k \in Clients, ~crowded[k] PROVE Free(k) >= Reserve
    BY DEF ReserveKept
  <2>1. Cardinality(Used(k)) \in Nat
    BY SizesAre DEF Basic, Sizes
  <2>2. Cardinality(Used(k)) + Reserve <= Disk
    BY DEF RoomInv, Room
  <2> QED
    BY <2>1, <2>2, LogCollectAssumption DEF Free
<1>3. Init => RoomInv
  BY RoomInit
<1> QED
  BY <1>1, <1>2, <1>3, BasicInit, BasicStep, RoomStep, PTL DEF Spec
=============================================================================
