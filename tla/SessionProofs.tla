--------------------------- MODULE SessionProofs ---------------------------
(***************************************************************************)
(* Proofs about Session for any number of calls and runs.  The             *)
(* strengthening says where a session is in its life from the place of its *)
(* Start call: before Publish nobody else knows it, after it only its      *)
(* table entry or one Stop does.                                           *)
(***************************************************************************)
EXTENDS Session, TLAPS

\* Places of a Start call before and after it puts its session in the table.
Early == {"drop", "say", "announce", "dial", "publish"}
Late  == {"launch", "report", "done"}

\* A cancelled session was published and is gone from the table; a session in
\* the table, or in the hands of a Stop, was published; a new one is open.
Life ==
  /\ \A s \in dead : pc[s] \in Late /\ table # s
  /\ table # None => pc[table] \in Late /\ conn[table] = "open"
  /\ \A s \in Starts : pc[s] = "publish" => conn[s] = "open"
  /\ \A s \in Starts : pc[s] \in {"idle", "drop", "say", "announce", "dial"} => conn[s] = "none"
  /\ \A c \in Stops \cup Starts :
       pc[c] \in {"drop", "say"} =>
         hand[c] \in Starts /\ pc[hand[c]] \in Late /\ table # hand[c]

\* With one Start at a time the table is empty from its Stop to its Publish.
Alone ==
  Serial =>
    /\ \A s, t \in Starts : Busy(s) /\ Busy(t) => s = t
    /\ \A s \in Starts : pc[s] \in Early => table = None

\* Only runs that were launched are cancelled.
CutLaunched == \A x \in cut : x[2] <= handle[x[1]]

\* The calls of each kind are where their own steps put them.
Places ==
  /\ \A s \in Starts : pc[s] # "cancel"
  /\ \A c \in Stops : pc[c] \in {"idle", "drop", "say"}
  /\ \A c \in Intervals :
       /\ pc[c] \in {"idle", "cancel", "launch"}
       /\ pc[c] # "idle" => hand[c] \in Starts /\ pc[hand[c]] \in Late

IInv ==
  /\ TypeOK
  /\ Life
  /\ Alone
  /\ CutLaunched
  /\ Places
  /\ Serial => NoLeak
  /\ Watched

-----------------------------------------------------------------------------
(* Each action preserves IInv.                                             *)

LEMMA RemoveIInv == ASSUME IInv, NEW c \in Stops, Remove(c) PROVE IInv'
<1>1. TypeOK'
  BY SessionAssumption DEF IInv, TypeOK, Calls, Streams, Places, Remove, Goto
<1>2. Life'
  BY SessionAssumption DEF IInv, TypeOK, Calls, Streams, Life, Places, Early, Late,
    Remove, Goto
<1>3. Alone'
  BY SessionAssumption DEF IInv, TypeOK, Calls, Alone, Places, Life, Early, Late,
    Busy, Remove, Goto
<1>4. CutLaunched'
  BY <1>1, SessionAssumption DEF IInv, TypeOK, Streams, CutLaunched, Remove, Goto
<1>5. Places'
  BY SessionAssumption DEF IInv, TypeOK, Calls, Places, Life, Early, Late, Remove,
    Goto
<1>6. (Serial => NoLeak)'
  BY SessionAssumption DEF IInv, TypeOK, Calls, Streams, NoLeak, Life, Alone, Places,
    Early, Late, Remove, Goto
<1>7. Watched'
  BY <1>1, SessionAssumption DEF IInv, TypeOK, Calls, Streams, Watched, Life,
    CutLaunched, Places, Late, Remove, Goto
<1> QED
  BY <1>1, <1>2, <1>3, <1>4, <1>5, <1>6, <1>7 DEF IInv

LEMMA CloseIInv == ASSUME IInv, NEW c \in Stops \cup Starts, Close(c) PROVE IInv'
<1>1. TypeOK'
  BY SessionAssumption DEF IInv, TypeOK, Calls, Streams, Life, Close, Goto
<1>2. Life'
  BY SessionAssumption DEF IInv, TypeOK, Calls, Streams, Life, Places, Early, Late,
    Close, Goto
<1>3. Alone'
  BY SessionAssumption DEF IInv, TypeOK, Calls, Alone, Places, Life, Early, Late,
    Busy, Close, Goto
<1>4. CutLaunched'
  BY <1>1, SessionAssumption DEF IInv, TypeOK, Streams, CutLaunched, Close, Goto
<1>5. Places'
  BY SessionAssumption DEF IInv, TypeOK, Calls, Places, Life, Early, Late, Close, Goto
<1>6. (Serial => NoLeak)'
  BY SessionAssumption DEF IInv, TypeOK, Calls, Streams, NoLeak, Life, Alone, Places,
    Early, Late, Close, Goto
<1>7. Watched'
  BY <1>1, SessionAssumption DEF IInv, TypeOK, Calls, Streams, Watched, Life,
    CutLaunched, Places, Late, Close, Goto
<1> QED
  BY <1>1, <1>2, <1>3, <1>4, <1>5, <1>6, <1>7 DEF IInv

LEMMA ReportStopIInv == ASSUME IInv, NEW c \in Stops \cup Starts, ReportStop(c) PROVE IInv'
<1>1. TypeOK'
  BY SessionAssumption DEF IInv, TypeOK, Calls, Streams, Places, ReportStop, Goto
<1>2. Life'
  BY SessionAssumption DEF IInv, TypeOK, Calls, Streams, Life, Places, Early, Late,
    ReportStop, Goto
<1>3. Alone'
  BY SessionAssumption DEF IInv, TypeOK, Calls, Alone, Places, Life, Early, Late,
    Busy, ReportStop, Goto
<1>4. CutLaunched'
  BY <1>1, SessionAssumption DEF IInv, TypeOK, Streams, CutLaunched, ReportStop, Goto
<1>5. Places'
  BY SessionAssumption DEF IInv, TypeOK, Calls, Places, Life, Early, Late, ReportStop,
    Goto
<1>6. (Serial => NoLeak)'
  BY SessionAssumption DEF IInv, TypeOK, Calls, Streams, NoLeak, Life, Alone, Places,
    Early, Late, ReportStop, Goto
<1>7. Watched'
  BY <1>1, SessionAssumption DEF IInv, TypeOK, Calls, Streams, Watched, Life,
    CutLaunched, Places, Late, ReportStop, Goto
<1> QED
  BY <1>1, <1>2, <1>3, <1>4, <1>5, <1>6, <1>7 DEF IInv

LEMMA BeginIInv == ASSUME IInv, NEW s \in Starts, Begin(s) PROVE IInv'
<1>1. TypeOK'
  BY SessionAssumption DEF IInv, TypeOK, Calls, Streams, Places, Begin, Goto, Busy
<1>2. Life'
  BY SessionAssumption DEF IInv, TypeOK, Calls, Streams, Life, Places, Early, Late,
    Begin, Goto, Busy
<1>3. Alone'
  BY SessionAssumption DEF IInv, TypeOK, Calls, Alone, Places, Life, Early, Late,
    Busy, Begin, Goto
<1>4. CutLaunched'
  BY <1>1, SessionAssumption DEF IInv, TypeOK, Streams, CutLaunched, Begin, Goto, Busy
<1>5. Places'
  BY SessionAssumption DEF IInv, TypeOK, Calls, Places, Life, Early, Late, Begin,
    Goto, Busy
<1>6. (Serial => NoLeak)'
  BY SessionAssumption DEF IInv, TypeOK, Calls, Streams, NoLeak, Life, Alone, Places,
    Early, Late, Begin, Goto, Busy
<1>7. Watched'
  BY <1>1, SessionAssumption DEF IInv, TypeOK, Calls, Streams, Watched, Life,
    CutLaunched, Places, Late, Begin, Goto, Busy
<1> QED
  BY <1>1, <1>2, <1>3, <1>4, <1>5, <1>6, <1>7 DEF IInv

LEMMA AnnounceIInv == ASSUME IInv, NEW s \in Starts, Announce(s) PROVE IInv'
<1>1. TypeOK'
  BY SessionAssumption DEF IInv, TypeOK, Calls, Streams, Places, Announce, Goto
<1>2. Life'
  BY SessionAssumption DEF IInv, TypeOK, Calls, Streams, Life, Places, Early, Late,
    Announce, Goto
<1>3. Alone'
  BY SessionAssumption DEF IInv, TypeOK, Calls, Alone, Places, Life, Early, Late,
    Busy, Announce, Goto
<1>4. CutLaunched'
  BY <1>1, SessionAssumption DEF IInv, TypeOK, Streams, CutLaunched, Announce, Goto
<1>5. Places'
  BY SessionAssumption DEF IInv, TypeOK, Calls, Places, Life, Early, Late, Announce,
    Goto
<1>6. (Serial => NoLeak)'
  BY SessionAssumption DEF IInv, TypeOK, Calls, Streams, NoLeak, Life, Alone, Places,
    Early, Late, Announce, Goto
<1>7. Watched'
  BY <1>1, SessionAssumption DEF IInv, TypeOK, Calls, Streams, Watched, Life,
    CutLaunched, Places, Late, Announce, Goto
<1> QED
  BY <1>1, <1>2, <1>3, <1>4, <1>5, <1>6, <1>7 DEF IInv

LEMMA DialIInv == ASSUME IInv, NEW s \in Starts, Dial(s) PROVE IInv'
<1>1. TypeOK'
  BY SessionAssumption DEF IInv, TypeOK, Calls, Streams, Places, Dial, Goto
<1>2. Life'
  BY SessionAssumption DEF IInv, TypeOK, Calls, Streams, Life, Places, Early, Late,
    Dial, Goto
<1>3. Alone'
  BY SessionAssumption DEF IInv, TypeOK, Calls, Alone, Places, Life, Early, Late,
    Busy, Dial, Goto
<1>4. CutLaunched'
  BY <1>1, SessionAssumption DEF IInv, TypeOK, Streams, CutLaunched, Dial, Goto
<1>5. Places'
  BY SessionAssumption DEF IInv, TypeOK, Calls, Places, Life, Early, Late, Dial, Goto
<1>6. (Serial => NoLeak)'
  BY SessionAssumption DEF IInv, TypeOK, Calls, Streams, NoLeak, Life, Alone, Places,
    Early, Late, Dial, Goto
<1>7. Watched'
  BY <1>1, SessionAssumption DEF IInv, TypeOK, Calls, Streams, Watched, Life,
    CutLaunched, Places, Late, Dial, Goto
<1> QED
  BY <1>1, <1>2, <1>3, <1>4, <1>5, <1>6, <1>7 DEF IInv

LEMMA StartFailsIInv == ASSUME IInv, NEW s \in Starts, StartFails(s) PROVE IInv'
<1>1. TypeOK'
  BY SessionAssumption DEF IInv, TypeOK, Calls, Streams, Places, StartFails, Goto
<1>2. Life'
  BY SessionAssumption DEF IInv, TypeOK, Calls, Streams, Life, Places, Early, Late,
    StartFails, Goto
<1>3. Alone'
  BY SessionAssumption DEF IInv, TypeOK, Calls, Alone, Places, Life, Early, Late,
    Busy, StartFails, Goto
<1>4. CutLaunched'
  BY <1>1, SessionAssumption DEF IInv, TypeOK, Streams, CutLaunched, StartFails, Goto
<1>5. Places'
  BY SessionAssumption DEF IInv, TypeOK, Calls, Places, Life, Early, Late, StartFails,
    Goto
<1>6. (Serial => NoLeak)'
  BY SessionAssumption DEF IInv, TypeOK, Calls, Streams, NoLeak, Life, Alone, Places,
    Early, Late, StartFails, Goto
<1>7. Watched'
  BY <1>1, SessionAssumption DEF IInv, TypeOK, Calls, Streams, Watched, Life,
    CutLaunched, Places, Late, StartFails, Goto
<1> QED
  BY <1>1, <1>2, <1>3, <1>4, <1>5, <1>6, <1>7 DEF IInv

LEMMA PublishIInv == ASSUME IInv, NEW s \in Starts, Publish(s) PROVE IInv'
<1>1. TypeOK'
  BY SessionAssumption DEF IInv, TypeOK, Calls, Streams, Places, Publish, Goto
<1>2. Life'
  BY SessionAssumption DEF IInv, TypeOK, Calls, Streams, Life, Places, Early, Late,
    Publish, Goto
<1>3. Alone'
  BY SessionAssumption DEF IInv, TypeOK, Calls, Alone, Places, Life, Early, Late,
    Busy, Publish, Goto
<1>4. CutLaunched'
  BY <1>1, SessionAssumption DEF IInv, TypeOK, Streams, CutLaunched, Publish, Goto
<1>5. Places'
  BY SessionAssumption DEF IInv, TypeOK, Calls, Places, Life, Early, Late, Publish,
    Goto
<1>6. (Serial => NoLeak)'
  BY SessionAssumption DEF IInv, TypeOK, Calls, Streams, NoLeak, Life, Alone, Places,
    Early, Late, Publish, Goto
<1>7. Watched'
  BY <1>1, SessionAssumption DEF IInv, TypeOK, Calls, Streams, Watched, Life,
    CutLaunched, Places, Late, Publish, Goto
<1> QED
  BY <1>1, <1>2, <1>3, <1>4, <1>5, <1>6, <1>7 DEF IInv

LEMMA LaunchIInv == ASSUME IInv, NEW s \in Starts, Launch(s) PROVE IInv'
<1>1. TypeOK'
  BY SessionAssumption DEF IInv, TypeOK, Calls, Streams, Places, Launch, Goto, NewRun
<1>2. Life'
  BY SessionAssumption DEF IInv, TypeOK, Calls, Streams, Life, Places, Early, Late,
    Launch, Goto, NewRun
<1>3. Alone'
  BY SessionAssumption DEF IInv, TypeOK, Calls, Alone, Places, Life, Early, Late,
    Busy, Launch, Goto, NewRun
<1>4. CutLaunched'
  BY <1>1, SessionAssumption DEF IInv, TypeOK, Streams, CutLaunched, Launch, Goto,
    NewRun
<1>5. Places'
  BY SessionAssumption DEF IInv, TypeOK, Calls, Places, Life, Early, Late, Launch,
    Goto, NewRun
<1>6. (Serial => NoLeak)'
  BY SessionAssumption DEF IInv, TypeOK, Calls, Streams, NoLeak, Life, Alone, Places,
    Early, Late, Launch, Goto, NewRun
<1>7. Watched'
  BY <1>1, SessionAssumption DEF IInv, TypeOK, Calls, Streams, Watched, Life,
    CutLaunched, Places, Late, Launch, Goto, NewRun
<1> QED
  BY <1>1, <1>2, <1>3, <1>4, <1>5, <1>6, <1>7 DEF IInv

LEMMA ReportStreamingIInv == ASSUME IInv, NEW s \in Starts, ReportStreaming(s) PROVE IInv'
<1>1. TypeOK'
  BY SessionAssumption DEF IInv, TypeOK, Calls, Streams, Places, ReportStreaming, Goto
<1>2. Life'
  BY SessionAssumption DEF IInv, TypeOK, Calls, Streams, Life, Places, Early, Late,
    ReportStreaming, Goto
<1>3. Alone'
  BY SessionAssumption DEF IInv, TypeOK, Calls, Alone, Places, Life, Early, Late,
    Busy, ReportStreaming, Goto
<1>4. CutLaunched'
  BY <1>1, SessionAssumption DEF IInv, TypeOK, Streams, CutLaunched, ReportStreaming,
    Goto
<1>5. Places'
  BY SessionAssumption DEF IInv, TypeOK, Calls, Places, Life, Early, Late,
    ReportStreaming, Goto
<1>6. (Serial => NoLeak)'
  BY SessionAssumption DEF IInv, TypeOK, Calls, Streams, NoLeak, Life, Alone, Places,
    Early, Late, ReportStreaming, Goto
<1>7. Watched'
  BY <1>1, SessionAssumption DEF IInv, TypeOK, Calls, Streams, Watched, Life,
    CutLaunched, Places, Late, ReportStreaming, Goto
<1> QED
  BY <1>1, <1>2, <1>3, <1>4, <1>5, <1>6, <1>7 DEF IInv

LEMMA FindIInv == ASSUME IInv, NEW c \in Intervals, Find(c) PROVE IInv'
<1>1. TypeOK'
  BY SessionAssumption DEF IInv, TypeOK, Calls, Streams, Places, Find, Goto
<1>2. Life'
  BY SessionAssumption DEF IInv, TypeOK, Calls, Streams, Life, Places, Early, Late,
    Find, Goto
<1>3. Alone'
  BY SessionAssumption DEF IInv, TypeOK, Calls, Alone, Places, Life, Early, Late,
    Busy, Find, Goto
<1>4. CutLaunched'
  BY <1>1, SessionAssumption DEF IInv, TypeOK, Streams, CutLaunched, Find, Goto
<1>5. Places'
  BY SessionAssumption DEF IInv, TypeOK, Calls, Places, Life, Early, Late, Find, Goto
<1>6. (Serial => NoLeak)'
  BY SessionAssumption DEF IInv, TypeOK, Calls, Streams, NoLeak, Life, Alone, Places,
    Early, Late, Find, Goto
<1>7. Watched'
  BY <1>1, SessionAssumption DEF IInv, TypeOK, Calls, Streams, Watched, Life,
    CutLaunched, Places, Late, Find, Goto
<1> QED
  BY <1>1, <1>2, <1>3, <1>4, <1>5, <1>6, <1>7 DEF IInv

LEMMA CancelRunIInv == ASSUME IInv, NEW c \in Intervals, CancelRun(c) PROVE IInv'
<1>1. TypeOK'
  BY SessionAssumption DEF IInv, TypeOK, Calls, Streams, Places, CancelRun, Goto
<1>2. Life'
  BY SessionAssumption DEF IInv, TypeOK, Calls, Streams, Life, Places, Early, Late,
    CancelRun, Goto
<1>3. Alone'
  BY SessionAssumption DEF IInv, TypeOK, Calls, Alone, Places, Life, Early, Late,
    Busy, CancelRun, Goto
<1>4. CutLaunched'
  BY <1>1, SessionAssumption DEF IInv, TypeOK, Streams, CutLaunched, CancelRun, Goto
<1>5. Places'
  BY SessionAssumption DEF IInv, TypeOK, Calls, Places, Life, Early, Late, CancelRun,
    Goto
<1>6. (Serial => NoLeak)'
  BY SessionAssumption DEF IInv, TypeOK, Calls, Streams, NoLeak, Life, Alone, Places,
    Early, Late, CancelRun, Goto
<1>7. Watched'
  BY <1>1, SessionAssumption DEF IInv, TypeOK, Calls, Streams, Watched, Life,
    CutLaunched, Places, Late, CancelRun, Goto
<1> QED
  BY <1>1, <1>2, <1>3, <1>4, <1>5, <1>6, <1>7 DEF IInv

LEMMA RelaunchIInv == ASSUME IInv, NEW c \in Intervals, Relaunch(c) PROVE IInv'
<1>1. TypeOK'
  BY SessionAssumption DEF IInv, TypeOK, Calls, Streams, Places, Relaunch, Goto,
    NewRun
<1>2. Life'
  BY SessionAssumption DEF IInv, TypeOK, Calls, Streams, Life, Places, Early, Late,
    Relaunch, Goto, NewRun
<1>3. Alone'
  BY SessionAssumption DEF IInv, TypeOK, Calls, Alone, Places, Life, Early, Late,
    Busy, Relaunch, Goto, NewRun
<1>4. CutLaunched'
  BY <1>1, SessionAssumption DEF IInv, TypeOK, Streams, CutLaunched, Relaunch, Goto,
    NewRun
<1>5. Places'
  BY SessionAssumption DEF IInv, TypeOK, Calls, Places, Life, Early, Late, Relaunch,
    Goto, NewRun
<1>6. (Serial => NoLeak)'
  BY SessionAssumption DEF IInv, TypeOK, Calls, Streams, NoLeak, Life, Alone, Places,
    Early, Late, Relaunch, Goto, NewRun
<1>7. Watched'
  BY <1>1, SessionAssumption DEF IInv, TypeOK, Calls, Streams, Watched, Life,
    CutLaunched, Places, Late, Relaunch, Goto, NewRun
<1> QED
  BY <1>1, <1>2, <1>3, <1>4, <1>5, <1>6, <1>7 DEF IInv

LEMMA EndsIInv == ASSUME IInv, NEW x \in Streams, Ends(x) PROVE IInv'
<1>1. TypeOK'
  BY SessionAssumption DEF IInv, TypeOK, Calls, Streams, Places, Ends, Cancelled
<1>2. Life'
  BY SessionAssumption DEF IInv, TypeOK, Calls, Streams, Life, Places, Early, Late,
    Ends, Cancelled
<1>3. Alone'
  BY SessionAssumption DEF IInv, TypeOK, Calls, Alone, Places, Life, Early, Late,
    Busy, Ends, Cancelled
<1>4. CutLaunched'
  BY <1>1, SessionAssumption DEF IInv, TypeOK, Streams, CutLaunched, Ends, Cancelled
<1>5. Places'
  BY SessionAssumption DEF IInv, TypeOK, Calls, Places, Life, Early, Late, Ends,
    Cancelled
<1>6. (Serial => NoLeak)'
  BY SessionAssumption DEF IInv, TypeOK, Calls, Streams, NoLeak, Life, Alone, Places,
    Early, Late, Ends, Cancelled
<1>7. Watched'
  BY <1>1, SessionAssumption DEF IInv, TypeOK, Calls, Streams, Watched, Life,
    CutLaunched, Places, Late, Ends, Cancelled
<1> QED
  BY <1>1, <1>2, <1>3, <1>4, <1>5, <1>6, <1>7 DEF IInv

LEMMA TeardownIInv == ASSUME IInv, NEW x \in Streams, Teardown(x) PROVE IInv'
<1>1. TypeOK'
  BY SessionAssumption DEF IInv, TypeOK, Calls, Streams, Places, Teardown
<1>2. Life'
  BY SessionAssumption DEF IInv, TypeOK, Calls, Streams, Life, Places, Early, Late,
    Teardown
<1>3. Alone'
  BY SessionAssumption DEF IInv, TypeOK, Calls, Alone, Places, Life, Early, Late,
    Busy, Teardown
<1>4. CutLaunched'
  BY <1>1, SessionAssumption DEF IInv, TypeOK, Streams, CutLaunched, Teardown
<1>5. Places'
  BY SessionAssumption DEF IInv, TypeOK, Calls, Places, Life, Early, Late, Teardown
<1>6. (Serial => NoLeak)'
  BY SessionAssumption DEF IInv, TypeOK, Calls, Streams, NoLeak, Life, Alone, Places,
    Early, Late, Teardown
<1>7. Watched'
  BY <1>1, SessionAssumption DEF IInv, TypeOK, Calls, Streams, Watched, Life,
    CutLaunched, Places, Late, Teardown
<1> QED
  BY <1>1, <1>2, <1>3, <1>4, <1>5, <1>6, <1>7 DEF IInv

LEMMA ReportEndIInv == ASSUME IInv, NEW x \in Streams, ReportEnd(x) PROVE IInv'
<1>1. TypeOK'
  BY SessionAssumption DEF IInv, TypeOK, Calls, Streams, Places, ReportEnd
<1>2. Life'
  BY SessionAssumption DEF IInv, TypeOK, Calls, Streams, Life, Places, Early, Late,
    ReportEnd
<1>3. Alone'
  BY SessionAssumption DEF IInv, TypeOK, Calls, Alone, Places, Life, Early, Late,
    Busy, ReportEnd
<1>4. CutLaunched'
  BY <1>1, SessionAssumption DEF IInv, TypeOK, Streams, CutLaunched, ReportEnd
<1>5. Places'
  BY SessionAssumption DEF IInv, TypeOK, Calls, Places, Life, Early, Late, ReportEnd
<1>6. (Serial => NoLeak)'
  BY SessionAssumption DEF IInv, TypeOK, Calls, Streams, NoLeak, Life, Alone, Places,
    Early, Late, ReportEnd
<1>7. Watched'
  BY <1>1, SessionAssumption DEF IInv, TypeOK, Calls, Streams, Watched, Life,
    CutLaunched, Places, Late, ReportEnd
<1> QED
  BY <1>1, <1>2, <1>3, <1>4, <1>5, <1>6, <1>7 DEF IInv

LEMMA LoseIInv == ASSUME IInv, NEW s \in Starts, Lose(s) PROVE IInv'
<1>1. TypeOK'
  BY SessionAssumption DEF IInv, TypeOK, Calls, Streams, Places, Lose
<1>2. Life'
  BY SessionAssumption DEF IInv, TypeOK, Calls, Streams, Life, Places, Early, Late,
    Lose
<1>3. Alone'
  BY SessionAssumption DEF IInv, TypeOK, Calls, Alone, Places, Life, Early, Late,
    Busy, Lose
<1>4. CutLaunched'
  BY <1>1, SessionAssumption DEF IInv, TypeOK, Streams, CutLaunched, Lose
<1>5. Places'
  BY SessionAssumption DEF IInv, TypeOK, Calls, Places, Life, Early, Late, Lose
<1>6. (Serial => NoLeak)'
  BY SessionAssumption DEF IInv, TypeOK, Calls, Streams, NoLeak, Life, Alone, Places,
    Early, Late, Lose
<1>7. Watched'
  BY <1>1, SessionAssumption DEF IInv, TypeOK, Calls, Streams, Watched, Life,
    CutLaunched, Places, Late, Lose
<1> QED
  BY <1>1, <1>2, <1>3, <1>4, <1>5, <1>6, <1>7 DEF IInv

-----------------------------------------------------------------------------
LEMMA InitIInv == Init => IInv
<1> SUFFICES ASSUME Init PROVE IInv
  OBVIOUS
<1>1. TypeOK
  BY SessionAssumption DEF Init, TypeOK
<1>2. Life /\ Alone /\ CutLaunched /\ Places
  BY SessionAssumption DEF Init, Life, Alone, CutLaunched, Places, Busy, Calls, Early
<1>3. NoLeak /\ Watched
  BY DEF Init, NoLeak, Watched
<1> QED
  BY <1>1, <1>2, <1>3 DEF IInv

LEMMA NextIInv == IInv /\ [Next]_vars => IInv'
<1> SUFFICES ASSUME IInv, [Next]_vars PROVE IInv'
  OBVIOUS
<1>1. CASE Next
  BY <1>1, RemoveIInv, CloseIInv, ReportStopIInv, BeginIInv, AnnounceIInv, DialIInv,
    StartFailsIInv, PublishIInv, LaunchIInv, ReportStreamingIInv, FindIInv, CancelRunIInv,
    RelaunchIInv, EndsIInv, TeardownIInv, ReportEndIInv, LoseIInv
    DEF Next, StopStep, StartStep, IntervalStep, RunStep
<1>2. CASE UNCHANGED vars
  BY <1>2 DEF IInv, TypeOK, Life, Alone, CutLaunched, Places, NoLeak, Watched, Busy, vars
<1> QED
  BY <1>1, <1>2

LEMMA Inductive == Spec => []IInv
BY InitIInv, NextIInv, PTL DEF Spec

\* The variables always hold values of their types.
THEOREM Typing == Spec => []TypeOK
<1>1. IInv => TypeOK
  BY DEF IInv
<1> QED
  BY <1>1, Inductive, PTL

\* Whatever calls overlap, a session found in the table was closed or cancelled
\* by nobody.
THEOREM TableNeverClosed == Spec => []TableIsOpen
<1>1. IInv => TableIsOpen
  BY DEF IInv, Life, TableIsOpen
<1> QED
  BY <1>1, Inductive, PTL

\* When Start calls do not overlap, no open connection is ever out of reach.
THEOREM NothingLeaks == ASSUME Serial PROVE Spec => []NoLeak
<1>1. IInv => NoLeak
  BY DEF IInv
<1> QED
  BY <1>1, Inductive, PTL

\* A connected session never stays without a run that will tear it down.
THEOREM AlwaysWatched == Spec => []Watched
<1>1. IInv => Watched
  BY DEF IInv
<1> QED
  BY <1>1, Inductive, PTL
=============================================================================
