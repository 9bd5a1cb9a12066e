----------------------- MODULE DetectionPipelineProofs -----------------------
(* What TLAPS proves about the detection pipeline for every set of frames,   *)
(* every list of rules, every capacity of the alert queue and every bound:   *)
(* no stale result is shown (ApiInv), a row never outlives its snapshot      *)
(* (StoreInv), and every recorded alert is earned (EarnedInv).               *)
EXTENDS DetectionPipeline, TLAPS

(* Types. *)
Flags == [enabled : BOOLEAN, supported : BOOLEAN, generation : Nat,
          latest : [available : BOOLEAN, permit : Nat],
          available : BOOLEAN, expected : BOOLEAN]

Threads == [pc : {"off", "pop", "detect", "ended"}, frame : Frames \cup {<< >>},
            seq : Nat, permit : Nat]

Counts == used \in [frames : Nat, boots : Nat]

(* ApiState's record.  NoStaleDetections is not inductive: a commit shows    *)
(* the rates, so RuntimeStatus must expect them whenever the detector is     *)
(* enabled, which holds from configure to the end of the process.            *)
ApiInv ==
    /\ api \in Flags /\ worker \in Threads
    /\ owner \in {"off", "boot", "up", "join", "wait"}
    /\ worker.pc # "off" => owner # "off"
    /\ owner # "off" => api.expected = api.enabled
    /\ NoStaleDetections

(* What a file's name and its contents can be. *)
Names    == {"none", "tmp", "final", "deleting"}
Contents == {"none", "cached", "synced", "torn"}

Labels == {"off", "reconcile", "syncr", "idle", "rules", "write", "sync", "rename", "syncdir",
           "insert", "excess", "quarantine", "syncq", "delete", "syncback", "purge", "syncp",
           "ended"}

Persisting == {"write", "sync", "rename", "syncdir", "insert"}
Processing == Persisting \cup {"rules"}

StoreType ==
    /\ file \in [Alerts -> Names] /\ disk \in [Alerts -> SUBSET Names]
    /\ data \in [Alerts -> Contents] /\ rows \subseteq Alerts
    /\ spent \in [ids : Nat, events : Nat]
    /\ DOMAIN mgr = DOMAIN Off /\ mgr.pc \in Labels /\ mgr.next \in DOMAIN Rules
    /\ mgr.clean \in BOOLEAN

(* Where persist is: an alert in hand has no row before its snapshot is      *)
(* complete, synced, and durable under its final name alone.                 *)
PersistInv ==
    /\ \A i \in rows : i <= spent.ids
    /\ mgr.pc \in Persisting => Id \in Alerts \ rows /\ Id <= spent.ids
    /\ mgr.pc \in {"rename", "syncdir", "insert"} => data[Id] = "synced"
    /\ mgr.pc \in {"syncdir", "insert"} => file[Id] = "final"
    /\ mgr.pc = "insert" => disk[Id] = {"final"}

(* The rows: neither the file system nor a loss of power can lead to a name  *)
(* other than the final one or the tombstone; a tombstone of a row is either *)
(* still to be reconciled or the one that the cleanup has in hand.           *)
RowsInv ==
    /\ \A i \in Alerts : file[i] \in disk[i]
    /\ \A i \in rows : data[i] = "synced" /\ disk[i] \subseteq {"final", "deleting"}
    /\ mgr.pc \in {"purge", "syncp"} => Id \notin rows
    /\ mgr.pc \in {"off", "reconcile", "syncr"} => ~mgr.clean
    /\ mgr.pc \in {"reconcile", "syncr"} =>
          \A i \in rows : file[i] = "deleting" => i \in mgr.todo
    /\ mgr.clean => \A i \in rows :
          file[i] = "final" \/ (i = Id /\ mgr.pc \in {"syncq", "delete", "syncback"})

StoreInv == StoreType /\ PersistInv /\ RowsInv

(* The works on their way and the ones a rule has seen. *)
Works   == [seq : Nat, gen : Nat, found : {Detections[f] : f \in Frames}]
Entries == [rule : DOMAIN Rules, seq : Nat, gen : Nat, match : BOOLEAN]

Queues == [items : Seq(Works), shutdown : BOOLEAN, pushed : Nat, popped : Nat,
           dropped : Nat, discarded : Nat, high_water_mark : Nat]

EarnedType ==
    /\ queue \in Queues
    /\ mgr.work.seq \in Nat /\ mgr.work.gen \in Nat /\ mgr.gen \in Nat
    /\ rule \in [DOMAIN Rules -> [consecutive : Nat, cooling : BOOLEAN]]
    /\ trail \in [DOMAIN Rules -> Seq(Entries)] /\ raised \in [Alerts -> Seq(Entries)]
    /\ worker.pc = "detect" => worker.frame \in Frames

(* Every work yet to be queued or taken has a number above n. *)
Above(n) ==
    /\ n <= used.frames
    /\ \A i \in 1 .. Len(queue.items) : n < queue.items[i].seq
    /\ worker.pc = "detect" => n < worker.seq

(* Rule r will not be asked about work n again. *)
Over(r, n) ==
    /\ Above(n)
    /\ mgr.pc \in Processing =>
          /\ n <= mgr.work.seq
          /\ r > mgr.next \/ (r = mgr.next /\ mgr.pc = "rules") => n < mgr.work.seq

(* Works arrive in the order of their numbers. *)
OrderInv ==
    /\ \A i \in 1 .. Len(queue.items) :
          /\ queue.items[i].seq <= used.frames
          /\ worker.pc = "detect" => queue.items[i].seq < worker.seq
          /\ \A j \in 1 .. Len(queue.items) : i < j => queue.items[i].seq < queue.items[j].seq
    /\ worker.pc = "detect" => worker.seq <= used.frames
    /\ mgr.pc \in Processing => Above(mgr.work.seq) /\ mgr.work.gen = mgr.gen

(* AlertsEarned is not inductive: it needs the trails, whose entries must be *)
(* of one generation and matching as far back as the rule counts, and which  *)
(* never see a work twice because works keep their order.                    *)

(* A rule's count is the length of the streak at the end of its trail. *)
Streak(r) ==
    LET t == trail[r]
        c == rule[r].consecutive
    IN  /\ c <= Len(t) /\ Len(t) <= Rules[r].consecutive_frames
        /\ mgr.pc # "off" => \A k \in 1 .. Len(t) :
              k > Len(t) - c => t[k].match /\ t[k].gen = mgr.gen
        /\ mgr.pc \in Persisting /\ r = mgr.next => c = Rules[r].consecutive_frames

TrailInv ==
    \A r \in DOMAIN Rules :
        /\ Streak(r)
        /\ \A k \in 1 .. Len(trail[r]) : trail[r][k].rule = r /\ Over(r, trail[r][k].seq)

(* The works of an alert are over and in no rule's trail. *)
RaisedInv ==
    \A i \in rows : \A k \in 1 .. Len(raised[i]) :
        /\ Over(raised[i][k].rule, raised[i][k].seq)
        /\ \A r \in DOMAIN Rules : \A l \in 1 .. Len(trail[r]) : raised[i][k] # trail[r][l]

(* AlertsEarned, work by work. *)
EarnedRows ==
    \A i \in rows :
        /\ Len(raised[i]) = Rules[raised[i][1].rule].consecutive_frames
        /\ \A k \in 1 .. Len(raised[i]) :
              /\ raised[i][k].match /\ raised[i][k].gen = raised[i][1].gen
              /\ \A j \in rows \ {i} : \A l \in 1 .. Len(raised[j]) : raised[i][k] # raised[j][l]

EarnedInv == EarnedType /\ OrderInv /\ TrailInv /\ RaisedInv /\ EarnedRows
-----------------------------------------------------------------------------
(* The methods of ApiState keep the type of its record, and every one leaves *)
(* it as NoStaleDetections wants it: configure and set_detector_enabled drop *)
(* the result with the generation, commit_detections checks the permit.      *)
LEMMA ApiOps ==
    ASSUME NEW s \in Flags, NEW permit \in Nat, NEW on \in BOOLEAN
    PROVE  /\ NewApi \in Flags /\ clear_detector(s) \in Flags /\ configure(s) \in Flags
           /\ set_detector_enabled(s, on) \in Flags /\ commit_detections(s, permit) \in Flags
           /\ invalidate_detections(s, permit) \in Flags
  <1>1. /\ NoResult \in [available : BOOLEAN, permit : Nat]
        /\ [available |-> TRUE, permit |-> permit] \in [available : BOOLEAN, permit : Nat]
    BY Zenon DEF NoResult
  <1>2. NewApi \in Flags
    BY <1>1, Zenon DEF NewApi, Flags
  <1>3. \A t \in Flags : clear_detector(t) \in Flags
    BY Zenon DEF clear_detector, Flags
  <1>4. \A t \in Flags : synchronize_runtime_status(t) \in Flags
    <2> SUFFICES ASSUME NEW t \in Flags PROVE synchronize_runtime_status(t) \in Flags
      BY Zenon
    <2>1. clear_detector(t) \in Flags /\ t.enabled \in BOOLEAN
      BY <1>3, Zenon DEF Flags
    <2> QED
      BY <2>1, Zenon DEF synchronize_runtime_status, Flags
  <1>5. /\ s.enabled \in BOOLEAN /\ s.supported \in BOOLEAN /\ (on /\ s.supported) \in BOOLEAN
        /\ s.generation + 1 \in Nat
    BY DEF Flags
  <1>6. configure(s) \in Flags
    <2>1. [s EXCEPT !.enabled = s.supported, !.generation = @ + 1, !.latest = NoResult] \in Flags
      BY <1>1, <1>5, Zenon DEF Flags
    <2> QED
      BY <1>4, <2>1, Zenon DEF configure
  <1>7. set_detector_enabled(s, on) \in Flags
    <2>1. [s EXCEPT !.enabled = on /\ s.supported, !.generation = @ + 1,
                    !.latest = NoResult] \in Flags
      BY <1>1, <1>5, Zenon DEF Flags
    <2> QED
      BY <1>4, <2>1, Zenon DEF set_detector_enabled
  <1>8. commit_detections(s, permit) \in Flags
    BY <1>1, Zenon DEF commit_detections, Flags
  <1>9. invalidate_detections(s, permit) \in Flags
    <2>1. [s EXCEPT !.latest = NoResult] \in Flags
      BY <1>1, Zenon DEF Flags
    <2> QED
      BY <1>3, <2>1, Zenon DEF invalidate_detections
  <1> QED
    BY <1>2, <1>3, <1>6, <1>7, <1>8, <1>9, Zenon

(* What each method does to the flags that NoStaleDetections reads. *)
LEMMA ApiFacts ==
    ASSUME NEW s \in Flags, NEW permit \in Nat, NEW on \in BOOLEAN
    PROVE  /\ ~configure(s).latest.available /\ ~configure(s).available
           /\ configure(s).expected = configure(s).enabled
           /\ ~set_detector_enabled(s, on).latest.available
           /\ ~set_detector_enabled(s, on).available
           /\ set_detector_enabled(s, on).expected = set_detector_enabled(s, on).enabled
           /\ clear_detector(s) = [s EXCEPT !.available = FALSE]
           /\ \/ commit_detections(s, permit) = s
              \/ /\ s.enabled /\ permit = s.generation
                 /\ commit_detections(s, permit) =
                       [s EXCEPT !.latest = [available |-> TRUE, permit |-> permit],
                                 !.available = TRUE]
           /\ \/ invalidate_detections(s, permit) = s
              \/ invalidate_detections(s, permit) =
                       [s EXCEPT !.latest = NoResult, !.available = FALSE]
  BY Zenon DEF configure, set_detector_enabled, synchronize_runtime_status, clear_detector,
         commit_detections, invalidate_detections, Current, NoResult, Flags

(* A step that leaves the detector's record and the two threads alone. *)
LEMMA ApiQuiet ==
    ASSUME ApiInv, UNCHANGED << owner, api, worker >>
    PROVE  ApiInv'
  BY Zenon DEF ApiInv, NoStaleDetections

(* The inference thread's record keeps its type. *)
LEMMA ThreadOps ==
    ASSUME NEW w \in Threads, NEW f \in Frames, NEW n \in Nat, NEW permit \in Nat
    PROVE  /\ Idle \in Threads /\ Idle.pc = "off"
           /\ [Idle EXCEPT !.pc = "pop"] \in Threads /\ [Idle EXCEPT !.pc = "ended"] \in Threads
           /\ [w EXCEPT !.pc = "detect", !.frame = f, !.seq = n, !.permit = permit] \in Threads
  BY Zenon DEF Threads, Idle

(* Every step keeps ApiInv: a commit that passes Current finds the detector  *)
(* enabled and its permit the latest, a switch leaves no result behind.      *)
LEMMA ApiStep ==
    ASSUME ApiInv, Counts, [Next]_vars
    PROVE  ApiInv'
  <1>0. api.generation \in Nat /\ worker.permit \in Nat /\ used.frames + 1 \in Nat
    BY DEF ApiInv, Flags, Threads, Counts
  <1>a. /\ NewApi \in Flags /\ clear_detector(api) \in Flags
        /\ commit_detections(api, worker.permit) \in Flags
        /\ invalidate_detections(api, worker.permit) \in Flags
        /\ \A on \in BOOLEAN : set_detector_enabled(api, on) \in Flags
    BY <1>0, ApiOps, Zenon DEF ApiInv
  <1>1. ASSUME NEW f \in Frames, PopFrame(f) PROVE ApiInv'
    <2>1. owner' = owner /\ owner # "off"
      BY <1>1, Zenon DEF PopFrame, ApiInv
    <2>0. used'.frames \in Nat
      BY <1>1 DEF PopFrame, Counts
    <2>2. CASE api.enabled
      <3>1. worker' \in Threads /\ api' = api
        <4>1. /\ worker' = [worker EXCEPT !.pc = "detect", !.frame = f, !.seq = used'.frames,
                                            !.permit = api.generation]
              /\ api' = api
          BY <1>1, <2>2, Zenon DEF PopFrame
        <4> HIDE <1>1
        <4> QED
          BY <1>0, <2>0, <4>1, ThreadOps, Zenon DEF ApiInv
      <3> QED
        BY <2>1, <3>1, Zenon DEF ApiInv, NoStaleDetections
    <2>3. CASE ~api.enabled
      <3>1. worker' = worker /\ api' = clear_detector(api)
        BY <1>1, <2>3, Zenon DEF PopFrame
      <3>2. api' \in Flags
        BY <1>a, <3>1, Zenon
      <3>3. api'.expected = api'.enabled
        BY <2>1, <3>1 DEF ApiInv, clear_detector
      <3>4. NoStaleDetections'
        BY <3>1 DEF ApiInv, NoStaleDetections, clear_detector
      <3> QED
        BY <2>1, <3>1, <3>2, <3>3, <3>4, Zenon DEF ApiInv
    <2> QED
      BY <2>2, <2>3, Zenon
  <1>2. CASE Detect
    <2>1. /\ owner' = owner /\ owner # "off" /\ worker' \in Threads
          /\ api' = commit_detections(api, worker.permit)
      BY <1>2, Zenon DEF Detect, Back, process, ApiInv, Idle, Threads
    <2>2. api' \in Flags
      BY <1>a, <2>1, Zenon
    <2>3. api'.expected = api'.enabled
      BY <2>1 DEF ApiInv, commit_detections
    <2>4. NoStaleDetections'
      BY <2>1 DEF ApiInv, NoStaleDetections, commit_detections, Current
    <2> QED
      BY <2>1, <2>2, <2>3, <2>4, Zenon DEF ApiInv
  <1>3. CASE DetectFails
    <2>1. /\ owner' = owner /\ owner # "off" /\ worker' \in Threads
          /\ api' = invalidate_detections(api, worker.permit)
      BY <1>3, Zenon DEF DetectFails, Back, process, ApiInv, Idle, Threads
    <2>2. api' \in Flags
      BY <1>a, <2>1, Zenon
    <2>3. api'.expected = api'.enabled
      BY <2>1 DEF ApiInv, invalidate_detections, clear_detector
    <2>4. NoStaleDetections'
      BY <2>1 DEF ApiInv, NoStaleDetections, invalidate_detections, clear_detector, NoResult
    <2> QED
      BY <2>1, <2>2, <2>3, <2>4, Zenon DEF ApiInv
  <1>4. CASE WorkerEnds
    BY <1>4, Zenon DEF WorkerEnds, process, ApiInv, Idle, Threads, NoStaleDetections
  <1>5. ASSUME NEW on \in BOOLEAN, Switch(on) PROVE ApiInv'
    <2>1. UNCHANGED << owner, worker >> /\ api' = set_detector_enabled(api, on)
      BY <1>5, Zenon DEF Switch, process
    <2>2. /\ api' \in Flags /\ ~api'.latest.available /\ ~api'.available
          /\ api'.expected = api'.enabled
      BY <1>a, <1>0, <2>1, ApiFacts, Zenon DEF ApiInv
    <2> QED
      BY <2>1, <2>2, Zenon DEF ApiInv, NoStaleDetections
  <1>6. CASE Boot
    <2>1. worker' = worker /\ owner = "off" /\ worker.pc = "off"
      BY <1>6, Zenon DEF Boot, ApiInv
    <2>2. CASE owner' = "boot" /\ api' = configure(NewApi)
      <3>2. /\ api' \in Flags /\ ~api'.latest.available /\ ~api'.available
            /\ api'.expected = api'.enabled
        BY <1>a, <2>2, ApiOps, ApiFacts, Zenon
      <3> QED
        BY <2>1, <2>2, <3>2, Zenon DEF ApiInv, NoStaleDetections
    <2>3. CASE UNCHANGED << owner, api >>
      BY <2>1, <2>3, ApiQuiet, Zenon
    <2> QED
      BY <1>6, <2>2, <2>3, Zenon DEF Boot
  <1>7. CASE Start
    BY <1>7, Zenon DEF Start, Idle, Threads, ApiInv, NoStaleDetections
  <1>8. CASE Stop \/ StopModules
    BY <1>8, Zenon DEF Stop, StopModules, ApiInv, NoStaleDetections
  <1>9. CASE Wait
    BY <1>9, <1>a DEF Wait, Threads, Idle, ApiInv, NoStaleDetections, clear_detector
  <1>10. CASE Crash
    BY <1>10, <1>a, Zenon DEF Crash, Threads, Idle, NoStaleDetections, NewApi, NoResult, ApiInv
  <1>11. CASE \/ TakeWork \/ AlertWorkerEnds \/ Poll \/ Stale \/ UNCHANGED vars
              \/ Store /\ UNCHANGED << wd, process, api, worker, queue >>
    BY <1>11, ApiQuiet, Zenon DEF TakeWork, AlertWorkerEnds, Poll, Stale, vars, process
  <1> QED
    BY <1>1, <1>2, <1>3, <1>4, <1>5, <1>6, <1>7, <1>8, <1>9, <1>10, <1>11, Zenon DEF Next

(* The bounds' own counters. *)
LEMMA CountsCorrect == Spec => []Counts
  <1>1. Init => Counts
    BY DEF Init, Counts
  <1>2. Counts /\ [Next]_vars => Counts'
    <2> SUFFICES ASSUME Counts, [Next]_vars PROVE Counts'
      BY Zenon
    <2>1. CASE used' = used
      BY <2>1, Zenon DEF Counts
    <2>2. CASE used' = [used EXCEPT !.frames = @ + 1]
      BY <2>2 DEF Counts
    <2>3. CASE used' = [used EXCEPT !.boots = @ + 1]
      BY <2>3 DEF Counts
    <2> QED
      BY <2>1, <2>2, <2>3, Zenon
        DEF Next, vars, PopFrame, Detect, DetectFails, WorkerEnds, TakeWork,
         AlertWorkerEnds, Switch, Poll, Stale, Boot, Start, Stop, StopModules, Wait, Crash, process
  <1> QED
    BY <1>1, <1>2, PTL DEF Spec

(* ApiInv holds throughout. *)
LEMMA ApiCorrect == Spec => []ApiInv
  <1>1. Init => ApiInv
    <2> SUFFICES ASSUME Init PROVE ApiInv
      BY Zenon
    <2>1. owner = "off" /\ worker = Idle /\ api = NewApi
      BY Zenon DEF Init
    <2>2. worker \in Threads /\ worker.pc = "off"
      BY <2>1, Zenon DEF Threads, Idle
    <2>3. api \in Flags /\ NoStaleDetections
      BY <2>1, Zenon DEF NoStaleDetections, NewApi, NoResult, Flags
    <2> QED
      BY <2>1, <2>2, <2>3, Zenon DEF ApiInv
  <1>2. ApiInv /\ Counts /\ [Next]_vars => ApiInv'
    BY ApiStep, Zenon
  <1> QED
    BY <1>1, <1>2, CountsCorrect, PTL DEF Spec

(* No stale result is ever shown, whatever the frames and however switches,  *)
(* failures, stops and crashes interleave with the inference thread          *)
(* (ApiState::commit_detections against set_detector_enabled).               *)
THEOREM NoStaleCorrect == Spec => []NoStaleDetections
  <1>1. ApiInv => NoStaleDetections
    BY Zenon DEF ApiInv
  <1> QED
    BY <1>1, ApiCorrect, PTL
-----------------------------------------------------------------------------
(* The manager's record, moved to another label; the next rule or the end of *)
(* process; the return from a cleanup.                                       *)
LEMMA MgrFacts ==
    ASSUME NEW m, DOMAIN m = DOMAIN Off, m.next \in DOMAIN Rules, NEW p, NEW ok
    PROVE  /\ LET g == [m EXCEPT !.pc = p]
              IN  /\ DOMAIN g = DOMAIN Off /\ g.pc = p /\ g.id = m.id /\ g.next = m.next
                  /\ g.work = m.work /\ g.gen = m.gen /\ g.todo = m.todo /\ g.clean = m.clean
           /\ LET d == Done(m)
              IN  /\ DOMAIN d = DOMAIN Off /\ d.pc \in {"rules", "idle"}
                  /\ d.next \in DOMAIN Rules /\ d.gen = m.gen /\ d.clean = m.clean
                  /\ d.pc = "rules" => d.next = m.next + 1 /\ d.work = m.work
                  /\ d.pc = "idle" => d.work = Off.work
           /\ LET b == [m EXCEPT !.pc = "idle", !.id = 0, !.todo = {}, !.clean = @ /\ ok]
              IN  /\ DOMAIN b = DOMAIN Off /\ b.pc = "idle" /\ b.next = m.next
                  /\ b.work = m.work /\ b.gen = m.gen /\ b.clean = (m.clean /\ ok)
  <1>2. 1 \in DOMAIN Rules
    BY AlertAssumption
  <1>5. LET d == Done(m)
        IN  /\ DOMAIN d = DOMAIN Off /\ d.pc \in {"rules", "idle"}
            /\ d.next \in DOMAIN Rules /\ d.gen = m.gen /\ d.clean = m.clean
            /\ d.pc = "rules" => d.next = m.next + 1 /\ d.work = m.work
            /\ d.pc = "idle" => d.work = Off.work
    BY <1>2 DEF Done
  <1> QED
    BY <1>5

(* A failure uses up a disturbance and no id. *)
LEMMA SpentFacts ==
    ASSUME spent \in [ids : Nat, events : Nat], Event \/ NoFault
    PROVE  spent' \in [ids : Nat, events : Nat] /\ spent'.ids = spent.ids
  BY DEF Event, NoFault

(* Labels at which StoreInv asks nothing of the alert in hand. *)
Resting == {"idle", "rules", "ended", "excess", "quarantine"}

(* The files and the rows after a step that touches the snapshot of no row. *)
RowsKept ==
    /\ file' \in [Alerts -> Names] /\ disk' \in [Alerts -> SUBSET Names]
    /\ data' \in [Alerts -> Contents] /\ rows' = rows
    /\ \A i \in Alerts : file'[i] \in disk'[i]
    /\ \A i \in rows : file'[i] = file[i] /\ disk'[i] = disk[i] /\ data'[i] = data[i]

(* The manager's record after a step to label p; only a cleanup that got     *)
(* back the name it changed stays clean.                                     *)
MgrKept(p) ==
    /\ DOMAIN mgr' = DOMAIN Off /\ mgr'.next \in DOMAIN Rules /\ mgr'.pc = p
    /\ mgr'.clean \in BOOLEAN
    /\ mgr'.clean => mgr.clean /\ mgr.pc \notin {"syncq", "delete", "syncback"}

(* Such a step to such a label keeps StoreInv. *)
LEMMA StoreKept ==
    ASSUME StoreInv, RowsKept, NEW p \in Resting, MgrKept(p),
           spent' \in [ids : Nat, events : Nat], spent'.ids >= spent.ids
    PROVE  StoreInv'
  <1>1. StoreType'
    BY Zenon DEF StoreInv, StoreType, Resting, Labels, RowsKept, MgrKept
  <1>2. PersistInv'
    BY DEF StoreInv, StoreType, PersistInv, Resting, Persisting, Alerts, RowsKept, MgrKept
  <1>3. RowsInv'
    BY Zenon DEF StoreInv, StoreType, RowsInv, Resting, RowsKept, MgrKept
  <1> QED
    BY <1>1, <1>2, <1>3, Zenon DEF StoreInv

(* A step that touches no file and no row is one of these. *)
LEMMA NoFileKept ==
    ASSUME StoreInv, UNCHANGED << file, disk, data, rows >>
    PROVE  RowsKept
  BY Zenon DEF StoreInv, StoreType, RowsInv, RowsKept

(* A new name, given to the file in hand. *)
LEMMA NameFacts ==
    ASSUME StoreInv, NEW n \in Names, SetName(n)
    PROVE  /\ file' \in [Alerts -> Names] /\ disk' \in [Alerts -> SUBSET Names]
           /\ \A i \in Alerts : file'[i] \in disk'[i]
           /\ \A i \in Alerts : i # Id => file'[i] = file[i] /\ disk'[i] = disk[i]
           /\ Id \in Alerts => file'[Id] = n /\ disk'[Id] = disk[Id] \cup {n}
  BY Zenon DEF StoreInv, StoreType, RowsInv, SetName

(* A sync of its directory: the name it has is the one that survives. *)
LEMMA SyncFacts ==
    ASSUME StoreInv, SyncDir
    PROVE  /\ file' = file /\ data' = data /\ disk' \in [Alerts -> SUBSET Names]
           /\ \A i \in Alerts : file'[i] \in disk'[i]
           /\ \A i \in Alerts : i # Id => disk'[i] = disk[i]
           /\ Id \in Alerts => disk'[Id] = {file[Id]}
  <1>1. /\ file' = file /\ data' = data /\ disk' = [disk EXCEPT ![Id] = {file[Id]}]
        /\ disk \in [Alerts -> SUBSET Names] /\ \A i \in Alerts : file[i] \in Names
        /\ \A i \in Alerts : file[i] \in disk[i]
    BY Zenon DEF StoreInv, StoreType, RowsInv, SyncDir
  <1> QED
    BY <1>1, Zenon

(* The initial state: no file, no row. *)
LEMMA StoreInit == Init => StoreInv
  <1> SUFFICES ASSUME Init PROVE StoreInv
    BY Zenon
  <1>1. 1 \in DOMAIN Rules
    BY AlertAssumption
  <1> QED
    BY <1>1, Zenon
      DEF Init, InitAlerts, StoreInv, StoreType, PersistInv, RowsInv, Off, Names, Contents,
                Labels, Persisting

(* persist, one step at a time: until its row is added the alert in hand is  *)
(* the only one whose files change.                                          *)
LEMMA PersistStep ==
    ASSUME StoreInv, Evaluate \/ Write \/ Sync \/ Publish \/ SyncName \/ Insert
    PROVE  StoreInv'
  <1>0. /\ DOMAIN mgr = DOMAIN Off /\ mgr.next \in DOMAIN Rules /\ mgr.clean \in BOOLEAN
        /\ spent \in [ids : Nat, events : Nat] /\ spent.ids \in Nat
    BY Zenon DEF StoreInv, StoreType
  <1>n. ASSUME NextRule, RowsKept, mgr.pc \in Processing,
               spent' \in [ids : Nat, events : Nat], spent'.ids = spent.ids
        PROVE  StoreInv'
    BY <1>n, <1>0, MgrFacts, StoreKept DEF NextRule, MgrKept, Processing, Persisting, Resting
  <1>g. ASSUME NEW p, Goto(p)
        PROVE  /\ DOMAIN mgr' = DOMAIN Off /\ mgr'.pc = p /\ mgr'.id = mgr.id
               /\ mgr'.next = mgr.next /\ mgr'.clean = mgr.clean /\ mgr'.todo = mgr.todo
    BY <1>0, <1>g DEF Goto
  <1>1. CASE Evaluate
    <2>1. UNCHANGED << file, disk, data, rows >> /\ mgr.pc = "rules"
      BY <1>1, Zenon DEF Evaluate, store, At
    <2>2. \/ mgr' = Done(mgr) /\ spent' = spent
          \/ /\ mgr' = [mgr EXCEPT !.pc = "write", !.id = spent.ids + 1]
             /\ spent' = [spent EXCEPT !.ids = @ + 1] /\ spent.ids < MaxAlerts
      BY <1>1, Zenon DEF Evaluate
    <2>3. CASE mgr' = Done(mgr) /\ spent' = spent
      BY <1>0, <1>n, <2>1, <2>3, NoFileKept, Zenon DEF NextRule, Processing
    <2>4. CASE /\ mgr' = [mgr EXCEPT !.pc = "write", !.id = spent.ids + 1]
               /\ spent' = [spent EXCEPT !.ids = @ + 1] /\ spent.ids < MaxAlerts
      <3>1. /\ DOMAIN mgr' = DOMAIN Off /\ mgr'.pc = "write" /\ mgr'.id = spent.ids + 1
            /\ mgr'.next = mgr.next /\ mgr'.clean = mgr.clean
        BY <1>0, <2>4
      <3>2. spent' \in [ids : Nat, events : Nat] /\ spent'.ids = spent.ids + 1
        BY <1>0, <2>4
      <3>3. StoreType'
        BY <2>1, <3>1, <3>2, Zenon DEF StoreInv, StoreType, Labels
      <3>4. PersistInv'
        <4>1. \A i \in rows : i \in Alerts /\ i <= spent.ids
          BY Zenon DEF StoreInv, StoreType, PersistInv
        <4>2. mgr'.id \in Alerts \ rows /\ mgr'.id <= spent'.ids
          BY <1>0, <2>4, <3>2, <4>1, AlertAssumption DEF Alerts
        <4>3. \A i \in rows' : i <= spent'.ids
          BY <1>0, <2>1, <3>2, <4>1 DEF Alerts
        <4> QED
          BY <2>1, <3>1, <4>2, <4>3, Zenon DEF PersistInv, Id
      <3>5. RowsInv'
        BY <2>1, <3>1, Zenon DEF StoreInv, RowsInv
      <3> QED
        BY <3>3, <3>4, <3>5, Zenon DEF StoreInv
    <2> QED
      BY <2>2, <2>3, <2>4, Zenon
  <1>2. CASE Write
    <2>1. /\ mgr.pc = "write" /\ Id \in Alerts \ rows /\ Id <= spent.ids /\ rows' = rows
          /\ mgr.pc \in Processing
      BY <1>2, Zenon DEF Write, At, StoreInv, PersistInv, Persisting, Processing, NoDb
    <2>2. ASSUME SetName("tmp"), data' = [data EXCEPT ![Id] = "cached"] PROVE RowsKept
      BY <2>1, <2>2, NameFacts, Zenon DEF RowsKept, StoreInv, StoreType, Contents, Names
    <2>3. CASE NoFault /\ Goto("sync") /\ SetName("tmp") /\ data' = [data EXCEPT ![Id] = "cached"]
      BY <2>2, <2>3, <1>g, <2>1 DEF NoFault, RowsKept, StoreInv, StoreType, Labels, PersistInv,
                                    Id, RowsInv
    <2>4. CASE /\ Fault /\ NextRule
               /\ NoFile \/ (SetName("tmp") /\ data' = [data EXCEPT ![Id] = "cached"])
      BY <2>1, <2>2, <2>4, NoFileKept, <1>0, SpentFacts, <1>n, Zenon DEF NoFile, Fault
    <2> QED
      BY <1>2, <2>3, <2>4, Zenon DEF Write
  <1>3. CASE Sync
    <2>1. /\ mgr.pc = "sync" /\ Id \in Alerts \ rows /\ Id <= spent.ids
          /\ UNCHANGED << rows, file, disk >> /\ mgr.pc \in Processing
      BY <1>3, Zenon DEF Sync, At, StoreInv, PersistInv, Persisting, Processing, NoDb
    <2>2. CASE NoFault /\ Goto("rename") /\ data' = [data EXCEPT ![Id] = "synced"]
      BY <2>1, <2>2, <1>g DEF NoFault, StoreInv, StoreType, RowsInv, Contents, Labels, PersistInv,
                              Id
    <2>3. CASE Fault /\ NextRule /\ UNCHANGED data
      BY <2>1, <2>3, NoFileKept, <1>0, SpentFacts, <1>n, Zenon DEF Fault
    <2> QED
      BY <1>3, <2>2, <2>3, Zenon DEF Sync
  <1>4. CASE Publish
    <2>1. /\ mgr.pc = "rename" /\ Id \in Alerts \ rows /\ Id <= spent.ids /\ rows' = rows
          /\ mgr.pc \in Processing /\ data[Id] = "synced"
      BY <1>4, Zenon DEF Publish, At, StoreInv, PersistInv, Persisting, Processing, NoDb
    <2>2. ASSUME NEW n \in Names, SetName(n), UNCHANGED data PROVE RowsKept
      BY <2>1, <2>2, NameFacts, Zenon DEF RowsKept, StoreInv, StoreType
    <2>3. CASE NoFault /\ Goto("syncdir") /\ Rename("final")
      BY <2>3, <2>1, NameFacts, <1>g DEF Rename, Names, NoFault, StoreInv, StoreType, Labels,
                                         PersistInv, Id, RowsInv
    <2>4. CASE Fault /\ NextRule /\ (Unlink \/ NoFile)
      BY <2>1, <2>2, <2>4, NoFileKept, <1>0, SpentFacts, <1>n, Zenon
        DEF Names, NoFile, Unlink, Fault
    <2> QED
      BY <1>4, <2>3, <2>4, Zenon DEF Publish
  <1>5. CASE SyncName
    <2>1. /\ mgr.pc = "syncdir" /\ Id \in Alerts \ rows /\ Id <= spent.ids /\ rows' = rows
          /\ mgr.pc \in Processing /\ data[Id] = "synced" /\ file[Id] = "final"
      BY <1>5, Zenon DEF SyncName, At, StoreInv, PersistInv, Persisting, Processing, NoDb
    <2>3. CASE NoFault /\ Goto("insert") /\ SyncDir
      <3>1. spent' = spent /\ data'[Id] = "synced" /\ file'[Id] = "final" /\ disk'[Id] = {"final"}
        BY <2>1, <2>3, SyncFacts, Zenon DEF NoFault
      <3>a. RowsKept
        BY <2>1, <2>3, SyncFacts, Zenon DEF RowsKept, StoreInv, StoreType
      <3>2. /\ DOMAIN mgr' = DOMAIN Off /\ mgr'.pc = "insert" /\ mgr'.id = mgr.id
            /\ mgr'.next = mgr.next /\ mgr'.clean = mgr.clean
        BY <1>g, <2>3, Zenon
      <3>3. StoreType'
        BY <3>1, <3>a, <3>2, Zenon DEF RowsKept, StoreInv, StoreType, Labels
      <3>4. PersistInv'
        BY <2>1, <3>1, <3>2, Zenon DEF StoreInv, PersistInv, Id
      <3>5. RowsInv'
        BY <3>1, <3>a, <3>2 DEF RowsKept, StoreInv, RowsInv
      <3> QED
        BY <3>3, <3>4, <3>5, Zenon DEF StoreInv
    <2>4. CASE Fault /\ NextRule /\ NoFile
      BY <2>1, <2>4, NoFileKept, <1>0, SpentFacts, <1>n, Zenon DEF NoFile, Fault
    <2> QED
      BY <1>5, <2>3, <2>4, Zenon DEF SyncName
  <1>6. CASE Insert
    <2>1. /\ mgr.pc = "insert" /\ Id \in Alerts \ rows /\ Id <= spent.ids /\ NextRule
          /\ mgr.pc \in Processing /\ data[Id] = "synced" /\ file[Id] = "final"
          /\ disk[Id] = {"final"}
      BY <1>6, Zenon DEF Insert, At, StoreInv, PersistInv, Persisting, Processing
    <2>2. CASE NoFault /\ rows' = rows \cup {Id} /\ NoFile
      BY <2>2, <2>1, MgrFacts, Zenon DEF NoFault, NoFile, NextRule, StoreInv, StoreType, Labels,
                                  PersistInv, Persisting, RowsInv
    <2>3. CASE (Unlink \/ NoFile) /\ UNCHANGED rows /\ (NoFault \/ Fault)
      BY <2>1, <2>3, NameFacts, NoFileKept, SpentFacts, <1>n, Zenon
        DEF Names, Unlink, RowsKept, StoreInv, StoreType, NoFile, Fault
    <2> QED
      BY <1>6, <2>2, <2>3, Zenon DEF Insert
  <1> QED
    BY <1>1, <1>2, <1>3, <1>4, <1>5, <1>6, Zenon

(* cleanup_oldest and reconcile_deletions: a row's snapshot goes back and    *)
(* forth between its two names, and its row goes before its last name does.  *)
LEMMA CleanupStep ==
    ASSUME StoreInv,
           \/ CleanupOldest \/ NextExcess \/ Quarantine \/ SyncQuarantine \/ Delete \/ SyncBack
           \/ Purge \/ SyncPurge
    PROVE  StoreInv'
  <1>0. /\ DOMAIN mgr = DOMAIN Off /\ mgr.next \in DOMAIN Rules /\ mgr.clean \in BOOLEAN
        /\ spent \in [ids : Nat, events : Nat] /\ spent.ids \in Nat
    BY Zenon DEF StoreInv, StoreType
  <1>s. spent' \in [ids : Nat, events : Nat] /\ spent'.ids = spent.ids /\ spent'.ids >= spent.ids
    <2>1. Event \/ NoFault
      BY Zenon DEF CleanupOldest, NextExcess, Quarantine, SyncQuarantine, Delete, SyncBack, Purge,
                   SyncPurge, Fault
    <2>2. spent' \in [ids : Nat, events : Nat] /\ spent'.ids = spent.ids
      BY <1>0, <2>1, SpentFacts, Zenon
    <2> QED
      BY <2>2
  <1>r. ASSUME Return(FALSE)
        PROVE  /\ DOMAIN mgr' = DOMAIN Off /\ mgr'.pc = "idle" /\ mgr'.next = mgr.next
               /\ mgr'.clean = FALSE
    <2>1. /\ DOMAIN mgr' = DOMAIN Off /\ mgr'.pc = "idle" /\ mgr'.next = mgr.next
          /\ mgr'.clean = (mgr.clean /\ FALSE)
      BY <1>r, <1>0 DEF Return
    <2> QED
      BY <2>1, Zenon
  <1>f. ASSUME Return(FALSE), RowsKept PROVE StoreInv'
    BY <1>f, <1>r, <1>0, <1>s, StoreKept, Zenon DEF MgrKept, Resting
  <1>g. ASSUME NEW p, Goto(p)
        PROVE  /\ DOMAIN mgr' = DOMAIN Off /\ mgr'.pc = p /\ Id' = Id
               /\ mgr'.next = mgr.next /\ mgr'.clean = mgr.clean /\ mgr'.todo = mgr.todo
    BY <1>0, <1>g DEF Goto, Id
  <1>k. \A n \in {"none", "final", "deleting"} : n \in Names
    BY Zenon DEF Names
  <1>1. CASE CleanupOldest
    BY <1>1, <1>0, <1>s, StoreKept, NoFileKept DEF CleanupOldest, NoFile, NoDb, At, MgrKept,
                                                   Resting
  <1>2. CASE NextExcess
    <2>1. UNCHANGED << file, disk, data, rows >> /\ mgr.pc = "excess"
      BY <1>2, Zenon DEF NextExcess, NoFile, NoDb, At
    <2>2. CASE Return(TRUE)
      BY <1>0, <2>2, <2>1, <1>s, StoreKept, NoFileKept DEF Return, MgrKept, Resting
    <2>3. CASE mgr' = [mgr EXCEPT !.pc = "quarantine", !.id = Min(mgr.todo),
                                  !.todo = @ \ {Min(@)}]
      BY <1>0, <2>3, <2>1, <1>s, StoreKept, NoFileKept DEF MgrKept, Resting
    <2> QED
      BY <1>2, <2>2, <2>3, Zenon DEF NextExcess
  <1>3. CASE Quarantine
    <2>1. mgr.pc = "quarantine" /\ rows' = rows
      BY <1>3, Zenon DEF Quarantine, At, NoDb
    <2>2. CASE Goto("syncq") /\ Rename("deleting")
      BY <2>2, <1>g, <1>k, NameFacts, <1>0, <1>s, <2>1 DEF Rename, StoreInv, StoreType, Labels,
                                                           PersistInv, Persisting, RowsInv
    <2>3. CASE Return(FALSE) /\ NoFile
      BY <1>f, <2>1, <2>3, NoFileKept, Zenon DEF NoFile
    <2> QED
      BY <1>3, <2>2, <2>3, Zenon DEF Quarantine
  <1>4. CASE SyncQuarantine
    <2>1. mgr.pc = "syncq" /\ rows' = rows
      BY <1>4, Zenon DEF SyncQuarantine, At, NoDb
    <2>2. CASE Goto("delete") /\ SyncDir
      BY <1>g, <2>2, SyncFacts, <1>s, <2>1 DEF StoreInv, StoreType, Labels, PersistInv,
                                               Persisting, RowsInv
    <2>3. CASE Return(FALSE) /\ NoFile
      BY <1>f, <2>1, <2>3, NoFileKept, Zenon DEF NoFile
    <2> QED
      BY <1>4, <2>2, <2>3, Zenon DEF SyncQuarantine
  <1>5. CASE Delete
    BY <1>5, <1>g, <1>0, <1>s, <1>k, NameFacts DEF Delete, At, NoFile, StoreInv, StoreType,
                                                   Labels, PersistInv, Persisting, RowsInv, Rename
  <1>6. CASE SyncBack
    <2>1. mgr.pc = "syncback" /\ rows' = rows /\ Return(FALSE)
      BY <1>6, Zenon DEF SyncBack, At, NoDb
    <2>2. CASE SyncDir
      <3>2. /\ DOMAIN mgr' = DOMAIN Off /\ mgr'.pc = "idle" /\ mgr'.next = mgr.next
            /\ mgr'.clean = FALSE
        BY <1>r, <2>1, Zenon
      <3>3. /\ file' = file /\ data' = data /\ disk' \in [Alerts -> SUBSET Names]
            /\ \A i \in Alerts : file'[i] \in disk'[i]
            /\ \A i \in Alerts : i # Id => disk'[i] = disk[i]
            /\ Id \in Alerts => disk'[Id] = {file[Id]}
        BY <2>2, SyncFacts, Zenon
      <3>4. StoreType'
        BY <1>s, <2>1, <3>2, <3>3, Zenon DEF StoreInv, StoreType, Labels
      <3>5. PersistInv'
        BY <1>s, <2>1, <3>2, Zenon DEF StoreInv, PersistInv, Persisting
      <3>6. RowsInv'
        BY <2>1, <3>2, <3>3 DEF StoreInv, StoreType, RowsInv
      <3> QED
        BY <3>4, <3>5, <3>6, Zenon DEF StoreInv
    <2>3. CASE NoFile
      BY <1>f, <2>1, <2>3, NoFileKept, Zenon DEF NoFile
    <2> QED
      BY <1>6, <2>2, <2>3, Zenon DEF SyncBack
  <1>7. CASE Purge
    <2>1. mgr.pc = "purge" /\ rows' = rows /\ Id \notin rows
      BY <1>7, Zenon DEF Purge, At, NoDb, StoreInv, RowsInv
    <2>2. CASE Goto("syncp") /\ Unlink
      BY <2>2, <1>g, <1>k, <2>1, NameFacts, <1>0, <1>s DEF Unlink, RowsKept, StoreInv, StoreType,
                                                           Labels, PersistInv, Persisting, RowsInv
    <2>3. CASE Return(FALSE) /\ NoFile
      BY <1>f, <2>1, <2>3, NoFileKept, Zenon DEF NoFile
    <2> QED
      BY <1>7, <2>2, <2>3, Zenon DEF Purge
  <1>8. CASE SyncPurge
    <2>1. mgr.pc = "syncp" /\ rows' = rows /\ Id \notin rows
      BY <1>8, Zenon DEF SyncPurge, At, NoDb, StoreInv, RowsInv
    <2>2. CASE Goto("excess") /\ SyncDir
      BY <2>1, <2>2, SyncFacts, <1>g, <1>s, StoreKept, Zenon
        DEF RowsKept, StoreInv, StoreType, MgrKept,
                                                          Resting
    <2>3. CASE Return(FALSE) /\ NoFile
      BY <1>f, <2>1, <2>3, NoFileKept, Zenon DEF NoFile
    <2> QED
      BY <1>8, <2>2, <2>3, Zenon DEF SyncPurge
  <1> QED
    BY <1>1, <1>2, <1>3, <1>4, <1>5, <1>6, <1>7, <1>8, Zenon

(* configure and reconcile_deletions: every tombstone is on the list that is *)
(* worked off, so what is clean at the end has its own name.                 *)
LEMMA ReconcileStep ==
    ASSUME StoreInv,
           \/ (Configure /\ NoFault) \/ SyncReconciled \/ Reconciled
           \/ \E i \in Alerts : Reconcile(i)
    PROVE  StoreInv'
  <1>0. /\ DOMAIN mgr = DOMAIN Off /\ mgr.next \in DOMAIN Rules /\ mgr.clean \in BOOLEAN
        /\ spent \in [ids : Nat, events : Nat] /\ spent.ids \in Nat
    BY Zenon DEF StoreInv, StoreType
  <1>s. spent' \in [ids : Nat, events : Nat] /\ spent'.ids = spent.ids /\ spent'.ids >= spent.ids
    <2>1. Event \/ NoFault
      BY Zenon DEF SyncReconciled, Reconciled, Reconcile, Fault
    <2>2. spent' \in [ids : Nat, events : Nat] /\ spent'.ids = spent.ids
      BY <1>0, <2>1, SpentFacts, Zenon
    <2> QED
      BY <2>2
  <1>f. ASSUME Return(FALSE), NoFile, NoDb PROVE StoreInv'
    <2>1. /\ DOMAIN mgr' = DOMAIN Off /\ mgr'.pc = "idle" /\ mgr'.next = mgr.next
          /\ mgr'.clean = (mgr.clean /\ FALSE)
      <3>1. mgr' = [mgr EXCEPT !.pc = "idle", !.id = 0, !.todo = {}, !.clean = @ /\ FALSE]
        BY <1>f, Zenon DEF Return
      <3> HIDE <1>f
      <3> QED
        BY <1>0, <3>1
    <2>2. MgrKept("idle") /\ "idle" \in Resting
      BY <1>0, <2>1, Zenon DEF MgrKept, Resting
    <2>3. RowsKept
      BY <1>f, NoFileKept, Zenon DEF NoFile, NoDb
    <2> QED
      BY <1>s, <2>2, <2>3, StoreKept, Zenon
  <1>1. CASE Configure /\ NoFault
    <2>1. /\ UNCHANGED << file, disk, data, rows >>
          /\ mgr' = [Off EXCEPT !.pc = "reconcile",
                                !.todo = {i \in Alerts : file[i] = "deleting"}]
      BY <1>1, Zenon DEF Configure
    <2>2. /\ DOMAIN mgr' = DOMAIN Off /\ mgr'.pc = "reconcile" /\ mgr'.next = 1
          /\ mgr'.clean = FALSE /\ mgr'.todo = {i \in Alerts : file[i] = "deleting"}
      BY <2>1, Zenon DEF Off
    <2>3. 1 \in DOMAIN Rules
      BY AlertAssumption
    <2>4. StoreType'
      BY <1>s, <2>1, <2>2, <2>3, Zenon DEF StoreInv, StoreType, Labels
    <2>5. PersistInv'
      BY <1>s, <2>1 DEF StoreInv, PersistInv, Persisting
    <2>6. RowsInv'
      BY <2>1, <2>2, Zenon DEF StoreInv, StoreType, RowsInv
    <2> QED
      BY <2>4, <2>5, <2>6, Zenon DEF StoreInv
  <1>2. ASSUME NEW i \in Alerts, Reconcile(i) PROVE StoreInv'
    <2>1. mgr.pc = "reconcile" /\ rows' = rows
      BY <1>2, Zenon DEF Reconcile, At, NoDb
    <2>2. CASE Return(FALSE) /\ NoFile
      BY <1>2, <1>f, <2>2, Zenon DEF Reconcile
    <2>3. ASSUME NEW n, n = IF i \in rows THEN "final" ELSE "none",
                 file' = [file EXCEPT ![i] = n], disk' = [disk EXCEPT ![i] = @ \cup {n}],
                 mgr' = [mgr EXCEPT !.pc = "syncr", !.id = i, !.todo = @ \ {i}], data' = data
          PROVE  StoreInv'
      <3>1. /\ DOMAIN mgr' = DOMAIN Off /\ mgr'.pc = "syncr" /\ mgr'.next = mgr.next
            /\ mgr'.clean = mgr.clean /\ mgr'.todo = mgr.todo \ {i}
        BY <1>0, <2>3, Zenon DEF Off
      <3>2. /\ file' \in [Alerts -> Names] /\ disk' \in [Alerts -> SUBSET Names]
            /\ \A j \in Alerts : file'[j] \in disk'[j]
            /\ \A j \in Alerts : j # i => file'[j] = file[j] /\ disk'[j] = disk[j]
            /\ file'[i] = n /\ disk'[i] = disk[i] \cup {n}
        BY <2>3 DEF StoreInv, StoreType, RowsInv, Names
      <3>3. StoreType'
        BY <1>s, <2>1, <2>3, <3>2 DEF StoreInv, StoreType, Labels
      <3>4. PersistInv'
        BY <1>s, <2>1, <3>1, Zenon DEF StoreInv, PersistInv, Persisting
      <3>5. RowsInv'
        BY <2>1, <2>3, <3>1, Zenon DEF StoreInv, StoreType, RowsInv
      <3> QED
        BY <3>3, <3>4, <3>5, Zenon DEF StoreInv
    <2> QED
      BY <1>2, <2>2, <2>3, Zenon DEF Reconcile
  <1>3. CASE SyncReconciled
    <2>1. mgr.pc = "syncr" /\ rows' = rows
      BY <1>3, Zenon DEF SyncReconciled, At, NoDb
    <2>2. CASE Return(FALSE) /\ NoFile
      BY <1>3, <1>f, <2>2, Zenon DEF SyncReconciled
    <2>3. CASE Goto("reconcile") /\ SyncDir
      <3>1. /\ DOMAIN mgr' = DOMAIN Off /\ mgr'.pc = "reconcile" /\ mgr'.next = mgr.next
            /\ mgr'.clean = mgr.clean /\ mgr'.todo = mgr.todo
        BY <1>0, <2>3, MgrFacts DEF Goto
      <3>2. /\ file' = file /\ data' = data /\ disk' \in [Alerts -> SUBSET Names]
            /\ \A i \in Alerts : file'[i] \in disk'[i]
            /\ \A i \in Alerts : i # Id => disk'[i] = disk[i]
            /\ Id \in Alerts => disk'[Id] = {file[Id]}
        BY <2>3, SyncFacts, Zenon
      <3>3. StoreType'
        BY <1>s, <2>1, <3>1, <3>2, Zenon DEF StoreInv, StoreType, Labels
      <3>4. PersistInv'
        BY <1>s, <2>1, <3>1, Zenon DEF StoreInv, PersistInv, Persisting
      <3>5. RowsInv'
        BY <2>1, <3>2, <3>1 DEF StoreInv, StoreType, RowsInv
      <3> QED
        BY <3>3, <3>4, <3>5, Zenon DEF StoreInv
    <2> QED
      BY <1>3, <2>2, <2>3, Zenon DEF SyncReconciled
  <1>4. CASE Reconciled
    BY <1>4, <1>s DEF Reconciled, At, NoFile, NoDb, StoreInv, StoreType, Labels, PersistInv,
                      Persisting, RowsInv
  <1> QED
    BY <1>1, <1>2, <1>3, <1>4, Zenon

(* Every step of the process keeps StoreInv; a loss of power leaves each     *)
(* file one of the names of disk and tears only what was not synced.         *)
LEMMA StoreStep ==
    ASSUME StoreInv, [Next]_vars
    PROVE  StoreInv'
  <1>0. /\ DOMAIN mgr = DOMAIN Off /\ mgr.next \in DOMAIN Rules /\ mgr.clean \in BOOLEAN
        /\ spent \in [ids : Nat, events : Nat] /\ spent.ids \in Nat
    BY Zenon DEF StoreInv, StoreType
  <1>q. ASSUME UNCHANGED << file, disk, data, rows, mgr >>, Event \/ NoFault PROVE StoreInv'
    BY <1>q, SpentFacts, Zenon DEF StoreInv, StoreType, PersistInv, Id, RowsInv
  <1>1. CASE Store
    BY <1>1, PersistStep, CleanupStep, ReconcileStep, Zenon DEF Store
  <1>2. CASE TakeWork \/ AlertWorkerEnds
    <2>1. UNCHANGED << file, disk, data, rows, spent >> /\ mgr.pc = "idle"
      BY <1>2, Zenon DEF TakeWork, AlertWorkerEnds, Process, At, store
    <2>2. PICK p \in {"rules", "ended"} : MgrKept(p)
      <3>1. \/ mgr' = [mgr EXCEPT !.pc = "ended"]
            \/ \E w, g : mgr' = [mgr EXCEPT !.pc = "rules", !.work = w, !.gen = g]
        BY <1>2, Zenon DEF TakeWork, AlertWorkerEnds, Process, Goto
      <3>2. DOMAIN mgr = {"pc", "id", "next", "work", "gen", "todo", "clean"}
        BY <1>0, Zenon DEF Off
      <3>3. /\ DOMAIN mgr' = DOMAIN mgr /\ mgr'.next = mgr.next /\ mgr'.clean = mgr.clean
            /\ mgr'.pc \in {"rules", "ended"}
        BY <3>2, <3>1, Zenon
      <3> QED
        BY <1>0, <2>1, <3>3, Zenon DEF MgrKept
    <2>3. p \in Resting
      BY Zenon DEF Resting
    <2>4. RowsKept
      BY <2>1, NoFileKept, Zenon
    <2>5. spent' \in [ids : Nat, events : Nat] /\ spent'.ids >= spent.ids
      BY <1>0, <2>1
    <2> HIDE <2>1
    <2> QED
      BY <2>2, <2>3, <2>4, <2>5, StoreKept, Zenon
  <1>3. CASE Boot
    BY ReconcileStep, <1>q, <1>3, Zenon DEF Fault, Boot
  <1>o. ASSUME mgr' = Off, spent' = spent, rows' = rows,
               file' \in [Alerts -> Names], disk' \in [Alerts -> SUBSET Names],
               data' \in [Alerts -> Contents], \A i \in Alerts : file'[i] \in disk'[i],
               \A i \in rows : data'[i] = "synced" /\ disk'[i] \subseteq {"final", "deleting"}
        PROVE  StoreInv'
    BY <1>o, AlertAssumption DEF Off, StoreInv, StoreType, Labels, PersistInv, Persisting, RowsInv
  <1>4. CASE Wait
    BY <1>4, <1>o, Zenon DEF Wait, StoreInv, StoreType, RowsInv
  <1>5. CASE Crash
    BY <1>5, <1>o DEF Crash, Die, NoFile, StoreInv, StoreType, RowsInv, Contents
  <1>6. CASE \/ \E f \in Frames : PopFrame(f)
             \/ Detect \/ DetectFails \/ WorkerEnds \/ Poll \/ Stale \/ Start \/ Stop
             \/ StopModules \/ (\E on \in BOOLEAN : Switch(on)) \/ UNCHANGED vars
    <2>1. UNCHANGED << file, disk, data, rows, mgr >> /\ (Event \/ NoFault)
      BY <1>6, Zenon DEF PopFrame, Detect, DetectFails, WorkerEnds, Poll, Stale, Start, Stop,
                         StopModules, Switch, vars, alerts, store, manager, Fault, NoFault
    <2> QED
      BY <1>q, <2>1, Zenon
  <1> QED
    BY <1>1, <1>2, <1>3, <1>4, <1>5, <1>6, Zenon DEF Next

(* StoreInv holds throughout. *)
LEMMA StoreCorrect == Spec => []StoreInv
  <1>1. StoreInv /\ [Next]_vars => StoreInv'
    BY StoreStep, Zenon
  <1> QED
    BY <1>1, StoreInit, PTL DEF Spec

(* A row never outlives its snapshot, for any number of alerts, rules and    *)
(* failures and wherever the power goes (persist, cleanup_oldest,            *)
(* reconcile_deletions).                                                     *)
THEOREM SnapshotCorrect == Spec => []SnapshotSurvives
  <1>1. StoreInv => SnapshotSurvives
    BY Zenon DEF StoreInv, StoreType, RowsInv, SnapshotSurvives, Cleaning
  <1> QED
    BY <1>1, StoreCorrect, PTL
-----------------------------------------------------------------------------
(* u is s with e at its end, and without its first element if that makes it  *)
(* longer than n.                                                            *)
Slid(s, e, n, u) ==
    \E d \in {0, 1} :
        /\ d = 1 <=> Len(s) + 1 > n
        /\ Len(u) = Len(s) + 1 - d
        /\ \A i \in 1 .. Len(u) : u[i] = IF i + d <= Len(s) THEN s[i + d] ELSE e

(* The bounded append, of the alert queue and of a rule's trail. *)
LEMMA SlideFacts ==
    ASSUME NEW S, NEW s \in Seq(S), NEW e \in S, NEW n \in Nat \ {0}
    PROVE  LET g == Append(s, e)
               u == IF Len(g) > n THEN Tail(g) ELSE g
           IN  u \in Seq(S) /\ Slid(s, e, n, u)
  <1> DEFINE g == Append(s, e)
             u == IF Len(g) > n THEN Tail(g) ELSE g
  <1>1. /\ g \in Seq(S) /\ Len(g) = Len(s) + 1 /\ Len(s) \in Nat /\ g # << >>
        /\ \A i \in 1 .. Len(g) : g[i] = IF i <= Len(s) THEN s[i] ELSE e
    OBVIOUS
  <1> HIDE DEF g
  <1>4. CASE Len(g) > n
    <2>1. u = Tail(g)
      BY <1>4, Zenon
    <2> HIDE DEF u
    <2>2. /\ 1 = 1 <=> Len(s) + 1 > n
          /\ Len(u) = Len(s) + 1 - 1
          /\ \A i \in 1 .. Len(u) : u[i] = IF i + 1 <= Len(s) THEN s[i + 1] ELSE e
      BY <1>1, <1>4, <2>1
    <2>3. Slid(s, e, n, u)
      BY <2>2, Zenon DEF Slid
    <2> QED
      BY <2>3 DEF u, g
  <1>5. CASE ~(Len(g) > n)
    BY <1>5 DEF Slid, g
  <1> QED
    BY <1>4, <1>5, Zenon

(* The queue without its counters holds the same works. *)
LEMMA LeanFacts ==
    ASSUME NEW q \in Queues
    PROVE  Lean(q) \in Queues /\ Lean(q).items = q.items
  <1>1. Lean(q) \in Queues
    BY 0 \in Nat, Zenon DEF Lean, Queues
  <1>2. Lean(q).items = q.items
    BY Zenon DEF Lean, Queues
  <1> QED
    BY <1>1, <1>2, Zenon

(* push on the alert queue. *)
LEMMA PushWork ==
    ASSUME NEW q \in Queues, NEW w \in Works
    PROVE  /\ Lean(push(q, AlertCapacity, w)) \in Queues
           /\ Slid(q.items, w, AlertCapacity, Lean(push(q, AlertCapacity, w)).items)
  <1> DEFINE g == Append(q.items, w)
             o == Len(g) > AlertCapacity
             u == IF o THEN Tail(g) ELSE g
             d == IF o THEN q.dropped + 1 ELSE q.dropped
             h == IF Len(u) > q.high_water_mark THEN Len(u) ELSE q.high_water_mark
  <1>1. /\ q.items \in Seq(Works) /\ AlertCapacity \in Nat \ {0} /\ q.pushed + 1 \in Nat
        /\ q.dropped \in Nat /\ q.high_water_mark \in Nat
    BY PipelineAssumption DEF Queues
  <1>2. u \in Seq(Works) /\ Slid(q.items, w, AlertCapacity, u)
    BY <1>1, SlideFacts, Zenon
  <1>3. push(q, AlertCapacity, w) =
            [q EXCEPT !.items = u, !.pushed = q.pushed + 1, !.dropped = d, !.high_water_mark = h]
    BY Zenon DEF push
  <1>4. d \in Nat /\ h \in Nat
    <2> HIDE DEF u
    <2> QED
      BY <1>1
  <1> HIDE DEF u, d, h, g, o
  <1>5. push(q, AlertCapacity, w) \in Queues
    BY <1>1, <1>2, <1>3, <1>4, Zenon DEF Queues
  <1>6. push(q, AlertCapacity, w).items = u
    BY <1>3
  <1> QED
    BY <1>2, <1>5, <1>6, LeanFacts, Zenon

(* take_front takes the oldest work; shutdown keeps them all, reset none. *)
LEMMA TakeWorkFacts ==
    ASSUME NEW q \in Queues
    PROVE  /\ shutdown(q) \in Queues /\ shutdown(q).items = q.items
           /\ reset \in Queues /\ reset.items = << >>
           /\ q.items # << >> =>
                 /\ Head(q.items) = q.items[1] /\ Head(q.items) \in Works
                 /\ Lean(take_front(q)) \in Queues
                 /\ Len(Lean(take_front(q)).items) = Len(q.items) - 1
                 /\ \A i \in 1 .. Len(q.items) - 1 : Lean(take_front(q)).items[i] = q.items[i + 1]
  <1>1. shutdown(q) \in Queues /\ shutdown(q).items = q.items
    BY Zenon DEF shutdown, Queues
  <1>2. reset \in Queues /\ reset.items = << >>
    BY DEF reset, Queues
  <1>3. ASSUME q.items # << >>
        PROVE  /\ Head(q.items) = q.items[1] /\ Head(q.items) \in Works
               /\ Lean(take_front(q)) \in Queues
               /\ Len(Lean(take_front(q)).items) = Len(q.items) - 1
               /\ \A i \in 1 .. Len(q.items) - 1 : Lean(take_front(q)).items[i] = q.items[i + 1]
    <2>1. q.items \in Seq(Works)
      BY Zenon DEF Queues
    <2>2. /\ Head(q.items) = q.items[1] /\ Head(q.items) \in Works
          /\ Tail(q.items) \in Seq(Works) /\ Len(Tail(q.items)) = Len(q.items) - 1
          /\ \A i \in 1 .. Len(q.items) - 1 : Tail(q.items)[i] = q.items[i + 1]
      BY <1>3, <2>1
    <2> DEFINE t == Tail(q.items)
    <2>3. take_front(q) = [q EXCEPT !.items = t, !.popped = @ + 1]
      BY <1>3, Zenon DEF take_front
    <2> HIDE DEF t
    <2>4. t \in Seq(Works) /\ q.popped + 1 \in Nat
      BY <2>2 DEF t, Queues
    <2>5. take_front(q) \in Queues
      BY <2>3, <2>4, Zenon DEF Queues
    <2>7. take_front(q).items = t
      BY <2>3
    <2>6. Lean(take_front(q)) \in Queues /\ Lean(take_front(q)).items = t
      BY <2>5, <2>7, LeanFacts, Zenon
    <2> QED
      BY <2>2, <2>6, Zenon DEF t
  <1> QED
    BY <1>1, <1>2, <1>3, Zenon

(* The count of a rule that has matched once more. *)
LEMMA MinFacts ==
    ASSUME NEW a \in Nat, NEW b \in Nat
    PROVE  Min({a, b}) = IF a <= b THEN a ELSE b
  <1>1. \E x \in {a, b} : \A y \in {a, b} : x <= y
    OBVIOUS
  <1>2. Min({a, b}) \in {a, b} /\ \A y \in {a, b} : Min({a, b}) <= y
    BY <1>1, Zenon DEF Min
  <1> QED
    BY <1>2

(* What is over stays over. *)
OverKept == \A r \in DOMAIN Rules : \A n \in Nat : Over(r, n) => Over(r, n)'

(* The elements of the trails and of the alerts have their types. *)
LEMMA EntryFacts ==
    ASSUME EarnedType, rows \subseteq Alerts
    PROVE  /\ \A r \in DOMAIN Rules : /\ trail[r] \in Seq(Entries) /\ Len(trail[r]) \in Nat
                                      /\ \A k \in 1 .. Len(trail[r]) : trail[r][k] \in Entries
           /\ \A i \in Alerts : /\ raised[i] \in Seq(Entries) /\ Len(raised[i]) \in Nat
                                /\ \A k \in 1 .. Len(raised[i]) : raised[i][k] \in Entries
  <1>1. \A r \in DOMAIN Rules : trail[r] \in Seq(Entries)
    BY Zenon DEF EarnedType
  <1>2. \A i \in Alerts : raised[i] \in Seq(Entries)
    BY Zenon DEF EarnedType
  <1>3. \A s \in Seq(Entries) : Len(s) \in Nat /\ \A k \in 1 .. Len(s) : s[k] \in Entries
    OBVIOUS
  <1> QED
    BY <1>1, <1>2, <1>3, Zenon

(* So what the trails and the alerts hold stays over. *)
LEMMA OverStays ==
    ASSUME EarnedInv, rows \subseteq Alerts, OverKept
    PROVE  /\ \A r \in DOMAIN Rules : \A k \in 1 .. Len(trail[r]) : \A n :
                 n = trail[r][k].seq => n \in Nat /\ Over(r, n)'
           /\ \A i \in rows : \A k \in 1 .. Len(raised[i]) : \A r, n :
                 r = raised[i][k].rule /\ n = raised[i][k].seq =>
                    r \in DOMAIN Rules /\ n \in Nat /\ Over(r, n)'
  <1>0. EarnedType /\ TrailInv /\ RaisedInv
    BY Zenon DEF EarnedInv
  <1>1. ASSUME NEW r \in DOMAIN Rules, NEW k \in 1 .. Len(trail[r]), NEW n, n = trail[r][k].seq
        PROVE  n \in Nat /\ Over(r, n)'
    BY <1>0, <1>1, EntryFacts DEF Entries, TrailInv, OverKept
  <1>2. ASSUME NEW i \in rows, NEW k \in 1 .. Len(raised[i]), NEW r, NEW n,
               r = raised[i][k].rule, n = raised[i][k].seq
        PROVE  r \in DOMAIN Rules /\ n \in Nat /\ Over(r, n)'
    BY <1>0, <1>2, EntryFacts, Zenon DEF Entries, RaisedInv, OverKept
  <1> QED
    BY <1>1, <1>2, Zenon

(* A step that changes no trail and adds no row keeps what is said of them,  *)
(* as long as the streaks stand and what is over stays over.                 *)
LEMMA EarnedKept ==
    ASSUME EarnedInv, rows \subseteq Alerts, UNCHANGED << trail, raised >>, rows' \subseteq rows,
           OverKept, \A r \in DOMAIN Rules : Streak(r)'
    PROVE  TrailInv' /\ RaisedInv' /\ EarnedRows'
  <1>0. EarnedType /\ TrailInv /\ RaisedInv /\ EarnedRows
    BY Zenon DEF EarnedInv
  <1>1. ASSUME NEW r \in DOMAIN Rules, NEW k \in 1 .. Len(trail[r])
        PROVE  trail[r][k].rule = r /\ Over(r, trail[r][k].seq)'
    BY <1>0, OverStays, Zenon DEF TrailInv
  <1>2. TrailInv'
    BY <1>1, Zenon DEF TrailInv
  <1>3. ASSUME NEW i \in rows', NEW k \in 1 .. Len(raised[i])
        PROVE  Over(raised[i][k].rule, raised[i][k].seq)'
    BY OverStays, Zenon
  <1>4. RaisedInv'
    BY <1>0, <1>3 DEF RaisedInv
  <1>5. EarnedRows'
    BY <1>0 DEF EarnedRows
  <1> QED
    BY <1>2, <1>4, <1>5, Zenon

(* With empty trails and counts of zero the rest follows from the rows. *)
LEMMA EarnedReset ==
    ASSUME EarnedInv, rows \subseteq Alerts, UNCHANGED << rows, raised >>, OverKept,
           trail' = [r \in DOMAIN Rules |-> << >>], rule' = [r \in DOMAIN Rules |-> NewRule],
           mgr'.pc \notin Persisting
    PROVE  TrailInv' /\ RaisedInv' /\ EarnedRows'
  <1>0. RaisedInv /\ EarnedRows
    BY Zenon DEF EarnedInv
  <1>1. \A r \in DOMAIN Rules : /\ trail'[r] = << >> /\ Len(trail'[r]) = 0
                                /\ 1 .. Len(trail'[r]) = {} /\ rule'[r].consecutive = 0
                                /\ Rules[r].consecutive_frames \in Nat
    BY AlertAssumption DEF NewRule
  <1>2. TrailInv'
    BY <1>1 DEF Streak, TrailInv
  <1>3. ASSUME NEW i \in rows', NEW k \in 1 .. Len(raised[i])
        PROVE  Over(raised[i][k].rule, raised[i][k].seq)'
    BY OverStays, Zenon
  <1>4. RaisedInv'
    BY <1>3 DEF RaisedInv
  <1>5. EarnedRows'
    BY <1>0 DEF EarnedRows
  <1> QED
    BY <1>2, <1>4, <1>5, Zenon

(* A step of the manager alone that neither counts nor records: it moves on  *)
(* within persist, to the next rule, or to where no work is in hand.         *)
MgrMoved ==
    /\ mgr.pc # "off" /\ mgr'.gen = mgr.gen /\ mgr'.work \in {mgr.work, Off.work}
    /\ mgr'.pc \in Processing =>
          /\ mgr.pc \in Processing /\ mgr'.work = mgr.work
          /\ \/ mgr.pc \in Persisting /\ mgr'.pc \in Persisting /\ mgr'.next = mgr.next
             \/ mgr'.pc = "rules" /\ mgr'.next = mgr.next + 1

Moved ==
    /\ UNCHANGED << rule, trail, raised, queue, worker, used >> /\ rows' \subseteq rows
    /\ MgrMoved

(* Such a step keeps EarnedInv. *)
LEMMA MovedStep ==
    ASSUME EarnedInv, StoreInv, Moved
    PROVE  EarnedInv'
  <1>0. /\ EarnedType /\ OrderInv /\ TrailInv /\ rows \subseteq Alerts
        /\ mgr.next \in DOMAIN Rules /\ DOMAIN Rules \subseteq Nat
    BY AlertAssumption DEF EarnedInv, StoreInv, StoreType
  <1>1. EarnedType'
    <2>1. mgr.work.seq \in Nat /\ mgr.work.gen \in Nat /\ mgr.gen \in Nat
      BY <1>0, Zenon DEF EarnedType
    <2>2. mgr'.work.seq \in Nat /\ mgr'.work.gen \in Nat /\ mgr'.gen \in Nat
      BY <2>1 DEF Moved, MgrMoved, Off
    <2> QED
      BY <1>0, <2>2, Zenon DEF Moved, EarnedType
  <1>2. \A n : Above(n) <=> Above(n)'
    BY Zenon DEF Moved, Above
  <1>3. OrderInv'
    BY <1>0, Zenon DEF Moved, MgrMoved, OrderInv, Above
  <1>4. OverKept
    BY <1>2, <1>0 DEF OverKept, Over, Moved, MgrMoved, Persisting
  <1>5. ASSUME NEW r \in DOMAIN Rules PROVE Streak(r)'
    BY <1>0, Zenon DEF TrailInv, Moved, MgrMoved, Processing, Persisting, Streak
  <1>6. TrailInv' /\ RaisedInv' /\ EarnedRows'
    BY <1>0, <1>4, <1>5, EarnedKept, Zenon DEF Moved
  <1> QED
    BY <1>1, <1>3, <1>6, Zenon DEF EarnedInv

(* A step of the inference thread or of the main thread that leaves alerts   *)
(* alone: numbers are only handed out upwards.                               *)
LEMMA ThreadKept ==
    ASSUME EarnedInv, rows \subseteq Alerts, UNCHANGED << mgr, rule, trail, raised, rows >>,
           EarnedType', OrderInv', \A n \in Nat : Above(n) => Above(n)'
    PROVE  EarnedInv'
  <1>1. OverKept
    BY Zenon DEF OverKept, Over
  <1>2. \A r \in DOMAIN Rules : Streak(r)'
    BY Zenon DEF Streak, EarnedInv, TrailInv
  <1>3. TrailInv' /\ RaisedInv' /\ EarnedRows'
    BY <1>1, <1>2, EarnedKept, Zenon
  <1> QED
    BY <1>3, Zenon DEF EarnedInv

(* The threads of the detector and the main thread while it is up. *)
LEMMA ThreadStep ==
    ASSUME EarnedInv, StoreInv, ApiInv, Counts,
           \/ \E f \in Frames : PopFrame(f)
           \/ Detect \/ DetectFails \/ WorkerEnds \/ Poll \/ Stale \/ Start \/ Stop
           \/ StopModules \/ (\E on \in BOOLEAN : Switch(on)) \/ UNCHANGED vars
    PROVE  EarnedInv'
  <1>0. /\ EarnedType /\ OrderInv /\ rows \subseteq Alerts /\ worker \in Threads
        /\ UNCHANGED << mgr, rule, trail, raised, rows >> /\ used.frames \in Nat
        /\ mgr.work.seq \in Nat
    <2>1. UNCHANGED << mgr, rule, trail, raised, rows >>
      BY Zenon DEF PopFrame, Detect, DetectFails, WorkerEnds, Poll, Stale, Start, Stop,
                   StopModules, Switch, vars, alerts, store, manager
    <2> QED
      BY <2>1, Zenon DEF EarnedInv, EarnedType, StoreInv, StoreType, ApiInv, Counts
  <1>i. /\ queue.items \in Seq(Works) /\ Len(queue.items) \in Nat
        /\ \A i \in 1 .. Len(queue.items) : queue.items[i] \in Works /\ queue.items[i].seq \in Nat
    <2>1. queue.items \in Seq(Works)
      BY <1>0, Zenon DEF EarnedType, Queues
    <2>3. \A w \in Works : w.seq \in Nat
      BY Zenon DEF Works
    <2> QED
      BY <2>1, <2>3
  <1>1. ASSUME NEW f \in Frames, PopFrame(f) PROVE EarnedInv'
    <2>1. /\ worker.pc = "pop" /\ queue' = queue /\ used'.frames = used.frames + 1
          /\ \/ worker' = worker
             \/ /\ worker'.pc = "detect" /\ worker'.frame = f /\ worker'.seq = used.frames + 1
      BY <1>1, <1>0, Zenon DEF PopFrame, Counts, Threads
    <2>2. EarnedType'
      BY <1>0, <2>1, Zenon DEF EarnedType
    <2>0. used.frames \in Nat
      BY <1>0, Zenon
    <2>3. ASSUME NEW n \in Nat, Above(n) PROVE Above(n)'
      <3>1. /\ n <= used.frames
            /\ \A i \in 1 .. Len(queue.items) : n < queue.items[i].seq
        BY <2>3, Zenon DEF Above
      <3>2. n <= used'.frames /\ (worker'.pc = "detect" => n < worker'.seq)
        BY <2>0, <2>1, <3>1
      <3> QED
        BY <2>1, <3>1, <3>2, Zenon DEF Above
    <2>4. OrderInv'
      <3>2. Above(mgr.work.seq) => Above(mgr.work.seq)'
        BY <1>0, <2>3, Zenon
      <3>3. /\ worker'.pc = "detect" => worker'.seq = used.frames + 1
            /\ used'.frames = used.frames + 1
        BY <2>1, Zenon
      <3>4. \A i \in 1 .. Len(queue.items) :
               /\ queue.items[i].seq \in Nat /\ queue.items[i].seq <= used.frames
               /\ \A j \in 1 .. Len(queue.items) :
                     i < j => queue.items[i].seq < queue.items[j].seq
        BY <1>0, <1>i, Zenon DEF OrderInv
      <3>5. used.frames \in Nat /\ queue' = queue
        BY <1>0, <2>1, Zenon
      <3>6. \A i \in 1 .. Len(queue'.items) :
               /\ queue'.items[i].seq <= used'.frames
               /\ worker'.pc = "detect" => queue'.items[i].seq < worker'.seq
               /\ \A j \in 1 .. Len(queue'.items) :
                     i < j => queue'.items[i].seq < queue'.items[j].seq
        BY <3>3, <3>4, <3>5
      <3>7. mgr'.pc \in Processing => Above(mgr.work.seq)' /\ mgr'.work.gen = mgr'.gen
        BY <1>0, <3>2, Zenon DEF OrderInv
      <3>8. worker'.pc = "detect" => worker'.seq <= used'.frames
        BY <3>3, <3>5
      <3> QED
        BY <1>0, <3>6, <3>7, <3>8, Zenon DEF OrderInv
    <2> QED
      BY <1>0, <2>2, <2>3, <2>4, ThreadKept, Zenon
  <1>2. CASE Detect
    <2> DEFINE w == [seq |-> worker.seq, gen |-> worker.permit, found |-> Detections[worker.frame]]
    <2>1. /\ worker.pc = "detect" /\ worker'.pc = "pop" /\ used' = used
          /\ worker.frame \in Frames /\ worker.seq \in Nat /\ worker.permit \in Nat
      BY <1>0, <1>2 DEF Detect, Back, process, EarnedType, Threads
    <2>2. w \in Works
      BY <2>1, Zenon DEF Works
    <2>3. queue' = queue \/ queue' = Lean(push(queue, AlertCapacity, w))
      BY <1>2, Zenon DEF Detect
    <2>4. w.seq = worker.seq
      BY Zenon
    <2> HIDE DEF w
    <2>5. CASE queue' = queue
      <3>1. EarnedType'
        BY <1>0, <2>1, <2>5, Zenon DEF EarnedType
      <3>2. \A n \in Nat : Above(n) => Above(n)'
        BY <2>1, <2>5, Zenon DEF Above
      <3>3. OrderInv'
        BY <1>0, <2>1, <2>5, Zenon DEF OrderInv, Above
      <3> QED
        BY <1>0, <3>1, <3>2, <3>3, ThreadKept, Zenon
    <2>6. CASE queue' = Lean(push(queue, AlertCapacity, w))
      <3>1. queue' \in Queues /\ Slid(queue.items, w, AlertCapacity, queue'.items)
        BY <1>0, <2>2, <2>6, PushWork, Zenon DEF EarnedType
      <3>2. EarnedType'
        BY <1>0, <2>1, <3>1, Zenon DEF EarnedType
      <3>3. PICK d \in {0, 1} :
                /\ Len(queue'.items) = Len(queue.items) + 1 - d
                /\ \A i \in 1 .. Len(queue'.items) :
                      queue'.items[i] = IF i + d <= Len(queue.items) THEN queue.items[i + d] ELSE w
        BY <3>1, Zenon DEF Slid
      <3>a. \A i \in 1 .. Len(queue'.items) :
                \/ i + d \in 1 .. Len(queue.items) /\ queue'.items[i] = queue.items[i + d]
                \/ i = Len(queue'.items) /\ queue'.items[i].seq = worker.seq
        <4> TAKE i \in 1 .. Len(queue'.items)
        <4>1. CASE i + d <= Len(queue.items)
          BY <1>i, <3>3, <4>1
        <4>2. CASE ~(i + d <= Len(queue.items))
          BY <1>i, <2>4, <3>3, <4>2
        <4> QED
          BY <4>1, <4>2, Zenon
      <3>4. ASSUME NEW n \in Nat, Above(n) PROVE Above(n)'
        BY <2>1, <3>4, <3>a, Zenon DEF Above
      <3>b. /\ worker.seq <= used.frames
            /\ \A i \in 1 .. Len(queue.items) :
                  /\ queue.items[i].seq <= used.frames /\ queue.items[i].seq < worker.seq
                  /\ \A j \in 1 .. Len(queue.items) :
                        i < j => queue.items[i].seq < queue.items[j].seq
        BY <1>0, <2>1, Zenon DEF OrderInv
      <3>5. ASSUME NEW i \in 1 .. Len(queue'.items)
            PROVE  /\ queue'.items[i].seq <= used.frames
                   /\ \A j \in 1 .. Len(queue'.items) :
                         i < j => queue'.items[i].seq < queue'.items[j].seq
        <4>1. queue'.items[i].seq <= used.frames
          BY <3>a, <3>b, Zenon
        <4>2. ASSUME NEW j \in 1 .. Len(queue'.items), i < j
              PROVE  queue'.items[i].seq < queue'.items[j].seq
          <5>2. i + d \in 1 .. Len(queue.items) /\ queue'.items[i] = queue.items[i + d]
            BY <3>a, <4>2
          <5>3. CASE j + d \in 1 .. Len(queue.items) /\ queue'.items[j] = queue.items[j + d]
            BY <3>b, <4>2, <5>2, <5>3
          <5>4. CASE queue'.items[j].seq = worker.seq
            BY <3>b, <5>2, <5>4, Zenon
          <5> QED
            BY <3>a, <5>3, <5>4, Zenon
        <4> QED
          BY <4>1, <4>2, Zenon
      <3>6. OrderInv'
        BY <1>0, <2>1, <3>4, <3>5, Zenon DEF OrderInv
      <3> QED
        BY <1>0, <3>2, <3>4, <3>6, ThreadKept, Zenon
    <2> QED
      BY <2>3, <2>5, <2>6, Zenon
  <1>3. CASE \/ DetectFails \/ WorkerEnds \/ Poll \/ Stale \/ Start \/ Stop \/ StopModules
             \/ (\E on \in BOOLEAN : Switch(on)) \/ UNCHANGED vars
    <2>0. /\ [Idle EXCEPT !.pc = "pop"].pc = "pop" /\ [Idle EXCEPT !.pc = "ended"].pc = "ended"
      BY Zenon DEF Idle
    <2>1. /\ worker' = worker \/ worker'.pc \in {"pop", "ended"}
          /\ used' = used /\ (queue' = queue \/ queue' = shutdown(queue))
      BY <1>3, <2>0, Zenon DEF DetectFails, WorkerEnds, Poll, Stale, Start, Stop, StopModules,
                               Switch, vars, process, Back
    <2>2. queue' \in Queues /\ queue'.items = queue.items
      BY <1>0, <2>1, TakeWorkFacts, Zenon DEF EarnedType
    <2>3. EarnedType'
      BY <1>0, <2>1, <2>2, Zenon DEF EarnedType
    <2>4. \A n \in Nat : Above(n) => Above(n)'
      BY <2>1, <2>2, Zenon DEF Above
    <2>5. OrderInv'
      BY <1>0, <2>1, <2>2, <2>4, Zenon DEF OrderInv
    <2> QED
      BY <1>0, <2>3, <2>4, <2>5, ThreadKept, Zenon
  <1> QED
    BY <1>1, <1>2, <1>3, Zenon

(* process begins: the work taken is younger than all that a rule has seen,  *)
(* and a new generation restarts the counts.                                 *)
LEMMA TakeWorkStep ==
    ASSUME EarnedInv, StoreInv, Counts, TakeWork
    PROVE  EarnedInv'
  <1> DEFINE w == Head(queue.items)
  <1>0. /\ EarnedType /\ OrderInv /\ TrailInv /\ rows \subseteq Alerts /\ queue \in Queues
        /\ DOMAIN mgr = DOMAIN Off /\ mgr.next \in DOMAIN Rules /\ used.frames \in Nat
    BY Zenon DEF EarnedInv, EarnedType, StoreInv, StoreType, Counts
  <1>1. /\ queue.items # << >> /\ mgr.pc = "idle" /\ rule' = NewGeneration(w.gen)
        /\ mgr' = [mgr EXCEPT !.pc = "rules", !.work = w, !.gen = w.gen]
        /\ queue' = Lean(take_front(queue))
        /\ UNCHANGED << rows, trail, raised, worker, used >>
    BY Zenon DEF TakeWork, Process, At, process, store
  <1>2. /\ w = queue.items[1] /\ w \in Works /\ queue' \in Queues
        /\ Len(queue'.items) = Len(queue.items) - 1
        /\ \A i \in 1 .. Len(queue.items) - 1 : queue'.items[i] = queue.items[i + 1]
    BY <1>0, <1>1, TakeWorkFacts, Zenon
  <1> HIDE DEF w
  <1>4. /\ mgr'.pc = "rules" /\ mgr'.work = w /\ mgr'.gen = w.gen /\ mgr'.next = mgr.next
    BY <1>1
  <1>5. w.seq \in Nat /\ w.gen \in Nat
    BY <1>2, Zenon DEF Works
  <1>6. rule' \in [DOMAIN Rules -> [consecutive : Nat, cooling : BOOLEAN]]
    BY <1>0, <1>1, Zenon DEF NewGeneration, EarnedType
  <1>7. EarnedType'
    BY <1>0, <1>1, <1>2, <1>5, <1>6 DEF EarnedType
  <1>8. /\ \A i \in 1 .. Len(queue'.items) : i + 1 \in 1 .. Len(queue.items)
        /\ \A i \in 1 .. Len(queue'.items) : queue'.items[i] = queue.items[i + 1]
        /\ 1 \in 1 .. Len(queue.items)
    BY <1>2
  <1>9. \A n \in Nat : Above(n) => Above(n)' /\ n < w.seq
    BY <1>1, <1>2, <1>8, Zenon DEF Above
  <1>10. OrderInv'
    <2>1. \A i \in 1 .. Len(queue'.items) :
             /\ queue'.items[i].seq <= used'.frames
             /\ worker'.pc = "detect" => queue'.items[i].seq < worker'.seq
             /\ \A j \in 1 .. Len(queue'.items) : i < j => queue'.items[i].seq < queue'.items[j].seq
      <3>1. \A i \in 1 .. Len(queue.items) :
               /\ queue.items[i].seq <= used.frames
               /\ worker.pc = "detect" => queue.items[i].seq < worker.seq
               /\ \A j \in 1 .. Len(queue.items) : i < j => queue.items[i].seq < queue.items[j].seq
        BY <1>0, Zenon DEF OrderInv
      <3>2. \A i, j \in 1 .. Len(queue'.items) : i < j => i + 1 < j + 1
        OBVIOUS
      <3> QED
        BY <1>1, <1>8, <3>1, <3>2, Zenon
    <2>2. worker'.pc = "detect" => worker'.seq <= used'.frames
      BY <1>0, <1>1, Zenon DEF OrderInv
    <2>3. Above(mgr.work.seq)' /\ mgr'.work.gen = mgr'.gen
      <3>2. /\ w.seq <= used'.frames /\ (worker'.pc = "detect" => w.seq < worker'.seq)
            /\ \A i \in 1 .. Len(queue'.items) : w.seq < queue'.items[i].seq
        <4>1. \A i \in 1 .. Len(queue'.items) : queue.items[1].seq < queue.items[i + 1].seq
          BY <1>0, <1>8 DEF OrderInv
        <4>2. w.seq <= used.frames /\ (worker.pc = "detect" => w.seq < worker.seq)
          BY <1>0, <1>2 DEF OrderInv
        <4> QED
          BY <1>1, <1>2, <4>1, <4>2, Zenon
      <3> QED
        BY <1>4, <3>2, Zenon DEF Above
    <2> QED
      BY <2>1, <2>2, <2>3, Zenon DEF OrderInv
  <1>11. OverKept
    BY <1>9, <1>4, <1>5 DEF OverKept, Over
  <1>12. ASSUME NEW r \in DOMAIN Rules PROVE Streak(r)'
    BY <1>0, <1>1 DEF TrailInv, Persisting, Streak, NewGeneration
  <1>13. TrailInv' /\ RaisedInv' /\ EarnedRows'
    BY <1>0, <1>1, <1>11, <1>12, EarnedKept, Zenon
  <1> QED
    BY <1>7, <1>10, <1>13, Zenon DEF EarnedInv

(* The process starts, ends or dies: no work is under way any more. *)
LEMMA RestartStep ==
    ASSUME EarnedInv, StoreInv, ApiInv, Counts, Boot \/ Wait \/ Crash
    PROVE  EarnedInv'
  <1>0. /\ EarnedType /\ OrderInv /\ TrailInv /\ rows \subseteq Alerts /\ queue \in Queues
        /\ worker \in Threads /\ used.frames \in Nat
    BY Zenon DEF EarnedInv, EarnedType, StoreInv, StoreType, ApiInv, Counts
  <1>1. rows' = rows /\ raised' = raised /\ used'.frames = used.frames
    BY Zenon DEF Boot, Configure, Wait, Crash, Die, Counts
  <1>2. \/ UNCHANGED << worker, queue >>
        \/ worker'.pc = "off" /\ queue' \in Queues /\ queue'.items = << >>
    <2>1. UNCHANGED << worker, queue >> \/ (worker' = Idle /\ queue' = reset)
      BY Zenon DEF Boot, Wait, Crash
    <2>2. Idle.pc = "off" /\ reset \in Queues /\ reset.items = << >>
      BY <1>0, TakeWorkFacts, Zenon DEF Idle
    <2> QED
      BY <2>1, <2>2, Zenon
  <1>3. \A n \in Nat : Above(n) => Above(n)'
    BY <1>1, <1>2 DEF Above
  <1>4. ASSUME mgr'.pc \notin Processing,
               mgr'.work.seq \in Nat, mgr'.work.gen \in Nat, mgr'.gen \in Nat,
               \/ UNCHANGED << rule, trail >>
               \/ /\ trail' = [r \in DOMAIN Rules |-> << >>]
                  /\ rule' = [r \in DOMAIN Rules |-> NewRule]
        PROVE  EarnedType' /\ OrderInv' /\ OverKept
    <2>1. /\ rule' \in [DOMAIN Rules -> [consecutive : Nat, cooling : BOOLEAN]]
          /\ trail' \in [DOMAIN Rules -> Seq(Entries)]
      <3>1. << >> \in Seq(Entries) /\ NewRule \in [consecutive : Nat, cooling : BOOLEAN]
        BY DEF NewRule
      <3> QED
        BY <1>0, <1>4, <3>1, Zenon DEF EarnedType
    <2>2. EarnedType'
      BY <1>0, <1>1, <1>2, <1>4, <2>1, Zenon DEF EarnedType
    <2>3. OrderInv'
      BY <1>0, <1>1, <1>2, <1>4 DEF OrderInv
    <2>4. OverKept
      BY <1>3, <1>4, Zenon DEF OverKept, Over
    <2> QED
      BY <2>2, <2>3, <2>4, Zenon
  <1>5. ASSUME /\ trail' = [r \in DOMAIN Rules |-> << >>]
               /\ rule' = [r \in DOMAIN Rules |-> NewRule],
               mgr' = Off \/ \E s : mgr' = [Off EXCEPT !.pc = "reconcile", !.todo = s]
        PROVE  EarnedInv'
    <2>1. /\ mgr'.pc \notin Processing /\ mgr'.pc \notin Persisting
          /\ mgr'.work.seq \in Nat /\ mgr'.work.gen \in Nat /\ mgr'.gen \in Nat
      <3>1. /\ Off.pc = "off" /\ Off.gen = 0 /\ Off.work.seq = 0 /\ Off.work.gen = 0
            /\ DOMAIN Off = {"pc", "id", "next", "work", "gen", "todo", "clean"}
        BY Zenon DEF Off
      <3>2. mgr'.pc \in {"off", "reconcile"} /\ mgr'.work = Off.work /\ mgr'.gen = Off.gen
        BY <3>1, <1>5, Zenon
      <3> QED
        BY <3>1, <3>2 DEF Processing, Persisting
    <2>2. EarnedType' /\ OrderInv' /\ OverKept
      BY <1>4, <1>5, <2>1, Zenon
    <2>3. TrailInv' /\ RaisedInv' /\ EarnedRows'
      BY <1>0, <1>1, <1>5, <2>1, <2>2, EarnedReset, Zenon
    <2> QED
      BY <2>2, <2>3, Zenon DEF EarnedInv
  <1>6. CASE Crash
    BY <1>5, <1>6, Zenon DEF Crash, Die
  <1>7. CASE Boot /\ Configure
    BY <1>5, <1>7, Zenon DEF Configure
  <1>8. CASE Boot /\ UNCHANGED << mgr, rule, trail >>
    BY <1>8, <1>0, <1>1, <1>3, ThreadKept, Zenon DEF Boot, EarnedType, OrderInv
  <1>9. CASE Wait
    BY <1>9, <1>4, <1>0, <1>1, EarnedKept, Zenon DEF Wait, Off, Processing, Persisting, TrailInv,
                                                     Streak, EarnedInv
  <1> QED
    BY <1>6, <1>7, <1>8, <1>9, Zenon DEF Boot

(* Labels away from process and persist. *)
Away == {"idle", "ended", "reconcile", "syncr", "excess", "quarantine", "syncq", "delete",
         "syncback", "purge", "syncp"}

(* The steps of persist before its row, of a cleanup and of a reconcile. *)
LEMMA ManagerMoves ==
    ASSUME StoreInv,
           \/ Write \/ Sync \/ Publish \/ SyncName \/ (Insert /\ NoRule /\ UNCHANGED rows)
           \/ CleanupOldest \/ NextExcess \/ Quarantine \/ SyncQuarantine \/ Delete \/ SyncBack
           \/ Purge \/ SyncPurge \/ SyncReconciled \/ Reconciled
           \/ (\E i \in Alerts : Reconcile(i)) \/ AlertWorkerEnds
    PROVE  UNCHANGED << rule, trail, raised >> /\ rows' \subseteq rows /\ MgrMoved
  <1>0. /\ DOMAIN mgr = DOMAIN Off /\ mgr.next \in DOMAIN Rules
        /\ DOMAIN mgr = {"pc", "id", "next", "work", "gen", "todo", "clean"}
    BY Zenon DEF StoreInv, StoreType, Off
  <1>1. UNCHANGED << rule, trail, raised >> /\ rows' \subseteq rows
    <2>1. UNCHANGED << rule, trail, raised >> /\ (rows' = rows \/ rows' = rows \ {Id})
      BY Zenon DEF Write, Sync, Publish, SyncName, CleanupOldest, NextExcess, Quarantine,
                   SyncQuarantine, Delete, SyncBack, Purge, SyncPurge, SyncReconciled, Reconciled,
                   Reconcile, AlertWorkerEnds, NoRule, NoDb, store
    <2> QED
      BY <2>1, Zenon
  <1>g. ASSUME NEW p, Goto(p)
        PROVE  mgr'.pc = p /\ mgr'.gen = mgr.gen /\ mgr'.work = mgr.work /\ mgr'.next = mgr.next
    BY <1>g DEF Goto
  <1>n. ASSUME NextRule, mgr.pc \in Processing PROVE MgrMoved
    BY <1>n, <1>0, MgrFacts, Zenon DEF NextRule, Processing, Persisting, MgrMoved
  <1>2. CASE Write \/ Sync \/ Publish \/ SyncName \/ (Insert /\ NoRule /\ UNCHANGED rows)
    BY <1>2, <1>g, <1>1, <1>n, Zenon DEF Write, Sync, Publish, SyncName, Insert, At, Persisting,
                                  Processing, MgrMoved
  <1>3. CASE \/ CleanupOldest \/ NextExcess \/ Quarantine \/ SyncQuarantine \/ Delete \/ SyncBack
             \/ Purge \/ SyncPurge \/ SyncReconciled \/ Reconciled
             \/ (\E i \in Alerts : Reconcile(i)) \/ AlertWorkerEnds
    <2>1. mgr.pc # "off"
      BY <1>3, Zenon DEF CleanupOldest, NextExcess, Quarantine, SyncQuarantine, Delete, SyncBack,
                         Purge, SyncPurge, SyncReconciled, Reconciled, Reconcile, AlertWorkerEnds,
                         At
    <2>2. \/ \E p \in Away : Goto(p)
          \/ \E ok \in BOOLEAN : Return(ok)
          \/ \E s : mgr' = [mgr EXCEPT !.pc = "excess", !.todo = s]
          \/ \E s, i : mgr' = [mgr EXCEPT !.pc = "quarantine", !.id = i, !.todo = s]
          \/ \E s, i : mgr' = [mgr EXCEPT !.pc = "syncr", !.id = i, !.todo = s]
          \/ mgr' = [mgr EXCEPT !.pc = "idle", !.id = 0, !.clean = TRUE]
      BY <1>3, Zenon DEF CleanupOldest, NextExcess, Quarantine, SyncQuarantine, Delete, SyncBack,
                         Purge, SyncPurge, SyncReconciled, Reconciled, Reconcile, AlertWorkerEnds,
                         Away
    <2>3. mgr'.pc \in Away /\ mgr'.gen = mgr.gen /\ mgr'.work = mgr.work
      <3>1. CASE \E p \in Away : Goto(p)
        BY <1>g, <3>1, Zenon
      <3>2. CASE \E ok \in BOOLEAN : Return(ok)
        BY <3>2 DEF Return, Away
      <3>3. CASE \E s : mgr' = [mgr EXCEPT !.pc = "excess", !.todo = s]
        BY <3>3 DEF Away
      <3>4. CASE \E s, i : mgr' = [mgr EXCEPT !.pc = "quarantine", !.id = i, !.todo = s]
        BY <3>4 DEF Away
      <3>5. CASE \E s, i : mgr' = [mgr EXCEPT !.pc = "syncr", !.id = i, !.todo = s]
        BY <3>5 DEF Away
      <3>6. CASE mgr' = [mgr EXCEPT !.pc = "idle", !.id = 0, !.clean = TRUE]
        BY <3>6 DEF Away
      <3> QED
        BY <2>2, <3>1, <3>2, <3>3, <3>4, <3>5, <3>6, Zenon
    <2>4. mgr'.pc \notin Processing
      BY <2>3, Zenon DEF Away, Processing, Persisting
    <2> QED
      BY <1>1, <2>1, <2>3, <2>4, Zenon DEF MgrMoved
  <1> QED
    BY <1>2, <1>3, Zenon

(* One rule counts one more work, or starts from zero. *)
LEMMA EvaluateStep ==
    ASSUME EarnedInv, StoreInv, Counts, Evaluate, UNCHANGED << queue, worker, used >>
    PROVE  EarnedInv'
  <1> DEFINE r == mgr.next
             n == Rules[r].consecutive_frames
             m == Matches(mgr.work.found, Rules[r])
             c == rule[r].consecutive
             d == rule'[r].consecutive
             e == [rule |-> r, seq |-> mgr.work.seq, gen |-> mgr.work.gen, match |-> m]
             t == trail[r]
             u == trail'[r]
  <1>0. /\ EarnedType /\ OrderInv /\ TrailInv /\ RaisedInv /\ EarnedRows /\ rows \subseteq Alerts
        /\ DOMAIN mgr = DOMAIN Off /\ r \in DOMAIN Rules /\ DOMAIN Rules \subseteq Nat
        /\ n \in Nat \ {0} /\ mgr.pc = "rules" /\ mgr.pc \in Processing /\ mgr.pc # "off"
    BY AlertAssumption DEF EarnedInv, StoreInv, StoreType, Evaluate, At, Processing
  <1>1. /\ c \in Nat /\ t \in Seq(Entries) /\ Len(t) \in Nat /\ m \in BOOLEAN
        /\ mgr.work.seq \in Nat /\ mgr.gen \in Nat /\ mgr.work.gen = mgr.gen
    BY <1>0 DEF EarnedType, Matches, OrderInv
  <1>2. PICK early \in {FALSE, rule[r].cooling} :
           /\ rule' = [rule EXCEPT ![r] = [consecutive |-> IF m THEN Min({c + 1, n}) ELSE 0,
                                           cooling |-> early]]
           /\ trail' = [trail EXCEPT ![r] = Extended(r, m)]
           /\ \/ /\ m /\ Min({c + 1, n}) = n
                 /\ mgr' = [mgr EXCEPT !.pc = "write", !.id = spent.ids + 1]
              \/ mgr' = Done(mgr)
    BY Zenon DEF Evaluate
  <1>3. UNCHANGED << rows, raised >>
    BY Zenon DEF Evaluate, store
  <1>4. e \in Entries
    BY <1>0, <1>1, Zenon DEF Entries
  <1> HIDE DEF m
  <1>m. Min({c + 1, n}) = IF c + 1 <= n THEN c + 1 ELSE n
    <2> HIDE DEF c, n
    <2>1. c + 1 \in Nat /\ n \in Nat
      BY <1>0, <1>1
    <2> QED
      BY <2>1, MinFacts, Zenon
  <1>5. /\ rule' \in [DOMAIN Rules -> [consecutive : Nat, cooling : BOOLEAN]]
        /\ d = IF m THEN (IF c + 1 <= n THEN c + 1 ELSE n) ELSE 0
        /\ \A q \in DOMAIN Rules \ {r} : rule'[q] = rule[q]
    <2>1. Min({c + 1, n}) = (IF c + 1 <= n THEN c + 1 ELSE n) /\ early \in BOOLEAN
      BY <1>0, <1>m, Zenon DEF EarnedType
    <2> DEFINE h == IF m THEN Min({c + 1, n}) ELSE 0
    <2>2. h \in Nat /\ h = IF m THEN (IF c + 1 <= n THEN c + 1 ELSE n) ELSE 0
      BY <1>0, <1>1, <2>1
    <2>3. rule' = [rule EXCEPT ![r] = [consecutive |-> h, cooling |-> early]]
      BY <1>2, Zenon
    <2> HIDE DEF h
    <2>4. rule \in [DOMAIN Rules -> [consecutive : Nat, cooling : BOOLEAN]]
      BY <1>0, Zenon DEF EarnedType
    <2> QED
      BY <1>0, <2>1, <2>2, <2>3, <2>4, Zenon
  <1>6. /\ trail' \in [DOMAIN Rules -> Seq(Entries)] /\ Slid(t, e, n, u)
        /\ \A q \in DOMAIN Rules \ {r} : trail'[q] = trail[q]
    BY <1>0, <1>1, <1>4, SlideFacts, <1>2, Zenon DEF Extended, EarnedType
  <1>7. /\ mgr'.gen = mgr.gen /\ mgr'.pc # "off"
        /\ mgr'.work.seq \in Nat /\ mgr'.work.gen \in Nat
        /\ mgr'.pc \in Processing => mgr'.work = mgr.work
        /\ \/ m /\ d = n /\ mgr'.pc = "write" /\ mgr'.next = r
           \/ mgr'.pc = "rules" /\ mgr'.next = r + 1
           \/ mgr'.pc = "idle"
    <2>1. CASE mgr' = Done(mgr)
      <3>1. /\ mgr'.pc \in {"rules", "idle"} /\ mgr'.gen = mgr.gen
            /\ mgr'.pc = "rules" => mgr'.next = mgr.next + 1 /\ mgr'.work = mgr.work
            /\ mgr'.pc = "idle" => mgr'.work = Off.work
        BY <1>0, <2>1, MgrFacts, Zenon
      <3>2. Off.work.seq = 0 /\ Off.work.gen = 0 /\ mgr.work.gen \in Nat
        BY <1>1, Zenon DEF Off
      <3> HIDE DEF d, n
      <3> QED
        BY <1>1, <3>1, <3>2 DEF Processing, Persisting
    <2>2. CASE m /\ Min({c + 1, n}) = n /\ mgr' = [mgr EXCEPT !.pc = "write", !.id = spent.ids + 1]
      BY <1>0, <2>2, <1>5, <1>m, <1>1, Zenon DEF Off
    <2> QED
      BY <1>2, <2>1, <2>2, Zenon
  <1>8. EarnedType'
    BY <1>0, <1>1, <1>3, <1>5, <1>6, <1>7, Zenon DEF EarnedType
  <1>9. \A x : Above(x) <=> Above(x)'
    BY Zenon DEF Above
  <1>10. OrderInv'
    BY <1>0, <1>7, Zenon DEF OrderInv, Above
  <1>11. OverKept /\ \A p, x : p = r /\ x = mgr.work.seq => Over(p, x)'
    <2>1. /\ mgr'.pc \in Processing => /\ mgr'.work.seq = mgr.work.seq
                                       /\ \/ mgr'.pc # "rules" /\ mgr'.next = r
                                          \/ mgr'.next = r + 1
      BY <1>7, Zenon DEF Processing, Persisting
    <2>2. ASSUME NEW p \in DOMAIN Rules, NEW x \in Nat, Over(p, x) PROVE Over(p, x)'
      BY <1>0, <2>2, <1>9, <2>1 DEF Over
    <2>3. ASSUME NEW p, NEW x, p = r, x = mgr.work.seq PROVE Over(p, x)'
      BY <1>0, <2>3, <1>1, <1>9, <2>1 DEF OrderInv, Over
    <2> QED
      BY <2>2, <2>3, Zenon DEF OverKept
  <1>12. PICK b \in {0, 1} :
            /\ b = 1 <=> Len(t) + 1 > n
            /\ Len(u) = Len(t) + 1 - b
            /\ \A i \in 1 .. Len(u) : u[i] = IF i + b <= Len(t) THEN t[i + b] ELSE e
    BY <1>6, Zenon DEF Slid
  <1>13. \A k \in 1 .. Len(u) : \/ k + b \in 1 .. Len(t) /\ u[k] = t[k + b]
                                \/ u[k] = e
    <2> HIDE DEF u, t, e, n
    <2> QED
      BY <1>12
  <1>14. e.rule = r /\ e.seq = mgr.work.seq /\ e.gen = mgr.gen /\ e.match = m
    BY <1>1, Zenon
  <1>15. ASSUME NEW q \in DOMAIN Rules PROVE Streak(q)'
    <2>0. Streak(q)
      BY <1>0, Zenon DEF TrailInv
    <2>1. CASE q # r
      <3>1. trail'[q] = trail[q] /\ rule'[q] = rule[q]
        BY <1>5, <1>6, <2>1, Zenon
      <3>2. ~(mgr'.pc \in Persisting /\ q = mgr'.next)
        BY <1>7, <2>1, Zenon DEF Persisting
      <3> QED
        BY <1>0, <1>7, <2>0, <3>1, <3>2, Zenon DEF Streak
    <2>2. CASE q = r
      <3>1. /\ c <= Len(t) /\ Len(t) <= n
            /\ \A k \in 1 .. Len(t) : k > Len(t) - c => t[k].match /\ t[k].gen = mgr.gen
        BY <1>0, <2>0, <2>2, Zenon DEF Streak
      <3>2. /\ d <= Len(u) /\ Len(u) <= n /\ d <= c + 1 /\ (~m => d = 0) /\ Len(u) \in Nat
            /\ d \in Nat
        <4> HIDE DEF d, c, n, u, t, e
        <4> QED
          BY <1>0, <1>1, <1>5, <1>12, <3>1
      <3>3. ASSUME NEW k \in 1 .. Len(u), k > Len(u) - d PROVE u[k].match /\ u[k].gen = mgr.gen
        <4>1. m
          BY <3>2, <3>3
        <4>2. CASE u[k] = e
          BY <1>14, <4>1, <4>2, Zenon
        <4>3. CASE k + b \in 1 .. Len(t) /\ u[k] = t[k + b]
          <5>1. k + b > Len(t) - c
            <6> HIDE DEF d, u, c, t, n, e
            <6> QED
              BY <1>1, <1>12, <3>2, <3>3
          <5> QED
            BY <3>1, <4>3, <5>1, Zenon
        <4> QED
          BY <1>13, <4>2, <4>3, Zenon
      <3>4. mgr'.pc \in Persisting => d = n
        BY <1>7, Zenon DEF Persisting
      <3> QED
        BY <1>7, <2>2, <3>2, <3>3, <3>4, Zenon DEF Streak
    <2> QED
      BY <2>1, <2>2, Zenon
  <1>16. ASSUME NEW q \in DOMAIN Rules, NEW k \in 1 .. Len(trail'[q])
         PROVE  trail'[q][k].rule = q /\ Over(q, trail[q][k].seq)'
    <2>1. CASE q = r /\ u[k] = e
      BY <1>11, <2>1
    <2>2. ASSUME NEW l \in 1 .. Len(trail[q]), trail'[q][k] = trail[q][l]
          PROVE  trail'[q][k].rule = q /\ Over(q, trail[q][k].seq)'
      <3>1. trail[q][l].rule = q
        BY <1>0, Zenon DEF TrailInv
      <3>2. \A x : x = trail[q][l].seq => Over(q, x)'
        BY <1>0, <1>11, OverStays, Zenon
      <3> QED
        BY <2>2, <3>1, <3>2, Zenon DEF Over
    <2> QED
      BY <1>6, <1>13, <2>1, <2>2, Zenon
  <1>17. TrailInv'
    BY <1>15, <1>16, Zenon DEF TrailInv
  <1>18. ASSUME NEW i \in rows, NEW k \in 1 .. Len(raised[i])
         PROVE  /\ Over(raised[i][k].rule, raised[i][k].seq)'
                /\ \A q \in DOMAIN Rules : \A l \in 1 .. Len(trail'[q]) :
                      raised[i][k] # trail'[q][l]
    <2>1. Over(raised[i][k].rule, raised[i][k].seq)'
      BY <1>0, <1>3, <1>11, OverStays, Zenon DEF Above
    <2>2. \A q \in DOMAIN Rules : \A l \in 1 .. Len(trail[q]) : raised[i][k] # trail[q][l]
      BY <1>0, Zenon DEF RaisedInv
    <2>3. raised[i][k] # e
      <3>1. Over(raised[i][k].rule, raised[i][k].seq)
        BY <1>0, Zenon DEF RaisedInv
      <3> QED
        BY <1>0, <1>1, <3>1 DEF Over
    <2>4. ASSUME NEW q \in DOMAIN Rules, NEW l \in 1 .. Len(trail'[q])
          PROVE  raised[i][k] # trail'[q][l]
      <3>1. CASE q = r
        <4>1. l \in 1 .. Len(u) /\ trail'[q][l] = u[l]
          BY <3>1, Zenon
        <4>2. \A x \in 1 .. Len(t) : raised[i][k] # t[x]
          BY <1>0, <2>2, Zenon
        <4> HIDE DEF u, t, e
        <4> QED
          BY <1>13, <2>3, <4>1, <4>2, Zenon
      <3>2. CASE q # r
        BY <1>6, <2>2, <3>2, Zenon
      <3> QED
        BY <3>1, <3>2, Zenon
    <2> QED
      BY <2>1, <2>4, Zenon
  <1>19. RaisedInv'
    BY <1>3, <1>18 DEF RaisedInv
  <1>20. EarnedRows'
    BY <1>0, <1>3 DEF EarnedRows
  <1> QED
    BY <1>8, <1>10, <1>17, <1>19, <1>20, Zenon DEF EarnedInv

(* The row is added: the rule's trail, a full streak, becomes the alert's. *)
LEMMA InsertStep ==
    ASSUME EarnedInv, StoreInv, Insert, rows' = rows \cup {Id}, Fired(mgr.next),
           UNCHANGED << queue, worker, used >>
    PROVE  EarnedInv'
  <1> DEFINE r == mgr.next
             n == Rules[r].consecutive_frames
             t == trail[r]
             a == Id
  <1>0. /\ EarnedType /\ OrderInv /\ TrailInv /\ RaisedInv /\ EarnedRows /\ rows \subseteq Alerts
        /\ DOMAIN mgr = DOMAIN Off /\ r \in DOMAIN Rules /\ DOMAIN Rules \subseteq Nat
        /\ n \in Nat \ {0} /\ mgr.pc = "insert" /\ mgr.pc \in Persisting
        /\ mgr.pc \in Processing /\ mgr.pc # "off" /\ a \in Alerts \ rows
    BY AlertAssumption DEF Insert, At, Persisting, Processing, StoreInv, StoreType, PersistInv,
                           EarnedInv
  <1>1. /\ rule \in [DOMAIN Rules -> [consecutive : Nat, cooling : BOOLEAN]]
        /\ trail \in [DOMAIN Rules -> Seq(Entries)] /\ raised \in [Alerts -> Seq(Entries)]
        /\ t \in Seq(Entries) /\ Len(t) \in Nat
        /\ rule[r].consecutive \in Nat
    BY <1>0 DEF EarnedType
  <1>2. /\ Len(t) = n
        /\ \A k \in 1 .. Len(t) : t[k].match /\ t[k].gen = mgr.gen /\ t[k].rule = r
    <2>1. Streak(r) /\ \A k \in 1 .. Len(t) : t[k].rule = r
      BY <1>0, Zenon DEF TrailInv
    <2>2. /\ rule[r].consecutive = n /\ rule[r].consecutive <= Len(t) /\ Len(t) <= n
          /\ \A k \in 1 .. Len(t) : k > Len(t) - rule[r].consecutive =>
                t[k].match /\ t[k].gen = mgr.gen
      BY <1>0, <2>1, Zenon DEF Streak
    <2> HIDE DEF t, n
    <2>3. Len(t) = n
      BY <1>1, <2>2
    <2> QED
      BY <2>1, <2>2, <2>3
  <1>3. /\ rule' \in [DOMAIN Rules -> [consecutive : Nat, cooling : BOOLEAN]]
        /\ rule'[r].consecutive = 0 /\ \A q \in DOMAIN Rules \ {r} : rule'[q] = rule[q]
    BY <1>0, <1>1, AlertAssumption, Zenon DEF Fired
  <1>4. /\ trail' \in [DOMAIN Rules -> Seq(Entries)] /\ Len(trail'[r]) = 0
        /\ 1 .. Len(trail'[r]) = {}
        /\ \A q \in DOMAIN Rules \ {r} : trail'[q] = trail[q]
    BY <1>0, <1>1 DEF Fired
  <1>5. /\ raised' \in [Alerts -> Seq(Entries)] /\ raised'[a] = t
        /\ \A i \in rows : raised'[i] = raised[i]
    BY <1>0, <1>1, Zenon DEF Fired
  <1>6. /\ mgr'.gen = mgr.gen /\ mgr'.pc # "off" /\ mgr'.pc \notin Persisting
        /\ mgr'.work.seq \in Nat /\ mgr'.work.gen \in Nat /\ mgr'.gen \in Nat
        /\ mgr'.pc \in Processing =>
              mgr'.pc = "rules" /\ mgr'.work = mgr.work /\ mgr'.next = r + 1
    <2>1. mgr' = Done(mgr)
      BY Zenon DEF Insert, NextRule
    <2>2. /\ mgr'.pc \in {"rules", "idle"} /\ mgr'.gen = mgr.gen
          /\ mgr'.pc = "rules" => mgr'.next = mgr.next + 1 /\ mgr'.work = mgr.work
          /\ mgr'.pc = "idle" => mgr'.work = Off.work
      BY <1>0, <2>1, MgrFacts, Zenon
    <2>3. /\ Off.work.seq = 0 /\ Off.work.gen = 0
          /\ mgr.work.seq \in Nat /\ mgr.work.gen \in Nat /\ mgr.gen \in Nat
      BY <1>0, Zenon DEF EarnedType, Off
    <2> QED
      BY <2>2, <2>3 DEF Processing, Persisting
  <1>7. EarnedType'
    BY <1>0, <1>3, <1>4, <1>5, <1>6, Zenon DEF EarnedType
  <1>8. \A x : Above(x) <=> Above(x)'
    BY Zenon DEF Above
  <1>9. OrderInv'
    BY <1>0, <1>6, <1>8, Zenon DEF OrderInv
  <1>10. OverKept
    BY <1>0, <1>8, <1>6 DEF OverKept, Over
  <1>11. ASSUME NEW q \in DOMAIN Rules PROVE Streak(q)'
    <2>1. CASE q = r
      BY <1>0, <1>3, <1>4, <1>6, <2>1 DEF Streak
    <2>2. CASE q # r
      <3>1. Streak(q) /\ trail'[q] = trail[q] /\ rule'[q] = rule[q]
        BY <1>0, <1>3, <1>4, <2>2, Zenon DEF TrailInv
      <3> QED
        BY <1>0, <1>6, <3>1, Zenon DEF Streak
    <2> QED
      BY <2>1, <2>2, Zenon
  <1>12. ASSUME NEW q \in DOMAIN Rules, NEW k \in 1 .. Len(trail'[q])
         PROVE  q # r /\ trail'[q] = trail[q] /\ trail'[q][k].rule = q /\ Over(q, trail[q][k].seq)'
    <2>1. q # r /\ trail'[q] = trail[q]
      BY <1>4, Zenon
    <2>2. trail[q][k].rule = q
      BY <1>0, <2>1, Zenon DEF TrailInv
    <2>3. \A x : x = trail[q][k].seq => Over(q, x)'
      BY <1>0, <1>10, <2>1, OverStays, Zenon DEF Above
    <2> QED
      BY <2>1, <2>2, <2>3, Zenon
  <1>13. TrailInv'
    BY <1>11, <1>12, Zenon DEF TrailInv
  <1>14. ASSUME NEW i \in rows', NEW k \in 1 .. Len(raised'[i])
         PROVE  /\ Over(raised[i][k].rule, raised[i][k].seq)'
                /\ \A q \in DOMAIN Rules : \A l \in 1 .. Len(trail'[q]) :
                      raised'[i][k] # trail'[q][l]
    <2>1. CASE i \in rows
      <3>1. raised'[i] = raised[i]
        BY <1>5, <2>1, Zenon
      <3>2. \A p, x : p = raised[i][k].rule /\ x = raised[i][k].seq => Over(p, x)'
        BY <1>0, <1>10, <2>1, <3>1, OverStays, Zenon
      <3>3. \A q \in DOMAIN Rules : \A l \in 1 .. Len(trail[q]) : raised[i][k] # trail[q][l]
        BY <1>0, <2>1, <3>1, Zenon DEF RaisedInv
      <3>4. Over(raised[i][k].rule, raised[i][k].seq)'
        BY <3>1, <3>2, Zenon
      <3>5. ASSUME NEW q \in DOMAIN Rules, NEW l \in 1 .. Len(trail'[q])
            PROVE  raised'[i][k] # trail'[q][l]
        BY <1>12, <3>1, <3>3
      <3> QED
        BY <3>4, <3>5, Zenon
    <2>2. CASE i = a
      <3>1. raised'[i] = t /\ k \in 1 .. Len(t) /\ t[k].rule = r
        BY <1>2, <1>5, <2>2, Zenon
      <3>2. \A p, x : p = r /\ x = t[k].seq => Over(p, x)'
        BY <1>0, <1>10, <3>1, OverStays, Zenon
      <3>3. Over(raised[i][k].rule, raised[i][k].seq)'
        BY <3>1, <3>2, Zenon
      <3>4. ASSUME NEW q \in DOMAIN Rules, NEW l \in 1 .. Len(trail'[q])
            PROVE  raised'[i][k] # trail'[q][l]
        BY <1>12, <3>1
      <3> QED
        BY <3>3, <3>4, Zenon
    <2> QED
      BY <2>1, <2>2, Zenon
  <1>15. RaisedInv'
    BY <1>14, Zenon DEF RaisedInv
  <1>16. \A i \in rows : \A k \in 1 .. Len(raised[i]) : \A l \in 1 .. Len(t) : raised[i][k] # t[l]
    BY <1>0, Zenon DEF RaisedInv
  <1>17. ASSUME NEW i \in rows'
         PROVE  /\ Len(raised'[i]) = Rules[raised'[i][1].rule].consecutive_frames
                /\ \A k \in 1 .. Len(raised'[i]) :
                      /\ raised'[i][k].match /\ raised'[i][k].gen = raised'[i][1].gen
                      /\ \A j \in rows' \ {i} : \A l \in 1 .. Len(raised'[j]) :
                            raised'[i][k] # raised'[j][l]
    <2>1. CASE i \in rows
      <3>1. /\ Len(raised[i]) = Rules[raised[i][1].rule].consecutive_frames
            /\ \A k \in 1 .. Len(raised[i]) :
                  /\ raised[i][k].match /\ raised[i][k].gen = raised[i][1].gen
                  /\ \A j \in rows \ {i} : \A l \in 1 .. Len(raised[j]) :
                        raised[i][k] # raised[j][l]
        BY <1>0, <2>1, Zenon DEF EarnedRows
      <3>2. ASSUME NEW k \in 1 .. Len(raised[i]), NEW j \in rows' \ {i},
                   NEW l \in 1 .. Len(raised'[j])
            PROVE  raised[i][k] # raised'[j][l]
        <4>1. CASE j \in rows
          BY <1>5, <3>1, <4>1
        <4>2. CASE j = a
          BY <1>5, <1>16, <4>2
        <4> QED
          BY <4>1, <4>2, Zenon
      <3>3. raised'[i] = raised[i]
        BY <1>5, <2>1, Zenon
      <3> QED
        BY <3>1, <3>2, <3>3
    <2>2. CASE i = a
      <3>1. raised'[i] = t
        BY <1>5, <2>2, Zenon
      <3>2. 1 \in 1 .. Len(t)
        BY <1>0, <1>2
      <3>3. ASSUME NEW k \in 1 .. Len(t), NEW j \in rows' \ {i}, NEW l \in 1 .. Len(raised'[j])
            PROVE  t[k] # raised'[j][l]
        BY <1>5, <2>2, <1>16
      <3>4. /\ Len(t) = Rules[t[1].rule].consecutive_frames
            /\ \A k \in 1 .. Len(t) : t[k].match /\ t[k].gen = t[1].gen
        BY <1>2, <3>2, Zenon
      <3> HIDE DEF t
      <3> QED
        BY <3>1, <3>3, <3>4, Zenon
    <2> QED
      BY <2>1, <2>2, Zenon
  <1>18. EarnedRows'
    BY <1>17, Zenon DEF EarnedRows
  <1> QED
    BY <1>7, <1>9, <1>13, <1>15, <1>18, Zenon DEF EarnedInv

(* At the start there is nothing to earn. *)
LEMMA EarnedInit == Init => EarnedInv
  <1> SUFFICES ASSUME Init PROVE EarnedInv
    BY Zenon
  <1>1. /\ mgr = Off /\ rows = {} /\ worker = Idle /\ queue = reset
        /\ rule = [r \in DOMAIN Rules |-> NewRule] /\ trail = [r \in DOMAIN Rules |-> << >>]
        /\ raised = [i \in Alerts |-> << >>]
    BY Zenon DEF Init, InitAlerts
  <1>2. mgr.pc = "off" /\ mgr.work.seq = 0 /\ mgr.work.gen = 0 /\ mgr.gen = 0 /\ worker.pc = "off"
    BY <1>1, Zenon DEF Off, Idle
  <1>3. reset \in Queues /\ reset.items = << >>
    BY DEF reset, Queues
  <1>4. << >> \in Seq(Entries) /\ NewRule \in [consecutive : Nat, cooling : BOOLEAN]
    BY DEF NewRule
  <1>5. EarnedType
    BY <1>1, <1>2, <1>3, <1>4 DEF EarnedType
  <1>6. OrderInv
    BY <1>1, <1>2, <1>3 DEF OrderInv, Processing, Persisting
  <1>7. TrailInv
    BY <1>1, AlertAssumption, <1>2 DEF NewRule, TrailInv, Streak, Persisting
  <1>8. RaisedInv /\ EarnedRows
    BY <1>1, Zenon DEF RaisedInv, EarnedRows
  <1> QED
    BY <1>5, <1>6, <1>7, <1>8, Zenon DEF EarnedInv

(* Every step of the pipeline. *)
LEMMA EarnedStep ==
    ASSUME EarnedInv, StoreInv, ApiInv, Counts, [Next]_vars
    PROVE  EarnedInv'
  <1>1. CASE \/ \E f \in Frames : PopFrame(f)
             \/ Detect \/ DetectFails \/ WorkerEnds \/ Poll \/ Stale \/ Start \/ Stop
             \/ StopModules \/ (\E on \in BOOLEAN : Switch(on)) \/ UNCHANGED vars
    BY <1>1, ThreadStep, Zenon
  <1>2. CASE TakeWork
    BY <1>2, TakeWorkStep, Zenon
  <1>3. CASE Boot \/ Wait \/ Crash
    BY <1>3, RestartStep, Zenon
  <1>4. CASE Evaluate /\ UNCHANGED << queue, worker, used >>
    BY <1>4, EvaluateStep, Zenon
  <1>5. CASE /\ Insert /\ rows' = rows \cup {Id} /\ Fired(mgr.next)
             /\ UNCHANGED << queue, worker, used >>
    BY <1>5, InsertStep, Zenon
  <1>6. CASE /\ UNCHANGED << queue, worker, used >>
             /\ \/ Write \/ Sync \/ Publish \/ SyncName \/ (Insert /\ NoRule /\ UNCHANGED rows)
                \/ CleanupOldest \/ NextExcess \/ Quarantine \/ SyncQuarantine \/ Delete \/ SyncBack
                \/ Purge \/ SyncPurge \/ SyncReconciled \/ Reconciled
                \/ (\E i \in Alerts : Reconcile(i)) \/ AlertWorkerEnds
    BY <1>6, ManagerMoves, MovedStep, Zenon DEF Moved
  <1>7. Insert => \/ rows' = rows \cup {Id} /\ Fired(mgr.next)
                  \/ NoRule /\ UNCHANGED rows
    BY Zenon DEF Insert
  <1>8. AlertWorkerEnds => UNCHANGED << queue, worker, used >>
    BY Zenon DEF AlertWorkerEnds, process
  <1>9. UNCHANGED << wd, process, api, worker, queue >> => UNCHANGED << queue, worker, used >>
    BY Zenon DEF process
  <1>10. CASE Store /\ UNCHANGED << queue, worker, used >>
    BY <1>4, <1>5, <1>6, <1>7, <1>10, Zenon DEF Store
  <1> QED
    BY <1>1, <1>2, <1>3, <1>6, <1>8, <1>9, <1>10, Zenon DEF Next

(* EarnedInv holds throughout. *)
LEMMA EarnedCorrect == Spec => []EarnedInv
  <1>1. EarnedInv /\ StoreInv /\ ApiInv /\ Counts /\ [Next]_vars => EarnedInv'
    BY EarnedStep, Zenon
  <1> QED
    BY <1>1, EarnedInit, StoreCorrect, ApiCorrect, CountsCorrect, PTL DEF Spec

(* Every recorded alert is earned, for every list of rules and every length  *)
(* of their streaks, whatever fails on the way, however often the detector   *)
(* is switched and the process restarted (AlertManager::process).            *)
THEOREM AlertsEarnedCorrect == Spec => []AlertsEarned
  <1>1. EarnedInv /\ StoreInv => AlertsEarned
    <2> SUFFICES ASSUME EarnedInv, StoreInv PROVE AlertsEarned
      BY Zenon
    <2>1. EarnedRows /\ EarnedType /\ rows \subseteq Alerts
      BY Zenon DEF EarnedInv, StoreInv, StoreType
    <2>2. \A i \in rows : Range(raised[i]) = {raised[i][k] : k \in 1 .. Len(raised[i])}
      BY <2>1 DEF Range
    <2>3. ASSUME NEW i \in rows
          PROVE  /\ Len(raised[i]) = Rules[raised[i][1].rule].consecutive_frames
                 /\ \A k \in 1 .. Len(raised[i]) :
                       /\ raised[i][k].match /\ raised[i][k].gen = raised[i][1].gen
                       /\ \A j \in rows \ {i} : \A l \in 1 .. Len(raised[j]) :
                             raised[i][k] # raised[j][l]
      BY <2>1, Zenon DEF EarnedRows
    <2>4. ASSUME NEW i \in rows, NEW j \in rows \ {i}
          PROVE  Range(raised[i]) \cap Range(raised[j]) = {}
      <3>2. \A w \in Range(raised[i]) : \E k \in 1 .. Len(raised[i]) : w = raised[i][k]
        BY <2>2, Zenon
      <3>3. \A w \in Range(raised[j]) : \E l \in 1 .. Len(raised[j]) : w = raised[j][l]
        BY <2>2, Zenon
      <3>4. \A k \in 1 .. Len(raised[i]) : \A l \in 1 .. Len(raised[j]) : raised[i][k] # raised[j][l]
        BY <2>3, Zenon
      <3> QED
        BY <3>2, <3>3, <3>4
    <2>5. ASSUME NEW i \in rows, NEW w \in Range(raised[i])
          PROVE  w.match /\ w.gen = raised[i][1].gen
      <3>1. PICK k \in 1 .. Len(raised[i]) : w = raised[i][k]
        BY <2>2, Zenon
      <3> QED
        BY <2>3, <3>1, Zenon
    <2> QED
      BY <2>3, <2>4, <2>5, Zenon DEF AlertsEarned
  <1> QED
    BY <1>1, EarnedCorrect, StoreCorrect, PTL
=============================================================================
