---------------------------- MODULE AlertManager ----------------------------
(* Alerts and their storage: AlertManager (alerts/alert_manager.cpp), the    *)
(* AlertRepository and the Database below it (storage/*.cpp), the directory  *)
(* of snapshots, and the loss of power.  A call of the file system or of     *)
(* SQLite is one step, so that a crash can fall between any two of them.     *)
(*                                                                           *)
(* An alert's snapshot has one name at a time: none, "tmp" (.tmp.jpg),       *)
(* "final" (.jpg) or "deleting" (.jpg.deleting).  A change of name may or    *)
(* may not survive a loss of power until the directory is synced, and what   *)
(* was written is torn if it was not synced.  The entry of a new date direc- *)
(* tory is taken to survive with the files in it.  SQLite runs in WAL mode   *)
(* with synchronous = FULL: a COMMIT that succeeds is durable, and one that  *)
(* fails leaves no row.                                                      *)
EXTENDS YoloPostprocess, Functions

CONSTANTS Rules,       \* the alert rules, a sequence of records
          Keep_,       \* cleanup_oldest's "keep"
          MaxAlerts,   \* bounds: alerts begun, and disturbances (failures,
          MaxEvents    \* cleanups, switches of the detector)

ASSUME AlertAssumption ==
    /\ {Keep_, MaxAlerts, MaxEvents} \subseteq Nat
    /\ Len(Rules) \in Nat \ {0} /\ DOMAIN Rules = 1 .. Len(Rules)
    /\ \A r \in DOMAIN Rules :
          Rules[r].consecutive_frames \in Nat \ {0} /\ Rules[r].cooldown \in BOOLEAN

Alerts == 1..MaxAlerts          \* ids, in the order of their timestamps

VARIABLES file,      \* the name each snapshot has now
          disk,      \* the names a loss of power can leave it with
          data,      \* its contents: "none", "cached", "synced" or "torn"
          rows,      \* alerts in the database
          db,        \* the connection: open, operational_error_, and whether
                     \* an error that makes it unusable has happened
          mgr,       \* where the manager is, the alert and the rule in hand
          rule,      \* for each rule: consecutive, and whether it is cooling down
          trail,     \* for each rule: the works processed since its last alert
          raised,    \* for each alert: the works it was raised for
          spent      \* ids and disturbances used up
store   == << file, disk, data, rows, db >>
manager == << mgr, rule, trail, raised, spent >>

NewRule == [consecutive |-> 0, cooling |-> FALSE]
NewDb   == [open |-> FALSE, error |-> FALSE, broken |-> FALSE]
Off     == [pc |-> "off", id |-> 0, next |-> 1, work |-> [gen |-> 0, seq |-> 0, found |-> << >>],
            gen |-> 0, todo |-> {}, clean |-> FALSE]

InitAlerts ==
    /\ file = [i \in Alerts |-> "none"] /\ disk = [i \in Alerts |-> {"none"}]
    /\ data = [i \in Alerts |-> "none"] /\ rows = {} /\ db = NewDb /\ mgr = Off
    /\ rule = [r \in DOMAIN Rules |-> NewRule] /\ trail = [r \in DOMAIN Rules |-> << >>]
    /\ raised = [i \in Alerts |-> << >>] /\ spent = [ids |-> 0, events |-> 0]

Event   == spent.events < MaxEvents /\ spent' = [spent EXCEPT !.events = @ + 1]
Fault   == Event
NoFault == UNCHANGED spent

At(p)   == mgr.pc = p
Goto(p) == mgr' = [mgr EXCEPT !.pc = p]
Id      == mgr.id                \* the alert in hand

(* The file system. *)
SetName(n)  == file' = [file EXCEPT ![Id] = n] /\ disk' = [disk EXCEPT ![Id] = @ \cup {n}]
Rename(n)   == SetName(n) /\ UNCHANGED data
Unlink      == SetName("none") /\ UNCHANGED data
SyncDir     == disk' = [disk EXCEPT ![Id] = {file[Id]}] /\ UNCHANGED << file, data >>
NoFile      == UNCHANGED << file, disk, data >>
NoDb        == UNCHANGED << rows, db >>
NoRule      == UNCHANGED << rule, trail, raised >>

(* Mutant of record_operational_error: the error is not kept. *)
record_operational_error_Dropped(serious) == [db EXCEPT !.broken = @ \/ serious]

(* Database::record_operational_error_locked: full disks, I/O errors and the *)
(* like are kept for health_error, a busy database is not.                   *)
record_operational_error(serious) ==
    [db EXCEPT !.error = @ \/ serious, !.broken = @ \/ serious]

(* Database::close; operational_error_ stays until the next open. *)
close == [db EXCEPT !.open = FALSE]

(* Database::health_error is not empty. *)
health_error == ~db.open \/ db.error
-----------------------------------------------------------------------------
(* Mutant of NewGeneration: a rule goes on counting across generations. *)
NewGeneration_KeepsCounts(gen) == rule

(* process: a change of the detector's generation restarts every count. *)
NewGeneration(gen) ==
    IF mgr.gen = gen THEN rule
    ELSE [r \in DOMAIN Rules |-> [rule[r] EXCEPT !.consecutive = 0]]

Process(work) ==
    /\ At("idle")
    /\ rule' = NewGeneration(work.gen)
    /\ mgr' = [mgr EXCEPT !.pc = "rules", !.work = work, !.gen = work.gen]
    /\ UNCHANGED << store, trail, raised, spent >>

(* The works a rule has seen, as far back as its alert needs them. *)
Extended(r, match) ==
    LET n == Rules[r].consecutive_frames
        t == Append(trail[r], [rule |-> r, seq |-> mgr.work.seq,
                                 gen |-> mgr.work.gen, match |-> match])
    IN  IF Len(t) > n THEN Tail(t) ELSE t

(* The rule is done with, and with the last one the work. *)
Done(m) == IF m.next + 1 \in DOMAIN Rules THEN [m EXCEPT !.pc = "rules", !.next = @ + 1]
           ELSE [m EXCEPT !.pc = "idle", !.work = Off.work, !.id = 0, !.next = 1]

(* One rule: no match, too few of them or too early, or a new alert.  The    *)
(* cooldown of the last alert may be over by now.                            *)
Evaluate ==
    /\ At("rules")
    /\ \E early \in {FALSE, rule[mgr.next].cooling} :
       LET r     == mgr.next
           match == Matches(mgr.work.found, Rules[r])
           count == Min({rule[r].consecutive + 1, Rules[r].consecutive_frames})
           fires == match /\ count = Rules[r].consecutive_frames /\ ~early
       IN  /\ rule' = [rule EXCEPT ![r] = [consecutive |-> IF match THEN count ELSE 0,
                                           cooling |-> early]]
           /\ trail' = [trail EXCEPT ![r] = Extended(r, match)]
           /\ fires => spent.ids < MaxAlerts
           /\ mgr' = IF fires THEN [mgr EXCEPT !.pc = "write", !.id = spent.ids + 1]
                     ELSE Done(mgr)
           /\ spent' = IF fires THEN [spent EXCEPT !.ids = @ + 1] ELSE spent
    /\ UNCHANGED << store, raised >>

(* persist returned, TRUE or with an error that is reported. *)
NextRule == mgr' = Done(mgr)

(* imwrite to the temporary name; a failure removes what there is of it, or  *)
(* tries to.  A frame or directory that cannot be used is a failure, too.    *)
Write ==
    /\ At("write")
    /\ LET written == SetName("tmp") /\ data' = [data EXCEPT ![Id] = "cached"]
       IN  \/ NoFault /\ Goto("sync") /\ written
           \/ Fault /\ NextRule /\ (NoFile \/ written)
    /\ NoDb /\ NoRule

(* sync_path(temporary_path); a failure leaves the file where it is. *)
Sync ==
    /\ At("sync")
    /\ \/ NoFault /\ Goto("rename") /\ data' = [data EXCEPT ![Id] = "synced"]
       \/ Fault /\ NextRule /\ UNCHANGED data
    /\ UNCHANGED << file, disk >> /\ NoDb /\ NoRule

Publish ==
    /\ At("rename")
    /\ \/ NoFault /\ Goto("syncdir") /\ Rename("final")
       \/ Fault /\ NextRule /\ (Unlink \/ NoFile)
    /\ NoDb /\ NoRule

(* Mutant of SyncName: the directory is not synced before the row is added. *)
SyncName_Skipped == At("syncdir") /\ Goto("insert") /\ NoFault /\ NoFile /\ NoDb /\ NoRule

(* sync_path(directory); a failure leaves a snapshot without a row. *)
SyncName ==
    /\ At("syncdir")
    /\ \/ NoFault /\ Goto("insert") /\ SyncDir
       \/ Fault /\ NextRule /\ NoFile
    /\ NoDb /\ NoRule

(* The rule has fired: its streak ends and its cooldown begins. *)
Fired(r) ==
    /\ rule' = [rule EXCEPT ![r] = [consecutive |-> 0, cooling |-> Rules[r].cooldown]]
    /\ raised' = [raised EXCEPT ![Id] = trail[r]]
    /\ trail' = [trail EXCEPT ![r] = << >>]

(* AlertRepository::insert, one transaction.  A failure rolls it back and    *)
(* removes the snapshot, or tries to.                                        *)
Insert ==
    /\ At("insert") /\ NextRule
    /\ \/ /\ db.open /\ NoFault
          /\ rows' = rows \cup {Id}
          /\ Fired(mgr.next)
          /\ NoFile /\ UNCHANGED db
       \/ /\ Unlink \/ NoFile
          /\ UNCHANGED rows /\ NoRule
          /\ \/ ~db.open /\ NoFault /\ UNCHANGED db
             \/ /\ db.open /\ Fault
                /\ \E serious \in BOOLEAN : db' = record_operational_error(serious)

-----------------------------------------------------------------------------
(* cleanup_oldest.  The service itself has no caller yet, only a unit test;  *)
(* the class has no lock of its own, so a caller takes turns with process.   *)
Return(ok) == mgr' = [mgr EXCEPT !.pc = "idle", !.id = 0, !.todo = {}, !.clean = @ /\ ok]

(* AlertRepository::find_oldest_excess. *)
Oldest == CHOOSE s \in SUBSET rows :
              /\ Cardinality(s) = Max({0, Cardinality(rows) - Keep_})
              /\ \A i \in s, j \in rows \ s : i < j

CleanupOldest ==
    /\ At("idle") /\ db.open /\ Event
    /\ mgr' = [mgr EXCEPT !.pc = "excess", !.todo = Oldest]
    /\ NoFile /\ NoDb /\ NoRule

NextExcess ==
    /\ At("excess") /\ NoFault
    /\ IF mgr.todo = {} THEN Return(TRUE)
       ELSE mgr' = [mgr EXCEPT !.pc = "quarantine", !.id = Min(mgr.todo),
                               !.todo = @ \ {Min(@)}]
    /\ NoFile /\ NoDb /\ NoRule

(* A snapshot that is not at its path cannot be renamed. *)
Quarantine ==
    /\ At("quarantine")
    /\ \/ file[Id] = "final" /\ NoFault /\ Goto("syncq") /\ Rename("deleting")
       \/ (IF file[Id] = "final" THEN Fault ELSE NoFault) /\ Return(FALSE) /\ NoFile
    /\ NoDb /\ NoRule

SyncQuarantine ==
    /\ At("syncq")
    /\ \/ NoFault /\ Goto("delete") /\ SyncDir
       \/ Fault /\ Return(FALSE) /\ NoFile
    /\ NoDb /\ NoRule

(* AlertRepository::remove; on a failure the snapshot gets its name back. *)
Delete ==
    /\ At("delete") /\ NoRule
    /\ \/ db.open /\ NoFault /\ Goto("purge") /\ rows' = rows \ {Id} /\ NoFile /\ UNCHANGED db
       \/ /\ Goto("syncback") /\ UNCHANGED rows
          /\ Rename("final") \/ NoFile
          /\ \/ ~db.open /\ NoFault /\ UNCHANGED db
             \/ /\ db.open /\ Fault
                /\ \E serious \in BOOLEAN : db' = record_operational_error(serious)

SyncBack ==
    /\ At("syncback") /\ Return(FALSE) /\ NoDb /\ NoRule
    /\ (NoFault /\ SyncDir) \/ (Fault /\ NoFile)

Purge ==
    /\ At("purge")
    /\ \/ NoFault /\ Goto("syncp") /\ Unlink
       \/ Fault /\ Return(FALSE) /\ NoFile
    /\ NoDb /\ NoRule

SyncPurge ==
    /\ At("syncp")
    /\ \/ NoFault /\ Goto("excess") /\ SyncDir
       \/ Fault /\ Return(FALSE) /\ NoFile
    /\ NoDb /\ NoRule
-----------------------------------------------------------------------------
(* Database::open_locked: the file and its directory, the pragmas and the    *)
(* schema, or none of it.  An open connection stays as it is.                *)
open_locked(ok) == IF db.open \/ ~ok THEN db ELSE [NewDb EXCEPT !.open = TRUE]

(* AlertManager::configure, up to its reconcile. *)
Configure ==
    /\ At("off")
    /\ mgr' = [Off EXCEPT !.pc = "reconcile", !.todo = {i \in Alerts : file[i] = "deleting"}]
    /\ rule' = [r \in DOMAIN Rules |-> NewRule] /\ trail' = [r \in DOMAIN Rules |-> << >>]
    /\ UNCHANGED << file, disk, data, rows, raised >>

(* reconcile_deletions: a tombstone whose row exists gets its name back, any *)
(* other goes.  The directory is read in no particular order; the first      *)
(* failure ends it.                                                          *)
Reconcile(i) ==
    /\ At("reconcile") /\ i \in mgr.todo
    /\ \/ /\ NoFault
          /\ mgr' = [mgr EXCEPT !.pc = "syncr", !.id = i, !.todo = @ \ {i}]
          /\ LET n == IF i \in rows THEN "final" ELSE "none"
             IN  file' = [file EXCEPT ![i] = n] /\ disk' = [disk EXCEPT ![i] = @ \cup {n}]
          /\ UNCHANGED data
       \/ Fault /\ Return(FALSE) /\ NoFile
    /\ NoDb /\ NoRule

SyncReconciled ==
    /\ At("syncr")
    /\ \/ NoFault /\ Goto("reconcile") /\ SyncDir
       \/ Fault /\ Return(FALSE) /\ NoFile
    /\ NoDb /\ NoRule

Reconciled ==
    /\ At("reconcile") /\ mgr.todo = {} /\ NoFault
    /\ mgr' = [mgr EXCEPT !.pc = "idle", !.id = 0, !.clean = TRUE]
    /\ NoFile /\ NoDb /\ NoRule

(* The process dies, alone or with the machine. *)
Die ==
    /\ db' = NewDb /\ mgr' = Off /\ UNCHANGED << rows, raised, spent >>
    /\ rule' = [r \in DOMAIN Rules |-> NewRule] /\ trail' = [r \in DOMAIN Rules |-> << >>]
    /\ \/ NoFile
       \/ \E f \in [Alerts -> {"none", "tmp", "final", "deleting"}] :
             /\ \A i \in Alerts : f[i] \in disk[i]
             /\ file' = f /\ disk' = [i \in Alerts |-> {f[i]}]
             /\ data' = [i \in Alerts |-> IF data[i] = "cached" THEN "torn" ELSE data[i]]

Store ==
    \/ Evaluate \/ Write \/ Sync \/ Publish \/ SyncName \/ Insert
    \/ CleanupOldest \/ NextExcess \/ Quarantine \/ SyncQuarantine \/ Delete \/ SyncBack
    \/ Purge \/ SyncPurge \/ SyncReconciled \/ Reconciled
    \/ \E i \in Alerts : Reconcile(i)
-----------------------------------------------------------------------------
Cleaning == mgr.pc \in {"quarantine", "syncq", "delete", "syncback", "purge", "syncp", "excess"}

(* A row never outlives its snapshot: whatever fails and wherever the power  *)
(* goes, the snapshot of an alert in the database is there in full, under    *)
(* its own name or as a tombstone; and under its own name once a start has   *)
(* reconciled the directory, unless a cleanup is under way or has failed     *)
(* (persist, cleanup_oldest, reconcile_deletions).                           *)
SnapshotSurvives ==
    \A i \in rows : /\ data[i] = "synced" /\ file[i] \in {"final", "deleting"}
                    /\ mgr.clean /\ ~Cleaning => file[i] = "final"

(* An alert is earned: each one recorded stands on as many works in a row as *)
(* its rule asks for, all of them matching, of one generation of the detec-  *)
(* tor, and used for no other alert, even when earlier attempts to store it  *)
(* failed (AlertManager::process).                                           *)
AlertsEarned ==
    \A i \in rows :
        /\ Len(raised[i]) = Rules[raised[i][1].rule].consecutive_frames
        /\ \A w \in Range(raised[i]) : w.match /\ w.gen = raised[i][1].gen
        /\ \A j \in rows \ {i} : Range(raised[i]) \cap Range(raised[j]) = {}
=============================================================================
