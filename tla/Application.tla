---------------------------- MODULE Application -----------------------------
(* skai::Application (application.cpp): the lifecycle of the service's       *)
(* modules.  The module list is 1 .. N in initialization order.  One thread  *)
(* initializes and starts (main.cpp); any thread may stop and wait.          *)
(* initialize and start hold mutex_ while they call into the modules; stop   *)
(* and wait release it around their loops, which is where threads interleave.*)
(* A call that returns early (wrong state, unreadable configuration) changes *)
(* nothing but the error text, which is left out.                            *)
EXTENDS Naturals

CONSTANTS Threads,   \* threads with a reference to the application
          Main,      \* the thread that initializes and starts it
          N          \* number of modules present

ASSUME MainAssumption == Main \in Threads
ASSUME NAssumption == N \in Nat \ {0}

VARIABLES state,    \* state_
          active,   \* active_ is the modules 1 .. active
          mutex,    \* {} or {the thread that holds mutex_ across steps}
          pc, idx,  \* position of each thread and of its loop over active_
          failing,  \* threads inside the failure path of start()
          mstate,   \* lifecycle state of each module
          misuse    \* modules that were called outside LifecycleModule's contract

app == << state, active, mutex, pc, idx, failing, mstate, misuse >>

Modules == 1 .. N

AppInit == /\ state = "New" /\ active = 0 /\ mutex = {}
           /\ pc = [t \in Threads |-> "idle"] /\ idx = [t \in Threads |-> 0]
           /\ failing = {} /\ mstate = [m \in Modules |-> "down"] /\ misuse = {}

(* LifecycleModule's contract: the states in which each call is expected. *)
Expected(op) == CASE op = "initialize" -> {"down"}
                  [] op = "start"      -> {"ready"}
                  [] op = "stop"       -> {"ready", "running"}
                  [] op = "wait"       -> {"stopped"}

(* A call of op on module m that moves it to state s. *)
Call(op, m, s) == /\ mstate' = [mstate EXCEPT ![m] = s]
                  /\ misuse' = IF mstate[m] \in Expected(op)
                               THEN misuse ELSE misuse \cup {m}

Goto(t, label, i) == /\ pc' = [pc EXCEPT ![t] = label]
                     /\ idx' = [idx EXCEPT ![t] = i]

(* initialize() past its state check and load_config. *)
BeginInitialize(t) ==
    /\ t = Main /\ pc[t] = "idle" /\ mutex = {} /\ state = "New"
    /\ mutex' = {t}
    /\ Goto(t, "initializing", 1)
    /\ UNCHANGED << state, active, failing, mstate, misuse >>

(* The loop of initialize(): the next module succeeds or fails. *)
InitModule(t) ==
    /\ pc[t] = "initializing"
    /\ \/ /\ Call("initialize", idx[t], "ready")
          /\ active' = idx[t]
          /\ IF idx[t] = N
             THEN state' = "Initialized" /\ mutex' = {} /\ Goto(t, "idle", 0)
             ELSE Goto(t, "initializing", idx[t] + 1) /\ UNCHANGED << state, mutex >>
       \/ /\ Goto(t, "rollback_stop", active)
          /\ UNCHANGED << state, active, mutex, mstate, misuse >>
    /\ UNCHANGED failing

(* The failure path of initialize(): stop in reverse, then wait in reverse. *)
RollbackStop(t) ==
    /\ pc[t] = "rollback_stop"
    /\ IF idx[t] = 0
       THEN Goto(t, "rollback_wait", active) /\ UNCHANGED << mstate, misuse >>
       ELSE Call("stop", idx[t], "stopped") /\ Goto(t, "rollback_stop", idx[t] - 1)
    /\ UNCHANGED << state, active, mutex, failing >>

RollbackWait(t) ==
    /\ pc[t] = "rollback_wait"
    /\ IF idx[t] = 0
       THEN /\ active' = 0 /\ mutex' = {} /\ Goto(t, "idle", 0)
            /\ UNCHANGED << mstate, misuse >>
       ELSE /\ Call("wait", idx[t], "down") /\ Goto(t, "rollback_wait", idx[t] - 1)
            /\ UNCHANGED << active, mutex >>
    /\ UNCHANGED << state, failing >>

(* start() past its state check. *)
BeginStart(t) ==
    /\ t = Main /\ pc[t] = "idle" /\ mutex = {} /\ state = "Initialized"
    /\ mutex' = {t}
    /\ Goto(t, "starting", 1)
    /\ UNCHANGED << state, active, failing, mstate, misuse >>

(* Mutant of StartModule: the failure path waits without having stopped. *)
StartModule_NoStop(t) ==
    /\ pc[t] = "starting"
    /\ \/ /\ Call("start", idx[t], "running")
          /\ IF idx[t] = active
             THEN state' = "Running" /\ mutex' = {} /\ Goto(t, "idle", 0)
             ELSE Goto(t, "starting", idx[t] + 1) /\ UNCHANGED << state, mutex >>
          /\ UNCHANGED failing
       \/ /\ mutex' = {}
          /\ Goto(t, "waiting", 0)
          /\ failing' = failing \cup {t}
          /\ UNCHANGED << state, mstate, misuse >>
    /\ UNCHANGED active

(* The loop of start(); a failure unlocks before stop() and wait(). *)
StartModule(t) ==
    /\ pc[t] = "starting"
    /\ \/ /\ Call("start", idx[t], "running")
          /\ IF idx[t] = active
             THEN state' = "Running" /\ mutex' = {} /\ Goto(t, "idle", 0)
             ELSE Goto(t, "starting", idx[t] + 1) /\ UNCHANGED << state, mutex >>
          /\ UNCHANGED failing
       \/ /\ mutex' = {}
          /\ Goto(t, "start_failed", 0)
          /\ failing' = failing \cup {t}
          /\ UNCHANGED << state, mstate, misuse >>
    /\ UNCHANGED active

(* Mutant of BeginStop: the state is not moved to Stopping. *)
BeginStop_NoStopping(t) ==
    /\ pc[t] \in {"idle", "start_failed"} /\ mutex = {}
    /\ \/ /\ state \in {"Initialized", "Running"}
          /\ Goto(t, "stopping", active)
          /\ UNCHANGED state
       \/ /\ state \notin {"Initialized", "Running"} /\ pc[t] = "start_failed"
          /\ Goto(t, "waiting", 0)
          /\ UNCHANGED state
    /\ UNCHANGED << active, mutex, failing, mstate, misuse >>

(* stop(): claim the shutdown, or return and (inside start) go on to wait(). *)
BeginStop(t) ==
    /\ pc[t] \in {"idle", "start_failed"} /\ mutex = {}
    /\ \/ /\ state \in {"Initialized", "Running"}
          /\ state' = "Stopping"
          /\ Goto(t, "stopping", active)
       \/ /\ state \notin {"Initialized", "Running"} /\ pc[t] = "start_failed"
          /\ Goto(t, "waiting", 0)
          /\ UNCHANGED state
    /\ UNCHANGED << active, mutex, failing, mstate, misuse >>

(* Mutant of StopModules: modules are stopped in initialization order. *)
StopModules_Forward(t) ==
    /\ pc[t] = "stopping"
    /\ IF idx[t] = 0
       THEN /\ mutex = {}
            /\ state' = "Stopped"
            /\ Goto(t, IF t \in failing THEN "waiting" ELSE "idle", 0)
            /\ UNCHANGED << mstate, misuse >>
       ELSE /\ Call("stop", active + 1 - idx[t], "stopped")
            /\ Goto(t, "stopping", idx[t] - 1)
            /\ UNCHANGED state
    /\ UNCHANGED << active, mutex, failing >>

(* Mutant of StopModules: stop() ends without announcing Stopped. *)
StopModules_Silent(t) ==
    /\ pc[t] = "stopping"
    /\ IF idx[t] = 0
       THEN /\ mutex = {}
            /\ Goto(t, IF t \in failing THEN "waiting" ELSE "idle", 0)
            /\ UNCHANGED << mstate, misuse >>
       ELSE /\ Call("stop", idx[t], "stopped")
            /\ Goto(t, "stopping", idx[t] - 1)
    /\ UNCHANGED << state, active, mutex, failing >>

(* The unlocked reverse loop of stop(), then Stopped under the mutex. *)
StopModules(t) ==
    /\ pc[t] = "stopping"
    /\ IF idx[t] = 0
       THEN /\ mutex = {}
            /\ state' = "Stopped"
            /\ Goto(t, IF t \in failing THEN "waiting" ELSE "idle", 0)
            /\ UNCHANGED << mstate, misuse >>
       ELSE /\ Call("stop", idx[t], "stopped")
            /\ Goto(t, "stopping", idx[t] - 1)
            /\ UNCHANGED state
    /\ UNCHANGED << active, mutex, failing >>

(* wait() is called; start()'s failure path gets there by itself. *)
BeginWait(t) == /\ pc[t] = "idle"
                /\ Goto(t, "waiting", 0)
                /\ UNCHANGED << state, active, mutex, failing, mstate, misuse >>

Return(t) == Goto(t, "idle", 0) /\ failing' = failing \ {t}

(* Mutant of WaitCheck: a second waiter joins the modules as well. *)
WaitCheck_JoinTwice(t) ==
    /\ pc[t] = "waiting" /\ mutex = {}
    /\ \/ state = "New" /\ Return(t) /\ UNCHANGED state
       \/ /\ state \in {"Stopped", "Joining"}
          /\ state' = "Joining" /\ Goto(t, "joining", active)
          /\ UNCHANGED failing
    /\ UNCHANGED << active, mutex, mstate, misuse >>

(* wait() sees New, Stopped or Joining: it returns, joins, or waits for the  *)
(* thread that joins.                                                        *)
WaitCheck(t) ==
    /\ pc[t] = "waiting" /\ mutex = {}
    /\ \/ state = "New" /\ Return(t) /\ UNCHANGED state
       \/ /\ state = "Joining" /\ Goto(t, "wait_joined", 0)
          /\ UNCHANGED << state, failing >>
       \/ /\ state = "Stopped" /\ state' = "Joining" /\ Goto(t, "joining", active)
          /\ UNCHANGED failing
    /\ UNCHANGED << active, mutex, mstate, misuse >>

(* The second wait of a thread that found Joining. *)
WaitJoined(t) == /\ pc[t] = "wait_joined" /\ mutex = {} /\ state # "Joining"
                 /\ Return(t)
                 /\ UNCHANGED << state, active, mutex, mstate, misuse >>

(* The unlocked reverse loop of wait(), then New under the mutex. *)
JoinModules(t) ==
    /\ pc[t] = "joining"
    /\ IF idx[t] = 0
       THEN /\ mutex = {}
            /\ active' = 0 /\ state' = "New" /\ Return(t)
            /\ UNCHANGED << mstate, misuse >>
       ELSE /\ Call("wait", idx[t], "down")
            /\ Goto(t, "joining", idx[t] - 1)
            /\ UNCHANGED << state, active, failing >>
    /\ UNCHANGED mutex

AppNext == \E t \in Threads :
              \/ BeginInitialize(t) \/ InitModule(t) \/ RollbackStop(t) \/ RollbackWait(t)
              \/ BeginStart(t) \/ StartModule(t)
              \/ BeginStop(t) \/ StopModules(t)
              \/ BeginWait(t) \/ WaitCheck(t) \/ WaitJoined(t) \/ JoinModules(t)

AppSpec == AppInit /\ [][AppNext]_app

(* A thread inside a call keeps running: modules return from their calls     *)
(* ("stop requests shutdown without blocking and wait joins workers"), and   *)
(* the mutex and the condition variable are granted to their waiters; strong *)
(* fairness for the two waits because main may take the mutex in between.    *)
AppFairness == \A t \in Threads :
    /\ WF_app(InitModule(t)) /\ WF_app(RollbackStop(t)) /\ WF_app(RollbackWait(t))
    /\ WF_app(StartModule(t)) /\ WF_app(pc[t] = "start_failed" /\ BeginStop(t))
    /\ WF_app(StopModules(t)) /\ WF_app(JoinModules(t))
    /\ SF_app(WaitCheck(t)) /\ SF_app(WaitJoined(t))

FairAppSpec == AppSpec /\ AppFairness
-----------------------------------------------------------------------------
States == {"New", "Initialized", "Running", "Stopping", "Stopped", "Joining"}
Labels == {"idle", "initializing", "rollback_stop", "rollback_wait", "starting",
           "start_failed", "stopping", "waiting", "wait_joined", "joining"}

(* The types of the application's and its threads' state. *)
AppTypeOK == /\ state \in States
             /\ active \in 0 .. N
             /\ mutex \in SUBSET Threads
             /\ pc \in [Threads -> Labels]
             /\ idx \in [Threads -> 0 .. N]
             /\ failing \in SUBSET Threads
             /\ mstate \in [Modules -> {"down", "ready", "running", "stopped"}]
             /\ misuse \in SUBSET Modules

(* active_ is iterated without the mutex by stop() and wait(); nobody else   *)
(* iterates or changes it meanwhile, whichever threads call.                 *)
IterationExclusive ==
    \A t \in Threads : pc[t] \in {"stopping", "joining"} =>
       /\ state = (IF pc[t] = "stopping" THEN "Stopping" ELSE "Joining")
       /\ mutex = {}
       /\ \A u \in Threads \ {t} :
             pc[u] \notin {"stopping", "joining", "initializing", "starting",
                           "rollback_stop", "rollback_wait"}

(* LifecycleModule's contract is kept towards every module: initialize once, *)
(* start at most once after it, then stop once, then wait once.              *)
ContractKept == misuse = {}

(* A module outlives the modules initialized after it: it is not stopped     *)
(* while a later one runs and not joined before a later one is.              *)
DependenciesOutlive ==
    \A i, j \in Modules : i < j =>
       /\ mstate[j] = "running" => mstate[i] = "running"
       /\ mstate[i] = "stopped" => mstate[j] \in {"stopped", "down"}
       /\ mstate[i] = "down"    => mstate[j] = "down"

(* State New means that every module is joined and active_ is empty, unless  *)
(* initialize() is at work under the mutex.                                  *)
NewIsClean == (state = "New" /\ mutex = {}) =>
                 active = 0 /\ \A m \in Modules : mstate[m] = "down"

(* A started shutdown is completed by whoever waits: a thread in wait()      *)
(* during or after a stop returns, or the application is up again first.     *)
WaitReturns ==
    \A t \in Threads :
       (pc[t] \in {"waiting", "wait_joined"} /\ state \in {"Stopping", "Stopped", "Joining"})
          ~> (pc[t] = "idle" \/ state \in {"Initialized", "Running"})

(* start() that fails cleans up after itself: it returns. *)
FailedStartReturns == \A t \in Threads : (t \in failing) ~> (t \notin failing)
=============================================================================
