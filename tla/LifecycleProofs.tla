-------------------------- MODULE LifecycleProofs ---------------------------
(* Proofs about the two owners of the service: the application that          *)
(* initializes, starts, stops and joins the modules (Application), for every *)
(* set of threads and module list, and the manager of the WHEP sessions      *)
(* (WebRtcManager), for every finite set of sessions, peer limit and length  *)
(* of the history of closed sessions.  They share no variable.               *)
EXTENDS Application, WebRtcManager, FiniteSetTheorems, TLAPS

(* Who holds the mutex across steps, and what that says of state_. *)
MutexInv ==
    /\ \A t \in Threads :
          /\ pc[t] \in {"initializing", "rollback_stop", "rollback_wait"} =>
                t = Main /\ mutex = {t} /\ state = "New"
          /\ pc[t] = "starting" => t = Main /\ mutex = {t} /\ state = "Initialized"
          /\ pc[t] = "start_failed" => t = Main
    /\ mutex # {} => /\ mutex = {Main}
                     /\ pc[Main] \in {"initializing", "rollback_stop",
                                      "rollback_wait", "starting"}

(* The loops of stop() and wait() run in Stopping and Joining, one at a time. *)
LoopInv ==
    /\ \A t \in Threads : pc[t] = "stopping" => state = "Stopping"
    /\ \A t \in Threads : pc[t] = "joining" => state = "Joining"
    /\ \A t, u \in Threads :
          /\ pc[t] = "stopping" /\ pc[u] = "stopping" => t = u
          /\ pc[t] = "joining" /\ pc[u] = "joining" => t = u

(* What the modules' states look like in each phase. *)
InitShape ==
    /\ state = "New" /\ mutex = {} =>
          active = 0 /\ \A m \in Modules : mstate[m] = "down"
    /\ pc[Main] = "initializing" =>
          /\ idx[Main] \in 1 .. N /\ active = idx[Main] - 1
          /\ \A m \in Modules : mstate[m] = IF m < idx[Main] THEN "ready" ELSE "down"
    /\ pc[Main] = "rollback_stop" =>
          /\ idx[Main] <= active
          /\ \A m \in Modules : mstate[m] = IF m <= idx[Main] THEN "ready"
                                            ELSE IF m <= active THEN "stopped" ELSE "down"
    /\ pc[Main] = "rollback_wait" =>
          /\ idx[Main] <= active
          /\ \A m \in Modules : mstate[m] = IF m <= idx[Main] THEN "stopped" ELSE "down"

RunShape ==
    /\ state = "Initialized" =>
          /\ active = N
          /\ \A m \in Modules : mstate[m] \in {"ready", "running"}
          /\ pc[Main] \notin {"starting", "start_failed"} =>
                \A m \in Modules : mstate[m] = "ready"
    /\ pc[Main] = "starting" =>
          /\ idx[Main] \in 1 .. N
          /\ \A m \in Modules : mstate[m] = IF m < idx[Main] THEN "running" ELSE "ready"
    /\ state = "Running" => active = N /\ \A m \in Modules : mstate[m] = "running"

StopShape ==
    /\ \A t \in Threads : pc[t] = "stopping" =>
          /\ active = N
          /\ \A m \in Modules : IF m <= idx[t] THEN mstate[m] \in {"ready", "running"}
                                ELSE mstate[m] = "stopped"
    /\ state = "Stopped" => active = N /\ \A m \in Modules : mstate[m] = "stopped"
    /\ \A t \in Threads : pc[t] = "joining" =>
          /\ active = N
          /\ \A m \in Modules : mstate[m] = IF m <= idx[t] THEN "stopped" ELSE "down"

(* Inductive: together these say in which state every module is called. *)
AppInv == /\ AppTypeOK /\ MutexInv /\ LoopInv /\ InitShape /\ RunShape /\ StopShape
          /\ DependenciesOutlive /\ ContractKept

(* A step of thread t. *)
OneOf(t) ==
    \/ BeginInitialize(t) \/ InitModule(t) \/ RollbackStop(t) \/ RollbackWait(t)
    \/ BeginStart(t) \/ StartModule(t)
    \/ BeginStop(t) \/ StopModules(t)
    \/ BeginWait(t) \/ WaitCheck(t) \/ WaitJoined(t) \/ JoinModules(t)

(* AppInv holds initially. *)
LEMMA AppInvInit == AppInit => AppInv
BY MainAssumption, NAssumption
DEF AppInit, AppInv, AppTypeOK, MutexInv, LoopInv, InitShape, RunShape, StopShape,
    DependenciesOutlive, ContractKept, States, Labels, Modules

(* Every step of a thread keeps the types: its loop index stays in range. *)
LEMMA TypeNext == ASSUME AppInv, NEW t \in Threads, OneOf(t) PROVE AppTypeOK'
<1> USE MainAssumption, NAssumption
<1>1. /\ AppTypeOK /\ idx[t] \in 0 .. N
      /\ pc[t] \in {"initializing", "starting"} => idx[t] \in Modules
      /\ idx[t] # 0 => idx[t] \in Modules /\ idx[t] - 1 \in 0 .. N
      /\ idx[t] # N => idx[t] + 1 \in 0 .. N
      /\ active \in 0 .. N /\ 0 \in 0 .. N /\ 1 \in 0 .. N
      /\ pc[t] = "starting" => active = N
  BY DEF AppInv, AppTypeOK, MutexInv, InitShape, RunShape, Modules
<1>2. \A l \in Labels, i \in 0 .. N : Goto(t, l, i) =>
         pc' \in [Threads -> Labels] /\ idx' \in [Threads -> 0 .. N]
  BY <1>1, Zenon DEF Goto, AppTypeOK
<1>3. \A op, m, s : m \in Modules /\ s \in {"down", "ready", "running", "stopped"}
                    /\ Call(op, m, s) =>
         /\ mstate' \in [Modules -> {"down", "ready", "running", "stopped"}]
         /\ misuse' \in SUBSET Modules
  BY <1>1, Zenon DEF Call, AppTypeOK
<1>4. CASE BeginInitialize(t)
  BY <1>1, <1>2, <1>3, <1>4, Zenon DEF BeginInitialize, AppTypeOK, States, Labels
<1>5. CASE InitModule(t)
  BY <1>1, <1>2, <1>3, <1>5, Zenon DEF InitModule, AppTypeOK, States, Labels
<1>6. CASE RollbackStop(t)
  BY <1>1, <1>2, <1>3, <1>6, Zenon DEF RollbackStop, AppTypeOK, States, Labels
<1>7. CASE RollbackWait(t)
  BY <1>1, <1>2, <1>3, <1>7, Zenon DEF RollbackWait, AppTypeOK, States, Labels
<1>8. CASE BeginStart(t)
  BY <1>1, <1>2, <1>3, <1>8, Zenon DEF BeginStart, AppTypeOK, States, Labels
<1>9. CASE StartModule(t)
  BY <1>1, <1>2, <1>3, <1>9, Zenon DEF StartModule, AppTypeOK, States, Labels
<1>10. CASE BeginStop(t)
  BY <1>1, <1>2, <1>3, <1>10, Zenon DEF BeginStop, AppTypeOK, States, Labels
<1>11. CASE StopModules(t)
  BY <1>1, <1>2, <1>3, <1>11, Zenon DEF StopModules, AppTypeOK, States, Labels
<1>12. CASE BeginWait(t)
  BY <1>1, <1>2, <1>3, <1>12, Zenon DEF BeginWait, AppTypeOK, States, Labels
<1>13. CASE WaitCheck(t)
  BY <1>1, <1>2, <1>3, <1>13, Zenon DEF WaitCheck, Return, AppTypeOK, States, Labels
<1>14. CASE WaitJoined(t)
  BY <1>1, <1>2, <1>3, <1>14, Zenon DEF WaitJoined, Return, AppTypeOK, States, Labels
<1>15. CASE JoinModules(t)
  BY <1>1, <1>2, <1>3, <1>15, Zenon DEF JoinModules, Return, AppTypeOK, States, Labels
<1>16. QED
  BY <1>4, <1>5, <1>6, <1>7, <1>8, <1>9, <1>10, <1>11, <1>12, <1>13, <1>14, <1>15, Zenon DEF OneOf

(* Every step preserves AppInv. *)
LEMMA AppInvNext == AppInv /\ [AppNext]_app => AppInv'
<1> SUFFICES ASSUME AppInv, [AppNext]_app PROVE AppInv'
  BY Zenon
<1> USE MainAssumption, NAssumption DEF Goto, Modules
<1>0. /\ AppTypeOK /\ MutexInv /\ LoopInv /\ InitShape /\ RunShape /\ StopShape
      /\ DependenciesOutlive /\ ContractKept
  BY Zenon DEF AppInv
<1>1. ASSUME NEW t \in Threads, BeginInitialize(t) PROVE AppInv'
  <2>1. AppTypeOK'
    BY <1>1, TypeNext, Zenon DEF OneOf
  <2>2. MutexInv'
    BY <1>0, <1>1, Zenon DEF BeginInitialize, AppTypeOK, Labels, MutexInv, LoopInv
  <2>3. LoopInv'
    BY <1>0, <1>1, Zenon DEF BeginInitialize, AppTypeOK, MutexInv, LoopInv
  <2>4. InitShape'
    BY <1>0, <1>1 DEF BeginInitialize, AppTypeOK, MutexInv, LoopInv, InitShape
  <2>5. RunShape'
    BY <1>0, <1>1, Zenon DEF BeginInitialize, AppTypeOK, MutexInv, LoopInv, RunShape
  <2>6. StopShape'
    BY <1>0, <1>1, Zenon DEF BeginInitialize, AppTypeOK, MutexInv, LoopInv, StopShape
  <2>7. DependenciesOutlive'
    BY <1>0, <1>1, Zenon DEF BeginInitialize, DependenciesOutlive
  <2>8. ContractKept'
    BY <1>0, <1>1, Zenon DEF BeginInitialize, ContractKept
  <2>9. QED
    BY <2>1, <2>2, <2>3, <2>4, <2>5, <2>6, <2>7, <2>8, Zenon DEF AppInv
<1>2. ASSUME NEW t \in Threads, InitModule(t) PROVE AppInv'
  <2>1. AppTypeOK'
    BY <1>2, TypeNext, Zenon DEF OneOf
  <2>2. MutexInv'
    BY <1>0, <1>2 DEF InitModule, AppTypeOK, Labels, MutexInv, LoopInv
  <2>3. LoopInv'
    BY <1>0, <1>2 DEF InitModule, AppTypeOK, MutexInv, LoopInv
  <2>4. InitShape'
    <3>1. /\ t = Main /\ mutex = {t} /\ idx[t] \in Modules /\ active = idx[t] - 1
          /\ \A m \in Modules : mstate[m] = IF m < idx[t] THEN "ready" ELSE "down"
      BY <1>0, <1>2, Zenon DEF InitModule, MutexInv, InitShape
    <3>2. CASE pc'[t] = "initializing"
      <4>1. /\ idx[t] # N /\ active' = idx[t] /\ mutex' = mutex
            /\ idx' = [idx EXCEPT ![t] = idx[t] + 1]
            /\ mstate' = [mstate EXCEPT ![idx[t]] = "ready"]
        BY <1>0, <1>2, <3>2, Zenon DEF InitModule, Call, AppTypeOK
      <4>2. idx'[t] = idx[t] + 1 /\ idx'[t] \in 1 .. N
        BY <1>0, <3>1, <4>1 DEF AppTypeOK
      <4>3. \A m \in Modules : mstate'[m] = IF m < idx'[t] THEN "ready" ELSE "down"
        BY <1>0, <3>1, <4>1, <4>2 DEF AppTypeOK
      <4>4. QED
        BY <3>1, <3>2, <4>1, <4>2, <4>3 DEF InitShape
    <3>3. CASE pc'[t] = "idle"
      BY <1>0, <1>2, <3>1, <3>3, Zenon DEF InitModule, Call, AppTypeOK, InitShape
    <3>4. CASE pc'[t] = "rollback_stop"
      <4>1. active' = active /\ mutex' = mutex /\ mstate' = mstate /\ idx'[t] = active
        BY <1>0, <1>2, <3>4, Zenon DEF InitModule, AppTypeOK
      <4>2. \A m \in Modules : m <= active <=> m < idx[t]
        BY <3>1
      <4>3. QED
        BY <3>1, <3>4, <4>1, <4>2 DEF InitShape
    <3>5. QED
      BY <1>0, <1>2, <3>2, <3>3, <3>4, Zenon DEF InitModule, AppTypeOK
  <2>5. RunShape'
    <3>1. t = Main /\ state = "New" /\ active = idx[t] - 1
          /\ \A m \in Modules : mstate[m] = IF m < idx[t] THEN "ready" ELSE "down"
      BY <1>0, <1>2, Zenon DEF InitModule, MutexInv, InitShape
    <3>2. pc'[Main] \notin {"starting", "start_failed"} /\ state' # "Running"
      BY <1>0, <1>2, <3>1, Zenon DEF InitModule, AppTypeOK
    <3>3. state' = "Initialized" => idx[t] = N /\ active' = N
      BY <1>2, <3>1, Zenon DEF InitModule
    <3>4. state' = "Initialized" => \A m \in Modules : mstate'[m] = "ready"
      BY <1>0, <1>2, <3>1, <3>3 DEF InitModule, Call, AppTypeOK
    <3>5. QED
      BY <3>2, <3>3, <3>4, Zenon DEF RunShape
  <2>6. StopShape'
    BY <1>0, <1>2 DEF InitModule, Call, AppTypeOK, MutexInv, LoopInv, StopShape
  <2>7. DependenciesOutlive'
    BY <1>0, <1>2 DEF InitModule, Call, AppTypeOK, MutexInv, DependenciesOutlive,
       InitShape
  <2>8. ContractKept'
    BY <1>0, <1>2 DEF InitModule, Call, Expected, AppTypeOK, MutexInv, ContractKept,
       InitShape
  <2>9. QED
    BY <2>1, <2>2, <2>3, <2>4, <2>5, <2>6, <2>7, <2>8, Zenon DEF AppInv
<1>3. ASSUME NEW t \in Threads, RollbackStop(t) PROVE AppInv'
  <2>1. AppTypeOK'
    BY <1>3, TypeNext, Zenon DEF OneOf
  <2>2. MutexInv'
    BY <1>0, <1>3, Zenon DEF RollbackStop, AppTypeOK, Labels, MutexInv, LoopInv
  <2>3. LoopInv'
    BY <1>0, <1>3, Zenon DEF RollbackStop, AppTypeOK, MutexInv, LoopInv
  <2>4. InitShape'
    BY <1>0, <1>3 DEF RollbackStop, Call, AppTypeOK, MutexInv, LoopInv, InitShape
  <2>5. RunShape'
    BY <1>0, <1>3, Zenon DEF RollbackStop, Call, AppTypeOK, MutexInv, LoopInv, InitShape,
       RunShape
  <2>6. StopShape'
    BY <1>0, <1>3 DEF RollbackStop, Call, AppTypeOK, MutexInv, LoopInv, StopShape
  <2>7. DependenciesOutlive'
    BY <1>0, <1>3 DEF RollbackStop, Call, AppTypeOK, MutexInv, DependenciesOutlive,
       InitShape
  <2>8. ContractKept'
    BY <1>0, <1>3 DEF RollbackStop, Call, Expected, AppTypeOK, MutexInv, ContractKept,
       InitShape
  <2>9. QED
    BY <2>1, <2>2, <2>3, <2>4, <2>5, <2>6, <2>7, <2>8, Zenon DEF AppInv
<1>4. ASSUME NEW t \in Threads, RollbackWait(t) PROVE AppInv'
  <2>1. AppTypeOK'
    BY <1>4, TypeNext, Zenon DEF OneOf
  <2>2. MutexInv'
    BY <1>0, <1>4, Zenon DEF RollbackWait, AppTypeOK, Labels, MutexInv, LoopInv
  <2>3. LoopInv'
    BY <1>0, <1>4, Zenon DEF RollbackWait, AppTypeOK, MutexInv, LoopInv
  <2>4. InitShape'
    BY <1>0, <1>4 DEF RollbackWait, Call, AppTypeOK, MutexInv, LoopInv, InitShape
  <2>5. RunShape'
    BY <1>0, <1>4, Zenon DEF RollbackWait, Call, AppTypeOK, MutexInv, LoopInv, InitShape,
       RunShape
  <2>6. StopShape'
    BY <1>0, <1>4 DEF RollbackWait, Call, AppTypeOK, MutexInv, LoopInv, StopShape
  <2>7. DependenciesOutlive'
    BY <1>0, <1>4 DEF RollbackWait, Call, AppTypeOK, MutexInv, DependenciesOutlive,
       InitShape
  <2>8. ContractKept'
    BY <1>0, <1>4 DEF RollbackWait, Call, Expected, AppTypeOK, MutexInv, ContractKept,
       InitShape
  <2>9. QED
    BY <2>1, <2>2, <2>3, <2>4, <2>5, <2>6, <2>7, <2>8, Zenon DEF AppInv
<1>5. ASSUME NEW t \in Threads, BeginStart(t) PROVE AppInv'
  <2>1. AppTypeOK'
    BY <1>5, TypeNext, Zenon DEF OneOf
  <2>2. MutexInv'
    BY <1>0, <1>5, Zenon DEF BeginStart, AppTypeOK, Labels, MutexInv, LoopInv
  <2>3. LoopInv'
    BY <1>0, <1>5, Zenon DEF BeginStart, AppTypeOK, MutexInv, LoopInv
  <2>4. InitShape'
    BY <1>0, <1>5, Zenon DEF BeginStart, AppTypeOK, MutexInv, LoopInv, InitShape
  <2>5. RunShape'
    BY <1>0, <1>5 DEF BeginStart, AppTypeOK, MutexInv, LoopInv, RunShape
  <2>6. StopShape'
    BY <1>0, <1>5, Zenon DEF BeginStart, AppTypeOK, MutexInv, LoopInv, StopShape
  <2>7. DependenciesOutlive'
    BY <1>0, <1>5, Zenon DEF BeginStart, DependenciesOutlive
  <2>8. ContractKept'
    BY <1>0, <1>5, Zenon DEF BeginStart, ContractKept
  <2>9. QED
    BY <2>1, <2>2, <2>3, <2>4, <2>5, <2>6, <2>7, <2>8, Zenon DEF AppInv
<1>6. ASSUME NEW t \in Threads, StartModule(t) PROVE AppInv'
  <2>1. AppTypeOK'
    BY <1>6, TypeNext, Zenon DEF OneOf
  <2>2. MutexInv'
    BY <1>0, <1>6 DEF StartModule, AppTypeOK, Labels, MutexInv, LoopInv
  <2>3. LoopInv'
    BY <1>0, <1>6 DEF StartModule, AppTypeOK, MutexInv, LoopInv
  <2>4. InitShape'
    BY <1>0, <1>6, Zenon DEF StartModule, Call, AppTypeOK, MutexInv, LoopInv, InitShape
  <2>5. RunShape'
    BY <1>0, <1>6 DEF StartModule, Call, AppTypeOK, MutexInv, LoopInv, RunShape
  <2>6. StopShape'
    BY <1>0, <1>6 DEF StartModule, Call, AppTypeOK, MutexInv, LoopInv, StopShape
  <2>7. DependenciesOutlive'
    BY <1>0, <1>6 DEF StartModule, Call, AppTypeOK, MutexInv, DependenciesOutlive,
       RunShape
  <2>8. ContractKept'
    BY <1>0, <1>6 DEF StartModule, Call, Expected, AppTypeOK, MutexInv, ContractKept,
       RunShape
  <2>9. QED
    BY <2>1, <2>2, <2>3, <2>4, <2>5, <2>6, <2>7, <2>8, Zenon DEF AppInv
<1>7. ASSUME NEW t \in Threads, BeginStop(t) PROVE AppInv'
  <2>1. AppTypeOK'
    BY <1>7, TypeNext, Zenon DEF OneOf
  <2>2. MutexInv'
    BY <1>0, <1>7, Zenon DEF BeginStop, AppTypeOK, Labels, MutexInv, LoopInv
  <2>3. LoopInv'
    <3>1. CASE state' = "Stopping" /\ state # "Stopping"
      <4>1. \A u \in Threads : pc[u] \notin {"stopping", "joining"}
        BY <1>0, <1>7, <3>1, Zenon DEF BeginStop, LoopInv
      <4>2. \A u \in Threads : pc'[u] # "joining" /\ (pc'[u] = "stopping" => u = t)
        BY <1>0, <1>7, <3>1, <4>1, Zenon DEF BeginStop, AppTypeOK
      <4>3. QED
        BY <3>1, <4>2, Zenon DEF LoopInv
    <3>2. CASE UNCHANGED state
      BY <1>0, <1>7, <3>2 DEF BeginStop, AppTypeOK, LoopInv
    <3>3. QED
      BY <1>7, <3>1, <3>2, Zenon DEF BeginStop
  <2>4. InitShape'
    BY <1>0, <1>7 DEF BeginStop, AppTypeOK, MutexInv, LoopInv, InitShape
  <2>5. RunShape'
    BY <1>0, <1>7, Zenon DEF BeginStop, AppTypeOK, MutexInv, LoopInv, RunShape
  <2>6. StopShape'
    BY <1>0, <1>7 DEF BeginStop, AppTypeOK, MutexInv, LoopInv, RunShape, StopShape
  <2>7. DependenciesOutlive'
    BY <1>0, <1>7, Zenon DEF BeginStop, DependenciesOutlive
  <2>8. ContractKept'
    BY <1>0, <1>7, Zenon DEF BeginStop, ContractKept
  <2>9. QED
    BY <2>1, <2>2, <2>3, <2>4, <2>5, <2>6, <2>7, <2>8, Zenon DEF AppInv
<1>8. ASSUME NEW t \in Threads, StopModules(t) PROVE AppInv'
  <2>1. AppTypeOK'
    BY <1>8, TypeNext, Zenon DEF OneOf
  <2>2. MutexInv'
    BY <1>0, <1>8, Zenon DEF StopModules, AppTypeOK, Labels, MutexInv, LoopInv
  <2>3. LoopInv'
    <3>1. \A u \in Threads : pc[u] # "joining" /\ (pc[u] = "stopping" => u = t)
      BY <1>0, <1>8, Zenon DEF StopModules, LoopInv
    <3>2. CASE idx[t] = 0
      <4>1. \A u \in Threads : pc'[u] \notin {"stopping", "joining"}
        BY <1>0, <1>8, <3>1, <3>2, Zenon DEF StopModules, AppTypeOK
      <4>2. QED
        BY <4>1, Zenon DEF LoopInv
    <3>3. CASE idx[t] # 0
      <4>1. pc' = pc /\ state' = state
        BY <1>0, <1>8, <3>3, Zenon DEF StopModules, AppTypeOK
      <4>2. QED
        BY <1>0, <4>1, Zenon DEF LoopInv
    <3>4. QED
      BY <3>2, <3>3, Zenon
  <2>4. InitShape'
    BY <1>0, <1>8, Zenon DEF StopModules, Call, AppTypeOK, MutexInv, LoopInv, InitShape
  <2>5. RunShape'
    BY <1>0, <1>8, Zenon DEF StopModules, Call, AppTypeOK, MutexInv, LoopInv, RunShape
  <2>6. StopShape'
    <3>1. pc[t] = "stopping" /\ state = "Stopping" /\ active' = N
      BY <1>0, <1>8, Zenon DEF StopModules, LoopInv, StopShape
    <3>2. \A u \in Threads : pc'[u] = "stopping" => u = t /\ idx[t] # 0
      BY <1>0, <1>8, <3>1, Zenon DEF StopModules, AppTypeOK, LoopInv
    <3>3. \A u \in Threads : pc'[u] # "joining"
      BY <1>0, <1>8, <3>1, Zenon DEF StopModules, AppTypeOK, LoopInv
    <3>4. ASSUME idx[t] # 0
          PROVE  \A m \in Modules : IF m <= idx'[t] THEN mstate'[m] \in {"ready", "running"}
                                                    ELSE mstate'[m] = "stopped"
      BY <1>0, <1>8, <3>4 DEF StopModules, Call, AppTypeOK, StopShape
    <3>5. state' = "Stopped" => idx[t] = 0 /\ \A m \in Modules : mstate'[m] = "stopped"
      BY <1>0, <1>8, <3>1 DEF StopModules, AppTypeOK, StopShape
    <3>6. QED
      BY <3>1, <3>2, <3>3, <3>4, <3>5, Zenon DEF StopShape
  <2>7. DependenciesOutlive'
    BY <1>0, <1>8 DEF StopModules, Call, AppTypeOK, MutexInv, DependenciesOutlive,
       StopShape
  <2>8. ContractKept'
    BY <1>0, <1>8 DEF StopModules, Call, Expected, AppTypeOK, MutexInv, ContractKept,
       StopShape
  <2>9. QED
    BY <2>1, <2>2, <2>3, <2>4, <2>5, <2>6, <2>7, <2>8, Zenon DEF AppInv
<1>9. ASSUME NEW t \in Threads, BeginWait(t) PROVE AppInv'
  <2>1. AppTypeOK'
    BY <1>9, TypeNext, Zenon DEF OneOf
  <2>2. MutexInv'
    BY <1>0, <1>9, Zenon DEF BeginWait, AppTypeOK, Labels, MutexInv, LoopInv
  <2>3. LoopInv'
    BY <1>0, <1>9, Zenon DEF BeginWait, AppTypeOK, MutexInv, LoopInv
  <2>4. InitShape'
    BY <1>0, <1>9, Zenon DEF BeginWait, AppTypeOK, MutexInv, LoopInv, InitShape
  <2>5. RunShape'
    BY <1>0, <1>9, Zenon DEF BeginWait, AppTypeOK, MutexInv, LoopInv, RunShape
  <2>6. StopShape'
    BY <1>0, <1>9, Zenon DEF BeginWait, AppTypeOK, MutexInv, LoopInv, StopShape
  <2>7. DependenciesOutlive'
    BY <1>0, <1>9, Zenon DEF BeginWait, DependenciesOutlive
  <2>8. ContractKept'
    BY <1>0, <1>9, Zenon DEF BeginWait, ContractKept
  <2>9. QED
    BY <2>1, <2>2, <2>3, <2>4, <2>5, <2>6, <2>7, <2>8, Zenon DEF AppInv
<1>10. ASSUME NEW t \in Threads, WaitCheck(t) PROVE AppInv'
  <2>1. AppTypeOK'
    BY <1>10, TypeNext, Zenon DEF OneOf
  <2>2. MutexInv'
    BY <1>0, <1>10 DEF WaitCheck, Return, AppTypeOK, Labels, MutexInv, LoopInv
  <2>3. LoopInv'
    BY <1>0, <1>10, Zenon DEF WaitCheck, Return, AppTypeOK, MutexInv, LoopInv
  <2>4. InitShape'
    BY <1>0, <1>10 DEF WaitCheck, Return, AppTypeOK, MutexInv, LoopInv, InitShape
  <2>5. RunShape'
    BY <1>0, <1>10, Zenon DEF WaitCheck, Return, AppTypeOK, MutexInv, LoopInv, RunShape
  <2>6. StopShape'
    BY <1>0, <1>10 DEF WaitCheck, Return, AppTypeOK, MutexInv, LoopInv, StopShape
  <2>7. DependenciesOutlive'
    BY <1>0, <1>10, Zenon DEF WaitCheck, Return, DependenciesOutlive
  <2>8. ContractKept'
    BY <1>0, <1>10, Zenon DEF WaitCheck, Return, ContractKept
  <2>9. QED
    BY <2>1, <2>2, <2>3, <2>4, <2>5, <2>6, <2>7, <2>8, Zenon DEF AppInv
<1>11. ASSUME NEW t \in Threads, WaitJoined(t) PROVE AppInv'
  <2>1. AppTypeOK'
    BY <1>11, TypeNext, Zenon DEF OneOf
  <2>2. MutexInv'
    BY <1>0, <1>11, Zenon DEF WaitJoined, Return, AppTypeOK, Labels, MutexInv, LoopInv
  <2>3. LoopInv'
    BY <1>0, <1>11, Zenon DEF WaitJoined, Return, AppTypeOK, MutexInv, LoopInv
  <2>4. InitShape'
    BY <1>0, <1>11, Zenon DEF WaitJoined, Return, AppTypeOK, MutexInv, LoopInv, InitShape
  <2>5. RunShape'
    BY <1>0, <1>11, Zenon DEF WaitJoined, Return, AppTypeOK, MutexInv, LoopInv, RunShape
  <2>6. StopShape'
    BY <1>0, <1>11, Zenon DEF WaitJoined, Return, AppTypeOK, MutexInv, LoopInv, StopShape
  <2>7. DependenciesOutlive'
    BY <1>0, <1>11, Zenon DEF WaitJoined, Return, DependenciesOutlive
  <2>8. ContractKept'
    BY <1>0, <1>11, Zenon DEF WaitJoined, Return, ContractKept
  <2>9. QED
    BY <2>1, <2>2, <2>3, <2>4, <2>5, <2>6, <2>7, <2>8, Zenon DEF AppInv
<1>12. ASSUME NEW t \in Threads, JoinModules(t) PROVE AppInv'
  <2>1. AppTypeOK'
    BY <1>12, TypeNext, Zenon DEF OneOf
  <2>2. MutexInv'
    BY <1>0, <1>12, Zenon DEF JoinModules, Return, AppTypeOK, Labels, MutexInv, LoopInv
  <2>3. LoopInv'
    BY <1>0, <1>12 DEF JoinModules, Return, AppTypeOK, MutexInv, LoopInv
  <2>4. InitShape'
    BY <1>0, <1>12 DEF JoinModules, Return, Call, AppTypeOK, MutexInv, LoopInv,
       InitShape, StopShape
  <2>5. RunShape'
    BY <1>0, <1>12, Zenon DEF JoinModules, Return, Call, AppTypeOK, MutexInv, LoopInv, RunShape
  <2>6. StopShape'
    BY <1>0, <1>12 DEF JoinModules, Return, Call, AppTypeOK, MutexInv, LoopInv, StopShape
  <2>7. DependenciesOutlive'
    BY <1>0, <1>12 DEF JoinModules, Return, Call, AppTypeOK, MutexInv,
       DependenciesOutlive, StopShape
  <2>8. ContractKept'
    BY <1>0, <1>12 DEF JoinModules, Return, Call, Expected, AppTypeOK, MutexInv,
       ContractKept, StopShape
  <2>9. QED
    BY <2>1, <2>2, <2>3, <2>4, <2>5, <2>6, <2>7, <2>8, Zenon DEF AppInv
<1>13. CASE UNCHANGED app
  <2>1. AppTypeOK' /\ MutexInv' /\ LoopInv'
    BY <1>0, <1>13, Zenon DEF app, AppTypeOK, MutexInv, LoopInv
  <2>2. InitShape' /\ RunShape'
    BY <1>0, <1>13, Zenon DEF app, InitShape, RunShape
  <2>3. StopShape' /\ DependenciesOutlive' /\ ContractKept'
    BY <1>0, <1>13, Zenon DEF app, StopShape, DependenciesOutlive, ContractKept
  <2>4. QED
    BY <2>1, <2>2, <2>3, Zenon DEF AppInv
<1>14. QED
  BY <1>1, <1>2, <1>3, <1>4, <1>5, <1>6, <1>7, <1>8, <1>9, <1>10, <1>11, <1>12,
     <1>13, Zenon DEF AppNext

(* The inductive invariant holds throughout. *)
LEMMA AppInvariant == AppSpec => []AppInv
BY AppInvInit, AppInvNext, PTL DEF AppSpec

(* The application and its threads keep their types. *)
THEOREM AppTypeCorrect == AppSpec => []AppTypeOK
<1>1. AppInv => AppTypeOK
  BY Zenon DEF AppInv
<1>2. QED
  BY <1>1, AppInvariant, PTL

(* stop() and wait() iterate active_ without the mutex, and alone. *)
THEOREM IterationCorrect == AppSpec => []IterationExclusive
<1>1. AppInv => IterationExclusive
  BY Zenon DEF AppInv, AppTypeOK, MutexInv, LoopInv, IterationExclusive
<1>2. QED
  BY <1>1, AppInvariant, PTL

(* Every module sees initialize, start, stop and wait in contract order,     *)
(* whichever threads stop and wait and whichever calls fail.                 *)
THEOREM ContractCorrect == AppSpec => []ContractKept
<1>1. AppInv => ContractKept
  BY Zenon DEF AppInv
<1>2. QED
  BY <1>1, AppInvariant, PTL

(* A module outlives the modules initialized after it. *)
THEOREM DependenciesCorrect == AppSpec => []DependenciesOutlive
<1>1. AppInv => DependenciesOutlive
  BY Zenon DEF AppInv
<1>2. QED
  BY <1>1, AppInvariant, PTL

(* A New application holds no module, so that it can be initialized again. *)
THEOREM NewCorrect == AppSpec => []NewIsClean
<1>1. AppInv => NewIsClean
  BY Zenon DEF AppInv, InitShape, NewIsClean
<1>2. QED
  BY <1>1, AppInvariant, PTL
-----------------------------------------------------------------------------
(* sessions_ is finite, so the peers in it and in any part of it are counted *)
(* by a natural number.                                                      *)
LEMMA Countable ==
    ASSUME NEW S, S \subseteq Sessions
    PROVE  IsFiniteSet(S) /\ Cardinality(S) \in Nat
  BY SessionsAssumption, FS_Subset, FS_CardinalityType, Zenon

(* Removing sessions keeps the types of the variables it changes. *)
LEMMA RemoveType ==
    ASSUME TypeOK, NEW S \in SUBSET sessions, NEW t \in Sessions \cup Agents, Remove(S, t)
    PROVE  /\ sessions' \in SUBSET Sessions
           /\ closed' \in Nat
           /\ owner' \in [Sessions -> Sessions \cup Agents \cup {"none"}]
  <1>1. Cardinality(S) \in Nat /\ closed \in Nat
    BY Countable, Zenon DEF TypeOK
  <1>2. closed' \in Nat
    BY <1>1 DEF Remove
  <1> QED
    BY <1>2, Zenon DEF TypeOK, Remove

(* The initial state has the declared types. *)
LEMMA TypeInit == Init => TypeOK
  BY RecentAssumption DEF Init, TypeOK

(* Every step of every thread keeps the declared types. *)
LEMMA TypeStep == TypeOK /\ [Next]_vars => TypeOK'
  <1> SUFFICES ASSUME TypeOK, [Next]_vars PROVE TypeOK'
    BY Zenon
  <1> USE DEF counters, peers
  <1>1. ASSUME NEW s \in Sessions, CloseClaim(s) PROVE TypeOK'
    BY <1>1, Zenon DEF CloseClaim, TypeOK
  <1>2. ASSUME NEW s \in Sessions, CloseJoin(s) PROVE TypeOK'
    <2>1. recent' \in 0 .. RecentMax
      BY <1>2, RecentAssumption DEF CloseJoin, TypeOK
    <2> QED
      BY <1>2, <2>1, Zenon DEF CloseJoin, TypeOK
  <1>3. ASSUME NEW s \in Sessions, WorkerEnds(s) PROVE TypeOK'
    BY <1>3, Zenon DEF WorkerEnds, TypeOK
  <1>4. ASSUME NEW s \in Sessions, PeerChange(s) PROVE TypeOK'
    BY <1>4, Zenon DEF PeerChange, TypeOK
  <1>5. ASSUME NEW s \in Sessions, CreateCleanup(s) PROVE TypeOK'
    <2> PICK S \in SUBSET sessions : Remove(S, s)
      BY <1>5, Zenon DEF CreateCleanup
    <2> QED
      BY <1>5, RemoveType, Zenon DEF CreateCleanup, Continue, TypeOK
  <1>6. ASSUME NEW s \in Sessions, CreateInsert(s) PROVE TypeOK'
    BY <1>6 DEF CreateInsert, Continue, TypeOK
  <1>7. ASSUME NEW s \in Sessions, AcceptOffer(s) \/ AwaitAnswer(s) PROVE TypeOK'
    <2>1. CASE s \in sessions /\ Remove({s}, s) /\ Continue(s, "dropping")
      BY <1>7, <2>1, RemoveType DEF AcceptOffer, AwaitAnswer, OfferFails, Continue, TypeOK
    <2>2. CASE UNCHANGED << sessions, closed, owner >>
      BY <1>7, <2>2 DEF AcceptOffer, AwaitAnswer, OfferFails, Continue, TypeOK
    <2> QED
      BY <1>7, <2>1, <2>2, Zenon DEF AcceptOffer, AwaitAnswer, OfferFails
  <1>8. ASSUME NEW s \in Sessions, CreateCheck(s) PROVE TypeOK'
    BY <1>8, Zenon DEF CreateCheck, Continue, TypeOK
  <1>9. ASSUME NEW s \in Sessions, ActivateMedia(s) PROVE TypeOK'
    BY <1>9, Zenon DEF ActivateMedia, Continue, TypeOK
  <1>10. ASSUME NEW s \in Sessions, CreateDelete(s) PROVE TypeOK'
    <2>1. CASE s \in sessions
      BY <1>10, <2>1, RemoveType, Zenon DEF CreateDelete, Continue, TypeOK
    <2>2. CASE s \notin sessions
      BY <1>10, <2>2, Zenon DEF CreateDelete, Continue, TypeOK
    <2> QED
      BY <2>1, <2>2, Zenon
  <1>11. ASSUME NEW s \in Sessions, CreateReturn(s) PROVE TypeOK'
    BY <1>11, Zenon DEF CreateReturn, Continue, TypeOK
  <1>12. ASSUME NEW s \in Sessions, CloseSession(s) PROVE TypeOK'
    BY <1>12, RemoveType, Zenon DEF CloseSession, Agents, TypeOK
  <1>13. CASE CleanupStale
    <2> PICK S \in SUBSET sessions : Remove(S, "cleanup")
      BY <1>13, Zenon DEF CleanupStale
    <2> QED
      BY <1>13, RemoveType, Zenon DEF CleanupStale, Agents, TypeOK
  <1>14. CASE CleanupLoop
    BY <1>14, Zenon DEF CleanupLoop, TypeOK
  <1>15. ASSUME NEW a \in BOOLEAN, SetMediaAvailable(a) PROVE TypeOK'
    <2>1. CASE a
      BY <1>15, <2>1, Zenon DEF SetMediaAvailable, TypeOK
    <2>2. CASE ~a
      BY <1>15, <2>2, RemoveType, Zenon DEF SetMediaAvailable, Agents, TypeOK
    <2> QED
      BY <2>1, <2>2, Zenon
  <1>16. CASE CaptureReturn
    BY <1>16, Zenon DEF CaptureReturn, TypeOK
  <1>17. CASE Configure
    BY <1>17, Zenon DEF Configure, TypeOK
  <1>18. CASE ShutdownBegin
    BY <1>18, Zenon DEF ShutdownBegin, TypeOK
  <1>19. CASE ShutdownDrain
    BY <1>19, RemoveType, Zenon DEF ShutdownDrain, Agents, TypeOK
  <1>20. CASE ShutdownReturn
    BY <1>20, Zenon DEF ShutdownReturn, TypeOK
  <1>21. CASE UNCHANGED vars
    BY <1>21, Zenon DEF vars, TypeOK
  <1> QED
    BY <1>1, <1>2, <1>3, <1>4, <1>5, <1>6, <1>7, <1>8, <1>9, <1>10, <1>11, <1>12, <1>13,
       <1>14, <1>15, <1>16, <1>17, <1>18, <1>19, <1>20, <1>21, Zenon
      DEF Next, Closing, Creating

(* Theorem: the manager's state keeps its type. *)
THEOREM TypeCorrect == Spec => []TypeOK
  BY TypeInit, TypeStep, PTL DEF Spec
-----------------------------------------------------------------------------
(* A signaling thread lists its session at most once: a listed session is    *)
(* past the insertion.                                                       *)
Listed == \A s \in sessions : creator[s] \notin {"idle", "cleaning"}

(* A session between insertion and activation has not been forgotten: it is  *)
(* listed, on its way to be closed, or claimed by a close already.           *)
Pending == \A s \in Sessions :
              creator[s] \in {"offering", "gathering", "answered", "activating"} =>
                  s \in sessions \/ owner[s] # "none" \/ s \in started

(* What shutdown has achieved at each of its steps. *)
Down == /\ main # "up" => stopping
        /\ main \in {"draining", "down"} => sessions = {} /\ cleanup = "none"
        /\ main = "down" => ~Owns("main")
        /\ cleanup # "closing" => ~Owns("cleanup")

(* The inductive invariant. *)
IInv == /\ TypeOK /\ Listed /\ Pending /\ Down
        /\ PeersAccounted /\ NoOrphanWorker /\ UnavailableIsEmpty

(* Removing sessions, by whichever thread, keeps the accounts and the        *)
(* promises made to unfinished sessions and to running workers.              *)
LEMMA RemoveKeeps ==
    ASSUME IInv, NEW S \in SUBSET sessions, NEW t \in Sessions \cup Agents, Remove(S, t),
           created' = created, started' = started, worker' = worker
    PROVE  /\ PeersAccounted' /\ NoOrphanWorker'
           /\ \A s \in Sessions : s \in sessions \/ owner[s] # "none" =>
                                  s \in sessions' \/ owner'[s] # "none"
  <1>1. PeersAccounted'
    <2>1. IsFiniteSet(sessions) /\ sessions \cap S = S
      BY Countable, Zenon DEF IInv, TypeOK
    <2>2. Cardinality(sessions \ S) = Cardinality(sessions) - Cardinality(S)
      BY <2>1, FS_Difference, Zenon
    <2>3. /\ Cardinality(S) \in Nat /\ Cardinality(sessions) \in Nat
          /\ closed \in Nat /\ created \in Nat
      BY Countable, Zenon DEF IInv, TypeOK
    <2>4. Cardinality(sessions \ S) \in Nat
      BY Countable, Zenon DEF IInv, TypeOK
    <2>5. sessions' = sessions \ S /\ closed' = closed + Cardinality(S)
      BY Zenon DEF Remove
    <2>6. Cardinality(sessions') = Cardinality(sessions) - Cardinality(S)
      BY <2>2, <2>5, Zenon
    <2> QED
      BY <2>3, <2>5, <2>6, MaxPeersAssumption DEF IInv, PeersAccounted
  <1>2. t # "none"
    BY SessionsAssumption, Zenon DEF Agents
  <1>3. \A s \in Sessions : s \in sessions \/ owner[s] # "none" =>
                            s \in sessions' \/ owner'[s] # "none"
    BY <1>2, Zenon DEF Remove
  <1>4. NoOrphanWorker'
    BY <1>3, Zenon DEF IInv, NoOrphanWorker
  <1> QED
    BY <1>1, <1>3, <1>4, Zenon

(* The initial state satisfies the inductive invariant. *)
LEMMA InvInit == Init => IInv
  <1> SUFFICES ASSUME Init PROVE IInv
    BY Zenon
  <1>1. Cardinality({}) = 0
    BY FS_EmptySet, Zenon
  <1>2. PeersAccounted
    BY <1>1, MaxPeersAssumption DEF Init, PeersAccounted
  <1>3. Listed /\ Pending /\ NoOrphanWorker /\ UnavailableIsEmpty
    BY Zenon DEF Init, Listed, Pending, NoOrphanWorker, UnavailableIsEmpty
  <1>4. Down
    BY Zenon DEF Init, Down, Owns
  <1> QED
    BY <1>2, <1>3, <1>4, TypeInit, Zenon DEF IInv

(* Every step keeps the inductive invariant. *)
LEMMA InvStep == IInv /\ [Next]_vars => IInv'
  <1> SUFFICES ASSUME IInv, [Next]_vars PROVE IInv'
    BY Zenon
  <1> USE DEF counters, peers
  <1>0. TypeOK /\ TypeOK'
    BY TypeStep, Zenon DEF IInv
  <1>1. ASSUME NEW s \in Sessions, CloseClaim(s) PROVE IInv'
    BY <1>1, <1>0, Zenon
      DEF CloseClaim, IInv, TypeOK, Listed, Pending, Down, Owns, PeersAccounted,
           NoOrphanWorker, UnavailableIsEmpty
  <1>2. ASSUME NEW s \in Sessions, CloseJoin(s) PROVE IInv'
    BY <1>2, <1>0
       DEF CloseJoin, IInv, TypeOK, Listed, Pending, Down, Owns, PeersAccounted,
           NoOrphanWorker, UnavailableIsEmpty
  <1>3. ASSUME NEW s \in Sessions, WorkerEnds(s) PROVE IInv'
    BY <1>3, <1>0
       DEF WorkerEnds, IInv, TypeOK, Listed, Pending, Down, Owns, PeersAccounted,
           NoOrphanWorker, UnavailableIsEmpty
  <1>4. ASSUME NEW s \in Sessions, PeerChange(s) PROVE IInv'
    BY <1>4, <1>0, Zenon
      DEF PeerChange, IInv, TypeOK, Listed, Pending, Down, Owns, PeersAccounted,
           NoOrphanWorker, UnavailableIsEmpty
  <1>5. ASSUME NEW s \in Sessions, CreateCleanup(s) PROVE IInv'
    <2> PICK S \in SUBSET sessions : Remove(S, s)
      BY <1>5, Zenon DEF CreateCleanup
    <2>1. PeersAccounted' /\ NoOrphanWorker' /\ Pending'
      BY <1>5, RemoveKeeps, Zenon
        DEF CreateCleanup, Continue, Agents, IInv, TypeOK, Pending
    <2>2. Listed' /\ UnavailableIsEmpty'
      BY <1>5, Zenon
        DEF CreateCleanup, Continue, Remove, IInv, TypeOK, Listed,
             UnavailableIsEmpty
    <2>3. Down'
      BY <1>5, SessionsAssumption, Zenon
        DEF CreateCleanup, Continue, Remove, IInv, TypeOK, Down, Owns
    <2> QED
      BY <1>0, <2>1, <2>2, <2>3, Zenon DEF IInv
  <1>6. ASSUME NEW s \in Sessions, CreateInsert(s) PROVE IInv'
    <2>1. CASE UNCHANGED << sessions, created >>
      BY <1>6, <2>1, <1>0, Zenon
        DEF CreateInsert, Continue, IInv, TypeOK, Listed, Pending, Down, Owns,
             PeersAccounted, NoOrphanWorker, UnavailableIsEmpty
    <2>2. CASE /\ ~stopping /\ available /\ Cardinality(sessions) < MaxPeers
               /\ sessions' = sessions \cup {s} /\ created' = created + 1
               /\ Continue(s, "offering")
      <3>1. s \notin sessions /\ IsFiniteSet(sessions)
        BY <1>6, Countable, Zenon DEF CreateInsert, IInv, TypeOK, Listed
      <3>2. Cardinality(sessions') = Cardinality(sessions) + 1
        BY <2>2, <3>1, FS_AddElement, Zenon
      <3>3. PeersAccounted'
        BY <1>6, <2>2, <3>2, Countable, MaxPeersAssumption
           DEF CreateInsert, IInv, TypeOK, PeersAccounted
      <3>4. Listed' /\ Pending' /\ NoOrphanWorker'
        BY <1>6, <2>2, Zenon DEF CreateInsert, Continue, IInv, TypeOK, Listed, Pending,
                          NoOrphanWorker
      <3>5. UnavailableIsEmpty' /\ Down'
        BY <1>6, <2>2, Zenon DEF CreateInsert, IInv, TypeOK, UnavailableIsEmpty, Down, Owns
      <3> QED
        BY <1>0, <3>3, <3>4, <3>5, Zenon DEF IInv
    <2> QED
      BY <1>6, <2>1, <2>2, Zenon DEF CreateInsert
  <1>7. ASSUME NEW s \in Sessions, AcceptOffer(s) \/ AwaitAnswer(s) PROVE IInv'
    <2>1. CASE s \in sessions /\ Remove({s}, s) /\ Continue(s, "dropping")
      <3>1. PeersAccounted' /\ NoOrphanWorker' /\ Pending'
        BY <1>7, <2>1, RemoveKeeps, Zenon
          DEF AcceptOffer, AwaitAnswer, OfferFails, Continue, Agents, IInv, TypeOK, Pending
      <3>2. Listed' /\ UnavailableIsEmpty'
        BY <1>7, <2>1, Zenon
          DEF AcceptOffer, AwaitAnswer, OfferFails, Continue, Remove, IInv, TypeOK, Listed,
               UnavailableIsEmpty
      <3>3. Down'
        BY <1>7, <2>1, SessionsAssumption, Zenon
          DEF AcceptOffer, AwaitAnswer, OfferFails, Continue, Remove, IInv, TypeOK, Down, Owns
      <3> QED
        BY <1>0, <3>1, <3>2, <3>3, Zenon DEF IInv
    <2>2. CASE UNCHANGED << sessions, closed, owner >>
      BY <1>7, <2>2, <1>0
         DEF AcceptOffer, AwaitAnswer, OfferFails, Continue, IInv, TypeOK, Listed, Pending, Down, Owns,
             PeersAccounted, NoOrphanWorker, UnavailableIsEmpty
    <2> QED
      BY <1>7, <2>1, <2>2, Zenon DEF AcceptOffer, AwaitAnswer, OfferFails
  <1>8. ASSUME NEW s \in Sessions, CreateCheck(s) PROVE IInv'
    BY <1>8, <1>0
       DEF CreateCheck, Continue, IInv, TypeOK, Listed, Pending, Down, Owns,
           PeersAccounted, NoOrphanWorker, UnavailableIsEmpty
  <1>9. ASSUME NEW s \in Sessions, ActivateMedia(s) PROVE IInv'
    BY <1>9, <1>0
       DEF ActivateMedia, Continue, IInv, TypeOK, Listed, Pending, Down, Owns,
           PeersAccounted, NoOrphanWorker, UnavailableIsEmpty
  <1>10. ASSUME NEW s \in Sessions, CreateDelete(s) PROVE IInv'
    <2>1. CASE s \in sessions
      <3>1. PeersAccounted' /\ NoOrphanWorker' /\ Pending'
        BY <1>10, <2>1, RemoveKeeps, Zenon
           DEF CreateDelete, Continue, Agents, IInv, TypeOK, Pending
      <3>2. Listed' /\ UnavailableIsEmpty'
        BY <1>10, <2>1, Zenon
          DEF CreateDelete, Continue, Remove, IInv, TypeOK, Listed,
               UnavailableIsEmpty
      <3>3. Down'
        BY <1>10, <2>1, SessionsAssumption
           DEF CreateDelete, Continue, Remove, IInv, TypeOK, Down, Owns
      <3> QED
        BY <1>0, <3>1, <3>2, <3>3, Zenon DEF IInv
    <2>2. CASE s \notin sessions
      BY <1>10, <2>2, <1>0, Zenon
        DEF CreateDelete, Continue, IInv, TypeOK, Listed, Pending, Down, Owns,
             PeersAccounted, NoOrphanWorker, UnavailableIsEmpty
    <2> QED
      BY <2>1, <2>2, Zenon
  <1>11. ASSUME NEW s \in Sessions, CreateReturn(s) PROVE IInv'
    BY <1>11, <1>0, Zenon
      DEF CreateReturn, Continue, IInv, TypeOK, Listed, Pending, Down, Owns,
           PeersAccounted, NoOrphanWorker, UnavailableIsEmpty
  <1>12. ASSUME NEW s \in Sessions, CloseSession(s) PROVE IInv'
    <2>1. PeersAccounted' /\ NoOrphanWorker' /\ Pending'
      BY <1>12, RemoveKeeps, Zenon DEF CloseSession, Agents, IInv, TypeOK, Pending
    <2>2. Listed' /\ UnavailableIsEmpty'
      BY <1>12, Zenon DEF CloseSession, Remove, IInv, TypeOK, Listed, UnavailableIsEmpty
    <2>3. Down'
      BY <1>12, SessionsAssumption, Zenon
        DEF CloseSession, Remove, IInv, TypeOK, Down, Owns
    <2> QED
      BY <1>0, <2>1, <2>2, <2>3, Zenon DEF IInv
  <1>13. CASE CleanupStale
    <2> PICK S \in SUBSET sessions : Remove(S, "cleanup")
      BY <1>13, Zenon DEF CleanupStale
    <2>1. PeersAccounted' /\ NoOrphanWorker' /\ Pending'
      BY <1>13, RemoveKeeps, Zenon DEF CleanupStale, Agents, IInv, TypeOK, Pending
    <2>2. Listed' /\ UnavailableIsEmpty'
      BY <1>13, Zenon DEF CleanupStale, Remove, IInv, TypeOK, Listed, UnavailableIsEmpty
    <2>3. Down'
      BY <1>13, SessionsAssumption, Zenon
        DEF CleanupStale, Remove, IInv, TypeOK, Down, Owns
    <2> QED
      BY <1>0, <2>1, <2>2, <2>3, Zenon DEF IInv
  <1>14. CASE CleanupLoop
    BY <1>14, <1>0, Zenon
      DEF CleanupLoop, IInv, TypeOK, Listed, Pending, Down, Owns, PeersAccounted,
           NoOrphanWorker, UnavailableIsEmpty
  <1>15. ASSUME NEW a \in BOOLEAN, SetMediaAvailable(a) PROVE IInv'
    <2>1. CASE a
      BY <1>15, <2>1, <1>0, Zenon
        DEF SetMediaAvailable, IInv, TypeOK, Listed, Pending, Down, Owns,
             PeersAccounted, NoOrphanWorker, UnavailableIsEmpty
    <2>2. CASE ~a
      <3>1. PeersAccounted' /\ NoOrphanWorker' /\ Pending'
        BY <1>15, <2>2, RemoveKeeps, Zenon
           DEF SetMediaAvailable, Agents, IInv, TypeOK, Pending
      <3>2. Listed' /\ UnavailableIsEmpty'
        BY <1>15, <2>2, Zenon
          DEF SetMediaAvailable, Remove, IInv, TypeOK, Listed, UnavailableIsEmpty
      <3>3. Down'
        BY <1>15, <2>2, SessionsAssumption, Zenon
          DEF SetMediaAvailable, Remove, IInv, TypeOK, Down, Owns
      <3> QED
        BY <1>0, <3>1, <3>2, <3>3, Zenon DEF IInv
    <2> QED
      BY <2>1, <2>2, Zenon
  <1>16. CASE CaptureReturn
    BY <1>16, <1>0, Zenon
      DEF CaptureReturn, IInv, TypeOK, Listed, Pending, Down, Owns, PeersAccounted,
           NoOrphanWorker, UnavailableIsEmpty
  <1>17. CASE Configure
    BY <1>17, <1>0, Zenon
      DEF Configure, IInv, TypeOK, Listed, Pending, Down, Owns, PeersAccounted,
           NoOrphanWorker, UnavailableIsEmpty
  <1>18. CASE ShutdownBegin
    BY <1>18, <1>0, Zenon
      DEF ShutdownBegin, IInv, TypeOK, Listed, Pending, Down, Owns, PeersAccounted,
           NoOrphanWorker, UnavailableIsEmpty
  <1>19. CASE ShutdownDrain
    <2>1. PeersAccounted' /\ NoOrphanWorker' /\ Pending'
      BY <1>19, RemoveKeeps, Zenon DEF ShutdownDrain, Agents, IInv, TypeOK, Pending
    <2>2. Listed' /\ UnavailableIsEmpty'
      BY <1>19, Zenon DEF ShutdownDrain, Remove, IInv, TypeOK, Listed, UnavailableIsEmpty
    <2>3. Down'
      BY <1>19, SessionsAssumption, Zenon
        DEF ShutdownDrain, Remove, IInv, TypeOK, Down, Owns
    <2> QED
      BY <1>0, <2>1, <2>2, <2>3, Zenon DEF IInv
  <1>20. CASE ShutdownReturn
    BY <1>20, <1>0, Zenon
      DEF ShutdownReturn, IInv, TypeOK, Listed, Pending, Down, Owns,
           PeersAccounted, NoOrphanWorker, UnavailableIsEmpty
  <1>21. CASE UNCHANGED vars
    BY <1>21, <1>0, Zenon
      DEF vars, IInv, TypeOK, Listed, Pending, Down, Owns, PeersAccounted,
           NoOrphanWorker, UnavailableIsEmpty
  <1> QED
    BY <1>1, <1>2, <1>3, <1>4, <1>5, <1>6, <1>7, <1>8, <1>9, <1>10, <1>11, <1>12, <1>13,
       <1>14, <1>15, <1>16, <1>17, <1>18, <1>19, <1>20, <1>21, Zenon
      DEF Next, Closing, Creating

(* The inductive invariant holds in every reachable state. *)
LEMMA InvCorrect == Spec => []IInv
  BY InvInit, InvStep, PTL DEF Spec

(* Theorem: the peer limit holds and every session is removed exactly once,  *)
(* whichever of the five kinds of threads gets to it first.                  *)
THEOREM PeersCorrect == Spec => []PeersAccounted
  <1>1. IInv => PeersAccounted
    BY Zenon DEF IInv
  <1> QED
    BY <1>1, InvCorrect, PTL

(* Theorem: no media worker is left without a thread that will join it.      *)
THEOREM WorkersCorrect == Spec => []NoOrphanWorker
  <1>1. IInv => NoOrphanWorker
    BY Zenon DEF IInv
  <1> QED
    BY <1>1, InvCorrect, PTL

(* Theorem: while the media is withdrawn no session is listed.               *)
THEOREM UnavailableCorrect == Spec => []UnavailableIsEmpty
  <1>1. IInv => UnavailableIsEmpty
    BY Zenon DEF IInv
  <1> QED
    BY <1>1, InvCorrect, PTL

(* Theorem: after shutdown nothing is listed, running or left to close.      *)
THEOREM ShutdownCorrect == Spec => []ShutdownIsFinal
  <1>1. IInv => ShutdownIsFinal
    BY Zenon DEF IInv, TypeOK, Down, ShutdownIsFinal
  <1> QED
    BY <1>1, InvCorrect, PTL
=============================================================================
