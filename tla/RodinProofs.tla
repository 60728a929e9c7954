----------------------------- MODULE RodinProofs -----------------------------
(***************************************************************************)
(* Proofs about RodinSession and RodinSync, for any number of projects,    *)
(* saves, sessions and faults, and for any lines, values, versions and     *)
(* restarts.  The two share no state.                                      *)
(*                                                                         *)
(* A session: each property rests on types and on an invariant of its own  *)
(* that says where the thing it is about has got to.                       *)
(*                                                                         *)
(* A merge: that it overwrites nothing typed in the meantime rests on the  *)
(* versions alone: the server knows a state the editor has been in, and a  *)
(* version names one text, so an edit the editor takes under the version   *)
(* it was computed for meets the text it was computed from.  That the      *)
(* builds' own writes are dropped rests on where each build stands: after   *)
(* a write that falls into no other build's recording, whoever records next *)
(* records what stands there.                                              *)
(***************************************************************************)
EXTENDS RodinSession, RodinSync, TLAPS

-----------------------------------------------------------------------------
(* RodinSession: the invariants.                                            *)

(* What the client was shown is registered, what it asked for was heard, and *)
(* the flow looks before it launches.                                        *)
CancelInv ==
    /\ cancel.shown => cancel.registered
    /\ cancel.asked => cancel.heard
    /\ AtFlow("launch") => ~ cancel.asked

(* A save is due while the task of the entry sleeps, or a task is on its way *)
(* to read the project.                                                      *)
Awaits(k, p) ==
    /\ task[k].project = p
    /\ \/ AtTask(k, "sleep") /\ task[k].generation = generations[p]
       \/ AtTask(k, "probe") \/ AtTask(k, "read")
DueInv == \A p \in due : \E k \in Save : Awaits(k, p)

(* Work that is owed and was not replaced is what the project holds, and the *)
(* monitor has yet to pass the project, which is seeded if a proof is gone.  *)
Owing(p) ==
    /\ Armed(p) /\ (AtMonitor("mirror") => p \in monitor.todo)
    /\ project[p] = owed[p]
    /\ owed[p] = 0 => monitor.armed[p] = "seeded"
OwedInv == failed \/ \A p \in Project : owed[p] = Null \/ p \in replaced \/ Owing(p)

(* A Rodin that boots is one the flow waits for.                             *)
BootInv == rodin = "booting" => failed \/ AtFlow("await")

(* Once a project counts as seeded, its proof in the checkout has been in    *)
(* the workspace, or came later.                                             *)
Accounted(p) == checkout[p] # 0 => p \in backed \/ p \in foreign
SeedInv ==
    \/ failed
    \/ /\ ~ AtFlow("idle") /\ flow.seeded => Accounted(flow.project)
       /\ \A p \in Project : Armed(p) /\ monitor.armed[p] = "seeded" => Accounted(p)

-----------------------------------------------------------------------------
(* Types.                                                                   *)

LEMMA ProbedKeeps == ASSUME TypeOK, NEW state \in {"Free", "Held", "Unknown"}, Probed(state)
                     PROVE  /\ failed' \in BOOLEAN /\ (failed => failed')
                            /\ state = "Unknown" => failed'
                            /\ state = "Held" => rodin = "running"
                            /\ state = "Free" => rodin # "running"
  BY DEF Probed, Fails, TypeOK, HistoryOK, LockState

LEMMA InitType == Init => TypeOK
<1> SUFFICES ASSUME Init PROVE TypeOK
  OBVIOUS
<1>1. WorldOK
  BY DEF Init, WorldOK
<1>2. FlowOK
  BY DEF Init, FlowOK, IdleFlow, NoCancel, AtFlow
<1>3. TasksOK
  BY DEF Init, TasksOK, IdleTask, AtTask
<1>4. MonitorOK
  BY DEF Init, MonitorOK, NoMonitor
<1>5. HistoryOK
  BY DEF Init, HistoryOK
<1> QED
  BY <1>1, <1>2, <1>3, <1>4, <1>5 DEF TypeOK

(* Where each kind of step leaves the flow and its token.                    *)
LEMMA NextFlowOK == ASSUME FlowOK, [Next]_vars PROVE FlowOK'
<1> USE DEF FlowOK, AtFlow
<1>1. CASE UNCHANGED << flow, cancel >>
  BY <1>1
<1>2. ASSUME NEW pc \in {"announce", "seed_probe", "seed", "check", "read", "write", "probe",
                         "register", "launch", "await"},
             ~ AtFlow("idle"), GoFlow(pc),
             cancel' \in [registered : BOOLEAN, shown : BOOLEAN, asked : BOOLEAN, heard : BOOLEAN]
      PROVE  FlowOK'
  BY <1>2 DEF GoFlow
<1>3. CASE Finish
  BY <1>3 DEF Finish, IdleFlow, NoCancel
<1>4. CASE CreateProgress
  <2>1. cancel' \in [registered : BOOLEAN, shown : BOOLEAN, asked : BOOLEAN, heard : BOOLEAN]
    BY <1>4 DEF CreateProgress
  <2> QED
    BY <1>2, <1>4, <2>1 DEF CreateProgress
<1>5. CASE Announce
  <2>1. cancel' \in [registered : BOOLEAN, shown : BOOLEAN, asked : BOOLEAN, heard : BOOLEAN]
    BY <1>5 DEF Announce
  <2> QED
    BY <1>2, <1>5, <2>1 DEF Announce
<1>6. CASE Seed \/ SeedFails
  BY <1>6 DEF Seed, SeedFails, GoFlow
<1>7. CASE SeedProbe
  BY <1>2, <1>7 DEF SeedProbe
<1>8. CASE Check \/ ReadFlowBuild \/ Register
  BY <1>2, <1>3, <1>8 DEF Check, ReadFlowBuild, Register
<1>9. CASE WriteFlowBuild \/ ProbeLock
  BY <1>2, <1>3, <1>9 DEF WriteFlowBuild, ProbeLock
<1>10. CASE Launch
  <2>1. cancel' \in [registered : BOOLEAN, shown : BOOLEAN, asked : BOOLEAN, heard : BOOLEAN]
    BY <1>10 DEF Launch, NoCancel
  <2> QED
    BY <1>2, <1>10, <2>1 DEF Launch
<1>11. CASE AwaitLock
  BY <1>3, <1>11 DEF AwaitLock
<1>12. CASE Restart
  BY <1>12 DEF Restart, IdleFlow, NoCancel
<1>13. CASE ClientCancels
  BY <1>13 DEF ClientCancels
<1>14. ASSUME NEW p \in Project, Click(p) PROVE FlowOK'
  BY <1>14 DEF Click, IdleFlow
<1> QED
  BY <1>1, <1>4, <1>5, <1>6, <1>7, <1>8, <1>9, <1>10, <1>11, <1>12, <1>13, <1>14
     DEF Next, FlowStep, MonitorStep, RodinStep, TaskStep, vars, Pull, DidSave, Wake, RebuildWanted,
         ReadRebuild, WriteRebuild, SessionEnds, Settle, Mirror, MirrorFails, MonitorReturns, StartByHand, Boot,
         Quit, RodinWorks

LEMMA NextWorldOK == ASSUME TypeOK, [Next]_vars PROVE WorldOK'
<1> USE DEF WorldOK
<1> WorldOK
  BY DEF TypeOK
<1>1. CASE UNCHANGED world
  BY <1>1 DEF world
<1>2. CASE Seed
  <2>1. flow.project \in Project
    BY <1>2 DEF Seed, TypeOK, FlowOK, AtFlow
  <2> QED
    BY <1>2, <2>1 DEF Seed
<1>3. CASE WriteFlowBuild
  <2>1. flow.project \in Project
    BY <1>3 DEF WriteFlowBuild, TypeOK, FlowOK, AtFlow
  <2> QED
    BY <1>3, <2>1 DEF WriteFlowBuild
<1>4. CASE Launch
  BY <1>4 DEF Launch
<1>5. ASSUME NEW k \in Save, WriteRebuild(k) PROVE WorldOK'
  <2>1. task[k].project \in exists
    BY <1>5 DEF WriteRebuild, TypeOK, TasksOK, AtTask
  <2> QED
    BY <1>5, <2>1 DEF WriteRebuild
<1>6. ASSUME NEW p \in Project, Mirror(p) PROVE WorldOK'
  BY <1>6 DEF Mirror
<1>7. CASE StartByHand \/ Boot \/ Quit
  BY <1>7 DEF StartByHand, Boot, Quit
<1>8. ASSUME NEW p \in Project, RodinWorks(p) \/ Pull(p) PROVE WorldOK'
  BY <1>8 DEF RodinWorks, Pull, TypeOK, HistoryOK
<1>9. ASSUME SeedFails \/ \E p \in Project : MirrorFails(p) PROVE WorldOK'
  BY <1>1, <1>9 DEF SeedFails, MirrorFails
<1> QED
  BY <1>1, <1>2, <1>3, <1>4, <1>5, <1>6, <1>7, <1>8, <1>9
     DEF Next, FlowStep, MonitorStep, RodinStep, TaskStep, vars, world, CreateProgress, Announce,
         SeedProbe, Check, ReadFlowBuild, ProbeLock, Register, AwaitLock, ClientCancels, Restart,
         Click, DidSave, Wake, RebuildWanted, ReadRebuild, SessionEnds, Settle, MonitorReturns

LEMMA SaveStarts ==
    ASSUME NEW p \in Project, DidSave(p), p \in exists
    PROVE  /\ task' = [task EXCEPT ![saves + 1] = [pc |-> "sleep", project |-> p,
                                                   generation |-> generations[p] + 1]]
           /\ generations' = [generations EXCEPT ![p] = generations[p] + 1]
           /\ due' = due \cup {p} /\ saves' = saves + 1 /\ exists' = exists
  BY DEF DidSave

LEMMA NextTasksOK == ASSUME TypeOK, [Next]_vars PROVE TasksOK'
<1> USE DEF TasksOK, AtTask
<1> TasksOK
  BY DEF TypeOK
<1>1. CASE UNCHANGED << generations, task, saves >> /\ exists \subseteq exists'
  BY <1>1
<1>2. ASSUME NEW k \in Save, TaskStep(k) PROVE TasksOK'
  BY <1>2 DEF TaskStep, Wake, RebuildWanted, ReadRebuild, WriteRebuild, IdleTask, Entry, world, bounds
<1>3. ASSUME NEW p \in Project, DidSave(p) PROVE TasksOK'
  <2>1. CASE p \notin exists
    BY <1>3, <2>1, BoundsAssumption DEF DidSave, Save
  <2>2. CASE p \in exists
    <3>1. /\ task' = [task EXCEPT ![saves + 1] = [pc |-> "sleep", project |-> p,
                                                  generation |-> generations[p] + 1]]
          /\ generations' = [generations EXCEPT ![p] = generations[p] + 1] /\ exists' = exists
      BY <1>3, <2>2, SaveStarts
    <3>2. saves' = saves + 1 /\ saves + 1 \in Save
      BY <1>3, BoundsAssumption DEF DidSave, Save
    <3>3. task' \in [Save -> [pc : {"idle", "sleep", "probe", "read", "write"},
                             project : Project \cup {Null}, generation : Nat]]
      BY <3>1, <3>2
    <3> QED
      BY <2>2, <3>1, <3>2, <3>3 DEF Save
  <2> QED
    BY <2>1, <2>2
<1>4. CASE Restart
  BY <1>4 DEF Restart, IdleTask, world
<1> QED
  BY <1>1, <1>2, <1>3, <1>4
     DEF Next, FlowStep, MonitorStep, RodinStep, vars, world, bounds, CreateProgress, Announce,
         SeedProbe, Seed, SeedFails, Check, ReadFlowBuild, WriteFlowBuild, ProbeLock, Register, Launch, AwaitLock,
         ClientCancels, Click, Pull, SessionEnds, Settle, Mirror, MirrorFails, MonitorReturns, StartByHand, Boot,
         Quit, RodinWorks

LEMMA ArmKeepsMonitor ==
    ASSUME MonitorOK, NEW p \in Project, NEW seeded \in BOOLEAN, Arm(p, seeded)
    PROVE  MonitorOK'
  BY DEF MonitorOK, Arm, Seeded, NoMonitor

LEMMA NextMonitorOK == ASSUME TypeOK, [Next]_vars PROVE MonitorOK'
<1> MonitorOK
  BY DEF TypeOK
<1>1. CASE UNCHANGED monitor
  BY <1>1 DEF MonitorOK
<1>2. CASE monitor' = NoMonitor
  BY <1>2 DEF MonitorOK, NoMonitor
<1>3. CASE ProbeLock \/ AwaitLock
  <2>1. flow.project \in Project /\ flow.seeded \in BOOLEAN
    BY <1>3 DEF ProbeLock, AwaitLock, TypeOK, FlowOK, AtFlow
  <2>2. UNCHANGED monitor \/ Arm(flow.project, flow.seeded)
    BY <1>3 DEF ProbeLock, AwaitLock
  <2> QED
    BY <1>1, <2>1, <2>2, ArmKeepsMonitor
<1>4. CASE SessionEnds
  BY <1>2, <1>4 DEF SessionEnds, MonitorOK
<1>6. CASE Settle
  <2>1. {p \in Project : Armed(p)} \in SUBSET Project
    OBVIOUS
  <2> QED
    BY <1>6, <2>1 DEF Settle, MonitorOK
<1>5. ASSUME NEW p \in Project, Mirror(p) \/ MirrorFails(p) PROVE MonitorOK'
  BY <1>5 DEF Mirror, MirrorFails, MonitorOK
<1> QED
  BY <1>1, <1>2, <1>3, <1>4, <1>5, <1>6
     DEF Next, FlowStep, MonitorStep, RodinStep, TaskStep, vars, CreateProgress, Announce,
         SeedProbe, Seed, SeedFails, Check, ReadFlowBuild, WriteFlowBuild, Register, Launch, ClientCancels, Restart,
         Click, Pull, DidSave, Wake, RebuildWanted, ReadRebuild, WriteRebuild, MonitorReturns,
         StartByHand, Boot, Quit, RodinWorks

LEMMA NextHistoryOK == ASSUME TypeOK, [Next]_vars PROVE HistoryOK'
<1> USE DEF HistoryOK
<1> HistoryOK
  BY DEF TypeOK
<1>1. CASE UNCHANGED << versions, history >>
  BY <1>1 DEF history
<1>2. CASE SeedProbe \/ ProbeLock \/ AwaitLock
  BY <1>2, ProbedKeeps DEF SeedProbe, ProbeLock, AwaitLock
<1>3. CASE Seed
  <2>1. flow.project \in Project
    BY <1>3 DEF Seed, TypeOK, FlowOK, AtFlow
  <2>2. /\ failed' \in BOOLEAN /\ backed' \in {backed, backed \cup {flow.project}}
        /\ replaced' \in {replaced, replaced \cup {flow.project}}
    BY <1>3 DEF Seed, Fails
  <2> QED
    BY <1>3, <2>1, <2>2 DEF Seed
<1>4. CASE ReadFlowBuild
  BY <1>4 DEF ReadFlowBuild, bounds
<1>5. ASSUME NEW k \in Save, RebuildWanted(k) \/ ReadRebuild(k) PROVE HistoryOK'
  BY <1>5, ProbedKeeps DEF RebuildWanted, ReadRebuild, bounds
<1>6. ASSUME NEW p \in Project, DidSave(p) \/ Pull(p) PROVE HistoryOK'
  BY <1>6 DEF DidSave, Pull
<1>10. ASSUME NEW p \in Project, RodinWorks(p) PROVE HistoryOK'
  BY <1>10 DEF RodinWorks, Owe
<1>7. CASE SessionEnds
  BY <1>7, ProbedKeeps DEF SessionEnds
<1>8. ASSUME NEW p \in Project, Mirror(p) PROVE HistoryOK'
  <2>1. owed' = [owed EXCEPT ![p] = Null] \/ owed' = owed
    BY <1>8 DEF Mirror
  <2> QED
    BY <1>8, <2>1 DEF Mirror, bounds
<1>12. ASSUME NEW p \in Project, MirrorFails(p) PROVE HistoryOK'
  BY <1>12 DEF MirrorFails, Fails
<1>11. CASE SeedFails
  BY <1>11 DEF SeedFails, history
<1>9. CASE Restart
  BY <1>9 DEF Restart
<1> QED
  BY <1>1, <1>2, <1>3, <1>4, <1>5, <1>6, <1>7, <1>8, <1>9, <1>10, <1>11, <1>12
     DEF Next, FlowStep, MonitorStep, RodinStep, TaskStep, vars, bounds, history, CreateProgress, Announce,
         Check, WriteFlowBuild, Register, Launch, ClientCancels, Click, Wake, WriteRebuild, Settle,
         MonitorReturns, StartByHand, Boot, Quit

LEMMA NextType == ASSUME TypeOK, [Next]_vars PROVE TypeOK'
  BY NextWorldOK, NextFlowOK, NextTasksOK, NextMonitorOK, NextHistoryOK DEF TypeOK

-----------------------------------------------------------------------------
(* Cancels.                                                                 *)

LEMMA NextCancel == ASSUME TypeOK, CancelInv, [Next]_vars PROVE CancelInv'
<1> USE DEF CancelInv, AtFlow
<1> FlowOK
  BY DEF TypeOK
<1>1. CASE UNCHANGED << flow, cancel >>
  BY <1>1
<1>2. CASE UNCHANGED cancel /\ ~ AtFlow("launch")'
  BY <1>2
<1>3. CASE Finish
  BY <1>3 DEF Finish, IdleFlow, NoCancel
<1>4. CASE CreateProgress \/ Announce
  BY <1>4 DEF CreateProgress, Announce, GoFlow, FlowOK
<1>5. CASE SeedProbe \/ Seed \/ SeedFails \/ WriteFlowBuild
  BY <1>2, <1>5 DEF SeedProbe, Seed, SeedFails, WriteFlowBuild, GoFlow, FlowOK
<1>6. CASE Check \/ ReadFlowBuild \/ ProbeLock \/ AwaitLock
  BY <1>2, <1>3, <1>6 DEF Check, ReadFlowBuild, ProbeLock, AwaitLock, GoFlow, FlowOK
<1>7. CASE Register
  BY <1>3, <1>7 DEF Register
<1>8. CASE Launch
  BY <1>8 DEF Launch, GoFlow, NoCancel, FlowOK
<1>9. CASE ClientCancels
  BY <1>9 DEF ClientCancels, FlowOK
<1>10. CASE Restart
  BY <1>10 DEF Restart, IdleFlow, NoCancel
<1>11. ASSUME NEW p \in Project, Click(p) PROVE CancelInv'
  BY <1>2, <1>11 DEF Click, IdleFlow
<1> QED
  BY <1>1, <1>4, <1>5, <1>6, <1>7, <1>8, <1>9, <1>10, <1>11
     DEF Next, FlowStep, MonitorStep, RodinStep, TaskStep, vars, Pull, DidSave, Wake, RebuildWanted,
         ReadRebuild, WriteRebuild, SessionEnds, Settle, Mirror, MirrorFails, MonitorReturns, StartByHand, Boot,
         Quit, RodinWorks

-----------------------------------------------------------------------------
(* Saves.                                                                   *)

LEMMA NextDue == ASSUME TypeOK, DueInv, [Next]_vars PROVE DueInv'
<1> USE DEF DueInv, Awaits, AtTask
<1> TasksOK
  BY DEF TypeOK
<1>1. CASE UNCHANGED << generations, task >> /\ due' \subseteq due
  BY <1>1
<1>2. ASSUME NEW k \in Save, Wake(k) PROVE DueInv'
  <2> SUFFICES ASSUME NEW p \in due PROVE \E l \in Save : Awaits(l, p)'
    BY <1>2 DEF Wake, history
  <2>1. PICK l \in Save : Awaits(l, p)
    OBVIOUS
  <2>2. CASE Entry(k) = task[k].generation /\ task[k].project = p
    BY <1>2, <2>2 DEF Wake, TasksOK
  <2>3. CASE Entry(k) = task[k].generation /\ task[k].project # p
    <3>1. /\ task' = [task EXCEPT ![k].pc = "probe"]
          /\ generations' = [generations EXCEPT ![task[k].project] = 0]
      BY <1>2, <2>3 DEF Wake
    <3>2. task'[l] = task[l] /\ generations'[p] = generations[p]
      BY <2>1, <2>3, <3>1 DEF TasksOK
    <3> QED
      BY <2>1, <3>2
  <2>4. CASE Entry(k) # task[k].generation
    <3>1. l # k /\ task'[l] = task[l] /\ generations' = generations
      BY <1>2, <2>1, <2>4 DEF Wake, Entry, TasksOK
    <3> QED
      BY <2>1, <3>1
  <2> QED
    BY <2>2, <2>3, <2>4
<1>3. ASSUME NEW k \in Save, RebuildWanted(k) \/ ReadRebuild(k) \/ WriteRebuild(k) PROVE DueInv'
  <2> SUFFICES ASSUME NEW p \in due' PROVE \E l \in Save : Awaits(l, p)'
    OBVIOUS
  <2>1. p \in due /\ generations' = generations
    BY <1>3 DEF RebuildWanted, ReadRebuild, WriteRebuild, history
  <2>2. PICK l \in Save : Awaits(l, p)
    BY <2>1
  <2>3. CASE l # k
    <3>1. task'[l] = task[l]
      BY <1>3, <2>3 DEF RebuildWanted, ReadRebuild, WriteRebuild, TasksOK
    <3> QED
      BY <2>1, <2>2, <3>1
  <2>4. CASE l = k
    BY <1>3, <2>1, <2>2, <2>4 DEF RebuildWanted, ReadRebuild, WriteRebuild, TasksOK
  <2> QED
    BY <2>3, <2>4
<1>4. ASSUME NEW p \in Project, DidSave(p) PROVE DueInv'
  <2>1. CASE p \notin exists
    BY <1>4, <2>1, <1>1 DEF DidSave
  <2>2. CASE p \in exists
    <3> SUFFICES ASSUME NEW q \in due' PROVE \E l \in Save : Awaits(l, q)'
      OBVIOUS
    <3>1. saves \in Nat /\ saves < MaxSaves /\ MaxSaves \in Nat
      BY <1>4, BoundsAssumption DEF DidSave, TasksOK
    <3>2. PICK k \in Save : k = saves + 1
      BY <3>1 DEF Save
    <3>3. /\ task' = [task EXCEPT ![k] = [pc |-> "sleep", project |-> p, generation |-> generations[p] + 1]]
          /\ generations' = [generations EXCEPT ![p] = generations[p] + 1] /\ due' = due \cup {p}
      BY <1>4, <2>2, <3>2, SaveStarts
    <3>4. CASE q = p
      <4>1. /\ task'[k] = [pc |-> "sleep", project |-> p, generation |-> generations[p] + 1]
            /\ generations'[p] = generations[p] + 1
        BY <3>3 DEF TasksOK
      <4> QED
        BY <3>4, <4>1
    <3>5. CASE q # p
      <4>1. PICK l \in Save : Awaits(l, q)
        BY <3>3, <3>5
      <4>2. l # k
        BY <3>1, <3>2, <4>1 DEF TasksOK, Save
      <4>3. task'[l] = task[l] /\ generations'[q] = generations[q]
        BY <3>3, <3>5, <4>2 DEF TasksOK
      <4> QED
        BY <4>1, <4>3
    <3> QED
      BY <3>4, <3>5
  <2> QED
    BY <2>1, <2>2
<1>5. CASE Restart
  BY <1>5 DEF Restart
<1> QED
  BY <1>1, <1>2, <1>3, <1>4, <1>5
     DEF Next, FlowStep, MonitorStep, RodinStep, TaskStep, vars, history, CreateProgress, Announce,
         SeedProbe, Seed, SeedFails, Check, ReadFlowBuild, WriteFlowBuild, ProbeLock, Register, Launch, AwaitLock,
         ClientCancels, Click, Pull, SessionEnds, Settle, Mirror, MirrorFails, MonitorReturns, StartByHand, Boot,
         Quit, RodinWorks

-----------------------------------------------------------------------------
(* Proofs to copy back.                                                     *)

LEMMA ArmKeepsArmed ==
    ASSUME MonitorOK, NEW p \in Project, NEW seeded \in BOOLEAN, Arm(p, seeded), NEW q \in Project,
           Armed(q)
    PROVE  /\ Armed(q)' /\ monitor'.pc = monitor.pc /\ monitor'.todo = monitor.todo
           /\ monitor.armed[q] = "seeded" => monitor'.armed[q] = "seeded"
  BY DEF Arm, Armed, Seeded, MonitorOK

LEMMA ArmSeeds ==
    ASSUME MonitorOK, NEW p \in Project, NEW seeded \in BOOLEAN, Arm(p, seeded), NEW q \in Project,
           Armed(q)', monitor'.armed[q] = "seeded", ~ (Armed(q) /\ monitor.armed[q] = "seeded")
    PROVE  q = p /\ seeded
<1>1. CASE monitor.pc = "none"
  <2>1. monitor'.armed = [NoMonitor.armed EXCEPT ![p] = Seeded(seeded, "no")]
    BY <1>1 DEF Arm, NoMonitor
  <2> QED
    BY <2>1 DEF NoMonitor, Seeded
<1>2. CASE monitor.pc # "none"
  <2>1. monitor'.armed = [monitor.armed EXCEPT ![p] = Seeded(seeded, monitor.armed[p])]
    BY <1>2 DEF Arm, MonitorOK
  <2>2. monitor.armed[q] # "seeded"
    BY <1>2 DEF Armed
  <2> QED
    BY <2>1, <2>2 DEF Seeded, MonitorOK
<1> QED
  BY <1>1, <1>2

LEMMA NextOwed == ASSUME TypeOK, OwedInv, [Next]_vars PROVE OwedInv'
<1> USE DEF OwedInv, AtMonitor
<1> MonitorOK /\ HistoryOK /\ WorldOK
  BY DEF TypeOK
<1>1. CASE UNCHANGED << monitor, owed, replaced, project, failed >>
  BY <1>1 DEF Owing, Armed
<1>2. CASE failed'
  BY <1>2
<1>3. CASE UNCHANGED << monitor, owed, replaced, project >> /\ (failed => failed')
  BY <1>3 DEF Owing, Armed
<1>4. CASE SeedProbe \/ SeedFails \/ \E k \in Save : RebuildWanted(k)
  BY <1>3, <1>4, ProbedKeeps DEF SeedProbe, SeedFails, RebuildWanted, world, history
<1>5. CASE ProbeLock \/ AwaitLock
  <2>1. flow.project \in Project /\ flow.seeded \in BOOLEAN
    BY <1>5 DEF ProbeLock, AwaitLock, TypeOK, FlowOK, AtFlow
  <2>2. /\ UNCHANGED monitor \/ Arm(flow.project, flow.seeded)
        /\ UNCHANGED << owed, replaced, project >> /\ (failed => failed')
    BY <1>5, ProbedKeeps DEF ProbeLock, AwaitLock, world
  <2>3. CASE Arm(flow.project, flow.seeded)
    <3> SUFFICES ASSUME NEW p \in Project, Owing(p) PROVE Owing(p)'
      BY <2>2
    <3>1. /\ Armed(p)' /\ monitor'.pc = monitor.pc /\ monitor'.todo = monitor.todo
          /\ monitor.armed[p] = "seeded" => monitor'.armed[p] = "seeded"
      BY <2>1, <2>3, ArmKeepsArmed DEF Owing
    <3> QED
      BY <2>2, <3>1 DEF Owing
  <2> QED
    BY <1>3, <2>2, <2>3
<1>6. CASE SessionEnds
  <2>1. \/ failed'
        \/ /\ monitor' = [monitor EXCEPT !.pc = "settle"] /\ (failed => failed')
           /\ UNCHANGED << owed, replaced, project >>
    BY <1>6, ProbedKeeps DEF SessionEnds, world
  <2> QED
    BY <1>2, <2>1 DEF Owing, Armed, MonitorOK
<1>7. CASE Settle
  BY <1>7 DEF Settle, Owing, Armed, MonitorOK, history, world
<1>8. ASSUME NEW p \in Project, Mirror(p) PROVE OwedInv'
  <2> SUFFICES ASSUME NEW q \in Project, ~ failed
               PROVE  owed'[q] = Null \/ q \in replaced' \/ Owing(q)'
    BY <1>8 DEF Mirror
  <2>1. CASE q = p
    <3>1. owed[p] = Null \/ p \in replaced \/ Owing(p)
      OBVIOUS
    <3>2. CASE Owing(p)
      <4>1. checkout'[p] = owed[p]
        BY <1>8, <3>2 DEF Mirror, Deletes, Owing, WorldOK
      <4> QED
        BY <1>8, <2>1, <4>1 DEF Mirror, HistoryOK
    <3> QED
      BY <1>8, <2>1, <3>1, <3>2 DEF Mirror, HistoryOK
  <2>2. CASE q # p
    BY <1>8, <2>2 DEF Mirror, Owing, Armed, MonitorOK, HistoryOK
  <2> QED
    BY <2>1, <2>2
<1>9. CASE MonitorReturns
  BY <1>9 DEF MonitorReturns, Owing, history
<1>10. ASSUME NEW p \in Project, RodinWorks(p) PROVE OwedInv'
  <2>1. PICK proof \in {0, versions + 1} :
          project' = [project EXCEPT ![p] = proof] /\ Owe(p, proof)
    BY <1>10 DEF RodinWorks
  <2>2. UNCHANGED << monitor, failed >>
    BY <1>10 DEF RodinWorks
  <2> SUFFICES ASSUME NEW q \in Project, ~ failed
               PROVE  owed'[q] = Null \/ q \in replaced' \/ Owing(q)'
    BY <2>2
  <2>3. CASE q = p
    <3>1. CASE Watched(p) /\ (proof # 0 \/ monitor.armed[p] = "seeded")
      <4>1. owed'[p] = proof /\ project'[p] = proof
        BY <2>1, <3>1 DEF Owe, WorldOK, HistoryOK
      <4>2. Armed(p) /\ (AtMonitor("mirror") => p \in monitor.todo)
        BY <3>1 DEF Watched, Owing
      <4> QED
        BY <2>2, <2>3, <3>1, <4>1, <4>2 DEF Owing, Armed
    <3>2. CASE ~ (Watched(p) /\ (proof # 0 \/ monitor.armed[p] = "seeded"))
      BY <2>1, <2>3, <3>2 DEF Owe, HistoryOK
    <3> QED
      BY <3>1, <3>2
  <2>4. CASE q # p
    <3>1. owed'[q] = owed[q] /\ project'[q] = project[q] /\ (q \in replaced => q \in replaced')
      BY <2>1, <2>4 DEF Owe, WorldOK, HistoryOK
    <3> QED
      BY <2>2, <3>1 DEF Owing, Armed
  <2> QED
    BY <2>3, <2>4
<1>11. CASE Restart
  BY <1>11 DEF Restart
<1>12. CASE Seed
  <2>1. flow.project \in Project
    BY <1>12 DEF Seed, TypeOK, FlowOK, AtFlow
  <2>2. CASE UNCHANGED << project, replaced >>
    BY <1>3, <1>12, <2>2 DEF Seed, Fails
  <2>3. ASSUME NEW p \in Project, p = flow.project,
               project' = [project EXCEPT ![p] = IF checkout[p] = 0 THEN @ ELSE checkout[p]],
               replaced' = IF Overwrites(p) THEN replaced \cup {p} ELSE replaced
        PROVE  OwedInv'
    <3>1. UNCHANGED << monitor, owed >> /\ (failed => failed')
      BY <1>12 DEF Seed, Fails
    <3> SUFFICES ASSUME NEW q \in Project, owed[q] = Null \/ q \in replaced \/ Owing(q)
                 PROVE  owed'[q] = Null \/ q \in replaced' \/ Owing(q)'
      BY <3>1
    <3>2. CASE q # p
      BY <2>3, <3>1, <3>2 DEF Owing, Armed, WorldOK
    <3>3. CASE q = p /\ (checkout[p] = 0 \/ Overwrites(p) \/ owed[p] = Null)
      BY <2>3, <3>1, <3>3 DEF Owing, Armed, WorldOK
    <3>4. CASE q = p /\ checkout[p] # 0 /\ owed[p] = checkout[p]
      BY <2>3, <3>1, <3>4 DEF Owing, Armed, WorldOK
    <3> QED
      BY <3>2, <3>3, <3>4 DEF Overwrites
  <2> QED
    BY <1>12, <2>1, <2>2, <2>3 DEF Seed
<1>13. ASSUME NEW p \in Project, MirrorFails(p) PROVE OwedInv'
  BY <1>2, <1>13 DEF MirrorFails, Fails
<1> QED
  BY <1>1, <1>4, <1>5, <1>6, <1>7, <1>8, <1>9, <1>10, <1>11, <1>12, <1>13
     DEF Next, FlowStep, MonitorStep, RodinStep, TaskStep, vars, world, history, CreateProgress,
         Announce, Check, ReadFlowBuild, WriteFlowBuild, Register, Launch, ClientCancels, Click, Pull,
         DidSave, Wake, ReadRebuild, WriteRebuild, StartByHand, Boot, Quit

-----------------------------------------------------------------------------
(* Launches.                                                                *)

LEMMA NextBoot == ASSUME TypeOK, BootInv, [Next]_vars PROVE BootInv'
<1> USE DEF BootInv, AtFlow
<1> FlowOK /\ HistoryOK
  BY DEF TypeOK
<1>1. CASE UNCHANGED << rodin, flow, failed >>
  BY <1>1
<1>2. CASE rodin' # "booting" \/ failed'
  BY <1>2
<1>3. CASE ~ AtFlow("await") /\ UNCHANGED rodin /\ (failed => failed')
  BY <1>3
<1>4. CASE CreateProgress \/ Announce \/ Check \/ ReadFlowBuild \/ WriteFlowBuild \/ Register
  BY <1>3, <1>4 DEF CreateProgress, Announce, Check, ReadFlowBuild, WriteFlowBuild, Register, world, history
<1>5. CASE SeedProbe \/ Seed \/ SeedFails \/ ProbeLock
  BY <1>3, <1>5, ProbedKeeps DEF SeedProbe, Seed, SeedFails, Fails, ProbeLock, world, history
<1>6. CASE Launch
  BY <1>6 DEF Launch, GoFlow, FlowOK, history
<1>7. CASE AwaitLock
  <2>1. failed' \/ rodin # "booting"
    BY <1>7, ProbedKeeps DEF AwaitLock
  <2> QED
    BY <1>2, <1>7, <2>1 DEF AwaitLock, world
<1>8. CASE SessionEnds
  BY <1>8, ProbedKeeps DEF SessionEnds, world
<1>9. ASSUME NEW k \in Save, RebuildWanted(k) PROVE BootInv'
  BY <1>9, ProbedKeeps DEF RebuildWanted, world
<1>10. CASE StartByHand \/ Boot \/ Quit
  BY <1>2, <1>10 DEF StartByHand, Boot, Quit
<1>11. CASE Restart
  BY <1>11 DEF Restart, world
<1>12. ASSUME NEW p \in Project, Click(p) PROVE BootInv'
  BY <1>3, <1>12 DEF Click, world, history
<1>13. ASSUME NEW p \in Project, MirrorFails(p) PROVE BootInv'
  BY <1>2, <1>13 DEF MirrorFails, Fails
<1> QED
  BY <1>13, <1>1, <1>4, <1>5, <1>6, <1>7, <1>8, <1>9, <1>10, <1>11, <1>12
     DEF Next, FlowStep, MonitorStep, RodinStep, TaskStep, vars, world, history, ClientCancels, Pull,
         DidSave, Wake, ReadRebuild, WriteRebuild, Settle, Mirror, MirrorFails, MonitorReturns, RodinWorks

-----------------------------------------------------------------------------
(* Deletions.                                                               *)

LEMMA NextSeed == ASSUME TypeOK, SeedInv, [Next]_vars PROVE SeedInv'
<1> USE DEF SeedInv, AtFlow
<1> WorldOK /\ FlowOK /\ MonitorOK /\ HistoryOK
  BY DEF TypeOK
<1>1. CASE failed'
  BY <1>1
<1> SUFFICES ASSUME ~ failed'
             PROVE  /\ ~ AtFlow("idle")' /\ flow'.seeded => Accounted(flow.project)'
                    /\ \A p \in Project : Armed(p)' /\ monitor'.armed[p] = "seeded" => Accounted(p)'
  BY <1>1
<1>2. failed => failed'
  <2>1. CASE SeedProbe \/ ProbeLock \/ AwaitLock \/ SessionEnds \/ \E k \in Save : RebuildWanted(k)
    BY <2>1, ProbedKeeps DEF SeedProbe, ProbeLock, AwaitLock, SessionEnds, RebuildWanted
  <2> QED
    BY <2>1
       DEF Next, FlowStep, MonitorStep, RodinStep, TaskStep, vars, history, CreateProgress, Announce, Fails,
           Seed, SeedFails, Check, ReadFlowBuild, WriteFlowBuild, Register, Launch, ClientCancels, Restart, Click, Pull,
           DidSave, Wake, ReadRebuild, WriteRebuild, Settle, Mirror, MirrorFails, MonitorReturns, StartByHand, Boot, Quit,
           RodinWorks
<1>3. /\ ~ AtFlow("idle") /\ flow.seeded => Accounted(flow.project)
      /\ \A p \in Project : Armed(p) /\ monitor.armed[p] = "seeded" => Accounted(p)
  BY <1>2
<1> DEFINE FlowKept == ~ AtFlow("idle")' /\ flow'.seeded => /\ ~ AtFlow("idle") /\ flow.seeded
                                                           /\ flow'.project = flow.project
           MonitorKept == \A p \in Project : Armed(p)' /\ monitor'.armed[p] = "seeded"
                                              => Armed(p) /\ monitor.armed[p] = "seeded"
           ProofsKept == UNCHANGED << checkout, backed, foreign >>
<1>4. CASE FlowKept /\ MonitorKept /\ ProofsKept
  BY <1>3, <1>4 DEF Accounted
<1>5. CASE SeedProbe \/ SeedFails \/ CreateProgress \/ Announce \/ Check \/ ReadFlowBuild \/ WriteFlowBuild \/ Register \/ Launch
  <2>1. FlowKept
    BY <1>5 DEF SeedProbe, SeedFails, CreateProgress, Announce, Check, ReadFlowBuild, WriteFlowBuild, Register, Launch,
                GoFlow, Finish, IdleFlow, FlowOK
  <2>2. MonitorKept /\ ProofsKept
    BY <1>5 DEF SeedProbe, SeedFails, CreateProgress, Announce, Check, ReadFlowBuild, WriteFlowBuild, Register, Launch,
                world, history, Armed
  <2> QED
    BY <1>4, <2>1, <2>2
<1>6. CASE Seed
  <2>1. /\ checkout' = checkout /\ monitor' = monitor /\ foreign' = foreign
        /\ backed' = IF checkout[flow.project] = 0 THEN backed ELSE backed \cup {flow.project}
        /\ flow'.project = flow.project
    BY <1>6 DEF Seed, Fails, FlowOK
  <2> QED
    BY <1>3, <2>1 DEF Accounted, Armed
<1>7. CASE ProbeLock \/ AwaitLock
  <2>1. /\ ProofsKept /\ ~ AtFlow("idle") /\ flow.project \in Project /\ flow.seeded \in BOOLEAN
        /\ FlowKept
        /\ UNCHANGED monitor \/ Arm(flow.project, flow.seeded)
    BY <1>7 DEF ProbeLock, AwaitLock, Finish, IdleFlow, GoFlow, FlowOK, world
  <2>2. ASSUME NEW p \in Project, Armed(p)', monitor'.armed[p] = "seeded",
               ~ (Armed(p) /\ monitor.armed[p] = "seeded")
        PROVE  p = flow.project /\ flow.seeded
    <3>1. Arm(flow.project, flow.seeded)
      BY <2>1, <2>2 DEF Armed
    <3> QED
      BY <2>1, <2>2, <3>1, ArmSeeds
  <2>3. \A p \in Project : Accounted(p) => Accounted(p)'
    BY <2>1 DEF Accounted
  <2>4. ASSUME NEW p \in Project, Armed(p)', monitor'.armed[p] = "seeded" PROVE Accounted(p)'
    <3>1. Accounted(p)
      BY <1>3, <2>1, <2>2, <2>4
    <3> QED
      BY <2>3, <3>1
  <2>5. ~ AtFlow("idle")' /\ flow'.seeded => Accounted(flow.project)'
    BY <1>3, <2>1 DEF Accounted
  <2> QED
    BY <2>4, <2>5
<1>8. CASE SessionEnds \/ Settle \/ MonitorReturns
  <2>1. FlowKept /\ ProofsKept
    BY <1>8 DEF SessionEnds, Settle, MonitorReturns, world, history
  <2>2. ASSUME monitor' = NoMonitor PROVE MonitorKept
    BY <2>2 DEF NoMonitor, Armed
  <2>3. ASSUME monitor' = [monitor EXCEPT !.pc = "settle"], AtMonitor("watch") PROVE MonitorKept
    BY <2>3 DEF Armed, AtMonitor, MonitorOK
  <2>4. ASSUME Settle PROVE MonitorKept
    BY <2>4 DEF Settle, Armed, AtMonitor, MonitorOK
  <2>5. MonitorKept
    BY <1>8, <2>2, <2>3, <2>4 DEF SessionEnds, MonitorReturns
  <2> QED
    BY <1>4, <2>1, <2>5
<1>9. ASSUME NEW q \in Project, Mirror(q) PROVE SeedInv'
  <2>1. \A p \in Project : Accounted(p) => Accounted(p)'
    BY <1>9 DEF Mirror, Accounted, Deletes, WorldOK
  <2>2. FlowKept /\ flow' = flow
    BY <1>9 DEF Mirror
  <2>3. MonitorKept
    BY <1>9 DEF Mirror, Armed, MonitorOK
  <2> QED
    BY <1>3, <2>1, <2>2, <2>3 DEF FlowOK
<1>14. ASSUME NEW q \in Project, MirrorFails(q) PROVE SeedInv'
  BY <1>14 DEF MirrorFails, Fails
<1>10. CASE Restart
  BY <1>10 DEF Restart, IdleFlow, NoMonitor, Armed
<1>11. ASSUME NEW q \in Project, Click(q) PROVE SeedInv'
  <2>1. FlowKept /\ MonitorKept /\ ProofsKept
    BY <1>11 DEF Click, IdleFlow, world, history, Armed
  <2> QED
    BY <1>4, <2>1
<1>12. ASSUME NEW q \in Project, Pull(q) PROVE SeedInv'
  <2>1. /\ flow' = flow /\ monitor' = monitor /\ checkout' = [checkout EXCEPT ![q] = versions + 1]
        /\ backed' = backed \ {q}
        /\ foreign' = IF flow.project = q \/ Armed(q) THEN foreign \cup {q} ELSE foreign \ {q}
    BY <1>12 DEF Pull
  <2> QED
    BY <1>3, <2>1 DEF Accounted, Armed, WorldOK, FlowOK
<1>13. CASE UNCHANGED << flow, monitor >> /\ ProofsKept
  BY <1>4, <1>13 DEF Armed
<1> QED
  BY <1>5, <1>6, <1>7, <1>8, <1>9, <1>10, <1>11, <1>12, <1>13, <1>14
     DEF Next, FlowStep, MonitorStep, RodinStep, TaskStep, vars, world, history, ClientCancels, DidSave, Wake,
         RebuildWanted, ReadRebuild, WriteRebuild, StartByHand, Boot, Quit, RodinWorks

-----------------------------------------------------------------------------
(* The theorems.                                                            *)

IInv == TypeOK /\ CancelInv /\ DueInv /\ OwedInv /\ BootInv /\ SeedInv

LEMMA Invariant == Spec => []IInv
<1>1. Init => IInv
  <2> SUFFICES ASSUME Init PROVE IInv
    OBVIOUS
  <2>1. CancelInv /\ DueInv /\ OwedInv /\ BootInv /\ SeedInv
    BY DEF Init, CancelInv, DueInv, OwedInv, BootInv, SeedInv, IdleFlow, NoCancel, NoMonitor, AtFlow, Armed
  <2> QED
    BY <2>1, InitType DEF IInv
<1>2. IInv /\ [Next]_vars => IInv'
  BY NextType, NextCancel, NextDue, NextOwed, NextBoot, NextSeed DEF IInv
<1> QED
  BY <1>1, <1>2, PTL DEF Spec

(* Every variable of the session keeps its type; work in progress has its    *)
(* project, and a task of a project the workspace has.                       *)
THEOREM TypeCorrect == Spec => []TypeOK
<1>1. IInv => TypeOK
  BY DEF IInv
<1> QED
  BY <1>1, Invariant, PTL

(* A cancel the client sends for a progress it was shown stops the launch,   *)
(* however the client's message and the steps of the flow interleave.        *)
THEOREM CancelsAreHonoured == Spec => []CancelledNeverLaunches
<1>1. IInv => CancelledNeverLaunches
  BY DEF IInv, CancelInv, CancelledNeverLaunches
<1> QED
  BY <1>1, Invariant, PTL

(* No save is forgotten by the debounce, though the task that wins takes the *)
(* entry away and the next save starts again at one.                         *)
THEOREM NoSaveIsForgotten == Spec => []SavesAreBuilt
<1>1. IInv => SavesAreBuilt
  BY DEF IInv, DueInv, Awaits, SavesAreBuilt, AtTask
<1> QED
  BY <1>1, Invariant, PTL

(* What is last proved, or given up, in a session the monitor watches is     *)
(* what reaches the checkout, unless a seed replaces it before the mirror    *)
(* pass, a copy or a probe fails, or the server stops.                       *)
THEOREM WorkIsMirrored == Spec => []ArmedWorkIsMirrored
<1>1. IInv => ArmedWorkIsMirrored
  BY DEF IInv, OwedInv, Owing, ArmedWorkIsMirrored, Quiet, Armed, AtMonitor
<1> QED
  BY <1>1, Invariant, PTL

(* The lens does not launch a Rodin beside one it launched that still boots. *)
THEOREM LaunchesAlone == Spec => BootsAlone
<1>1. IInv /\ [Next]_vars => [AtFlow("launch") /\ sessions' > sessions => rodin # "booting" \/ failed]_vars
  BY DEF IInv, BootInv, AtFlow
<1> QED
  BY <1>1, Invariant, PTL DEF Spec, BootsAlone

(* The mirror deletes from the checkout only proofs the workspace has had,   *)
(* or that came into the checkout in the middle of a session.                *)
THEOREM OnlyRodinDeletes == Spec => DeletionsAreRodins
<1>1. ASSUME IInv, [Next]_vars, NEW p \in Project, checkout[p] # 0, checkout'[p] = 0
      PROVE  p \in backed \/ p \in foreign \/ failed
  <2>1. WorldOK /\ HistoryOK
    BY <1>1 DEF IInv, TypeOK
  <2>2. PICK q \in Project : Mirror(q)
    <3>1. CASE UNCHANGED checkout
      BY <1>1, <3>1
    <3>2. ASSUME NEW q \in Project, Pull(q) PROVE FALSE
      BY <1>1, <2>1, <3>2 DEF Pull, WorldOK, HistoryOK
    <3> QED
      BY <1>1, <3>1, <3>2
         DEF Next, FlowStep, MonitorStep, RodinStep, TaskStep, vars, world, CreateProgress, Announce,
             SeedProbe, Seed, SeedFails, Check, ReadFlowBuild, WriteFlowBuild, ProbeLock, Register, Launch,
             AwaitLock, MirrorFails, ClientCancels, Restart, Click, DidSave, Wake, RebuildWanted, ReadRebuild, WriteRebuild,
             SessionEnds, Settle, MonitorReturns, StartByHand, Boot, Quit, RodinWorks
  <2>3. p = q /\ Deletes(p)
    BY <1>1, <2>1, <2>2 DEF Mirror, WorldOK
  <2>4. Armed(p) /\ monitor.armed[p] = "seeded"
    BY <2>2, <2>3 DEF Deletes, Mirror, AtMonitor, Armed
  <2> QED
    BY <1>1, <2>4 DEF IInv, SeedInv, Accounted
<1>2. IInv /\ [Next]_vars =>
        [\A p \in Project : checkout[p] # 0 /\ checkout'[p] = 0 => p \in backed \/ p \in foreign \/ failed]_vars
  BY <1>1
<1> QED
  BY <1>2, Invariant, PTL DEF Spec, DeletionsAreRodins

-----------------------------------------------------------------------------
(* RodinSync: the invariants.                                               *)

Version == 0 .. MaxVersion
Component == [Line -> Value]
BuildPhase == {"idle", "read", "write", "remove", "base", "hash", "record", "guard"}
SyncPhase == {"idle", "startup", "classify", "ours", "base", "merge", "apply", "edit", "advance"}
Document == [open : BOOLEAN, text : Text, version : Version]

(* Every variable has its type, and a task has the fields its phase needs.   *)
ProjectShape ==
    /\ file \in Text /\ xml \in Component /\ agreed \in Component
    /\ base \in Text \cup {Absent} /\ written \in Component \cup {Absent}
    /\ pending \in BOOLEAN /\ touched \in BOOLEAN /\ overlapped \in BOOLEAN /\ restarts \in 0 .. MaxRestarts

BuildShape ==
    /\ build \in [Builder -> [pc : BuildPhase, text : Component \cup {Absent}]]
    /\ \A b \in Builder : build[b].pc \notin {"idle", "read"} => build[b].text \in Component

MergeShape ==
    /\ sync \in [pc : SyncPhase, target : Version \cup {Absent}, ours : Text \cup {Absent},
                 base : Component \cup {Absent}, theirs : Component \cup {Absent},
                 result : Text \cup {Absent}]
    /\ sync.pc \in {"base", "merge", "apply", "edit", "advance"} => sync.ours \in Text
    /\ sync.pc \in {"merge", "apply", "edit", "advance"} => sync.base \in Component
    /\ sync.pc \in {"apply", "edit", "advance"}
         => sync.theirs \in Component /\ sync.result \in Text

Shape ==
    /\ client \in Document /\ server \in Document /\ server.version <= client.version
    /\ ProjectShape /\ BuildShape /\ MergeShape

(* The server knows a past of the editor: what it knows under the editor's   *)
(* version is what the editor has.                                           *)
ServerIsPast == server.version = client.version => server.text = client.text

(* So does a merge for the buffer.                                           *)
MergeIsPast ==
    sync.pc \in {"base", "merge", "apply", "edit"} /\ sync.target # Absent
      => /\ sync.target <= client.version
         /\ sync.target = client.version => sync.ours = client.text

EditIsVersioned == sync.pc = "edit" => sync.target # Absent

Past == ServerIsPast /\ MergeIsPast /\ EditIsVersioned

(* Unless Rodin has changed the component, or the last build overlapped with *)
(* one that was recording, the hash is that of the component or a build has  *)
(* yet to record it, and a build about to record a hash has that.            *)
HashInv ==
    /\ \/ touched \/ overlapped \/ written \in {Absent, xml}
       \/ \E b \in Builder : build[b].pc \in {"remove", "base", "hash", "record"}
    /\ \A b \in Builder :
         build[b].pc = "record" => touched \/ overlapped \/ build[b].text = xml

-----------------------------------------------------------------------------
(* Texts.                                                                    *)

(* A text without a conflict is a component, and Absent is neither.          *)
LEMMA Texts ==
    /\ Component \subseteq Text
    /\ Absent \notin Text /\ Absent \notin Component
    /\ \A text \in Text : Parses(text) => text \in Component
<1>1. ASSUME NEW text \in Text, Parses(text)
      PROVE  text \in Component
  BY <1>1 DEF Text, Component, Parses
<1>2. Component \subseteq Text
  BY DEF Component, Text
<1> QED
  BY <1>1, <1>2, AbsentAssumption DEF Text

(* A merge of texts is a text.                                               *)
LEMMA MergesAreTexts ==
    ASSUME NEW from \in Component, NEW ours \in Text, NEW theirs \in Component
    PROVE  Merge(from, ours, theirs) \in Text
BY DEF Merge, Text, Component

(* What a build and a merge read of the source is a text.                    *)
LEMMA SourcesAreTexts == Shape => SourceText \in Text
BY DEF Shape, ProjectShape, Document, SourceText

-----------------------------------------------------------------------------
(* Types.                                                                    *)

(* The steps of a build keep the shape of the builds and of the project.     *)
LEMMA BuildsKeepShape ==
    ASSUME Shape, NEW b \in Builder,
           \/ BeginBuild(b) \/ ReadSources(b) \/ WriteProject(b) \/ RemoveBase(b)
           \/ WriteBase(b) \/ HashProject(b) \/ Record(b) \/ DropGuard(b)
    PROVE  Shape'
<1> USE DEF BuildAt, BuildGoto
<1>1. UNCHANGED << editorVars, sync, restarts >>
  BY DEF BeginBuild, ReadSources, WriteProject, RemoveBase, WriteBase, HashProject, Record,
         DropGuard, projectVars
<1>2. ASSUME NEW new \in [pc : BuildPhase, text : Component \cup {Absent}],
             build' = [build EXCEPT ![b] = new],
             new.pc \notin {"idle", "read"} => new.text \in Component
      PROVE  BuildShape'
  BY <1>2 DEF Shape, BuildShape
<1>3. ASSUME NEW pc \in BuildPhase, build' = [build EXCEPT ![b].pc = pc],
             build[b].pc \notin {"idle", "read"} \/ pc = "read"
      PROVE  BuildShape'
  <2>1. build' = [build EXCEPT ![b] = [pc |-> pc, text |-> build[b].text]]
    <3>1. build[b] \in [pc : BuildPhase, text : Component \cup {Absent}]
      BY DEF Shape, BuildShape
    <3>2. [build[b] EXCEPT !.pc = pc] = [pc |-> pc, text |-> build[b].text]
      BY <3>1
    <3>3. build' = [build EXCEPT ![b] = [build[b] EXCEPT !.pc = pc]]
      BY <1>3
    <3> QED
      BY <3>2, <3>3
  <2>2. [pc |-> pc, text |-> build[b].text] \in [pc : BuildPhase, text : Component \cup {Absent}]
    BY DEF Shape, BuildShape
  <2>3. pc # "read" => build[b].text \in Component
    BY <1>3 DEF Shape, BuildShape
  <2> QED
    BY <1>2, <2>1, <2>2, <2>3
<1>4. BuildShape'
  <2>1. CASE BeginBuild(b)
    BY <1>3, <2>1 DEF BeginBuild, BuildPhase
  <2>2. CASE ReadSources(b)
    <3>1. CASE Parses(SourceText)
      <4> DEFINE new == [pc |-> "write", text |-> SourceText]
      <4>1. new \in [pc : BuildPhase, text : Component \cup {Absent}] /\ new.text \in Component
        BY <3>1, Texts, SourcesAreTexts DEF BuildPhase
      <4>2. build' = [build EXCEPT ![b] = new]
        BY <2>2, <3>1 DEF ReadSources
      <4> HIDE DEF new
      <4> QED
        BY <1>2, <4>1, <4>2
    <3>2. CASE ~ Parses(SourceText)
      BY <1>2, <2>2, <3>2 DEF ReadSources, NoBuild, BuildPhase
    <3> QED
      BY <3>1, <3>2
  <2>3. CASE WriteProject(b)
    BY <1>3, <2>3 DEF WriteProject, BuildPhase
  <2>4. CASE RemoveBase(b)
    BY <1>3, <2>4 DEF RemoveBase, BuildPhase
  <2>5. CASE WriteBase(b)
    BY <1>3, <2>5 DEF WriteBase, BuildPhase
  <2>6. CASE HashProject(b)
    BY <1>2, <2>6 DEF HashProject, Shape, ProjectShape, BuildPhase
  <2>7. CASE Record(b)
    BY <1>3, <2>7 DEF Record, BuildPhase
  <2>8. CASE DropGuard(b)
    BY <1>2, <2>8 DEF DropGuard, NoBuild, BuildPhase
  <2> QED
    BY <2>1, <2>2, <2>3, <2>4, <2>5, <2>6, <2>7, <2>8
<1>5. ProjectShape'
  <2> USE DEF Shape, ProjectShape, BuildShape, editorVars, projectVars
  <2>1. CASE WriteProject(b)
    BY <1>1, <2>1 DEF WriteProject
  <2>2. CASE RemoveBase(b)
    BY <1>1, <2>2 DEF RemoveBase
  <2>3. CASE WriteBase(b)
    BY <1>1, <2>3, Texts DEF WriteBase
  <2>4. CASE Record(b)
    BY <1>1, <2>4 DEF Record
  <2>5. CASE UNCHANGED << projectVars, pending >>
    BY <1>1, <2>5
  <2> QED
    BY <2>1, <2>2, <2>3, <2>4, <2>5 DEF BeginBuild, ReadSources, HashProject, DropGuard
<1> QED
  BY <1>1, <1>4, <1>5 DEF Shape, MergeShape, editorVars

(* The steps of the watcher keep the shape of its task.                      *)
LEMMA MergesKeepShape ==
    ASSUME Shape,
           \/ TakeBatch \/ StartupBatch \/ Classify \/ ReadOurs \/ ReadBase \/ MergeComponent
           \/ Apply \/ ClientEdit \/ RejectEdit \/ Advance
    PROVE  MergeShape'
<1> USE DEF Shape, MergeShape, SyncGoto, SyncEnds, NoSync, SyncPhase
<1>1. CASE TakeBatch
  BY <1>1 DEF TakeBatch
<1>2. CASE StartupBatch
  BY <1>2 DEF StartupBatch
<1>3. CASE Classify
  BY <1>3 DEF Classify
<1>4. CASE ReadOurs
  BY <1>4, SourcesAreTexts DEF ReadOurs, Document
<1>5. CASE ReadBase
  <2>1. CASE base # Absent /\ Parses(base)
    <3>1. base \in Component
      BY <2>1, Texts DEF ProjectShape
    <3> QED
      BY <1>5, <2>1, <3>1 DEF ReadBase
  <2>2. CASE ~ (base # Absent /\ Parses(base))
    BY <1>5, <2>2 DEF ReadBase
  <2> QED
    BY <2>1, <2>2
<1>6. CASE MergeComponent
  <2>1. CASE xml = sync.base
    BY <1>6, <2>1 DEF MergeComponent
  <2>2. CASE xml # sync.base
    <3>1. Merge(sync.base, sync.ours, xml) \in Text
      BY <1>6, MergesAreTexts DEF MergeComponent, ProjectShape
    <3> QED
      BY <1>6, <2>2, <3>1 DEF MergeComponent, ProjectShape
  <2> QED
    BY <2>1, <2>2
<1>7. CASE Apply
  BY <1>7 DEF Apply
<1>8. CASE ClientEdit
  BY <1>8 DEF ClientEdit, Replace
<1>9. CASE RejectEdit
  BY <1>9 DEF RejectEdit
<1>10. CASE Advance
  BY <1>10 DEF Advance
<1> QED
  BY <1>1, <1>2, <1>3, <1>4, <1>5, <1>6, <1>7, <1>8, <1>9, <1>10

(* Every step keeps every variable's shape.                                  *)
LEMMA NextShape == Shape /\ [SyncNext]_syncVars => Shape'
<1> SUFFICES ASSUME Shape, [SyncNext]_syncVars
             PROVE  Shape'
  OBVIOUS
<1> DEFINE ClientSteps == \/ OpenFile \/ SaveFile \/ CloseFile \/ Notify
                          \/ \E l \in Line, v \in Value : Type(l, v)
           WatcherSteps == \/ TakeBatch \/ StartupBatch \/ Classify \/ ReadOurs \/ ReadBase
                           \/ MergeComponent \/ Apply \/ ClientEdit \/ RejectEdit \/ Advance
<1>1. CASE ClientSteps
  <2>1. UNCHANGED << projectVars, pending, build, sync, restarts >>
    BY <1>1 DEF OpenFile, SaveFile, CloseFile, Notify, Type
  <2>2. BuildShape' /\ MergeShape'
    BY <2>1 DEF Shape, BuildShape, MergeShape
  <2>3. file' \in Text /\ client' \in Document /\ server' \in Document
        /\ server'.version <= client'.version
    <3> USE DEF Shape, ProjectShape, Document, Version
    <3>1. CASE OpenFile
      BY <3>1, SyncBoundsAssumption DEF OpenFile
    <3>2. CASE SaveFile
      BY <3>2 DEF SaveFile
    <3>3. CASE CloseFile
      BY <3>3 DEF CloseFile
    <3>4. CASE Notify
      BY <3>4 DEF Notify
    <3>5. ASSUME NEW l \in Line, NEW v \in Value, Type(l, v)
          PROVE  file' \in Text /\ client' \in Document /\ server' \in Document
                 /\ server'.version <= client'.version
      <4>1. [client.text EXCEPT ![l] = v] \in Text
        BY DEF Text
      <4>2. client' = [open |-> client.open, text |-> [client.text EXCEPT ![l] = v],
                       version |-> client.version + 1]
        <5>1. client' = [client EXCEPT !.text = [client.text EXCEPT ![l] = v],
                                       !.version = client.version + 1]
          BY <3>5 DEF Type
        <5> QED
          BY <5>1
      <4>3. client.version + 1 \in Version
        BY <3>5, SyncBoundsAssumption DEF Type
      <4>4. client' \in Document
        BY <4>1, <4>2, <4>3
      <4>5. server'.version <= client'.version
        BY <3>5, <4>2 DEF Type
      <4> QED
        BY <3>5, <4>4, <4>5 DEF Type
    <3> QED
      BY <1>1, <3>1, <3>2, <3>3, <3>4, <3>5
  <2> QED
    BY <2>1, <2>2, <2>3 DEF Shape, ProjectShape, projectVars
<1>2. ASSUME NEW l \in Line, NEW v \in Value, RodinSave(l, v)
      PROVE  Shape'
  <2>1. xml' \in Component /\ touched' \in BOOLEAN
    BY <1>2 DEF RodinSave, Shape, ProjectShape, Component
  <2>2. UNCHANGED << editorVars, base, written, agreed, overlapped, build, sync, restarts >> /\ pending'
    BY <1>2 DEF RodinSave
  <2> QED
    BY <2>1, <2>2 DEF Shape, ProjectShape, BuildShape, MergeShape, editorVars
<1>3. CASE WatcherSteps
  <2>1. MergeShape'
    BY <1>3, MergesKeepShape
  <2>2. UNCHANGED << server, xml, written, touched, overlapped, build, restarts >>
    BY <1>3 DEF TakeBatch, StartupBatch, Classify, ReadOurs, ReadBase, MergeComponent, Apply,
                ClientEdit, RejectEdit, Advance, editorVars, projectVars
  <2>3. client' = client \/ ClientEdit
    BY <1>3 DEF TakeBatch, StartupBatch, Classify, ReadOurs, ReadBase, MergeComponent, Apply,
                RejectEdit, Advance, editorVars
  <2>4. client' \in Document /\ client.version <= client'.version
    <3>1. CASE ClientEdit
      <4>1. sync.result \in Text
        BY <3>1 DEF ClientEdit, Shape, MergeShape
      <4>2. client' = [open |-> client.open, text |-> sync.result, version |-> client.version + 1]
        <5>1. client' = [client EXCEPT !.text = sync.result, !.version = client.version + 1]
          BY <3>1 DEF ClientEdit, Replace
        <5> QED
          BY <5>1 DEF Shape, Document
      <4>3. client.version \in Nat /\ client.version + 1 \in Version
        BY <3>1, SyncBoundsAssumption DEF ClientEdit, Replace, Shape, Document, Version
      <4>4. client' \in Document
        BY <4>1, <4>2, <4>3 DEF Shape, Document
      <4> QED
        BY <4>2, <4>3, <4>4
    <3> QED
      BY <2>3, <3>1 DEF Shape, Document, Version
  <2>5. file' \in Text
    <3>1. CASE Apply
      BY <3>1 DEF Apply, Shape, ProjectShape, MergeShape
    <3> QED
      BY <1>3, <3>1 DEF TakeBatch, StartupBatch, Classify, ReadOurs, ReadBase, MergeComponent,
                        ClientEdit, RejectEdit, Advance, editorVars, Shape, ProjectShape
  <2>6. base' \in Text \cup {Absent} /\ agreed' \in Component
    <3>1. CASE Advance
      BY <3>1 DEF Advance, Shape, ProjectShape, MergeShape
    <3> QED
      BY <1>3, <3>1 DEF TakeBatch, StartupBatch, Classify, ReadOurs, ReadBase, MergeComponent,
                        Apply, ClientEdit, RejectEdit, projectVars, Shape, ProjectShape
  <2>7. pending' \in BOOLEAN
    BY <1>3 DEF TakeBatch, StartupBatch, Classify, ReadOurs, ReadBase, MergeComponent, Apply,
                ClientEdit, RejectEdit, Advance, Shape, ProjectShape
  <2> QED
    BY <2>1, <2>2, <2>4, <2>5, <2>6, <2>7 DEF Shape, ProjectShape, BuildShape, Document, Version
<1>4. CASE RestartServer
  <2>1. ProjectShape'
    <3>1. restarts' \in 0 .. MaxRestarts
      BY <1>4, SyncBoundsAssumption DEF RestartServer, Shape, ProjectShape
    <3> QED
      BY <1>4, <3>1 DEF RestartServer, Shape, ProjectShape
  <2>2. BuildShape'
    BY <1>4 DEF RestartServer, BuildShape, NoBuild, BuildPhase
  <2>3. MergeShape'
    BY <1>4 DEF RestartServer, MergeShape, NoSync, SyncPhase
  <2> QED
    BY <1>4, <2>1, <2>2, <2>3 DEF RestartServer, Shape, Document, Version
<1>5. CASE UNCHANGED syncVars
  BY <1>5 DEF syncVars, editorVars, projectVars, Shape, ProjectShape, BuildShape, MergeShape
<1> QED
  BY <1>1, <1>2, <1>3, <1>4, <1>5, BuildsKeepShape DEF SyncNext

(* The project has just been built.                                          *)
LEMMA InitShape == SyncInit => Shape
<1> SUFFICES ASSUME SyncInit
             PROVE  Shape
  OBVIOUS
<1>1. [l \in Line |-> Blank] \in Component
  BY ValueAssumption DEF Component
<1>2. file = [l \in Line |-> Blank] /\ file \in Component /\ file \in Text
  BY <1>1, Texts DEF SyncInit
<1> HIDE DEF Text, Component
<1>3. ProjectShape
  <2>1. restarts \in 0 .. MaxRestarts
    BY SyncBoundsAssumption DEF SyncInit
  <2> QED
    BY <1>2, <2>1 DEF SyncInit, ProjectShape
<1>4. BuildShape
  BY DEF SyncInit, BuildShape, NoBuild, BuildPhase
<1>5. MergeShape
  BY DEF SyncInit, MergeShape, NoSync, SyncPhase
<1> QED
  BY <1>2, <1>3, <1>4, <1>5, SyncBoundsAssumption DEF SyncInit, Shape, Document, Version

(* Every variable has its type, whatever the number of lines, versions,      *)
(* builds and restarts, and the ancestor of a merge is one that parses.      *)
THEOREM SyncTypeCorrect == SyncSpec => []SyncTypeOK
<1>1. Shape => SyncTypeOK
  <2> SUFFICES ASSUME Shape
               PROVE  SyncTypeOK
    OBVIOUS
  <2>1. client \in [open : BOOLEAN, text : Text, version : 0 .. MaxVersion]
    BY DEF Shape, Document, Version
  <2>2. server \in [open : BOOLEAN, text : Text, version : 0 .. client.version]
    BY DEF Shape, Document, Version
  <2>3. \A b \in Builder : build[b].text \in Component \cup {Absent}
    BY DEF Shape, BuildShape
  <2>4. written \in Text \cup {Absent}
    BY Texts DEF Shape, ProjectShape
  <2> QED
    BY <2>1, <2>2, <2>3, <2>4 DEF SyncTypeOK, Shape, ProjectShape, MergeShape, Component
<1> QED
  BY <1>1, InitShape, NextShape, PTL DEF SyncSpec

-----------------------------------------------------------------------------
(* Versions.                                                                 *)

(* What the editor does: the buffer changes only under a new version.        *)
Versioned == \/ client'.version = client.version /\ client'.text = client.text
             \/ client'.version > client.version

(* The server's document stands still, or is the editor's.                   *)
Notified == server' = server \/ (server' = client /\ client' = client)

(* Every step moves the two buffers so.                                     *)
LEMMA NextVersioned ==
    ASSUME Shape, [SyncNext]_syncVars
    PROVE  Versioned /\ Notified
<1> USE DEF Versioned, Notified
<1>1. client.version \in Nat
  BY SyncBoundsAssumption DEF Shape, Document, Version
<1>2. CASE client' = client
  <2>1. server' = server \/ server' = client
    BY DEF SyncNext, OpenFile, SaveFile, CloseFile, Notify, Type, RodinSave, BeginBuild,
           ReadSources, WriteProject, RemoveBase, WriteBase, HashProject, Record, DropGuard,
           TakeBatch, StartupBatch, Classify, ReadOurs, ReadBase, MergeComponent, Apply,
           ClientEdit, RejectEdit, Advance, RestartServer, editorVars, syncVars
  <2> QED
    BY <1>2, <2>1
<1>3. CASE client'.version = client.version + 1 /\ server' = server
  <2>1. client'.version > client.version
    BY <1>1, <1>3
  <2> QED
    BY <1>3, <2>1
<1>4. CASE OpenFile \/ ClientEdit \/ \E l \in Line, v \in Value : Type(l, v)
  <2>1. server' = server
    BY <1>4 DEF OpenFile, Type, ClientEdit
  <2>2. client'.version = client.version + 1
    <3>1. CASE OpenFile
      BY <3>1 DEF OpenFile
    <3>2. CASE ClientEdit
      BY <3>2 DEF ClientEdit, Replace, Shape, Document
    <3>3. ASSUME NEW l \in Line, NEW v \in Value, Type(l, v)
          PROVE  client'.version = client.version + 1
      BY <3>3 DEF Type, Shape, Document
    <3> QED
      BY <1>4, <3>1, <3>2, <3>3
  <2> QED
    BY <1>3, <2>1, <2>2
<1>5. CASE CloseFile
  <2>1. server' = server
    BY <1>5 DEF CloseFile
  <2>2. client'.version = client.version /\ client'.text = client.text
    BY <1>5 DEF CloseFile, Shape, Document
  <2> QED
    BY <2>1, <2>2
<1>6. client' = client \/ OpenFile \/ CloseFile \/ ClientEdit
      \/ \E l \in Line, v \in Value : Type(l, v)
  BY DEF SyncNext, SaveFile, Notify, RodinSave, BeginBuild, ReadSources, WriteProject, RemoveBase,
         WriteBase, HashProject, Record, DropGuard, TakeBatch, StartupBatch, Classify, ReadOurs,
         ReadBase, MergeComponent, Apply, RejectEdit, Advance, RestartServer, editorVars, syncVars
<1> QED
  BY <1>2, <1>4, <1>5, <1>6

(* How the watcher's task moves: it ends, or starts over, or goes one phase  *)
(* on with the version and the text it has taken.                            *)
Kept == sync'.target = sync.target /\ sync'.ours = sync.ours

(* Every step moves the watcher's task so.                                  *)
LEMMA NextMerge ==
    ASSUME Shape, [SyncNext]_syncVars
    PROVE  \/ sync' = sync
           \/ sync'.pc \in {"idle", "startup", "classify", "ours"}
           \/ ReadOurs
           \/ /\ sync.pc \in {"base", "merge"} /\ sync'.pc \in {"merge", "apply"}
              /\ Kept
           \/ sync.pc = "apply" /\ sync'.pc = "edit" /\ Kept /\ sync.target # Absent
           \/ sync'.pc = "advance" /\ (sync.pc = "apply" \/ ClientEdit)
<1> USE DEF Shape, MergeShape, Kept, SyncGoto, SyncEnds, NoSync
<1>1. CASE TakeBatch \/ StartupBatch \/ Classify
  BY <1>1 DEF TakeBatch, StartupBatch, Classify
<1>2. CASE ReadBase
  <2>1. CASE base # Absent /\ Parses(base)
    BY <1>2, <2>1 DEF ReadBase
  <2>2. CASE ~ (base # Absent /\ Parses(base))
    BY <1>2, <2>2 DEF ReadBase
  <2> QED
    BY <2>1, <2>2
<1>3. CASE MergeComponent
  <2>1. CASE xml = sync.base
    BY <1>3, <2>1 DEF MergeComponent
  <2>2. CASE xml # sync.base
    BY <1>3, <2>2 DEF MergeComponent
  <2> QED
    BY <2>1, <2>2
<1>4. CASE Apply
  BY <1>4 DEF Apply
<1>5. CASE ClientEdit
  BY <1>5 DEF ClientEdit, Replace
<1>6. CASE RejectEdit \/ Advance
  BY <1>6 DEF RejectEdit, Advance
<1>7. CASE RestartServer
  BY <1>7 DEF RestartServer
<1> QED
  BY <1>1, <1>2, <1>3, <1>4, <1>5, <1>6, <1>7
     DEF SyncNext, OpenFile, SaveFile, CloseFile, Notify, Type, RodinSave, BeginBuild, ReadSources,
         WriteProject, RemoveBase, WriteBase, HashProject, Record, DropGuard, syncVars

(* The server, and every merge, keeps to a past of the editor.               *)
LEMMA NextPast == Shape /\ Past /\ [SyncNext]_syncVars => Past'
<1> SUFFICES ASSUME Shape, Past, [SyncNext]_syncVars
             PROVE  Past'
  OBVIOUS
<1>1. Versioned /\ Notified
  BY NextVersioned
<1>2. /\ client.version \in Nat /\ client'.version \in Nat
      /\ server.version \in Nat /\ server.version <= client.version
      /\ sync.target # Absent => sync.target \in Nat
  <2>1. Shape'
    BY NextShape
  <2> QED
    BY <2>1, SyncBoundsAssumption DEF Shape, MergeShape, Document, Version
<1>3. ServerIsPast'
  <2>1. CASE server' = server
    BY <1>1, <1>2, <2>1 DEF Past, ServerIsPast, Versioned
  <2>2. CASE server' = client /\ client' = client
    BY <2>2 DEF ServerIsPast
  <2> QED
    BY <1>1, <2>1, <2>2 DEF Notified
<1> DEFINE Held == sync.pc \in {"base", "merge", "apply", "edit"} /\ sync.target # Absent
<1>4. CASE ReadOurs
  <2>1. /\ sync'.ours = SourceText /\ sync'.pc = "base"
        /\ sync'.target = IF server.open THEN server.version ELSE Absent
        /\ client' = client
    BY <1>4 DEF ReadOurs, Shape, MergeShape, editorVars
  <2>2. sync'.target # Absent => server.open /\ sync'.target = server.version
                                 /\ sync'.ours = server.text
    BY <2>1 DEF SourceText
  <2> QED
    BY <1>2, <1>3, <2>1, <2>2 DEF Past, ServerIsPast, MergeIsPast, EditIsVersioned
<1>5. ASSUME Kept, sync'.pc \in {"base", "merge", "apply", "edit"} =>
                     sync.pc \in {"base", "merge", "apply", "edit"}
      PROVE  MergeIsPast'
  <2> SUFFICES ASSUME sync'.pc \in {"base", "merge", "apply", "edit"}, sync'.target # Absent
               PROVE  /\ sync'.target <= client'.version
                      /\ sync'.target = client'.version => sync'.ours = client'.text
    BY DEF MergeIsPast
  <2>1. /\ sync.target \in Nat /\ sync.target <= client.version
        /\ sync.target = client.version => sync.ours = client.text
    BY <1>2, <1>5 DEF Kept, Past, MergeIsPast
  <2> QED
    BY <1>1, <1>2, <1>5, <2>1 DEF Kept, Versioned
<1>6. CASE sync'.pc \in {"idle", "startup", "classify", "ours", "advance"}
  BY <1>3, <1>6 DEF Past, MergeIsPast, EditIsVersioned
<1>7. CASE sync' = sync
  BY <1>3, <1>5, <1>7 DEF Past, EditIsVersioned, Kept
<1>8. CASE sync.pc \in {"base", "merge"} /\ sync'.pc \in {"merge", "apply"} /\ Kept
  BY <1>3, <1>5, <1>8 DEF Past, EditIsVersioned
<1>9. CASE sync.pc = "apply" /\ sync'.pc = "edit" /\ Kept /\ sync.target # Absent
  BY <1>3, <1>5, <1>9 DEF Past, EditIsVersioned, Kept
<1> QED
  BY <1>4, <1>6, <1>7, <1>8, <1>9, NextMerge

(* The server starts with what the editor has, and no merge.                *)
LEMMA InitPast == SyncInit => Past
BY DEF SyncInit, Past, ServerIsPast, MergeIsPast, EditIsVersioned, NoSync

(* A merge replaces in the buffer exactly the text it was computed for, for  *)
(* any number of builds, merges and edits: the version the client checks     *)
(* names that text.                                                          *)
THEOREM MergesMeetTheirText == SyncSpec => StaleMergesAreRefused
<1>1. Shape /\ Past /\ [SyncNext]_syncVars
        => [sync.pc = "edit" /\ sync'.pc = "advance" => client.text = sync.ours]_syncVars
  <2> SUFFICES ASSUME Shape, Past, [SyncNext]_syncVars, sync.pc = "edit", sync'.pc = "advance"
               PROVE  client.text = sync.ours
    OBVIOUS
  <2>1. ClientEdit
    BY NextMerge DEF ReadOurs
  <2> QED
    BY <2>1 DEF ClientEdit, Past, MergeIsPast, EditIsVersioned
<1> QED
  BY <1>1, InitShape, NextShape, InitPast, NextPast, PTL DEF SyncSpec, StaleMergesAreRefused

-----------------------------------------------------------------------------
(* Hashes.                                                                   *)

(* Every step of a build keeps the hashes those of the component, where no   *)
(* two builds run at once.                                                   *)
LEMMA BuildsKeepHashes ==
    ASSUME Shape, HashInv, NEW b \in Builder,
           \/ BeginBuild(b) \/ ReadSources(b) \/ WriteProject(b) \/ RemoveBase(b)
           \/ WriteBase(b) \/ HashProject(b) \/ Record(b) \/ DropGuard(b)
    PROVE  HashInv'
<1> USE DEF BuildAt, BuildGoto, projectVars, NoBuild
<1>1. build \in [Builder -> [pc : BuildPhase, text : Component \cup {Absent}]]
  BY DEF Shape, BuildShape
<1>2. \A a \in Builder \ {b} : build'[a] = build[a]
  BY <1>1 DEF BeginBuild, ReadSources, WriteProject, RemoveBase, WriteBase, HashProject, Record, DropGuard
<1>3. CASE BeginBuild(b) \/ ReadSources(b) \/ DropGuard(b)
  <2>1. /\ UNCHANGED << xml, written, touched, overlapped >>
        /\ build[b].pc \in {"idle", "read", "guard"} /\ build'[b].pc \in {"idle", "read", "write"}
    BY <1>1, <1>3 DEF BeginBuild, ReadSources, DropGuard
  <2> QED
    BY <1>2, <2>1 DEF HashInv
<1>4. CASE WriteProject(b)
  <2>1. build'[b].pc = "remove" /\ overlapped' = \E a \in Builder \ {b} : build[a].pc = "record"
    BY <1>1, <1>4 DEF WriteProject
  <2> QED
    BY <1>2, <2>1 DEF HashInv
<1>5. CASE RemoveBase(b) \/ WriteBase(b)
  <2>1. UNCHANGED << xml, written, touched, overlapped >> /\ build'[b].pc \in {"base", "hash"}
    BY <1>1, <1>5 DEF RemoveBase, WriteBase
  <2> QED
    BY <1>2, <2>1 DEF HashInv
<1>6. CASE HashProject(b)
  <2>1. /\ UNCHANGED << xml, written, touched, overlapped >>
        /\ build'[b].pc = "record" /\ build'[b].text = xml
    BY <1>1, <1>6 DEF HashProject
  <2> QED
    BY <1>2, <2>1 DEF HashInv
<1>7. CASE Record(b)
  <2>1. /\ UNCHANGED << xml, touched, overlapped >> /\ written' = build[b].text
        /\ build[b].pc = "record" /\ build'[b].pc = "guard"
    BY <1>1, <1>7 DEF Record
  <2> QED
    BY <1>2, <2>1 DEF HashInv
<1> QED
  BY <1>3, <1>4, <1>5, <1>6, <1>7

(* So does every other step: only a build and Rodin write the component.    *)
LEMMA NextHashes == Shape /\ HashInv /\ [SyncNext]_syncVars => HashInv'
<1> SUFFICES ASSUME Shape, HashInv, [SyncNext]_syncVars
             PROVE  HashInv'
  OBVIOUS
<1>1. CASE UNCHANGED << xml, written, touched, overlapped, build >>
  BY <1>1 DEF HashInv
<1>2. ASSUME NEW l \in Line, NEW v \in Value, RodinSave(l, v)
      PROVE  HashInv'
  BY <1>2 DEF RodinSave, HashInv
<1>3. CASE RestartServer
  BY <1>3 DEF RestartServer, HashInv, NoBuild
<1> QED
  BY <1>1, <1>2, <1>3, BuildsKeepHashes
     DEF SyncNext, OpenFile, SaveFile, CloseFile, Notify, Type, TakeBatch, StartupBatch, Classify,
         ReadOurs, ReadBase, MergeComponent, Apply, ClientEdit, RejectEdit, Advance, syncVars,
         projectVars

(* The hash of a project that has just been built is that of its component. *)
LEMMA InitHashes == SyncInit => HashInv
BY DEF SyncInit, HashInv, NoBuild

(* While no build writes, the watcher never takes what a build wrote for an  *)
(* edit of Rodin's, unless a restart has lost the hashes or the last build   *)
(* wrote while another was recording: however many builds run at once.       *)
THEOREM BuildsAreNoEdits == SyncSpec => OwnWritesAreDropped
<1>1. Shape /\ HashInv /\ [SyncNext]_syncVars
        => [sync.pc = "classify" /\ sync'.pc = "ours" /\ ~ BuildsWrite
              => touched \/ written = Absent \/ overlapped]_syncVars
  <2> SUFFICES ASSUME Shape, HashInv, [SyncNext]_syncVars,
                      sync.pc = "classify", sync'.pc = "ours", ~ BuildsWrite
               PROVE  touched \/ written = Absent \/ overlapped
    OBVIOUS
  <2>1. Classify
    BY DEF SyncNext, OpenFile, SaveFile, CloseFile, Notify, Type, RodinSave, BeginBuild,
           ReadSources, WriteProject, RemoveBase, WriteBase, HashProject, Record, DropGuard,
           TakeBatch, StartupBatch, ReadOurs, ReadBase, MergeComponent, Apply, ClientEdit,
           RejectEdit, Advance, RestartServer, syncVars, NoSync
  <2>2. written # xml
    BY <2>1 DEF Classify, SyncEnds, NoSync
  <2> QED
    BY <2>2 DEF HashInv, BuildsWrite, BuildAt
<1> QED
  BY <1>1, InitShape, NextShape, InitHashes, NextHashes, PTL DEF SyncSpec, OwnWritesAreDropped
=============================================================================
