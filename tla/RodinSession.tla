---------------------------- MODULE RodinSession ----------------------------
(***************************************************************************)
(* A session of Rodin as the language server sees it: the "Open in Rodin"  *)
(* flow (rodin/mod.rs), one at a time, which copies the proofs of the      *)
(* checkout into the project, builds it and launches Rodin; rebuilds on    *)
(* save, debounced by a generation per project (server.rs); and the        *)
(* monitor that copies the proofs back when Rodin has quit                 *)
(* (rodin/proof_mirror.rs).  Whether Rodin runs is known from the lock it  *)
(* holds on the workspace, which a probe may fail to read.                 *)
(*                                                                         *)
(* A step is what runs between two awaits, or between two accesses to      *)
(* something shared.  There is one workspace; a project has one proof      *)
(* file, whose content is a number.                                        *)
(***************************************************************************)
EXTENDS Naturals, FiniteSets

CONSTANTS
    Project,        \* projects of the workspace
    MaxSaves,       \* bound on the saves, each of which has a task
    MaxVersions,    \* bound on the contents of proof files
    MaxSessions,    \* bound on the times Rodin is started
    MaxFaults,      \* bound on the probes and copies that fail and the restarts of the server
    Null            \* no project, nothing owed

ASSUME BoundsAssumption == {MaxSaves, MaxVersions, MaxSessions, MaxFaults} \subseteq Nat
ASSUME NullAssumption == Null \notin Project \cup Nat

VARIABLES
    built,              \* projects a build has been written for
    exists,             \* projects with a directory in the workspace
    checkout, project,  \* per project: the proof file in the checkout, in the workspace
    rodin,              \* Rodin: off, booting without the lock, running with it
    flow,               \* the flow behind the lens
    cancel,             \* its token: what the registry and the client know of it
    generations,        \* per project: debounce generation, 0 for no entry
    task,               \* per save: its rebuild task
    monitor,            \* the session monitor in the slot
    saves, versions, sessions, faults,
    (* history *)
    due,                \* projects saved since a rebuild last read their text
    owed,               \* per project: the work of its session the checkout is to get, or Null
    replaced,           \* projects whose work a seed wrote over before that
    backed, foreign,    \* checkout proofs the workspace has had; that came in mid-session
    failed              \* a probe or a copy has failed, a boot was forgotten

world == << built, exists, checkout, project, rodin >>
bounds == << saves, versions, sessions, faults >>
history == << due, owed, replaced, backed, foreign, failed >>
vars == << world, flow, cancel, generations, task, monitor, bounds, history >>

Save == 1 .. MaxSaves

IdleFlow == [pc |-> "idle", project |-> Null, seeded |-> FALSE]
NoCancel == [registered |-> FALSE, shown |-> FALSE, asked |-> FALSE, heard |-> FALSE]
IdleTask == [pc |-> "idle", project |-> Null, generation |-> 0]
NoMonitor == [pc |-> "none", armed |-> [p \in Project |-> "no"], todo |-> {}]

Init ==
    /\ built = {} /\ exists = {}
    /\ checkout \in [Project -> {0, 1}] /\ project = [p \in Project |-> 0]
    /\ rodin = "off"
    /\ flow = IdleFlow /\ cancel = NoCancel
    /\ generations = [p \in Project |-> 0]
    /\ task = [k \in Save |-> IdleTask]
    /\ monitor = NoMonitor
    /\ saves = 0 /\ versions = 1 /\ sessions = 0 /\ faults = 0
    /\ due = {} /\ owed = [p \in Project |-> Null] /\ replaced = {} /\ backed = {} /\ foreign = {} /\ failed = FALSE

Fails == faults < MaxFaults /\ faults' = faults + 1 /\ failed' = TRUE

(* workspace_lock_state: there is no lock file before Rodin was first        *)
(* started.                                                                  *)
LockState == IF rodin = "running" THEN "Held" ELSE "Free"
Probed(state) ==
    IF state = "Unknown" THEN sessions > 0 /\ Fails
    ELSE state = LockState /\ UNCHANGED << faults, failed >>

Armed(p) == monitor.pc # "none" /\ monitor.armed[p] # "no"

-----------------------------------------------------------------------------
(* The lens.                                                                *)

AtFlow(pc) == flow.pc = pc
GoFlow(pc) == flow' = [flow EXCEPT !.pc = pc]

Finish == flow' = IdleFlow /\ cancel' = NoCancel

(* execute_rodin_open: try_begin refuses a second flow.                      *)
Click(p) ==
    /\ AtFlow("idle")
    /\ flow' = [IdleFlow EXCEPT !.pc = "create", !.project = p]
    /\ UNCHANGED << world, cancel, generations, task, monitor, bounds, history >>

(* Mutant: the client is told before the token is registered.                *)
CreateShown ==
    /\ AtFlow("create")
    /\ cancel' = [cancel EXCEPT !.shown = TRUE]
    /\ GoFlow("announce")
    /\ UNCHANGED << world, generations, task, monitor, bounds, history >>

(* The client has answered: the token is registered, or there is none.       *)
CreateProgress ==
    /\ AtFlow("create")
    /\ cancel' \in {cancel, [cancel EXCEPT !.registered = TRUE]}
    /\ GoFlow("announce")
    /\ UNCHANGED << world, generations, task, monitor, bounds, history >>

Announce ==
    /\ AtFlow("announce")
    /\ cancel' = [cancel EXCEPT !.shown = @ \/ cancel.registered, !.registered = @ \/ cancel.shown]
    /\ GoFlow("seed_probe")
    /\ UNCHANGED << world, generations, task, monitor, bounds, history >>

(* window/workDoneProgress/cancel; "asked": in time, before the launch.      *)
ClientCancels ==
    /\ cancel.shown
    /\ cancel' = [cancel EXCEPT !.asked = @ \/ ~ AtFlow("launch"), !.heard = @ \/ cancel.registered]
    /\ UNCHANGED << world, flow, generations, task, monitor, bounds, history >>

SeedProbe ==
    /\ AtFlow("seed_probe")
    /\ \E state \in {"Free", "Held", "Unknown"} :
         /\ Probed(state)
         /\ GoFlow(IF state = "Held" THEN "check" ELSE "seed")
    /\ UNCHANGED << world, cancel, generations, task, monitor, saves, versions, sessions, due, owed, replaced, backed, foreign >>

(* seed_project: a file that cannot be copied is skipped; a seed that fails  *)
(* outright leaves the project unseeded.  It asks nobody whether the project *)
(* holds work that is still to be copied back.                               *)
Overwrites(p) == checkout[p] # 0 /\ owed[p] # Null /\ owed[p] # checkout[p]

Seed ==
    /\ AtFlow("seed")
    /\ LET p == flow.project IN
         \/ /\ project' = [project EXCEPT ![p] = IF checkout[p] = 0 THEN @ ELSE checkout[p]]
            /\ backed' = IF checkout[p] = 0 THEN backed ELSE backed \cup {p}
            /\ replaced' = IF Overwrites(p) THEN replaced \cup {p} ELSE replaced
            /\ UNCHANGED << faults, failed >>
         \/ /\ checkout[p] # 0 /\ Fails
            /\ UNCHANGED << project, backed, replaced >>
    /\ exists' = IF checkout[flow.project] = 0 THEN exists ELSE exists \cup {flow.project}
    /\ flow' = [flow EXCEPT !.pc = "check", !.seeded = TRUE]
    /\ UNCHANGED << built, checkout, rodin, cancel, generations, task, monitor, saves, versions, sessions,
                    due, owed, foreign >>

SeedFails ==
    /\ AtFlow("seed")
    /\ faults < MaxFaults /\ faults' = faults + 1
    /\ GoFlow("check")
    /\ UNCHANGED << world, cancel, generations, task, monitor, saves, versions, sessions, history >>

Check ==
    /\ AtFlow("check")
    /\ IF cancel.heard THEN Finish ELSE GoFlow("read") /\ UNCHANGED cancel
    /\ UNCHANGED << world, generations, task, monitor, bounds, history >>

(* build_into_workspace: its guard is held from "read" on; a build that      *)
(* fails ends the flow.                                                      *)
ReadFlowBuild ==
    /\ AtFlow("read")
    /\ \/ GoFlow("write") /\ UNCHANGED cancel
       \/ Finish
    /\ due' = due \ {flow.project}
    /\ UNCHANGED << world, generations, task, monitor, bounds, owed, replaced, backed, foreign, failed >>

WriteFlowBuild ==
    /\ AtFlow("write")
    /\ built' = built \cup {flow.project} /\ exists' = exists \cup {flow.project}
    /\ GoFlow("probe")
    /\ UNCHANGED << checkout, project, rodin, cancel, generations, task, monitor, bounds, history >>

(* RodinSessionMonitor::arm.                                                 *)
Seeded(seeded, before) == IF seeded \/ before = "seeded" THEN "seeded" ELSE "unseeded"

(* Mutant: each project counts as seeded.                                    *)
ArmSeeded(p, seeded) ==
    monitor' = IF monitor.pc = "none"
               THEN [NoMonitor EXCEPT !.pc = "watch", !.armed[p] = "seeded"]
               ELSE [monitor EXCEPT !.armed[p] = "seeded"]

Arm(p, seeded) ==
    monitor' = IF monitor.pc = "none"
               THEN [NoMonitor EXCEPT !.pc = "watch", !.armed[p] = Seeded(seeded, "no")]
               ELSE [monitor EXCEPT !.armed[p] = Seeded(seeded, @)]

(* A Rodin that runs already is left to pick the build up; "bridged": its    *)
(* plug-in answered.                                                         *)
ProbeLock ==
    /\ AtFlow("probe")
    /\ \E state \in {"Free", "Held", "Unknown"}, bridged \in BOOLEAN :
         /\ Probed(state)
         /\ bridged => state # "Free" /\ rodin = "running"
         /\ IF bridged \/ state = "Held" THEN Finish
            ELSE GoFlow("register") /\ UNCHANGED cancel
         /\ IF state = "Held" THEN Arm(flow.project, flow.seeded) ELSE UNCHANGED monitor
    /\ UNCHANGED << world, generations, task, saves, versions, sessions, due, owed, replaced, backed, foreign >>

(* No Rodin at the configured path, a registration that fails, a cancel.     *)
Register ==
    /\ AtFlow("register")
    /\ \/ Finish
       \/ ~ cancel.heard /\ GoFlow("launch") /\ UNCHANGED cancel
    /\ UNCHANGED << world, generations, task, monitor, bounds, history >>

(* Mutant: the flow ends with the launch.                                    *)
LaunchAndReturn ==
    /\ AtFlow("launch") /\ sessions < MaxSessions
    /\ rodin' = IF rodin = "off" THEN "booting" ELSE rodin
    /\ sessions' = sessions + 1
    /\ Finish
    /\ UNCHANGED << built, exists, checkout, project, generations, task, monitor, saves, versions, faults, history >>

(* A second Rodin on one workspace gives up at once.                         *)
Launch ==
    /\ AtFlow("launch") /\ sessions < MaxSessions
    /\ rodin' = IF rodin = "off" THEN "booting" ELSE rodin
    /\ sessions' = sessions + 1
    /\ GoFlow("await")
    /\ cancel' = NoCancel
    /\ UNCHANGED << built, exists, checkout, project, generations, task, monitor, saves, versions, faults, history >>

(* wait_for_workspace_lock: the lock is taken or cannot be probed, or the    *)
(* time is up, which is taken to be longer than a boot that succeeds.        *)
AwaitLock ==
    /\ AtFlow("await")
    /\ \E state \in {"Free", "Held", "Unknown"} :
         /\ Probed(state)
         /\ state = "Free" => rodin = "off"
         /\ IF state = "Held" THEN Arm(flow.project, flow.seeded) ELSE UNCHANGED monitor
    /\ Finish
    /\ UNCHANGED << world, generations, task, saves, versions, sessions, due, owed, replaced, backed, foreign >>

-----------------------------------------------------------------------------
(* Rebuild on save.                                                         *)

(* schedule_rodin_rebuild.                                                   *)
DidSave(p) ==
    /\ saves < MaxSaves /\ saves' = saves + 1
    /\ IF p \notin exists THEN UNCHANGED << generations, task, due >>
       ELSE /\ generations' = [generations EXCEPT ![p] = @ + 1]
            /\ task' = [task EXCEPT ![saves + 1] =
                          [pc |-> "sleep", project |-> p, generation |-> generations[p] + 1]]
            /\ due' = due \cup {p}
    /\ UNCHANGED << built, exists, checkout, project, rodin, flow, cancel, monitor,
                    versions, sessions, faults, owed, replaced, backed, foreign, failed >>

AtTask(k, pc) == task[k].pc = pc
Entry(k) == generations[task[k].project]

(* Mutant: the entry goes whoever wakes up.                                  *)
WakeAndRemove(k) ==
    /\ AtTask(k, "sleep")
    /\ task' = [task EXCEPT ![k] = IF Entry(k) = task[k].generation
                                   THEN [@ EXCEPT !.pc = "probe"] ELSE IdleTask]
    /\ generations' = [generations EXCEPT ![task[k].project] = 0]
    /\ UNCHANGED << world, flow, cancel, monitor, bounds, history >>

(* After the debounce; timers that are due fire in any order.                *)
Wake(k) ==
    /\ AtTask(k, "sleep")
    /\ IF Entry(k) = task[k].generation
       THEN /\ task' = [task EXCEPT ![k].pc = "probe"]
            /\ generations' = [generations EXCEPT ![task[k].project] = 0]
       ELSE task' = [task EXCEPT ![k] = IdleTask] /\ UNCHANGED generations
    /\ UNCHANGED << world, flow, cancel, monitor, bounds, history >>

RebuildWanted(k) ==
    /\ AtTask(k, "probe")
    /\ \E state \in {"Free", "Held", "Unknown"} :
         /\ Probed(state)
         /\ task' = [task EXCEPT ![k] = IF state = "Free" THEN IdleTask ELSE [@ EXCEPT !.pc = "read"]]
         /\ due' = IF state = "Free" THEN due \ {task[k].project} ELSE due
    /\ UNCHANGED << world, flow, cancel, generations, monitor, saves, versions, sessions, owed, replaced, backed, foreign >>

(* The build may fail here.                                                  *)
ReadRebuild(k) ==
    /\ AtTask(k, "read")
    /\ task' \in {[task EXCEPT ![k].pc = "write"], [task EXCEPT ![k] = IdleTask]}
    /\ due' = due \ {task[k].project}
    /\ UNCHANGED << world, flow, cancel, generations, monitor, bounds, owed, replaced, backed, foreign, failed >>

WriteRebuild(k) ==
    /\ AtTask(k, "write")
    /\ built' = built \cup {task[k].project}
    /\ task' = [task EXCEPT ![k] = IdleTask]
    /\ UNCHANGED << exists, checkout, project, rodin, flow, cancel, generations, monitor, bounds, history >>

-----------------------------------------------------------------------------
(* The session monitor: monitor_task.                                       *)

AtMonitor(pc) == monitor.pc = pc
Building == flow.pc \in {"seed", "read", "write"} \/ \E k \in Save : task[k].pc \in {"read", "write"}

(* wait_for_session_end: one that cannot probe gives up.                     *)
SessionEnds ==
    /\ AtMonitor("watch")
    /\ \E state \in {"Free", "Unknown"} :
         /\ Probed(state)
         /\ monitor' = IF state = "Free" THEN [monitor EXCEPT !.pc = "settle"] ELSE NoMonitor
    /\ UNCHANGED << world, flow, cancel, generations, task, saves, versions, sessions, due, owed, replaced, backed, foreign >>

(* Mutant: only the projects that were seeded are copied back.               *)
SettleSeeded ==
    /\ AtMonitor("settle") /\ ~ Building
    /\ monitor' = [monitor EXCEPT !.pc = "mirror", !.todo = {p \in Project : monitor.armed[p] = "seeded"}]
    /\ UNCHANGED << world, flow, cancel, generations, task, bounds, history >>

(* No build is under way; the list is read at once.                          *)
Settle ==
    /\ AtMonitor("settle") /\ ~ Building
    /\ monitor' = [monitor EXCEPT !.pc = "mirror", !.todo = {p \in Project : Armed(p)}]
    /\ UNCHANGED << world, flow, cancel, generations, task, bounds, history >>

(* mirror_back_project: the workspace's proof is copied; one that is gone is *)
(* deleted if the session was seeded.  A file that cannot be copied or       *)
(* deleted is skipped.                                                       *)
Deletes(p) == project[p] = 0 /\ checkout[p] # 0 /\ monitor.armed[p] = "seeded"
Mirror(p) ==
    /\ AtMonitor("mirror") /\ p \in monitor.todo
    /\ checkout' = [checkout EXCEPT ![p] = IF project[p] # 0 THEN project[p]
                                           ELSE IF Deletes(p) THEN 0 ELSE @]
    /\ monitor' = [monitor EXCEPT !.todo = @ \ {p}]
    /\ owed' = [owed EXCEPT ![p] = IF @ = checkout'[p] THEN Null ELSE @]
    /\ backed' = IF project[p] # 0 THEN backed \cup {p} ELSE backed
    /\ foreign' = IF project[p] # 0 \/ Deletes(p) THEN foreign \ {p} ELSE foreign
    /\ UNCHANGED << built, exists, project, rodin, flow, cancel, generations, task, bounds,
                    due, replaced, failed >>

MirrorFails(p) ==
    /\ AtMonitor("mirror") /\ p \in monitor.todo
    /\ Fails
    /\ monitor' = [monitor EXCEPT !.todo = @ \ {p}]
    /\ UNCHANGED << world, flow, cancel, generations, task, saves, versions, sessions,
                    due, owed, replaced, backed, foreign >>

MonitorReturns ==
    /\ AtMonitor("mirror") /\ monitor.todo = {}
    /\ monitor' = NoMonitor
    /\ UNCHANGED << world, flow, cancel, generations, task, bounds, history >>

-----------------------------------------------------------------------------
(* Rodin, the user, and the server's own end.                               *)

StartByHand ==
    /\ rodin = "off" /\ sessions < MaxSessions
    /\ rodin' = "running" /\ sessions' = sessions + 1
    /\ UNCHANGED << built, exists, checkout, project, flow, cancel, generations, task, monitor,
                    saves, versions, faults, history >>

Boot ==
    /\ rodin = "booting" /\ rodin' \in {"running", "off"}
    /\ UNCHANGED << built, exists, checkout, project, flow, cancel, generations, task, monitor,
                    bounds, history >>

Quit ==
    /\ rodin = "running" /\ rodin' = "off"
    /\ UNCHANGED << built, exists, checkout, project, flow, cancel, generations, task, monitor,
                    bounds, history >>

(* What Rodin makes of a project under watch is owed to the checkout, and so *)
(* is what it makes of it while that is still owed: the proof, or that it is *)
(* gone, which only a seeded session passes on.                              *)
Watched(p) == \/ AtMonitor("watch") /\ Armed(p)
              \/ owed[p] # Null /\ p \notin replaced
Owe(p, proof) ==
    /\ owed' = [owed EXCEPT ![p] = IF Watched(p) /\ (proof # 0 \/ monitor.armed[p] = "seeded")
                                   THEN proof ELSE Null]
    /\ replaced' = replaced \ {p}

(* A proof is made, or discarded.                                            *)
RodinWorks(p) ==
    /\ rodin = "running" /\ p \in built
    /\ \E proof \in {0, versions + 1} :
         /\ IF proof = 0 THEN project[p] # 0 /\ UNCHANGED versions
            ELSE versions < MaxVersions /\ versions' = versions + 1
         /\ project' = [project EXCEPT ![p] = proof]
         /\ Owe(p, proof)
    /\ UNCHANGED << built, exists, checkout, rodin, flow, cancel, generations, task, monitor,
                    saves, sessions, faults, due, backed, foreign, failed >>

(* Version control changes the proof file of the checkout.                   *)
Pull(p) ==
    /\ versions < MaxVersions /\ versions' = versions + 1
    /\ checkout' = [checkout EXCEPT ![p] = versions + 1]
    /\ backed' = backed \ {p}
    /\ foreign' = IF flow.project = p \/ Armed(p) THEN foreign \cup {p} ELSE foreign \ {p}
    /\ UNCHANGED << built, exists, project, rodin, flow, cancel, generations, task, monitor,
                    saves, sessions, faults, due, owed, replaced, failed >>

(* What was under way is forgotten, a Rodin that boots included.             *)
Restart ==
    /\ faults < MaxFaults /\ faults' = faults + 1
    /\ flow' = IdleFlow /\ cancel' = NoCancel /\ monitor' = NoMonitor
    /\ generations' = [p \in Project |-> 0] /\ task' = [k \in Save |-> IdleTask]
    /\ due' = {} /\ owed' = [p \in Project |-> Null] /\ replaced' = {} /\ failed' = (failed \/ rodin = "booting")
    /\ UNCHANGED << world, saves, versions, sessions, backed, foreign >>

-----------------------------------------------------------------------------
FlowStep ==
    \/ CreateProgress \/ Announce \/ SeedProbe \/ Seed \/ SeedFails \/ Check
    \/ ReadFlowBuild \/ WriteFlowBuild
    \/ ProbeLock \/ Register \/ Launch \/ AwaitLock
TaskStep(k) == Wake(k) \/ RebuildWanted(k) \/ ReadRebuild(k) \/ WriteRebuild(k)
MonitorStep == SessionEnds \/ Settle \/ (\E p \in Project : Mirror(p) \/ MirrorFails(p)) \/ MonitorReturns
RodinStep == StartByHand \/ Boot \/ Quit \/ \E p \in Project : RodinWorks(p)

Next ==
    \/ FlowStep \/ MonitorStep \/ RodinStep \/ Restart \/ ClientCancels
    \/ \E k \in Save : TaskStep(k)
    \/ \E p \in Project : Click(p) \/ Pull(p) \/ DidSave(p)

Spec == Init /\ [][Next]_vars

-----------------------------------------------------------------------------
(* Properties.                                                              *)

WorldOK ==
    /\ built \subseteq exists /\ exists \subseteq Project
    /\ checkout \in [Project -> Nat] /\ project \in [Project -> Nat]
    /\ rodin \in {"off", "booting", "running"}

FlowOK ==
    /\ flow \in [pc : {"idle", "create", "announce", "seed_probe", "seed", "check", "read",
                       "write", "probe", "register", "launch", "await"},
                 project : Project \cup {Null}, seeded : BOOLEAN]
    /\ ~ AtFlow("idle") => flow.project \in Project
    /\ cancel \in [registered : BOOLEAN, shown : BOOLEAN, asked : BOOLEAN, heard : BOOLEAN]

TasksOK ==
    /\ generations \in [Project -> Nat]
    /\ task \in [Save -> [pc : {"idle", "sleep", "probe", "read", "write"},
                          project : Project \cup {Null}, generation : Nat]]
    /\ saves \in Nat
    /\ \A k \in Save : /\ ~ AtTask(k, "idle") => task[k].project \in exists
                       /\ k > saves => AtTask(k, "idle")

MonitorOK ==
    monitor \in [pc : {"none", "watch", "settle", "mirror"},
                 armed : [Project -> {"no", "unseeded", "seeded"}], todo : SUBSET Project]

HistoryOK ==
    /\ versions \in Nat /\ failed \in BOOLEAN
    /\ owed \in [Project -> Nat \cup {Null}]
    /\ {due, replaced, backed, foreign} \subseteq SUBSET Project

(* Work in progress has a project, and a task a save.                        *)
TypeOK == WorldOK /\ FlowOK /\ TasksOK /\ MonitorOK /\ HistoryOK

(* A Rodin the lens has launched is not launched again while it boots.       *)
BootsAlone ==
    [][AtFlow("launch") /\ sessions' > sessions => rodin # "booting" \/ failed]_vars

(* A cancel the client sends for a progress it was shown stops the launch.   *)
CancelledNeverLaunches == AtFlow("launch") => ~ cancel.asked

(* Once the rebuild tasks are done, no save is left that no build has read   *)
(* and no probe has found unwanted, though entries start again at one.       *)
SavesAreBuilt == (\A k \in Save : AtTask(k, "idle")) => due = {}

(* Once Rodin has quit and all is quiet, what was last proved, or given up,  *)
(* in it while its monitor was watching is what the checkout got: "the       *)
(* checkout is authoritative when a session starts (seed), the workspace     *)
(* when it ends".  Not so for what the seed of a next session has replaced   *)
(* before the mirror pass, which the code does not prevent.                  *)
Quiet == AtFlow("idle") /\ AtMonitor("none") /\ rodin = "off"
ArmedWorkIsMirrored ==
    Quiet => failed \/ \A p \in Project : owed[p] = Null \/ p \in replaced

(* A proof file is deleted from the checkout only if Rodin deleted it from   *)
(* the workspace; or it came into the checkout in the middle of a session.   *)
DeletionsAreRodins ==
    [][\A p \in Project : checkout[p] # 0 /\ checkout'[p] = 0
                            => p \in backed \/ p \in foreign \/ failed]_vars
=============================================================================
