---------------------- MODULE DiagnosticsPipelineProofs ----------------------
(***************************************************************************)
(* What holds of the diagnostics pipeline for any number of documents,     *)
(* handlers and analyses in flight, edits and changes of the shared inputs.*)
(*                                                                         *)
(* The lock of a document protects it although its map entry comes and     *)
(* goes, because every task that has a reference to a lock and is not past *)
(* the eviction has the one in the entry (EntriesOwned), and who is under  *)
(* a lock is the head of its queue (Queued).  So one task publishes for a  *)
(* document at a time, and its revision, checked once more before it       *)
(* publishes, is not older than what is shown (Ordered).                   *)
(*                                                                         *)
(* What is shown in the end is right because for an open document there is *)
(* always somebody who will derive its diagnostics anew from inputs read   *)
(* later, behind every close that still waits to publish, unless nobody is *)
(* about to show anything but what its buffer and the inputs say; and for  *)
(* a closed one a close has yet to publish, or nobody else will (Shown).   *)
(***************************************************************************)
EXTENDS DiagnosticsPipeline, TLAPS

(* The steps at which a task holds its document's lock, is in its queue, and *)
(* has a reference to it that the map's entry must match.                    *)
Locked == {"commit", "compute", "derive", "recheck", "publish", "unlock"}
InLine == {"wait"} \cup Locked
Owning == {"enqueue", "evict"} \cup InLine

TaskState ==
    [pc : {"idle", "register", "sleep", "drop", "republish_all", "next", "refresh", "analyze",
           "parse", "lock", "return"} \cup Owning,
     kind : {"none", "analyze", "republish", "clear"}, uri : Uri \cup {Null},
     doc : 0 .. MaxRevision, lock : Lock \cup {Null}, sources : BOOLEAN,
     seen : Seen, todo : SUBSET Uri]

(* What a task remembers at each of its steps.                               *)
Fits(c) ==
    /\ c.pc \notin {"idle", "republish_all", "next"} => c.uri \in Uri
    /\ c.lock # Null <=> c.pc \in Owning \cup {"return"}
    /\ c.pc \in {"idle", "register", "sleep", "refresh", "republish_all"} => c.todo = {}
    /\ c.kind = "clear" => /\ c.pc \in {"drop", "lock", "enqueue", "wait", "publish"}
                           /\ c.todo = {}
    /\ c.pc = "drop" => c.kind = "clear"
    /\ c.pc \in {"parse", "lock", "enqueue", "wait"} \cup (Locked \ {"unlock"})
          /\ c.kind # "clear" => c.doc # 0

(* The handlers' task runs one handler up to its first real await, so a      *)
(* close is in its document's queue before anything else is handled.         *)
ServerShape ==
    /\ server # Null => task[server].pc \in {"analyze", "parse", "drop", "lock", "enqueue"}
    /\ \A t \in Task :
          task[t].kind = "clear" /\ task[t].pc \in {"drop", "lock", "enqueue"}
          => server = t /\ buffer[task[t].uri] = 0

GraphTyped ==
    /\ overlay \in [Uri -> 0 .. MaxRevision] /\ saved \in 0 .. MaxChanges
    /\ moved \in [Uri -> SUBSET (Uri \cup {Disk})]

Typed ==
    /\ TypeOK /\ task \in [Task -> TaskState]
    /\ \A t \in Task : Fits(task[t])
    /\ ServerShape

(* The queue of a lock is of the tasks that want it, each once and each in   *)
(* one queue, and who has it is its head.                                    *)
Queued ==
    /\ \A l \in Lock : \A i, j \in 1 .. Len(queue[l]) : queue[l][i] = queue[l][j] => i = j
    /\ \A l \in Lock : \A i \in 1 .. Len(queue[l]) :
          task[queue[l][i]].lock = l /\ task[queue[l][i]].pc \in InLine
    /\ \A t \in Task : task[t].pc \in InLine
          => \E i \in 1 .. Len(queue[task[t].lock]) : queue[task[t].lock][i] = t
    /\ \A t \in Task : task[t].pc \in Locked
          => queue[task[t].lock] # << >> /\ queue[task[t].lock][1] = t

(* The entry of a URI is the lock that whoever has a reference to it holds,  *)
(* but for tasks that are past the eviction.                                 *)
EntriesOwned ==
    /\ \A u, v \in Uri :
          diagnostic_locks[u] # Null /\ diagnostic_locks[u] = diagnostic_locks[v] => u = v
    /\ \A t \in Task : task[t].pc \in Owning => diagnostic_locks[task[t].uri] = task[t].lock

-----------------------------------------------------------------------------
(* Types.                                                                    *)

(* A task with nothing to do.                                                *)
LEMMA IdleTask ==
    /\ Idle \in TaskState /\ Fits(Idle) /\ Nothing \in Seen
    /\ Idle.pc = "idle" /\ Idle.kind = "none" /\ Idle.uri = Null /\ Idle.doc = 0
    /\ Idle.lock = Null /\ Idle.todo = {}
<1>1. Nothing \in Seen
  BY BoundsAssumption DEF Nothing, Seen
<1> QED
  BY <1>1, NullAssumption, BoundsAssumption
     DEF Idle, TaskState, Fits, Owning, InLine, Locked

(* The initial state is typed.                                               *)
LEMMA InitTyped == Init => Typed
<1> SUFFICES ASSUME Init PROVE Typed
  OBVIOUS
<1> USE BoundsAssumption
<1>1. task = [t \in Task |-> Idle]
  BY DEF Init
<1>2. TypeOK
  <2>1. \A t \in Task : /\ task[t].uri \in Uri \cup {Null} /\ task[t].doc \in 0 .. MaxRevision
                        /\ task[t].lock \in Lock \cup {Null} /\ task[t].todo \subseteq Uri
    BY <1>1, IdleTask DEF TaskState
  <2>2. << >> \in Seq(Task)
    OBVIOUS
  <2> QED
    BY <2>1, <2>2, IdleTask DEF Init, TypeOK, Clear
<1>3. ServerShape
  BY <1>1 DEF Init, ServerShape, Idle
<1> QED
  BY <1>1, <1>2, <1>3, IdleTask DEF Typed

(* A step that writes one task's state.                                      *)
LEMMA TaskWritten ==
    ASSUME Typed, NEW t \in Task, NEW new \in TaskState, Fits(new),
           task' = [task EXCEPT ![t] = new]
    PROVE  /\ task' \in [Task -> TaskState] /\ \A x \in Task : Fits(task'[x])
           /\ \A x \in Task :
                /\ task'[x].uri \in Uri \cup {Null} /\ task'[x].doc \in 0 .. MaxRevision
                /\ task'[x].lock \in Lock \cup {Null} /\ task'[x].todo \subseteq Uri
           /\ \A x \in Task : task'[x] = IF x = t THEN new ELSE task[x]
<1>1. \A x \in Task : task'[x] = IF x = t THEN new ELSE task[x]
  BY DEF Typed
<1>2. task' \in [Task -> TaskState] /\ \A x \in Task : Fits(task'[x])
  BY <1>1 DEF Typed
<1> QED
  BY <1>1, <1>2 DEF TaskState

(* What is held of the workspace, unless something moves or is touched.      *)
LEMMA GraphStays == Typed /\ UNCHANGED graphVars => GraphTyped'
BY DEF Typed, TypeOK, GraphTyped, graphVars

LEMMA GraphMoves ==
    ASSUME Typed, NEW w \in Uri, overlay' \in [Uri -> 0 .. MaxRevision], saved' = saved,
           Touched(w) \/ Moved(w) \/ moved' = moved
    PROVE  GraphTyped'
<1>1. moved \in [Uri -> SUBSET (Uri \cup {Disk})] /\ saved \in 0 .. MaxChanges
  BY DEF Typed, TypeOK
<1>2. CASE Touched(w)
  BY <1>1, <1>2 DEF Touched, GraphTyped
<1>3. CASE Moved(w)
  BY <1>1, <1>3 DEF Moved, GraphTyped
<1>4. CASE moved' = moved
  BY <1>1, <1>4 DEF GraphTyped
<1> QED
  BY <1>2, <1>3, <1>4

(* A step that takes no handler's turn and leaves the buffers alone.         *)
LEMMA QuietTyped ==
    ASSUME Typed, NEW t \in Task, NEW new \in TaskState, Fits(new),
           task' = [task EXCEPT ![t] = new],
           client_open' \in [Uri -> BOOLEAN], buffer' \in [Uri -> 0 .. MaxRevision],
           UNCHANGED next_revision, GraphTyped',
           \A u \in Uri : buffer[u] = 0 => buffer'[u] = 0,
           shared' \in 0 .. MaxChanges, proof_obligations' \in [Uri -> 0 .. MaxRevision],
           published' \in [Uri -> [revision : 0 .. MaxRevision, seen : Seen]],
           diagnostic_locks' \in [Uri -> Lock \cup {Null}], queue' \in [Lock -> Seq(Task)],
           \/ server' = server /\ (server = t => new.pc \in {"analyze", "parse", "drop", "lock",
                                                             "enqueue"})
           \/ server = Null /\ server' = t /\ new.pc \in {"analyze", "drop"}
           \/ server' = IF server = t THEN Null ELSE server,
           new.kind = "clear" /\ new.pc \in {"drop", "lock", "enqueue"}
              => server' = t /\ buffer'[new.uri] = 0
    PROVE  Typed'
<1>1. /\ task' \in [Task -> TaskState] /\ \A x \in Task : Fits(task'[x])
      /\ \A x \in Task : /\ task'[x].uri \in Uri \cup {Null} /\ task'[x].doc \in 0 .. MaxRevision
                         /\ task'[x].lock \in Lock \cup {Null} /\ task'[x].todo \subseteq Uri
      /\ \A x \in Task : task'[x] = IF x = t THEN new ELSE task[x]
  BY TaskWritten
<1>2. server' \in Task \cup {Null}
  BY DEF Typed, TypeOK
<1>3. TypeOK'
  BY <1>1, <1>2 DEF Typed, TypeOK, GraphTyped
<1>4. ServerShape'
  <2>1. server' # Null
        => task'[server'].pc \in {"analyze", "parse", "drop", "lock", "enqueue"}
    BY <1>1, <1>2 DEF Typed, TypeOK, ServerShape
  <2>2. \A x \in Task : task'[x].kind = "clear" /\ task'[x].pc \in {"drop", "lock", "enqueue"}
                        => server' = x /\ buffer'[task'[x].uri] = 0
    <3> SUFFICES ASSUME NEW x \in Task, task'[x].kind = "clear",
                        task'[x].pc \in {"drop", "lock", "enqueue"}
                 PROVE  server' = x /\ buffer'[task'[x].uri] = 0
      OBVIOUS
    <3>1. CASE x = t
      BY <1>1, <3>1
    <3>2. CASE x # t
      <4>1. task'[x] = task[x] /\ server = x /\ buffer[task[x].uri] = 0
        BY <1>1, <3>2 DEF Typed, ServerShape
      <4>2. task[x].uri \in Uri
        BY <4>1 DEF Typed, Fits
      <4> QED
        BY <3>2, <4>1, <4>2, NullAssumption
    <3> QED
      BY <3>1, <3>2
  <2> QED
    BY <2>1, <2>2 DEF ServerShape
<1> QED
  BY <1>1, <1>3, <1>4 DEF Typed

(* An edit or an open comes while no handler runs.                           *)
LEMMA DrawTyped ==
    ASSUME Typed, NEW t \in Task, NEW new \in TaskState, Fits(new), NEW u \in Uri,
           task' = [task EXCEPT ![t] = new], server = Null, Draw(u), new.kind # "clear",
           \/ server' = Null
           \/ server' = t /\ new.pc = "analyze",
           UNCHANGED << client_open, inputVars, overlay, saved, published, lockVars >>
    PROVE  Typed'
<1>1. /\ task' \in [Task -> TaskState] /\ \A x \in Task : Fits(task'[x])
      /\ \A x \in Task : /\ task'[x].uri \in Uri \cup {Null} /\ task'[x].doc \in 0 .. MaxRevision
                         /\ task'[x].lock \in Lock \cup {Null} /\ task'[x].todo \subseteq Uri
      /\ \A x \in Task : task'[x] = IF x = t THEN new ELSE task[x]
  BY TaskWritten
<1>2. next_revision + 1 \in 0 .. MaxRevision
  <2>1. next_revision \in 0 .. MaxRevision
    BY DEF Typed, TypeOK
  <2> QED
    BY <2>1, BoundsAssumption DEF Draw
<1>3. TypeOK'
  <2>1. /\ buffer' \in [Uri -> 0 .. MaxRevision] /\ next_revision' \in 0 .. MaxRevision
        /\ moved' \in [Uri -> SUBSET (Uri \cup {Disk})]
    BY <1>2 DEF Draw, Typed, TypeOK
  <2>2. server' \in Task \cup {Null}
    OBVIOUS
  <2> QED
    BY <1>1, <2>1, <2>2 DEF Typed, TypeOK, inputVars, lockVars
<1>4. ServerShape'
  BY <1>1, NullAssumption DEF Typed, ServerShape
<1> QED
  BY <1>1, <1>3, <1>4 DEF Typed

(* A notification keeps the types.                                           *)
LEMMA NotificationTyped ==
    ASSUME Typed, NEW t \in Task, NEW u \in Uri, Notification(t, u)
    PROVE  Typed'
<1> USE BoundsAssumption
<1>1. server = Null
  BY DEF Notification, DidOpen, DidChangeAnalyze, DidChangeDebounce, Edit, DidSave, DidClose,
         Handler
<1>2. CASE DidOpen(t, u)
  <2> DEFINE new == [Idle EXCEPT !.pc = "register", !.uri = u]
  <2>1. new \in TaskState /\ Fits(new) /\ new.pc = "register" /\ new.kind = "none"
    BY IdleTask, NullAssumption DEF TaskState, Fits, Owning, InLine, Locked
  <2>2. task' = [task EXCEPT ![t] = new] /\ client_open' \in [Uri -> BOOLEAN]
    BY <1>2 DEF DidOpen, Typed, TypeOK
  <2> HIDE DEF new
  <2> QED
    BY <1>1, <1>2, <2>1, <2>2, QuietTyped, GraphStays, NullAssumption
       DEF DidOpen, Typed, TypeOK, inputVars, lockVars
<1>3. CASE DidChangeAnalyze(t, u)
  <2> DEFINE new == [Idle EXCEPT !.pc = "analyze", !.kind = "analyze", !.uri = u]
  <2>1. new \in TaskState /\ Fits(new) /\ new.pc = "analyze" /\ new.kind = "analyze"
    BY IdleTask, NullAssumption DEF TaskState, Fits, Owning, InLine, Locked
  <2>2. task' = [task EXCEPT ![t] = new]
    BY <1>3 DEF DidChangeAnalyze
  <2> HIDE DEF new
  <2> QED
    BY <1>1, <1>3, <2>1, <2>2, DrawTyped DEF DidChangeAnalyze, Edit
<1>4. CASE DidChangeDebounce(t, u)
  <2> DEFINE new == [Idle EXCEPT !.pc = "sleep", !.kind = "analyze", !.uri = u,
                                 !.doc = next_revision + 1]
  <2>1. next_revision + 1 \in 0 .. MaxRevision
    <3>1. next_revision \in 0 .. MaxRevision
      BY DEF Typed, TypeOK
    <3> QED
      BY <1>4, <3>1 DEF DidChangeDebounce, Edit, Draw
  <2>n. /\ new \in TaskState /\ new.pc = "sleep" /\ new.kind = "analyze" /\ new.uri = u
        /\ new.lock = Null /\ new.todo = {}
    BY <2>1, IdleTask DEF TaskState
  <2>3. task' = [task EXCEPT ![t] = new]
    BY <1>4 DEF DidChangeDebounce
  <2> HIDE DEF new
  <2>2. new \in TaskState /\ Fits(new) /\ new.pc = "sleep" /\ new.kind = "analyze"
    BY <2>n DEF Fits, Owning, InLine, Locked
  <2> QED
    BY <1>1, <1>4, <2>2, <2>3, DrawTyped DEF DidChangeDebounce, Edit
<1>5. CASE DidSave(t, u)
  <2> DEFINE new == [Idle EXCEPT !.pc = "analyze", !.kind = "analyze", !.uri = u,
                                 !.sources = TRUE]
  <2>1. new \in TaskState /\ Fits(new) /\ new.pc = "analyze" /\ new.kind = "analyze"
    BY IdleTask, NullAssumption DEF TaskState, Fits, Owning, InLine, Locked
  <2>2. task' = [task EXCEPT ![t] = new]
    BY <1>5 DEF DidSave
  <2>3. GraphTyped'
    BY <1>5, GraphMoves DEF DidSave, Typed, TypeOK
  <2> HIDE DEF new
  <2> QED
    BY <1>1, <1>5, <2>1, <2>2, <2>3, QuietTyped
       DEF DidSave, Typed, TypeOK, editorVars, inputVars, lockVars
<1>6. CASE DidClose(t, u)
  <2> DEFINE new == [Idle EXCEPT !.pc = "drop", !.kind = "clear", !.uri = u]
  <2>1. new \in TaskState /\ Fits(new) /\ new.pc = "drop" /\ new.kind = "clear" /\ new.uri = u
    BY IdleTask, NullAssumption DEF TaskState, Fits, Owning, InLine, Locked
  <2>2. /\ task' = [task EXCEPT ![t] = new] /\ client_open' \in [Uri -> BOOLEAN]
        /\ buffer' \in [Uri -> 0 .. MaxRevision] /\ buffer'[u] = 0
        /\ \A v \in Uri : buffer[v] = 0 => buffer'[v] = 0
    BY <1>6 DEF DidClose, Typed, TypeOK
  <2>3. GraphTyped'
    BY <1>6, GraphMoves DEF DidClose, Typed, TypeOK
  <2> HIDE DEF new
  <2> QED
    BY <1>1, <1>6, <2>1, <2>2, <2>3, QuietTyped DEF DidClose, Typed, TypeOK, inputVars, lockVars
<1> QED
  BY <1>2, <1>3, <1>4, <1>5, <1>6 DEF Notification

(* A step of a task that touches neither the buffers nor the turn, and keeps *)
(* the close it makes if it makes one.                                       *)
LEMMA StepTyped ==
    ASSUME Typed, NEW t \in Task, NEW new \in TaskState, Fits(new),
           task' = [task EXCEPT ![t] = new], UNCHANGED editorVars, GraphTyped',
           shared' \in 0 .. MaxChanges, proof_obligations' \in [Uri -> 0 .. MaxRevision],
           published' \in [Uri -> [revision : 0 .. MaxRevision, seen : Seen]],
           diagnostic_locks' \in [Uri -> Lock \cup {Null}], queue' \in [Lock -> Seq(Task)],
           \/ server' = IF server = t THEN Null ELSE server
           \/ /\ server' = server
              /\ server = t => new.pc \in {"analyze", "parse", "drop", "lock", "enqueue"},
           \/ new.kind = "clear" => new.pc \notin {"drop", "lock", "enqueue"}
           \/ /\ new.kind = task[t].kind /\ new.uri = task[t].uri /\ server' = server
              /\ task[t].pc \in {"drop", "lock", "enqueue"}
    PROVE  Typed'
<1>1. /\ client_open \in [Uri -> BOOLEAN] /\ buffer \in [Uri -> 0 .. MaxRevision]
      /\ UNCHANGED << client_open, buffer, next_revision >>
  BY DEF Typed, TypeOK, editorVars
<1>2. new.kind = "clear" /\ new.pc \in {"drop", "lock", "enqueue"}
      => server' = t /\ buffer'[new.uri] = 0
  BY <1>1 DEF Typed, ServerShape
<1> QED
  BY <1>1, <1>2, QuietTyped

(* What a task goes on to when it is done with a document.                   *)
LEMMA DoneTask ==
    ASSUME Typed, NEW t \in Task
    PROVE  /\ Done(t) \in TaskState /\ Fits(Done(t))
           /\ Done(t).pc \in {"idle", "next"} /\ Done(t).kind = "none" /\ Done(t).uri = Null
           /\ Done(t).doc = 0 /\ Done(t).lock = Null /\ Done(t).todo = task[t].todo
<1>1. task[t] \in TaskState
  BY DEF Typed
<1>2. [Idle EXCEPT !.pc = "next", !.todo = task[t].todo] \in TaskState
  BY <1>1, IdleTask DEF TaskState
<1>3. Done(t) \in TaskState
  BY <1>2, IdleTask DEF Done
<1>4. /\ Done(t).pc \in {"idle", "next"} /\ Done(t).kind = "none" /\ Done(t).uri = Null
      /\ Done(t).doc = 0 /\ Done(t).lock = Null /\ Done(t).todo = task[t].todo
      /\ Done(t).todo # {} => Done(t).pc = "next"
  BY IdleTask DEF Done, TaskState
<1> HIDE DEF Done
<1> QED
  BY <1>3, <1>4 DEF Fits, Owning, InLine, Locked

(* And when all that is left is to release the lock.                         *)
LEMMA LeavingTask ==
    ASSUME Typed, NEW t \in Task, task[t].pc \in Locked
    PROVE  LET new == [Idle EXCEPT !.pc = "unlock", !.uri = task[t].uri,
                                   !.lock = task[t].lock, !.todo = task[t].todo]
           IN /\ new \in TaskState /\ Fits(new) /\ new.pc = "unlock" /\ new.kind = "none"
              /\ new.uri = task[t].uri /\ new.doc = 0 /\ new.lock = task[t].lock
              /\ new.todo = task[t].todo
<1> DEFINE new == [Idle EXCEPT !.pc = "unlock", !.uri = task[t].uri,
                               !.lock = task[t].lock, !.todo = task[t].todo]
<1>1. /\ task[t].uri \in Uri \cup {Null} /\ task[t].lock \in Lock \cup {Null}
      /\ task[t].todo \in SUBSET Uri
  BY DEF Typed, TaskState
<1>2. /\ new \in TaskState /\ new.pc = "unlock" /\ new.kind = "none" /\ new.uri = task[t].uri
      /\ new.doc = 0 /\ new.lock = task[t].lock /\ new.todo = task[t].todo
  BY <1>1, IdleTask DEF TaskState, Owning, InLine, Locked
<1> HIDE DEF new
<1>3. Fits(new)
  BY <1>2 DEF Typed, Fits, Owning, InLine, Locked
<1> QED
  BY <1>2, <1>3 DEF new

(* A step of a task that only moves it on, within what its server's turn     *)
(* allows.                                                                   *)
LEMMA MoveTyped ==
    ASSUME Typed, NEW t \in Task, NEW new \in TaskState, Fits(new),
           task' = [task EXCEPT ![t] = new], UNCHANGED << editorVars, inputVars, published, graphVars >>,
           diagnostic_locks' \in [Uri -> Lock \cup {Null}], queue' \in [Lock -> Seq(Task)],
           \/ server' = IF server = t THEN Null ELSE server
           \/ /\ server' = server
              /\ server = t => new.pc \in {"analyze", "parse", "drop", "lock", "enqueue"},
           \/ new.kind = "clear" => new.pc \notin {"drop", "lock", "enqueue"}
           \/ /\ new.kind = task[t].kind /\ new.uri = task[t].uri /\ server' = server
              /\ task[t].pc \in {"drop", "lock", "enqueue"}
    PROVE  Typed'
<1>1. /\ shared' \in 0 .. MaxChanges /\ proof_obligations' \in [Uri -> 0 .. MaxRevision]
      /\ published' \in [Uri -> [revision : 0 .. MaxRevision, seen : Seen]]
  BY DEF Typed, TypeOK, inputVars
<1>2. GraphTyped'
  BY GraphStays
<1> QED
  BY <1>1, <1>2, StepTyped

(* What a task does before it queues for a lock keeps the types.             *)
LEMMA BeforeTyped ==
    ASSUME Typed, NEW t \in Task,
           \/ \E u \in Uri : RefreshObligations(t, u)
           \/ ChangeShared(t) \/ StoreOpen(t) \/ Wake(t) \/ DropDocument(t)
           \/ RepublishAll(t) \/ RepublishNext(t) \/ ApplyRefresh(t) \/ NoRefresh(t)
           \/ BeginParse(t) \/ EndParse(t) \/ NoSnapshot(t)
    PROVE  Typed'
<1>1. /\ task[t] \in TaskState /\ Fits(task[t]) /\ 0 \in 0 .. MaxRevision
      /\ server = t => task[t].pc \in {"analyze", "parse", "drop", "lock", "enqueue"}
      /\ diagnostic_locks \in [Uri -> Lock \cup {Null}] /\ queue \in [Lock -> Seq(Task)]
  BY NullAssumption, BoundsAssumption DEF Typed, TypeOK, ServerShape
<1>2. /\ shared \in 0 .. MaxChanges /\ saved \in 0 .. MaxChanges
      /\ proof_obligations \in [Uri -> 0 .. MaxRevision]
      /\ published \in [Uri -> [revision : 0 .. MaxRevision, seen : Seen]]
      /\ buffer \in [Uri -> 0 .. MaxRevision]
  BY DEF Typed, TypeOK
<1>3. ASSUME NEW u \in Uri, RefreshObligations(t, u)
      PROVE  Typed'
  <2> DEFINE new == [Idle EXCEPT !.pc = "refresh", !.uri = u, !.doc = buffer[u]]
  <2>a. /\ new \in TaskState /\ new.pc = "refresh" /\ new.kind = "none" /\ new.uri \in Uri
        /\ new.lock = Null /\ new.todo = {}
    BY <1>2, IdleTask DEF TaskState
  <2>2. task' = [task EXCEPT ![t] = new]
    BY <1>3 DEF RefreshObligations, Goto
  <2> HIDE DEF new
  <2>1. new \in TaskState /\ Fits(new) /\ new.pc = "refresh" /\ new.kind = "none"
    BY <2>a DEF Fits, Owning, InLine, Locked
  <2> QED
    BY <1>1, <1>2, <1>3, <2>1, <2>2, MoveTyped DEF RefreshObligations, At, inputVars, lockVars
<1>4. CASE ChangeShared(t)
  <2> DEFINE new == [task[t] EXCEPT !.pc = "republish_all"]
  <2>1. /\ new \in TaskState /\ new.pc = "republish_all" /\ new.kind = task[t].kind
        /\ new.uri = task[t].uri /\ new.doc = task[t].doc /\ new.lock = task[t].lock
        /\ new.todo = task[t].todo
    BY <1>1, <1>2 DEF TaskState, Owning, InLine, Locked
  <2>2. task' = [task EXCEPT ![t] = new]
    BY <1>4 DEF ChangeShared, Goto
  <2>3. shared' \in 0 .. MaxChanges
    BY <1>2, <1>4, BoundsAssumption DEF ChangeShared
  <2> HIDE DEF new
  <2>f. Fits(new)
    BY <1>1, <1>4, <2>1 DEF ChangeShared, At, Fits, Owning, InLine, Locked
  <2> QED
    BY <1>1, <1>2, <1>4, <2>1, <2>f, <2>2, <2>3, StepTyped, GraphStays DEF ChangeShared, At, inputVars, lockVars
<1>5. CASE StoreOpen(t)
  <2> DEFINE new == [task[t] EXCEPT !.pc = "analyze", !.kind = "analyze", !.sources = TRUE]
  <2>1. /\ new \in TaskState /\ new.pc = "analyze" /\ new.kind = "analyze"
        /\ new.uri = task[t].uri /\ new.doc = task[t].doc /\ new.lock = task[t].lock
        /\ new.todo = task[t].todo
    BY <1>1, <1>2 DEF TaskState, Owning, InLine, Locked
  <2>2. task' = [task EXCEPT ![t] = new]
    BY <1>5 DEF StoreOpen, Goto
  <2>3. task[t].uri \in Uri
    BY <1>1, <1>5 DEF StoreOpen, At, Fits
  <2> HIDE DEF new
  <2>f. Fits(new)
    BY <1>1, <1>5, <2>1 DEF StoreOpen, At, Fits, Owning, InLine, Locked
  <2> QED
    BY <1>1, <1>2, <1>5, <2>1, <2>f, <2>2, <2>3, DrawTyped DEF StoreOpen, At, inputVars, lockVars
<1>6. CASE Wake(t)
  <2> DEFINE new == IF buffer[task[t].uri] = task[t].doc THEN [task[t] EXCEPT !.pc = "analyze"]
                    ELSE Idle
  <2>a. LET on == [task[t] EXCEPT !.pc = "analyze"]
        IN on \in TaskState /\ Fits(on) /\ on.pc = "analyze"
    BY <1>1, <1>6 DEF Wake, At, TaskState, Fits, Owning, InLine, Locked
  <2>1. new \in TaskState /\ Fits(new) /\ new.pc \in {"analyze", "idle"}
    BY <2>a, IdleTask
  <2>2. task' = [task EXCEPT ![t] = new]
    BY <1>6 DEF Wake, Goto
  <2> HIDE DEF new
  <2> QED
    BY <1>1, <1>2, <1>6, <2>1, <2>2, MoveTyped DEF Wake, At, inputVars, lockVars
<1>7. CASE DropDocument(t)
  <2> DEFINE new == [task[t] EXCEPT !.pc = "lock"]
  <2>1. /\ new \in TaskState /\ new.pc = "lock" /\ new.kind = task[t].kind
        /\ new.uri = task[t].uri /\ new.doc = task[t].doc /\ new.lock = task[t].lock
        /\ new.todo = task[t].todo
    BY <1>1, <1>2 DEF TaskState, Owning, InLine, Locked
  <2>2. task' = [task EXCEPT ![t] = new]
    BY <1>7 DEF DropDocument, Goto
  <2> HIDE DEF new
  <2>f. Fits(new)
    BY <1>1, <1>7, <2>1 DEF DropDocument, At, Fits, Owning, InLine, Locked
  <2>o. proof_obligations' \in [Uri -> 0 .. MaxRevision]
    BY <1>1, <1>2, <1>7 DEF DropDocument
  <2>3. GraphTyped'
    <3>1. task[t].uri \in Uri
      BY <1>1, <1>7 DEF DropDocument, At, Fits
    <3>2. overlay' \in [Uri -> 0 .. MaxRevision]
      BY <1>1, <1>7 DEF DropDocument, Typed, TypeOK
    <3> QED
      BY <1>7, <3>1, <3>2, GraphMoves DEF DropDocument
  <2> QED
    BY <1>1, <1>2, <1>7, <2>1, <2>f, <2>o, <2>2, <2>3, StepTyped
       DEF DropDocument, At, inputVars, lockVars
<1>8. CASE RepublishAll(t)
  <2> DEFINE uris == {u \in Uri : buffer[u] # 0}
  <2>0. uris \subseteq Uri
    OBVIOUS
  <2> DEFINE new == IF uris = {} THEN Idle ELSE [Idle EXCEPT !.pc = "next", !.todo = uris]
  <2>n. LET on == [Idle EXCEPT !.pc = "next", !.todo = uris]
        IN on \in TaskState /\ on.pc = "next" /\ on.kind = "none" /\ on.lock = Null
    BY <2>0, IdleTask DEF TaskState
  <2>f. LET on == [Idle EXCEPT !.pc = "next", !.todo = uris]
        IN on \in TaskState /\ Fits(on) /\ on.pc = "next"
    BY <2>n DEF Fits, Owning, InLine, Locked
  <2>1. new \in TaskState /\ Fits(new) /\ new.pc \in {"next", "idle"}
    BY <2>f, IdleTask
  <2>2. task' = [task EXCEPT ![t] = new]
    BY <1>8 DEF RepublishAll, Goto
  <2> HIDE DEF new
  <2> QED
    BY <1>1, <1>2, <1>8, <2>1, <2>2, MoveTyped DEF RepublishAll, At, inputVars, lockVars
<1>9. CASE RepublishNext(t)
  <2>1. PICK u \in task[t].todo :
            /\ task' = [task EXCEPT ![t] = [task[t] EXCEPT !.pc = "analyze", !.kind = "republish",
                                              !.uri = u, !.todo = task[t].todo \ {u}]]
            /\ Touched(u)
    BY <1>1, <1>9 DEF RepublishNext, Typed
  <2> DEFINE new == [task[t] EXCEPT !.pc = "analyze", !.kind = "republish",
                                    !.uri = u, !.todo = task[t].todo \ {u}]
  <2>2. u \in Uri /\ task[t].pc = "next"
    BY <1>1, <1>9 DEF TaskState, RepublishNext, At
  <2>3. new \in TaskState /\ Fits(new) /\ new.pc = "analyze"
    BY <1>1, <2>2, NullAssumption DEF TaskState, Fits, Owning, InLine, Locked
  <2>4. GraphTyped'
    BY <1>9, <2>1, <2>2, GraphMoves DEF RepublishNext, Typed, TypeOK
  <2>5. task' = [task EXCEPT ![t] = new]
    BY <2>1
  <2> HIDE DEF new
  <2> QED
    BY <1>1, <1>2, <1>9, <2>3, <2>4, <2>5, StepTyped DEF RepublishNext, inputVars, lockVars
<1>10. CASE ApplyRefresh(t)
  <2> DEFINE new == IF proof_obligations[task[t].uri] # task[t].doc
                    THEN [Idle EXCEPT !.pc = "analyze", !.kind = "republish", !.uri = task[t].uri]
                    ELSE Idle
  <2>a. LET on == [Idle EXCEPT !.pc = "analyze", !.kind = "republish", !.uri = task[t].uri]
        IN on \in TaskState /\ on.pc = "analyze" /\ on.kind = "republish" /\ on.uri = task[t].uri
           /\ on.lock = Null /\ on.todo = {}
    BY <1>1, IdleTask DEF TaskState
  <2>b. task[t].uri \in Uri /\ task[t].doc \in 0 .. MaxRevision
    BY <1>1, <1>10 DEF ApplyRefresh, At, Fits, TaskState
  <2>c. LET on == [Idle EXCEPT !.pc = "analyze", !.kind = "republish", !.uri = task[t].uri]
        IN on \in TaskState /\ Fits(on) /\ on.pc = "analyze"
    BY <2>a, <2>b DEF Fits, Owning, InLine, Locked
  <2>d. proof_obligations' \in [Uri -> 0 .. MaxRevision]
    BY <1>2, <1>10, <2>b DEF ApplyRefresh
  <2>1. new \in TaskState /\ Fits(new) /\ new.pc \in {"analyze", "idle"}
        /\ proof_obligations' \in [Uri -> 0 .. MaxRevision]
    BY <2>c, <2>d, IdleTask
  <2>2. task' = [task EXCEPT ![t] = new]
    BY <1>10 DEF ApplyRefresh, Goto
  <2>3. GraphTyped'
    BY <1>10, <2>b, GraphMoves DEF ApplyRefresh, Touched, Typed, TypeOK
  <2> HIDE DEF new
  <2> QED
    BY <1>1, <1>2, <1>10, <2>1, <2>2, <2>3, StepTyped DEF ApplyRefresh, At, inputVars, lockVars
<1>11. CASE NoRefresh(t)
  <2> DEFINE new == Idle
  <2>1. new \in TaskState /\ Fits(new) /\ new.pc = "idle"
    BY <1>1, <1>2, <1>11, IdleTask, NullAssumption
       DEF NoRefresh, At, TaskState, Fits, Owning, InLine, Locked
  <2>2. task' = [task EXCEPT ![t] = new]
    BY <1>11 DEF NoRefresh, Goto
  <2> HIDE DEF new
  <2> QED
    BY <1>1, <1>2, <1>11, <2>1, <2>2, MoveTyped DEF NoRefresh, At, inputVars, lockVars
<1>12. CASE BeginParse(t)
  <2> DEFINE new == [task[t] EXCEPT !.pc = "parse", !.doc = buffer[task[t].uri]]
  <2>u. task[t].uri \in Uri
    BY <1>1, <1>12 DEF BeginParse, At, Fits
  <2>1. /\ new \in TaskState /\ new.pc = "parse" /\ new.kind = task[t].kind
        /\ new.uri = task[t].uri /\ new.doc = buffer[task[t].uri] /\ new.lock = task[t].lock
        /\ new.todo = task[t].todo
    BY <1>1, <1>2, <2>u DEF TaskState, Owning, InLine, Locked
  <2>2. task' = [task EXCEPT ![t] = new]
    BY <1>12 DEF BeginParse, Goto
  <2> HIDE DEF new
  <2>f. Fits(new)
    BY <1>1, <1>12, <2>1 DEF BeginParse, At, Fits, Owning, InLine, Locked
  <2> QED
    BY <1>1, <1>2, <1>12, <2>1, <2>f, <2>2, MoveTyped DEF BeginParse, At, inputVars, lockVars
<1>13. CASE EndParse(t)
  <2> DEFINE new == [task[t] EXCEPT !.pc = "lock"]
  <2>1. /\ new \in TaskState /\ new.pc = "lock" /\ new.kind = task[t].kind
        /\ new.uri = task[t].uri /\ new.doc = task[t].doc /\ new.lock = task[t].lock
        /\ new.todo = task[t].todo
    BY <1>1, <1>2 DEF TaskState, Owning, InLine, Locked
  <2>2. task' = [task EXCEPT ![t] = new]
    BY <1>13 DEF EndParse, Goto
  <2> HIDE DEF new
  <2>k. new.kind # "clear"
    BY <1>1, <1>13, <2>1 DEF EndParse, At, Fits
  <2>f. Fits(new)
    BY <1>1, <1>13, <2>1 DEF EndParse, At, Fits, Owning, InLine, Locked
  <2> QED
    BY <1>1, <1>2, <1>13, <2>1, <2>f, <2>k, <2>2, MoveTyped DEF EndParse, At, inputVars, lockVars
<1>14. CASE NoSnapshot(t)
  <2> DEFINE new == Done(t)
  <2>1. new \in TaskState /\ Fits(new) /\ new.kind = "none"
    BY DoneTask
  <2>2. task' = [task EXCEPT ![t] = new]
    BY <1>14 DEF NoSnapshot, Goto
  <2> HIDE DEF new
  <2> QED
    BY <1>1, <1>2, <1>14, <2>1, <2>2, MoveTyped DEF NoSnapshot, At, inputVars, lockVars, Yields
<1> QED
  BY <1>3, <1>4, <1>5, <1>6, <1>7, <1>8, <1>9, <1>10, <1>11, <1>12, <1>13, <1>14

(* What an analysis reads.                                                   *)
LEMMA InputsTyped ==
    ASSUME Typed, NEW u \in Uri
    PROVE  Inputs(u) \in Seen
<1>1. [v \in Uri |-> << buffer[v], overlay[v] >>]
      \in [Uri -> (0 .. MaxRevision) \X (0 .. MaxRevision)]
  BY DEF Typed, TypeOK
<1> QED
  BY <1>1 DEF Inputs, Seen, Typed, TypeOK

(* What it does from then on does too.                                       *)
LEMMA LockingTyped ==
    ASSUME Typed, NEW t \in Task,
           \/ DiagnosticLock(t) \/ Enqueue(t) \/ Acquire(t) \/ Unlock(t) \/ EvictDiagnosticLock(t)
           \/ Return(t) \/ Commit(t) \/ ApplyObligations(t) \/ DiagnosticsFor(t) \/ Recheck(t)
           \/ Publish(t),
           Queued
    PROVE  Typed'
<1>1. /\ task[t] \in TaskState /\ Fits(task[t])
      /\ server = t => task[t].pc \in {"analyze", "parse", "drop", "lock", "enqueue"}
      /\ diagnostic_locks \in [Uri -> Lock \cup {Null}] /\ queue \in [Lock -> Seq(Task)]
  BY NullAssumption, BoundsAssumption DEF Typed, TypeOK, ServerShape
<1>2. /\ shared \in 0 .. MaxChanges /\ saved \in 0 .. MaxChanges
      /\ proof_obligations \in [Uri -> 0 .. MaxRevision]
      /\ published \in [Uri -> [revision : 0 .. MaxRevision, seen : Seen]]
      /\ buffer \in [Uri -> 0 .. MaxRevision]
  BY DEF Typed, TypeOK
<1>3. CASE DiagnosticLock(t)
  <2>1. PICK l \in Lock : /\ diagnostic_locks' = [diagnostic_locks EXCEPT ![task[t].uri] = l]
                          /\ task' = [task EXCEPT ![t].pc = "enqueue", ![t].lock = l]
    BY <1>1, <1>3 DEF DiagnosticLock, Free, At, Fits
  <2> DEFINE new == [task[t] EXCEPT !.pc = "enqueue", !.lock = l]
  <2>n. /\ new \in TaskState /\ new.pc = "enqueue" /\ new.kind = task[t].kind
        /\ new.uri = task[t].uri /\ new.doc = task[t].doc /\ new.lock = l
        /\ new.todo = task[t].todo
    BY <1>1, <2>1 DEF TaskState, Owning
  <2>3. task' = [task EXCEPT ![t] = new]
    BY <2>1 DEF Typed
  <2> HIDE DEF new
  <2>2. new \in TaskState /\ Fits(new) /\ new.pc = "enqueue"
        /\ new.kind = task[t].kind /\ new.uri = task[t].uri
    BY <1>1, <1>3, <2>n, NullAssumption DEF DiagnosticLock, At, Fits, Owning, InLine, Locked
  <2>4. diagnostic_locks' \in [Uri -> Lock \cup {Null}]
    BY <1>1, <2>1
  <2> QED
    BY <1>1, <1>3, <2>2, <2>3, <2>4, MoveTyped DEF DiagnosticLock, At
<1>4. CASE Enqueue(t)
  <2> DEFINE new == [task[t] EXCEPT !.pc = "wait"]
  <2>1. /\ new \in TaskState /\ new.pc = "wait" /\ new.kind = task[t].kind
        /\ new.uri = task[t].uri /\ new.doc = task[t].doc /\ new.lock = task[t].lock
        /\ new.todo = task[t].todo
    BY <1>1, <1>2 DEF TaskState, Owning, InLine, Locked
  <2>2. task' = [task EXCEPT ![t] = new]
    BY <1>4 DEF Enqueue, Goto
  <2>3. queue' \in [Lock -> Seq(Task)]
    <3>1. task[t].lock \in Lock
      BY <1>1, <1>4 DEF Enqueue, At, TaskState, Fits, Owning
    <3>2. Append(queue[task[t].lock], t) \in Seq(Task)
      BY <1>1, <3>1
    <3> QED
      BY <1>1, <1>4, <3>1, <3>2 DEF Enqueue
  <2> HIDE DEF new
  <2>f. Fits(new)
    BY <1>1, <1>4, <2>1 DEF Enqueue, At, Fits, Owning, InLine, Locked
  <2> QED
    BY <1>1, <1>2, <1>4, <2>1, <2>f, <2>2, <2>3, MoveTyped
       DEF Enqueue, At, inputVars, lockVars, Yields
<1>5. CASE Acquire(t)
  <2> DEFINE pc == IF task[t].kind = "clear" THEN "publish" ELSE "commit"
  <2>0. pc \in {"publish", "commit"} /\ (task[t].kind = "clear" => pc = "publish")
    OBVIOUS
  <2> HIDE DEF pc
  <2> DEFINE new == [task[t] EXCEPT !.pc = pc]
  <2>n. /\ new \in TaskState /\ new.pc = pc /\ new.kind = task[t].kind
        /\ new.uri = task[t].uri /\ new.doc = task[t].doc /\ new.lock = task[t].lock
        /\ new.todo = task[t].todo
    BY <1>1, <2>0 DEF TaskState, Owning, InLine, Locked
  <2>2. task' = [task EXCEPT ![t] = new]
    BY <1>5 DEF Acquire, Goto, pc
  <2> HIDE DEF new
  <2>1. new \in TaskState /\ Fits(new) /\ new.pc \in {"publish", "commit"}
    BY <1>1, <1>5, <2>0, <2>n DEF Acquire, At, Fits, Owning, InLine, Locked
  <2> QED
    BY <1>1, <1>2, <1>5, <2>1, <2>2, MoveTyped DEF Acquire, At, inputVars, lockVars
<1>6. CASE Unlock(t)
  <2> DEFINE new == [task[t] EXCEPT !.pc = "evict"]
  <2>1. /\ new \in TaskState /\ new.pc = "evict" /\ new.kind = task[t].kind
        /\ new.uri = task[t].uri /\ new.doc = task[t].doc /\ new.lock = task[t].lock
        /\ new.todo = task[t].todo
    BY <1>1, <1>2 DEF TaskState, Owning, InLine, Locked
  <2>2. task' = [task EXCEPT ![t] = new]
    BY <1>6 DEF Unlock, Goto
  <2>3. queue' \in [Lock -> Seq(Task)]
    <3>1. task[t].lock \in Lock
      BY <1>1, <1>6 DEF Unlock, At, TaskState, Fits, Owning, InLine, Locked
    <3>2. queue[task[t].lock] # << >>
      BY <1>6 DEF Unlock, At, Queued, Locked
    <3>3. Tail(queue[task[t].lock]) \in Seq(Task)
      BY <1>1, <3>1, <3>2
    <3> QED
      BY <1>1, <1>6, <3>1, <3>3 DEF Unlock
  <2> HIDE DEF new
  <2>f. Fits(new)
    BY <1>1, <1>6, <2>1 DEF Unlock, At, Fits, Owning, InLine, Locked
  <2> QED
    BY <1>1, <1>2, <1>6, <2>1, <2>f, <2>2, <2>3, MoveTyped DEF Unlock, At, inputVars, lockVars
<1>7. CASE EvictDiagnosticLock(t)
  <2> DEFINE new == [task[t] EXCEPT !.pc = "return"]
  <2>1. /\ new \in TaskState /\ new.pc = "return" /\ new.kind = task[t].kind
        /\ new.uri = task[t].uri /\ new.doc = task[t].doc /\ new.lock = task[t].lock
        /\ new.todo = task[t].todo
    BY <1>1, <1>2 DEF TaskState, Owning, InLine, Locked
  <2>2. task' = [task EXCEPT ![t] = new]
    BY <1>7 DEF EvictDiagnosticLock, Goto
  <2>3. diagnostic_locks' \in [Uri -> Lock \cup {Null}]
    BY <1>1, <1>7 DEF EvictDiagnosticLock
  <2> HIDE DEF new
  <2>f. Fits(new)
    BY <1>1, <1>7, <2>1 DEF EvictDiagnosticLock, At, Fits, Owning, InLine, Locked
  <2> QED
    BY <1>1, <1>2, <1>7, <2>1, <2>f, <2>2, <2>3, MoveTyped
       DEF EvictDiagnosticLock, At, inputVars, lockVars
<1>8. CASE Return(t)
  <2> DEFINE new == Done(t)
  <2>1. new \in TaskState /\ Fits(new) /\ new.pc \in {"idle", "next"} /\ new.kind = "none"
    BY DoneTask
  <2>2. task' = [task EXCEPT ![t] = new]
    BY <1>8 DEF Return, Goto
  <2> HIDE DEF new
  <2> QED
    BY <1>1, <1>2, <1>8, <2>1, <2>2, MoveTyped DEF Return, At, inputVars, lockVars
<1>9. CASE Commit(t)
  <2> DEFINE left == [Idle EXCEPT !.pc = "unlock", !.uri = task[t].uri,
                                  !.lock = task[t].lock, !.todo = task[t].todo]
             new == IF Current(t)
                     THEN [task[t] EXCEPT !.pc = IF task[t].sources THEN "compute" ELSE "derive"]
                     ELSE left
  <2>1. task[t].pc \in Locked
    BY <1>9 DEF Commit, At, Locked
  <2>2. left \in TaskState /\ Fits(left) /\ left.pc = "unlock"
    BY <2>1, LeavingTask
  <2>3. task' = [task EXCEPT ![t] = new]
    BY <1>9 DEF Commit, Goto, Leave
  <2> HIDE DEF left
  <2>n. LET on == [task[t] EXCEPT !.pc = IF task[t].sources THEN "compute" ELSE "derive"]
        IN /\ on \in TaskState /\ on.pc = IF task[t].sources THEN "compute" ELSE "derive"
           /\ on.kind = task[t].kind /\ on.uri = task[t].uri /\ on.doc = task[t].doc
           /\ on.lock = task[t].lock /\ on.todo = task[t].todo
    BY <1>1 DEF TaskState, Owning, InLine, Locked
  <2>f. LET on == [task[t] EXCEPT !.pc = IF task[t].sources THEN "compute" ELSE "derive"]
        IN on \in TaskState /\ Fits(on) /\ on.pc \in Locked
    BY <1>1, <1>9, <2>n DEF Commit, At, Fits, Owning, InLine, Locked
  <2>4. new \in TaskState /\ Fits(new) /\ new.pc \in Locked
    BY <2>2, <2>f DEF Locked
  <2>5. GraphTyped'
    <3>1. task[t].uri \in Uri /\ task[t].doc \in 0 .. MaxRevision
      BY <1>1, <1>9 DEF Commit, At, Fits, TaskState
    <3>2. overlay' \in [Uri -> 0 .. MaxRevision]
      BY <1>9, <3>1 DEF Commit, Typed, TypeOK
    <3> QED
      BY <1>9, <3>1, <3>2, GraphMoves DEF Commit
  <2> HIDE DEF new
  <2> QED
    BY <1>1, <1>2, <1>9, <2>3, <2>4, <2>5, StepTyped DEF Commit, At, inputVars, lockVars, Locked
<1>10. CASE ApplyObligations(t)
  <2> DEFINE new == [task[t] EXCEPT !.pc = "derive"]
  <2>1. /\ new \in TaskState /\ new.pc = "derive" /\ new.kind = task[t].kind
        /\ new.uri = task[t].uri /\ new.doc = task[t].doc /\ new.lock = task[t].lock
        /\ new.todo = task[t].todo
    BY <1>1, <1>2 DEF TaskState, Owning, InLine, Locked
  <2>2. task' = [task EXCEPT ![t] = new]
    BY <1>10 DEF ApplyObligations, Goto
  <2>3. proof_obligations' \in [Uri -> 0 .. MaxRevision]
    BY <1>1, <1>2, <1>10 DEF ApplyObligations, TaskState
  <2> HIDE DEF new
  <2>f. Fits(new)
    BY <1>1, <1>10, <2>1 DEF ApplyObligations, At, Fits, Owning, InLine, Locked
  <2> QED
    BY <1>1, <1>2, <1>10, <2>1, <2>f, <2>2, <2>3, StepTyped, GraphStays
       DEF ApplyObligations, At, inputVars, lockVars
<1>11. CASE DiagnosticsFor(t)
  <2> DEFINE new == [task[t] EXCEPT !.pc = "recheck",
                                    !.seen = Inputs(task[t].uri)]
  <2>u. task[t].uri \in Uri
    BY <1>1, <1>11 DEF DiagnosticsFor, At, Fits, Owning, InLine, Locked
  <2>s. Inputs(task[t].uri) \in Seen
    BY <2>u, InputsTyped
  <2>1. /\ new \in TaskState /\ new.pc = "recheck" /\ new.kind = task[t].kind
        /\ new.uri = task[t].uri /\ new.doc = task[t].doc /\ new.lock = task[t].lock
        /\ new.todo = task[t].todo
    BY <1>1, <1>2, <2>u, <2>s DEF TaskState, Owning, InLine, Locked
  <2>2. task' = [task EXCEPT ![t] = new]
    BY <1>11 DEF DiagnosticsFor, Goto
  <2> HIDE DEF new
  <2>f. Fits(new)
    BY <1>1, <1>11, <2>1 DEF DiagnosticsFor, At, Fits, Owning, InLine, Locked
  <2> QED
    BY <1>1, <1>2, <1>11, <2>1, <2>f, <2>2, MoveTyped DEF DiagnosticsFor, At, inputVars, lockVars
<1>12. CASE Recheck(t)
  <2> DEFINE left == [Idle EXCEPT !.pc = "unlock", !.uri = task[t].uri,
                                  !.lock = task[t].lock, !.todo = task[t].todo]
             new == IF Current(t) THEN [task[t] EXCEPT !.pc = "publish"] ELSE left
  <2>1. task[t].pc \in Locked
    BY <1>12 DEF Recheck, At, Locked
  <2>2. left \in TaskState /\ Fits(left) /\ left.pc = "unlock"
    BY <2>1, LeavingTask
  <2>3. task' = [task EXCEPT ![t] = new]
    BY <1>12 DEF Recheck, Goto, Leave
  <2> HIDE DEF left
  <2>n. LET on == [task[t] EXCEPT !.pc = "publish"]
        IN /\ on \in TaskState /\ on.pc = "publish"
           /\ on.kind = task[t].kind /\ on.uri = task[t].uri /\ on.doc = task[t].doc
           /\ on.lock = task[t].lock /\ on.todo = task[t].todo
    BY <1>1 DEF TaskState, Owning, InLine, Locked
  <2>f. LET on == [task[t] EXCEPT !.pc = "publish"]
        IN on \in TaskState /\ Fits(on) /\ on.pc \in Locked
    BY <1>1, <1>12, <2>n DEF Recheck, At, Fits, Owning, InLine, Locked
  <2>4. new \in TaskState /\ Fits(new) /\ new.pc \in Locked
    BY <2>2, <2>f DEF Locked
  <2> HIDE DEF new
  <2> QED
    BY <1>1, <1>12, <2>3, <2>4, MoveTyped DEF Recheck, At, lockVars, Locked
<1>13. CASE Publish(t)
  <2> DEFINE new == [Idle EXCEPT !.pc = "unlock", !.uri = task[t].uri,
                                  !.lock = task[t].lock, !.todo = task[t].todo]
  <2>1. task[t].pc \in Locked
    BY <1>13 DEF Publish, At, Locked
  <2>2. new \in TaskState /\ Fits(new) /\ new.pc = "unlock"
    BY <2>1, LeavingTask
  <2>3. task' = [task EXCEPT ![t] = new]
    BY <1>13 DEF Publish, Leave
  <2> HIDE DEF new
  <2>4. published' \in [Uri -> [revision : 0 .. MaxRevision, seen : Seen]]
    <3>1. Clear \in [revision : 0 .. MaxRevision, seen : Seen]
      BY BoundsAssumption, IdleTask DEF Clear
    <3>2. [revision |-> task[t].doc, seen |-> task[t].seen]
          \in [revision : 0 .. MaxRevision, seen : Seen]
      BY <1>1 DEF TaskState
    <3> QED
      BY <1>2, <1>13, <3>1, <3>2 DEF Publish
  <2> QED
    BY <1>1, <1>2, <1>13, <2>2, <2>3, <2>4, StepTyped, GraphStays DEF Publish, At, inputVars, lockVars
<1> QED
  BY <1>3, <1>4, <1>5, <1>6, <1>7, <1>8, <1>9, <1>10, <1>11, <1>12, <1>13

(* Every variable keeps its type, and every task what it remembers.          *)
LEMMA NextTyped == Typed /\ Queued /\ [Next]_vars => Typed'
<1> SUFFICES ASSUME Typed, Queued, [Next]_vars PROVE Typed'
  OBVIOUS
<1>1. CASE UNCHANGED vars
  <2>1. /\ UNCHANGED << client_open, buffer, next_revision, shared, proof_obligations, graphVars >>
        /\ UNCHANGED << published, diagnostic_locks, queue, task, server >>
    BY <1>1 DEF vars, editorVars, inputVars, lockVars
  <2>2. TypeOK'
    BY <2>1 DEF Typed, TypeOK, graphVars
  <2>3. ServerShape'
    BY <2>1 DEF Typed, ServerShape
  <2> QED
    BY <2>1, <2>2, <2>3 DEF Typed
<1>2. CASE ScanFolder
  <2>1. /\ UNCHANGED << client_open, buffer, next_revision, shared, proof_obligations, overlay >>
        /\ UNCHANGED << published, diagnostic_locks, queue, task, server >>
    BY <1>2 DEF ScanFolder, editorVars, inputVars, lockVars
  <2>2. saved' \in 0 .. MaxChanges
    BY <1>2, BoundsAssumption DEF ScanFolder, Typed, TypeOK
  <2>3. moved' \in [Uri -> SUBSET (Uri \cup {Disk})]
    BY <1>2 DEF ScanFolder, Typed, TypeOK
  <2>4. TypeOK'
    BY <2>1, <2>2, <2>3 DEF Typed, TypeOK
  <2>5. ServerShape'
    BY <2>1 DEF Typed, ServerShape
  <2> QED
    BY <2>1, <2>4, <2>5 DEF Typed
<1> QED
  BY <1>1, <1>2, NotificationTyped, BeforeTyped, LockingTyped DEF Next, Proceed

-----------------------------------------------------------------------------
(* What each step makes of the task that takes it.                           *)

Becomes(t, pc, kind, uri, doc, lock, todo) ==
    /\ task'[t].pc = pc /\ task'[t].kind = kind /\ task'[t].uri = uri /\ task'[t].doc = doc
    /\ task'[t].lock = lock /\ task'[t].todo = todo
    /\ \A x \in Task \ {t} : task'[x] = task[x]

Moves(t, pc) ==
    /\ task'[t].kind = task[t].kind /\ task'[t].uri = task[t].uri /\ task'[t].doc = task[t].doc
    /\ task'[t].lock = task[t].lock /\ task'[t].todo = task[t].todo /\ task'[t].pc = pc
    /\ \A x \in Task \ {t} : task'[x] = task[x]

(* Of a notification or a request.                                           *)
LEMMA HandlerEffects ==
    ASSUME Typed, NEW t \in Task, NEW u \in Uri
    PROVE  /\ DidOpen(t, u) => At(t, "idle") /\ Becomes(t, "register", "none", u, 0, Null, {})
           /\ DidChangeAnalyze(t, u)
              => At(t, "idle") /\ Becomes(t, "analyze", "analyze", u, 0, Null, {})
           /\ DidChangeDebounce(t, u)
              => At(t, "idle") /\ Becomes(t, "sleep", "analyze", u, next_revision + 1, Null, {})
           /\ DidSave(t, u) => At(t, "idle") /\ Becomes(t, "analyze", "analyze", u, 0, Null, {})
           /\ DidClose(t, u) => At(t, "idle") /\ Becomes(t, "drop", "clear", u, 0, Null, {})
           /\ RefreshObligations(t, u)
              => At(t, "idle") /\ Becomes(t, "refresh", "none", u, buffer[u], Null, {})
<1>1. task[t] \in TaskState /\ task \in [Task -> TaskState]
  BY DEF Typed
<1>2. ASSUME DidOpen(t, u)
      PROVE  At(t, "idle") /\ Becomes(t, "register", "none", u, 0, Null, {})
  BY <1>1, <1>2, IdleTask DEF DidOpen, Handler, At, Goto, Becomes, Moves, TaskState
<1>3. ASSUME DidChangeAnalyze(t, u)
      PROVE  At(t, "idle") /\ Becomes(t, "analyze", "analyze", u, 0, Null, {})
  BY <1>1, <1>3, IdleTask DEF DidChangeAnalyze, Edit, Handler, At, Goto, Becomes, Moves, TaskState
<1>4. ASSUME DidChangeDebounce(t, u)
      PROVE  At(t, "idle") /\ Becomes(t, "sleep", "analyze", u, next_revision + 1, Null, {})
  BY <1>1, <1>4, IdleTask DEF DidChangeDebounce, Edit, Handler, At, Goto, Becomes, Moves,
     TaskState
<1>5. ASSUME DidSave(t, u)
      PROVE  At(t, "idle") /\ Becomes(t, "analyze", "analyze", u, 0, Null, {})
  BY <1>1, <1>5, IdleTask DEF DidSave, Handler, At, Goto, Becomes, Moves, TaskState
<1>6. ASSUME DidClose(t, u)
      PROVE  At(t, "idle") /\ Becomes(t, "drop", "clear", u, 0, Null, {})
  BY <1>1, <1>6, IdleTask DEF DidClose, Handler, At, Goto, Becomes, Moves, TaskState
<1>7. ASSUME RefreshObligations(t, u)
      PROVE  At(t, "idle") /\ Becomes(t, "refresh", "none", u, buffer[u], Null, {})
  BY <1>1, <1>7, IdleTask DEF RefreshObligations, At, Goto, Becomes, Moves, TaskState
<1> QED
  BY <1>2, <1>3, <1>4, <1>5, <1>6, <1>7

(* Of a task on its way to its document's lock.                              *)
LEMMA ReadEffects ==
    ASSUME Typed, NEW t \in Task
    PROVE  /\ ChangeShared(t) => At(t, "idle") /\ Moves(t, "republish_all")
           /\ StoreOpen(t)
              => /\ At(t, "register")
                 /\ Becomes(t, "analyze", "analyze", task[t].uri, task[t].doc, task[t].lock,
                            task[t].todo)
           /\ DropDocument(t) => At(t, "drop") /\ Moves(t, "lock")
           /\ NoRefresh(t) => At(t, "refresh") /\ Becomes(t, "idle", "none", Null, 0, Null, {})
           /\ BeginParse(t)
              => /\ At(t, "analyze")
                 /\ Becomes(t, "parse", task[t].kind, task[t].uri, buffer[task[t].uri],
                            task[t].lock, task[t].todo)
           /\ EndParse(t) => At(t, "parse") /\ Moves(t, "lock")
<1>1. task[t] \in TaskState /\ task \in [Task -> TaskState]
  BY DEF Typed
<1>2. ASSUME ChangeShared(t)
      PROVE  At(t, "idle") /\ Moves(t, "republish_all")
  BY <1>1, <1>2, IdleTask DEF ChangeShared, At, Goto, Becomes, Moves, TaskState
<1>3. ASSUME StoreOpen(t)
      PROVE  /\ At(t, "register")
             /\ Becomes(t, "analyze", "analyze", task[t].uri, task[t].doc, task[t].lock,
                        task[t].todo)
  BY <1>1, <1>3, IdleTask DEF StoreOpen, At, Goto, Becomes, Moves, TaskState
<1>4. ASSUME DropDocument(t)
      PROVE  At(t, "drop") /\ Moves(t, "lock")
  BY <1>1, <1>4, IdleTask DEF DropDocument, At, Goto, Becomes, Moves, TaskState
<1>5. ASSUME NoRefresh(t)
      PROVE  At(t, "refresh") /\ Becomes(t, "idle", "none", Null, 0, Null, {})
  BY <1>1, <1>5, IdleTask DEF NoRefresh, At, Goto, Becomes, Moves, TaskState
<1>6. ASSUME BeginParse(t)
      PROVE  /\ At(t, "analyze")
             /\ Becomes(t, "parse", task[t].kind, task[t].uri, buffer[task[t].uri], task[t].lock,
                        task[t].todo)
  BY <1>1, <1>6, IdleTask DEF BeginParse, At, Goto, Becomes, Moves, TaskState
<1>7. ASSUME EndParse(t)
      PROVE  At(t, "parse") /\ Moves(t, "lock")
  BY <1>1, <1>7, IdleTask DEF EndParse, At, Goto, Becomes, Moves, TaskState
<1> QED
  BY <1>2, <1>3, <1>4, <1>5, <1>6, <1>7

(* Of one that may go on or not.                                             *)
LEMMA ChoiceEffects ==
    ASSUME Typed, NEW t \in Task
    PROVE  /\ Wake(t)
              => /\ At(t, "sleep")
                 /\ IF buffer[task[t].uri] = task[t].doc
                    THEN Moves(t, "analyze")
                    ELSE Becomes(t, "idle", "none", Null, 0, Null, {})
           /\ RepublishAll(t)
              => /\ At(t, "republish_all")
                 /\ IF {v \in Uri : buffer[v] # 0} = {} THEN Becomes(t, "idle", "none", Null, 0,
                                                                     Null, {})
                    ELSE Becomes(t, "next", "none", Null, 0, Null, {v \in Uri : buffer[v] # 0})
           /\ RepublishNext(t)
              => /\ At(t, "next")
                 /\ \E v \in task[t].todo :
                       Becomes(t, "analyze", "republish", v, task[t].doc, task[t].lock,
                               task[t].todo \ {v})
           /\ ApplyRefresh(t)
              => /\ At(t, "refresh")
                 /\ IF proof_obligations[task[t].uri] # task[t].doc
                    THEN Becomes(t, "analyze", "republish", task[t].uri, 0, Null, {})
                    ELSE Becomes(t, "idle", "none", Null, 0, Null, {})
<1>1. task[t] \in TaskState /\ task \in [Task -> TaskState]
  BY DEF Typed
<1>2. ASSUME Wake(t)
      PROVE  /\ At(t, "sleep")
             /\ IF buffer[task[t].uri] = task[t].doc
                THEN Moves(t, "analyze")
                ELSE Becomes(t, "idle", "none", Null, 0, Null, {})
  BY <1>1, <1>2, IdleTask DEF Wake, At, Goto, Becomes, Moves, TaskState
<1>3. ASSUME RepublishAll(t)
      PROVE  /\ At(t, "republish_all")
             /\ IF {v \in Uri : buffer[v] # 0} = {} THEN Becomes(t, "idle", "none", Null, 0,
                                                                 Null, {})
                ELSE Becomes(t, "next", "none", Null, 0, Null, {v \in Uri : buffer[v] # 0})
  BY <1>1, <1>3, IdleTask DEF RepublishAll, At, Goto, Becomes, Moves, TaskState
<1>4. ASSUME RepublishNext(t)
      PROVE  /\ At(t, "next")
             /\ \E v \in task[t].todo :
                   Becomes(t, "analyze", "republish", v, task[t].doc, task[t].lock,
                           task[t].todo \ {v})
  BY <1>1, <1>4, IdleTask DEF RepublishNext, At, Goto, Becomes, Moves, TaskState
<1>5. ASSUME ApplyRefresh(t)
      PROVE  /\ At(t, "refresh")
             /\ IF proof_obligations[task[t].uri] # task[t].doc
                THEN Becomes(t, "analyze", "republish", task[t].uri, 0, Null, {})
                ELSE Becomes(t, "idle", "none", Null, 0, Null, {})
  BY <1>1, <1>5, IdleTask DEF ApplyRefresh, At, Goto, Becomes, Moves, TaskState
<1> QED
  BY <1>2, <1>3, <1>4, <1>5

(* Of one at its lock, or under it.                                          *)
LEMMA LockEffects ==
    ASSUME Typed, NEW t \in Task
    PROVE  /\ Enqueue(t) => At(t, "enqueue") /\ Moves(t, "wait")
           /\ Unlock(t) => At(t, "unlock") /\ Moves(t, "evict")
           /\ EvictDiagnosticLock(t) => At(t, "evict") /\ Moves(t, "return")
           /\ Acquire(t)
              => /\ At(t, "wait")
                 /\ Moves(t, IF task[t].kind = "clear" THEN "publish" ELSE "commit")
           /\ ApplyObligations(t) => At(t, "compute") /\ Moves(t, "derive")
           /\ DiagnosticsFor(t) => At(t, "derive") /\ Moves(t, "recheck")
           /\ Publish(t)
              => /\ At(t, "publish")
                 /\ Becomes(t, "unlock", "none", task[t].uri, 0, task[t].lock, task[t].todo)
           /\ Commit(t)
              => /\ At(t, "commit")
                 /\ IF Current(t)
                    THEN Moves(t, IF task[t].sources THEN "compute" ELSE "derive")
                    ELSE Becomes(t, "unlock", "none", task[t].uri, 0, task[t].lock, task[t].todo)
           /\ Recheck(t)
              => /\ At(t, "recheck")
                 /\ IF Current(t) THEN Moves(t, "publish")
                    ELSE Becomes(t, "unlock", "none", task[t].uri, 0, task[t].lock, task[t].todo)
<1>1. task[t] \in TaskState /\ task \in [Task -> TaskState]
  BY DEF Typed
<1>0. Leave(t) => Becomes(t, "unlock", "none", task[t].uri, 0, task[t].lock, task[t].todo)
  <2> DEFINE new == [Idle EXCEPT !.pc = "unlock", !.uri = task[t].uri, !.lock = task[t].lock,
                                 !.todo = task[t].todo]
  <2>1. /\ new.pc = "unlock" /\ new.kind = "none" /\ new.uri = task[t].uri
        /\ new.doc = 0 /\ new.lock = task[t].lock /\ new.todo = task[t].todo
    BY <1>1, IdleTask DEF TaskState
  <2>2. Leave(t) => task' = [task EXCEPT ![t] = new]
    BY DEF Leave
  <2> HIDE DEF new
  <2> QED
    BY <1>1, <2>1, <2>2 DEF Becomes
<1>2. ASSUME Enqueue(t)
      PROVE  At(t, "enqueue") /\ Moves(t, "wait")
  BY <1>1, <1>2, IdleTask DEF Enqueue, At, Goto, Becomes, Moves, TaskState
<1>3. ASSUME Unlock(t)
      PROVE  At(t, "unlock") /\ Moves(t, "evict")
  BY <1>1, <1>3, IdleTask DEF Unlock, At, Goto, Becomes, Moves, TaskState
<1>4. ASSUME EvictDiagnosticLock(t)
      PROVE  At(t, "evict") /\ Moves(t, "return")
  BY <1>1, <1>4, IdleTask DEF EvictDiagnosticLock, At, Goto, Becomes, Moves, TaskState
<1>5. ASSUME Acquire(t)
      PROVE  /\ At(t, "wait")
             /\ Moves(t, IF task[t].kind = "clear" THEN "publish" ELSE "commit")
  BY <1>1, <1>5, IdleTask DEF Acquire, At, Goto, Becomes, Moves, TaskState
<1>6. ASSUME ApplyObligations(t)
      PROVE  At(t, "compute") /\ Moves(t, "derive")
  BY <1>1, <1>6, IdleTask DEF ApplyObligations, At, Goto, Becomes, Moves, TaskState
<1>7. ASSUME DiagnosticsFor(t)
      PROVE  At(t, "derive") /\ Moves(t, "recheck")
  BY <1>1, <1>7, IdleTask DEF DiagnosticsFor, At, Goto, Becomes, Moves, TaskState
<1>8. ASSUME Publish(t)
      PROVE  /\ At(t, "publish")
             /\ Becomes(t, "unlock", "none", task[t].uri, 0, task[t].lock, task[t].todo)
  BY <1>0, <1>8 DEF Publish, At
<1>9. ASSUME Commit(t)
      PROVE  /\ At(t, "commit")
             /\ IF Current(t)
                THEN Moves(t, IF task[t].sources THEN "compute" ELSE "derive")
                ELSE Becomes(t, "unlock", "none", task[t].uri, 0, task[t].lock, task[t].todo)
  BY <1>0, <1>1, <1>9 DEF Commit, At, Goto, Moves, TaskState
<1>10. ASSUME Recheck(t)
      PROVE  /\ At(t, "recheck")
             /\ IF Current(t) THEN Moves(t, "publish")
                ELSE Becomes(t, "unlock", "none", task[t].uri, 0, task[t].lock, task[t].todo)
  BY <1>0, <1>1, <1>10 DEF Recheck, At, Goto, Moves, TaskState
<1> QED
  BY <1>2, <1>3, <1>4, <1>5, <1>6, <1>7, <1>8, <1>9, <1>10

(* Of one that takes a reference to the lock.                                *)
LEMMA DiagnosticLockEffect ==
    ASSUME Typed, NEW t \in Task, DiagnosticLock(t)
    PROVE  /\ task[t].pc = "lock"
           /\ \E l \in Lock : Becomes(t, "enqueue", task[t].kind, task[t].uri, task[t].doc, l,
                                     task[t].todo)
<1>1. /\ task[t] \in TaskState /\ task \in [Task -> TaskState] /\ task[t].pc = "lock"
      /\ task[t].uri \in Uri /\ diagnostic_locks \in [Uri -> Lock \cup {Null}]
  BY DEF DiagnosticLock, At, Typed, TypeOK, Fits
<1>2. PICK l \in Lock : task' = [task EXCEPT ![t].pc = "enqueue", ![t].lock = l]
  BY <1>1 DEF DiagnosticLock, Free
<1> QED
  BY <1>1, <1>2 DEF Becomes, TaskState

(* Of one that is done with a document.                                      *)
LEMMA DoneEffects ==
    ASSUME Typed, NEW t \in Task, NoSnapshot(t) \/ Return(t)
    PROVE  /\ task[t].pc \in {"analyze", "parse", "return"}
           /\ task'[t].pc \in {"idle", "next"}
           /\ Becomes(t, task'[t].pc, "none", Null, 0, Null, task[t].todo)
BY DoneTask DEF NoSnapshot, Return, At, Becomes, Typed

-----------------------------------------------------------------------------
(* The locks.                                                                *)

(* The steps before a task asks for its document's lock.                     *)
Unlocked == {"idle", "register", "sleep", "drop", "republish_all", "next", "refresh", "analyze",
             "parse", "lock"}

(* A step that leaves the queues alone, and by which no task joins or leaves *)
(* a line.                                                                   *)
LEMMA QueuesLeft ==
    ASSUME Typed, Queued, NEW t \in Task, queue' = queue,
           \A x \in Task \ {t} : task'[x] = task[x],
           task'[t].pc \in InLine <=> task[t].pc \in InLine,
           task'[t].pc \in Locked => task[t].pc \in Locked \/ Holds(t),
           task'[t].pc \in InLine => task'[t].lock = task[t].lock
    PROVE  Queued'
<1>1. \A x \in Task : task[x].pc \in InLine
                       => task'[x].pc \in InLine /\ task'[x].lock = task[x].lock
  OBVIOUS
<1>2. \A x \in Task : task'[x].pc \in InLine
                       => task[x].pc \in InLine /\ task'[x].lock = task[x].lock
  OBVIOUS
<1>3. \A l \in Lock : \A i \in 1 .. Len(queue[l]) :
          task'[queue[l][i]].lock = l /\ task'[queue[l][i]].pc \in InLine
  <2> SUFFICES ASSUME NEW l \in Lock, NEW i \in 1 .. Len(queue[l])
               PROVE  task'[queue[l][i]].lock = l /\ task'[queue[l][i]].pc \in InLine
    OBVIOUS
  <2>1. queue[l] \in Seq(Task)
    BY DEF Typed, TypeOK
  <2>2. queue[l][i] \in Task
    BY <2>1
  <2>3. task[queue[l][i]].lock = l /\ task[queue[l][i]].pc \in InLine
    BY DEF Queued
  <2> QED
    BY <1>1, <2>2, <2>3
<1>4. \A x \in Task : task'[x].pc \in InLine
          => \E i \in 1 .. Len(queue[task'[x].lock]) : queue[task'[x].lock][i] = x
  BY <1>2 DEF Queued
<1>5. \A x \in Task : task'[x].pc \in Locked
          => queue[task'[x].lock] # << >> /\ queue[task'[x].lock][1] = x
  <2> SUFFICES ASSUME NEW x \in Task, task'[x].pc \in Locked
               PROVE  queue[task'[x].lock] # << >> /\ queue[task'[x].lock][1] = x
    OBVIOUS
  <2>1. task[x].pc \in InLine /\ task'[x].lock = task[x].lock
    BY <1>2 DEF InLine
  <2>2. CASE task[x].pc \in Locked
    BY <2>1, <2>2 DEF Queued
  <2>3. CASE x = t /\ Holds(t)
    <3>1. queue[task[t].lock] \in Seq(Task) /\ queue[task[t].lock] # << >>
      BY <2>1, <2>3 DEF Holds, Typed, TypeOK, TaskState
    <3> QED
      BY <2>1, <2>3, <3>1 DEF Holds
  <2> QED
    BY <2>2, <2>3
<1>6. \A l \in Lock : \A i, j \in 1 .. Len(queue[l]) : queue[l][i] = queue[l][j] => i = j
  BY DEF Queued
<1> QED
  BY <1>3, <1>4, <1>5, <1>6 DEF Queued

(* And leaves the entries alone, while no task comes to ask for a lock or    *)
(* lets go of it.                                                            *)
LEMMA LocksLeft ==
    ASSUME Typed, Queued, EntriesOwned, NEW t \in Task, UNCHANGED lockVars,
           \A x \in Task \ {t} : task'[x] = task[x],
           task'[t].pc \in Owning => task[t].pc \in Owning,
           task'[t].pc \in InLine <=> task[t].pc \in InLine,
           task'[t].pc \in Locked => task[t].pc \in Locked \/ Holds(t),
           task'[t].pc \in Owning => task'[t].uri = task[t].uri /\ task'[t].lock = task[t].lock
    PROVE  Queued' /\ EntriesOwned'
<1>1. diagnostic_locks' = diagnostic_locks /\ queue' = queue
  BY DEF lockVars
<1>2. EntriesOwned'
  <2>1. \A x \in Task : task'[x].pc \in Owning => diagnostic_locks[task'[x].uri] = task'[x].lock
    BY DEF EntriesOwned
  <2> QED
    BY <1>1, <2>1 DEF EntriesOwned
<1>3. task'[t].pc \in InLine => task'[t].lock = task[t].lock
  BY DEF Owning
<1> QED
  BY <1>1, <1>2, <1>3, QueuesLeft

(* A task that has no lock before a step and none after leaves them alone.   *)
LEMMA LocksIdle ==
    ASSUME Typed, Queued, EntriesOwned, NEW t \in Task, UNCHANGED lockVars,
           \A x \in Task \ {t} : task'[x] = task[x],
           task[t].pc \notin Owning, task'[t].pc \notin Owning
    PROVE  Queued' /\ EntriesOwned'
BY LocksLeft DEF Owning, InLine

(* Taking a reference to the entry, which is made if there is none.          *)
LEMMA DiagnosticLockOwns ==
    ASSUME Typed, Queued, EntriesOwned, NEW t \in Task, DiagnosticLock(t)
    PROVE  Queued' /\ EntriesOwned'
<1> DEFINE u == task[t].uri
<1>1. task[t] \in TaskState /\ task[t].pc = "lock" /\ u \in Uri /\ queue' = queue
      /\ diagnostic_locks \in [Uri -> Lock \cup {Null}]
  BY DEF DiagnosticLock, At, Typed, TypeOK, Fits
<1>2. PICK l \in Lock : /\ diagnostic_locks' = [diagnostic_locks EXCEPT ![u] = l]
                        /\ task' = [task EXCEPT ![t].pc = "enqueue", ![t].lock = l]
                        /\ \/ diagnostic_locks[u] = l
                           \/ diagnostic_locks[u] = Null /\ l \in Free
  BY <1>1 DEF DiagnosticLock, Free
<1>3. /\ \A x \in Task \ {t} : task'[x] = task[x]
      /\ task'[t].pc = "enqueue" /\ task'[t].lock = l /\ task'[t].uri = u
  BY <1>1, <1>2 DEF Typed, TaskState
<1>4. Queued'
  BY <1>1, <1>3, QueuesLeft DEF InLine, Locked
<1>5. l # Null
  BY NullAssumption
<1>6. \A v \in Uri : diagnostic_locks'[v] = IF v = u THEN l ELSE diagnostic_locks[v]
  BY <1>1, <1>2
<1>7. \A v \in Uri \ {u} : diagnostic_locks[v] # l
  BY <1>1, <1>2, <1>5 DEF EntriesOwned, Free
<1>8. \A x \in Task \ {t} : task[x].pc \in Owning
                           => /\ diagnostic_locks[task[x].uri] = task[x].lock
                              /\ task[x].uri \in Uri /\ task[x].lock # Null
  BY DEF EntriesOwned, Typed, Fits, Owning, InLine, Locked
<1>9. \A x \in Task \ {t} : task[x].pc \in Owning => diagnostic_locks'[task[x].uri] = task[x].lock
  BY <1>2, <1>6, <1>8
<1>10. \A v, w \in Uri : diagnostic_locks'[v] # Null /\ diagnostic_locks'[v] = diagnostic_locks'[w]
                         => v = w
  BY <1>6, <1>7 DEF EntriesOwned
<1> HIDE DEF u
<1> QED
  BY <1>3, <1>4, <1>6, <1>1, <1>9, <1>10 DEF EntriesOwned

(* Evicting the entry: nobody but this task still refers to it.              *)
LEMMA EvictOwns ==
    ASSUME Typed, Queued, EntriesOwned, NEW t \in Task, EvictDiagnosticLock(t)
    PROVE  Queued' /\ EntriesOwned'
<1> DEFINE u == task[t].uri
           l == task[t].lock
<1>1. /\ task[t] \in TaskState /\ task[t].pc = "evict" /\ u \in Uri /\ queue' = queue
      /\ diagnostic_locks \in [Uri -> Lock \cup {Null}] /\ l # Null
      /\ diagnostic_locks[u] = l
  BY DEF EvictDiagnosticLock, At, Typed, TypeOK, Fits, EntriesOwned, Owning
<1>2. /\ \A x \in Task \ {t} : task'[x] = task[x]
      /\ task'[t].pc = "return"
  BY <1>1 DEF EvictDiagnosticLock, Goto, Typed, TaskState
<1>3. Queued'
  BY <1>1, <1>2, QueuesLeft DEF InLine, Locked
<1>4. \A v \in Uri : diagnostic_locks'[v] = IF v = u /\ Owners(l) = {t} THEN Null
                                            ELSE diagnostic_locks[v]
  BY <1>1 DEF EvictDiagnosticLock
<1>5. \A x \in Task \ {t} : task[x].pc \in Owning
                           => /\ diagnostic_locks[task[x].uri] = task[x].lock
                              /\ task[x].uri \in Uri
  BY DEF EntriesOwned, Typed, Fits, Owning, InLine, Locked
<1>6. \A x \in Task \ {t} : task[x].pc \in Owning => diagnostic_locks'[task[x].uri] = task[x].lock
  BY <1>1, <1>4, <1>5 DEF Owners
<1>7. \A v, w \in Uri : diagnostic_locks'[v] # Null /\ diagnostic_locks'[v] = diagnostic_locks'[w]
                        => v = w
  BY <1>4 DEF EntriesOwned
<1> HIDE DEF u, l
<1> QED
  BY <1>2, <1>3, <1>6, <1>7 DEF EntriesOwned, Owning, InLine, Locked

(* A task that joins a queue is its last.                                    *)
LEMMA EnqueueQueues ==
    ASSUME Typed, Queued, EntriesOwned, NEW t \in Task, Enqueue(t)
    PROVE  Queued' /\ EntriesOwned'
<1> DEFINE l == task[t].lock
           q == queue[l]
<1>1. /\ task[t] \in TaskState /\ task[t].pc = "enqueue" /\ l \in Lock
      /\ q \in Seq(Task) /\ queue \in [Lock -> Seq(Task)]
  BY DEF Enqueue, At, Typed, TypeOK, Fits, TaskState, Owning
<1>2. /\ \A x \in Task \ {t} : task'[x] = task[x]
      /\ task'[t].pc = "wait" /\ task'[t].uri = task[t].uri /\ task'[t].lock = l
      /\ diagnostic_locks' = diagnostic_locks
  BY <1>1 DEF Enqueue, Goto, Typed, TaskState
<1>q. PICK r, n : /\ r = Append(q, t) /\ n = Len(q)
  OBVIOUS
<1>3. \A k \in Lock : queue'[k] = IF k = l THEN r ELSE queue[k]
  BY <1>1, <1>q DEF Enqueue
<1>4. /\ r \in Seq(Task) /\ Len(r) = n + 1 /\ r[n + 1] = t /\ n \in Nat /\ n = Len(q)
      /\ \A i \in 1 .. n : r[i] = q[i] /\ q[i] \in Task
  BY <1>1, <1>q
<1>5. /\ \A i \in 1 .. n : task[q[i]].lock = l /\ task[q[i]].pc \in InLine /\ q[i] # t
      /\ \A i, j \in 1 .. n : q[i] = q[j] => i = j
  BY <1>1, <1>4 DEF Queued, InLine, Locked
<1>6. EntriesOwned'
  BY <1>1, <1>2 DEF EntriesOwned, Owning, InLine
<1>7. \A k \in Lock : \A i, j \in 1 .. Len(queue'[k]) : queue'[k][i] = queue'[k][j] => i = j
  <2> SUFFICES ASSUME NEW k \in Lock
               PROVE  \A i, j \in 1 .. Len(queue'[k]) : queue'[k][i] = queue'[k][j] => i = j
    OBVIOUS
  <2> HIDE DEF q
  <2>1. CASE k = l
    BY <1>3, <1>4, <1>5, <2>1
  <2>2. CASE k # l
    BY <1>3, <2>2 DEF Queued
  <2> QED
    BY <2>1, <2>2
<1>8. \A k \in Lock : \A i \in 1 .. Len(queue'[k]) :
          task'[queue'[k][i]].lock = k /\ task'[queue'[k][i]].pc \in InLine
  <2> SUFFICES ASSUME NEW k \in Lock, NEW i \in 1 .. Len(queue'[k])
               PROVE  task'[queue'[k][i]].lock = k /\ task'[queue'[k][i]].pc \in InLine
    OBVIOUS
  <2>1. CASE k = l
    <3> HIDE DEF q, l
    <3>1. i \in 1 .. n \/ i = n + 1
      BY <1>3, <1>4, <2>1
    <3>2. CASE i \in 1 .. n
      BY <1>2, <1>3, <1>4, <1>5, <2>1, <3>2
    <3>3. CASE i = n + 1
      BY <1>2, <1>3, <1>4, <2>1, <3>3 DEF InLine
    <3> QED
      BY <3>1, <3>2, <3>3
  <2>2. CASE k # l
    <3>1. queue'[k] = queue[k] /\ queue[k] \in Seq(Task)
      BY <1>1, <1>3, <2>2
    <3>2. queue[k][i] \in Task
      BY <3>1
    <3>3. task[queue[k][i]].lock = k /\ task[queue[k][i]].pc \in InLine
      BY <3>1 DEF Queued
    <3>4. queue[k][i] # t
      BY <1>1, <2>2, <3>3
    <3> QED
      BY <1>2, <3>1, <3>2, <3>3, <3>4
  <2> QED
    BY <2>1, <2>2
<1>9. \A x \in Task : task'[x].pc \in InLine
          => \E i \in 1 .. Len(queue'[task'[x].lock]) : queue'[task'[x].lock][i] = x
  <2> SUFFICES ASSUME NEW x \in Task, task'[x].pc \in InLine
               PROVE  \E i \in 1 .. Len(queue'[task'[x].lock]) : queue'[task'[x].lock][i] = x
    OBVIOUS
  <2>1. CASE x = t
    <3> HIDE DEF q, l
    <3>1. n + 1 \in 1 .. Len(queue'[l]) /\ queue'[l][n + 1] = t
      BY <1>1, <1>3, <1>4
    <3> QED
      BY <1>2, <2>1, <3>1
  <2>2. CASE x # t
    <3>1. task'[x] = task[x] /\ task[x].lock \in Lock
      BY <1>2, <2>2, NullAssumption DEF Typed, TaskState, Fits, Owning
    <3>2. PICK i \in 1 .. Len(queue[task[x].lock]) : queue[task[x].lock][i] = x
      BY <3>1 DEF Queued
    <3>3. i \in 1 .. Len(queue'[task[x].lock]) /\ queue'[task[x].lock][i] = x
      <4> HIDE DEF q
      <4>1. CASE task[x].lock = l
        <5>1. i \in 1 .. n /\ q[i] = x
          BY <1>4, <3>2, <4>1 DEF q
        <5> HIDE DEF l
        <5> QED
          BY <1>3, <1>4, <3>1, <4>1, <5>1
      <4>2. CASE task[x].lock # l
        BY <1>3, <3>1, <3>2, <4>2
      <4> QED
        BY <4>1, <4>2
    <3> QED
      BY <3>1, <3>3
  <2> QED
    BY <2>1, <2>2
<1>10. \A x \in Task : task'[x].pc \in Locked
          => queue'[task'[x].lock] # << >> /\ queue'[task'[x].lock][1] = x
  <2> SUFFICES ASSUME NEW x \in Task, task'[x].pc \in Locked
               PROVE  queue'[task'[x].lock] # << >> /\ queue'[task'[x].lock][1] = x
    OBVIOUS
  <2>1. x # t /\ task'[x] = task[x]
    BY <1>2 DEF Locked
  <2>2. /\ task[x].lock \in Lock /\ queue[task[x].lock] # << >> /\ queue[task[x].lock][1] = x
        /\ queue[task[x].lock] \in Seq(Task)
    BY <1>1, <2>1, NullAssumption DEF Queued, Typed, TaskState, Fits, Owning, InLine
  <2>3. 1 \in 1 .. Len(queue[task[x].lock])
    BY <2>2
  <2>4. CASE task[x].lock = l
    <3>1. 1 \in 1 .. n /\ q[1] = x
      BY <1>4, <2>2, <2>3, <2>4
    <3> HIDE DEF q, l
    <3>2. queue'[l] # << >> /\ queue'[l][1] = x
      BY <1>1, <1>3, <1>4, <3>1
    <3> QED
      BY <2>1, <2>4, <3>2
  <2>5. CASE task[x].lock # l
    BY <1>3, <2>1, <2>2, <2>5
  <2> QED
    BY <2>4, <2>5
<1> QED
  BY <1>6, <1>7, <1>8, <1>9, <1>10 DEF Queued

(* The task that unlocks is the head of the queue, and nobody else holds the *)
(* lock.                                                                     *)
LEMMA UnlockQueues ==
    ASSUME Typed, Queued, EntriesOwned, NEW t \in Task, Unlock(t)
    PROVE  Queued' /\ EntriesOwned'
<1> DEFINE l == task[t].lock
           q == queue[l]
<1>1. /\ task[t] \in TaskState /\ task[t].pc = "unlock" /\ l \in Lock
      /\ q \in Seq(Task) /\ queue \in [Lock -> Seq(Task)] /\ q # << >> /\ q[1] = t
  BY DEF Unlock, At, Typed, TypeOK, Fits, TaskState, Owning, InLine, Locked, Queued
<1>2. /\ \A x \in Task \ {t} : task'[x] = task[x]
      /\ task'[t].pc = "evict" /\ task'[t].uri = task[t].uri /\ task'[t].lock = l
      /\ diagnostic_locks' = diagnostic_locks
  BY <1>1 DEF Unlock, Goto, Typed, TaskState
<1>q. PICK r, n : r = Tail(q) /\ n = Len(q)
  OBVIOUS
<1>3. \A k \in Lock : queue'[k] = IF k = l THEN r ELSE queue[k]
  BY <1>1, <1>q DEF Unlock
<1>4. /\ r \in Seq(Task) /\ n \in Nat \ {0} /\ Len(r) = n - 1 /\ n = Len(q)
      /\ \A i \in 1 .. n - 1 : r[i] = q[i + 1] /\ q[i + 1] \in Task
  BY <1>1, <1>q
<1>5. /\ \A i \in 1 .. n : task[q[i]].lock = l /\ task[q[i]].pc \in InLine
      /\ \A i, j \in 1 .. n : q[i] = q[j] => i = j
  BY <1>1, <1>4 DEF Queued
<1>6. \A i \in 1 .. n - 1 : i + 1 \in 1 .. n /\ r[i] # t
  <2> SUFFICES ASSUME NEW i \in 1 .. n - 1 PROVE i + 1 \in 1 .. n /\ r[i] # t
    OBVIOUS
  <2>1. i + 1 \in 1 .. n /\ 1 \in 1 .. n /\ i + 1 # 1
    BY <1>4
  <2> HIDE DEF q
  <2> QED
    BY <1>1, <1>4, <1>5, <2>1
<1>7. EntriesOwned'
  BY <1>1, <1>2 DEF EntriesOwned, Owning, InLine, Locked
<1>8. \A k \in Lock : \A i, j \in 1 .. Len(queue'[k]) : queue'[k][i] = queue'[k][j] => i = j
  <2> SUFFICES ASSUME NEW k \in Lock
               PROVE  \A i, j \in 1 .. Len(queue'[k]) : queue'[k][i] = queue'[k][j] => i = j
    OBVIOUS
  <2>1. CASE k = l
    <3>1. \A i, j \in 1 .. n - 1 : r[i] = r[j] => i = j
      <4> SUFFICES ASSUME NEW i \in 1 .. n - 1, NEW j \in 1 .. n - 1, r[i] = r[j] PROVE i = j
        OBVIOUS
      <4>1. q[i + 1] = q[j + 1] /\ i + 1 \in 1 .. n /\ j + 1 \in 1 .. n
        BY <1>4, <1>6
      <4> HIDE DEF q
      <4>2. i + 1 = j + 1
        BY <1>5, <4>1
      <4> QED
        BY <4>2
    <3> HIDE DEF q, l
    <3> QED
      BY <1>3, <1>4, <2>1, <3>1
  <2>2. CASE k # l
    BY <1>3, <2>2 DEF Queued
  <2> QED
    BY <2>1, <2>2
<1>9. \A k \in Lock : \A i \in 1 .. Len(queue'[k]) :
          task'[queue'[k][i]].lock = k /\ task'[queue'[k][i]].pc \in InLine
  <2> SUFFICES ASSUME NEW k \in Lock, NEW i \in 1 .. Len(queue'[k])
               PROVE  task'[queue'[k][i]].lock = k /\ task'[queue'[k][i]].pc \in InLine
    OBVIOUS
  <2>1. CASE k = l
    <3> HIDE DEF q, l
    <3>1. queue'[k][i] = r[i] /\ i \in 1 .. n - 1
      BY <1>3, <1>4, <2>1
    <3>2. r[i] = q[i + 1] /\ r[i] # t /\ r[i] \in Task /\ i + 1 \in 1 .. n
      BY <1>4, <1>6, <3>1
    <3>3. task[q[i + 1]].lock = l /\ task[q[i + 1]].pc \in InLine
      BY <1>5, <3>2
    <3> QED
      BY <1>2, <2>1, <3>1, <3>2, <3>3
  <2>2. CASE k # l
    <3>1. queue'[k] = queue[k] /\ queue[k] \in Seq(Task)
      BY <1>1, <1>3, <2>2
    <3>2. queue[k][i] \in Task
      BY <3>1
    <3>3. task[queue[k][i]].lock = k /\ task[queue[k][i]].pc \in InLine
      BY <3>1 DEF Queued
    <3>4. queue[k][i] # t
      BY <1>1, <2>2, <3>3
    <3> QED
      BY <1>2, <3>1, <3>2, <3>3, <3>4
  <2> QED
    BY <2>1, <2>2
<1>10. \A x \in Task : task'[x].pc \in InLine
                        => x # t /\ task'[x] = task[x] /\ task[x].lock \in Lock
  BY <1>2, NullAssumption DEF Typed, TaskState, Fits, Owning, InLine, Locked
<1>11. \A x \in Task : task'[x].pc \in InLine
          => \E i \in 1 .. Len(queue'[task'[x].lock]) : queue'[task'[x].lock][i] = x
  <2> SUFFICES ASSUME NEW x \in Task, task'[x].pc \in InLine
               PROVE  \E i \in 1 .. Len(queue'[task[x].lock]) : queue'[task[x].lock][i] = x
    BY <1>10
  <2>1. PICK i \in 1 .. Len(queue[task[x].lock]) : queue[task[x].lock][i] = x
    BY <1>10 DEF Queued
  <2>2. CASE task[x].lock = l
    <3>1. i \in 1 .. n /\ q[i] = x /\ i # 1
      BY <1>1, <1>4, <1>10, <2>1, <2>2
    <3> HIDE DEF q, l
    <3>2. i - 1 \in 1 .. n - 1 /\ (i - 1) + 1 = i
      BY <1>4, <3>1
    <3>3. r[i - 1] = x
      BY <1>4, <3>1, <3>2
    <3>4. queue'[task[x].lock] = r
      BY <1>3, <1>10, <2>2
    <3> QED
      BY <1>4, <3>2, <3>3, <3>4
  <2>3. CASE task[x].lock # l
    BY <1>3, <1>10, <2>1, <2>3
  <2> QED
    BY <2>2, <2>3
<1>12. \A x \in Task : task'[x].pc \in Locked
          => queue'[task'[x].lock] # << >> /\ queue'[task'[x].lock][1] = x
  <2> SUFFICES ASSUME NEW x \in Task, task'[x].pc \in Locked
               PROVE  queue'[task'[x].lock] # << >> /\ queue'[task'[x].lock][1] = x
    OBVIOUS
  <2>1. x # t /\ task'[x] = task[x] /\ task[x].lock \in Lock
    BY <1>10 DEF InLine
  <2>2. queue[task[x].lock] # << >> /\ queue[task[x].lock][1] = x
    BY <2>1 DEF Queued
  <2>3. task[x].lock # l
    BY <1>1, <2>1, <2>2
  <2> QED
    BY <1>3, <2>1, <2>2, <2>3
<1> QED
  BY <1>7, <1>8, <1>9, <1>11, <1>12 DEF Queued

(* Nobody queues at first.                                                   *)
LEMMA InitLocks == Init => Queued /\ EntriesOwned
BY IdleTask DEF Init, Queued, EntriesOwned, Owning, InLine, Locked

(* Every step keeps the lines and the entries.                               *)
LEMMA NextLocks ==
    Typed /\ Queued /\ EntriesOwned /\ [Next]_vars => Queued' /\ EntriesOwned'
<1> SUFFICES ASSUME Typed, Queued, EntriesOwned, [Next]_vars
             PROVE  Queued' /\ EntriesOwned'
  OBVIOUS
<1>1. CASE UNCHANGED vars \/ ScanFolder
  BY <1>1 DEF vars, ScanFolder, lockVars, Queued, EntriesOwned
<1>2. ASSUME NEW t \in Task, NEW u \in Uri, Notification(t, u) \/ RefreshObligations(t, u)
      PROVE  Queued' /\ EntriesOwned'
  <2>1. UNCHANGED lockVars /\ \A x \in Task \ {t} : task'[x] = task[x]
    BY <1>2 DEF Notification, RefreshObligations, DidOpen, DidChangeAnalyze, DidChangeDebounce,
                Edit, DidSave, DidClose, Typed
  <2>2. task[t].pc = "idle" /\ task'[t].pc \in {"register", "analyze", "sleep", "drop", "refresh"}
    BY <1>2, HandlerEffects DEF Notification, At, Becomes
  <2> QED
    BY <2>1, <2>2, LocksIdle DEF Owning, InLine, Locked
<1>3. ASSUME NEW t \in Task,
             \/ ChangeShared(t) \/ StoreOpen(t) \/ Wake(t) \/ DropDocument(t)
             \/ RepublishAll(t) \/ RepublishNext(t) \/ ApplyRefresh(t) \/ NoRefresh(t)
             \/ BeginParse(t) \/ EndParse(t) \/ NoSnapshot(t) \/ Return(t)
      PROVE  Queued' /\ EntriesOwned'
  <2>1. UNCHANGED lockVars /\ \A x \in Task \ {t} : task'[x] = task[x]
    BY <1>3 DEF ChangeShared, StoreOpen, Wake, DropDocument, RepublishAll, RepublishNext,
                ApplyRefresh, NoRefresh, BeginParse, EndParse, NoSnapshot, Return, Goto, Typed
  <2>2. /\ task[t].pc \in {"idle", "register", "sleep", "drop", "republish_all", "next", "refresh",
                           "analyze", "parse", "return"}
        /\ task'[t].pc \in {"idle", "republish_all", "next", "analyze", "parse", "lock"}
    <3>1. CASE \/ ChangeShared(t) \/ StoreOpen(t) \/ DropDocument(t) \/ NoRefresh(t)
               \/ BeginParse(t) \/ EndParse(t)
      BY <3>1, ReadEffects DEF At, Becomes, Moves
    <3>2. CASE Wake(t) \/ RepublishAll(t) \/ RepublishNext(t) \/ ApplyRefresh(t)
      BY <3>2, ChoiceEffects DEF At, Becomes, Moves
    <3>3. CASE NoSnapshot(t) \/ Return(t)
      BY <3>3, DoneEffects
    <3> QED
      BY <1>3, <3>1, <3>2, <3>3
  <2> QED
    BY <2>1, <2>2, LocksIdle DEF Owning, InLine, Locked
<1>4. ASSUME NEW t \in Task,
             \/ Acquire(t) \/ Commit(t) \/ ApplyObligations(t) \/ DiagnosticsFor(t)
             \/ Recheck(t) \/ Publish(t)
      PROVE  Queued' /\ EntriesOwned'
  <2>1. UNCHANGED lockVars /\ \A x \in Task \ {t} : task'[x] = task[x]
    BY <1>4 DEF Acquire, Commit, ApplyObligations, DiagnosticsFor, Recheck, Publish, Goto,
                Leave, Typed
  <2>2. \/ task[t].pc = "wait" /\ Holds(t)
        \/ task[t].pc \in Locked
    BY <1>4, LockEffects DEF Acquire, At, Locked
  <2>3. task'[t].pc \in Locked /\ task'[t].uri = task[t].uri /\ task'[t].lock = task[t].lock
    BY <1>4, LockEffects DEF Becomes, Moves, Locked
  <2> QED
    BY <2>1, <2>2, <2>3, LocksLeft DEF Owning, InLine
<1> QED
  BY <1>1, <1>2, <1>3, <1>4, DiagnosticLockOwns, EnqueueQueues, UnlockQueues, EvictOwns
     DEF Next, Proceed

(* One publisher at a time, from the queues and the entries.                 *)
LEMMA LocksExclude == Typed /\ Queued /\ EntriesOwned => OnePublisher
<1> SUFFICES ASSUME Typed, Queued, EntriesOwned, NEW s \in Task, NEW t \in Task,
                    UnderLock(s), UnderLock(t), task[s].uri = task[t].uri
             PROVE  s = t
  BY DEF OnePublisher
<1>1. task[s].lock = task[t].lock
  BY DEF UnderLock, EntriesOwned, Owning, InLine, Locked
<1> QED
  BY <1>1 DEF UnderLock, Queued, Locked

(* Every variable is of its type in every reachable state, whatever the      *)
(* number of documents, of handlers and analyses in flight, and of edits.    *)
THEOREM TypeCorrect == Spec => []TypeOK
<1>1. Typed => TypeOK
  BY DEF Typed
<1> QED
  BY <1>1, InitTyped, InitLocks, NextTyped, NextLocks, PTL DEF Spec

(* Two tasks never publish for one document at a time: an entry of the lock  *)
(* map outlives everyone who has a reference to the lock in it.              *)
THEOREM OneTaskPublishes == Spec => []OnePublisher
BY InitTyped, InitLocks, NextTyped, NextLocks, LocksExclude, PTL DEF Spec

-----------------------------------------------------------------------------
(* Revisions.                                                                *)

(* Nothing is later than the last revision drawn.  Neither what an open      *)
(* document shows nor what a task is about to show is later than its buffer, *)
(* and what is about to be shown is not older than what is.                  *)
Ordered ==
    /\ \A u \in Uri : /\ buffer[u] <= next_revision /\ published[u].revision <= next_revision
                      /\ buffer[u] # 0 => published[u].revision <= buffer[u]
    /\ \A t \in Task :
        /\ task[t].doc <= next_revision
        /\ task[t].uri # Null /\ buffer[task[t].uri] # 0 => task[t].doc <= buffer[task[t].uri]
        /\ task[t].pc = "next" => task[t].doc = 0
        /\ task[t].pc = "publish" /\ task[t].kind # "clear"
            => published[task[t].uri].revision <= task[t].doc

(* The numbers the order is about.                                           *)
LEMMA Revisions ==
    ASSUME Typed
    PROVE  /\ next_revision \in Nat
           /\ \A u \in Uri : buffer[u] \in Nat /\ published[u].revision \in Nat
           /\ \A t \in Task : task[t].doc \in Nat /\ task[t].uri \in Uri \cup {Null}
BY BoundsAssumption DEF Typed, TypeOK

(* A step that edits and publishes nothing.                                  *)
LEMMA OrderedKept ==
    ASSUME Typed, Ordered, NEW t \in Task, Typed',
           UNCHANGED << buffer, next_revision, published >>,
           \A x \in Task \ {t} : task'[x] = task[x],
           \/ task'[t].doc = 0
           \/ task'[t].doc = task[t].doc /\ task'[t].uri = task[t].uri
           \/ task'[t].uri \in Uri /\ task'[t].doc = buffer[task'[t].uri],
           task'[t].pc = "next" => task'[t].doc = 0,
           \/ task'[t].pc # "publish"
           \/ task'[t].kind = "clear"
           \/ task[t].pc = "recheck" /\ Current(t) /\ task'[t].uri = task[t].uri
              /\ task'[t].doc = task[t].doc /\ task'[t].kind = task[t].kind
    PROVE  Ordered'
<1>1. /\ next_revision \in Nat
      /\ \A u \in Uri : buffer[u] \in Nat /\ published[u].revision \in Nat
      /\ \A x \in Task : task[x].doc \in Nat /\ task[x].uri \in Uri \cup {Null}
  BY Revisions
<1>2. \A x \in Task \ {t} :
        /\ task'[x].doc <= next_revision
        /\ task'[x].uri # Null /\ buffer[task'[x].uri] # 0 => task'[x].doc <= buffer[task'[x].uri]
        /\ task'[x].pc = "next" => task'[x].doc = 0
        /\ task'[x].pc = "publish" /\ task'[x].kind # "clear"
            => published[task'[x].uri].revision <= task'[x].doc
  BY DEF Ordered
<1>3. /\ task'[t].doc <= next_revision
      /\ task'[t].uri # Null /\ buffer[task'[t].uri] # 0 => task'[t].doc <= buffer[task'[t].uri]
  <2>1. task'[t].uri \in Uri \cup {Null}
    BY DEF Typed, TypeOK
  <2> QED
    BY <1>1, <2>1 DEF Ordered
<1>4. task'[t].pc = "publish" /\ task'[t].kind # "clear"
        => published[task'[t].uri].revision <= task'[t].doc
  <2> SUFFICES ASSUME task'[t].pc = "publish", task'[t].kind # "clear"
               PROVE  published[task'[t].uri].revision <= task'[t].doc
    OBVIOUS
  <2>1. task[t].uri \in Uri /\ task[t].doc # 0 /\ buffer[task[t].uri] = task[t].doc
    BY DEF Typed, Fits, Current, Locked
  <2> QED
    BY <2>1 DEF Ordered
<1>5. \A u \in Uri : /\ buffer[u] <= next_revision /\ published[u].revision <= next_revision
                     /\ buffer[u] # 0 => published[u].revision <= buffer[u]
  BY DEF Ordered
<1> QED
  BY <1>2, <1>3, <1>4, <1>5 DEF Ordered

(* A revision drawn for a document is later than everything.                 *)
LEMMA OrderedDrawn ==
    ASSUME Typed, Ordered, NEW t \in Task, NEW u \in Uri, Draw(u), published' = published,
           \A x \in Task \ {t} : task'[x] = task[x],
           task'[t].uri = u, task'[t].pc \notin {"next", "publish"},
           task'[t].doc \in {0, task[t].doc, next_revision + 1}
    PROVE  Ordered'
<1>1. /\ next_revision \in Nat
      /\ \A v \in Uri : buffer[v] \in Nat /\ published[v].revision \in Nat
      /\ \A x \in Task : task[x].doc \in Nat /\ task[x].uri \in Uri \cup {Null}
  BY Revisions
<1>2. /\ next_revision' = next_revision + 1
      /\ \A v \in Uri : buffer'[v] = IF v = u THEN next_revision + 1 ELSE buffer[v]
  BY DEF Draw, Typed, TypeOK
<1>3. \A v \in Uri : /\ buffer'[v] <= next_revision' /\ published'[v].revision <= next_revision'
                     /\ buffer'[v] # 0 => published'[v].revision <= buffer'[v]
  BY <1>1, <1>2 DEF Ordered
<1>4. \A x \in Task :
        /\ task'[x].doc <= next_revision'
        /\ task'[x].uri # Null /\ buffer'[task'[x].uri] # 0
            => task'[x].doc <= buffer'[task'[x].uri]
  <2> SUFFICES ASSUME NEW x \in Task
               PROVE  /\ task'[x].doc <= next_revision'
                      /\ task'[x].uri # Null /\ buffer'[task'[x].uri] # 0
                          => task'[x].doc <= buffer'[task'[x].uri]
    OBVIOUS
  <2>1. CASE x = t
    BY <1>1, <1>2, <2>1 DEF Ordered
  <2>2. CASE x # t
    BY <1>1, <1>2, <2>2 DEF Ordered
  <2> QED
    BY <2>1, <2>2
<1>5. \A x \in Task :
        /\ task'[x].pc = "next" => task'[x].doc = 0
        /\ task'[x].pc = "publish" /\ task'[x].kind # "clear"
            => published'[task'[x].uri].revision <= task'[x].doc
  BY DEF Ordered
<1> QED
  BY <1>3, <1>4, <1>5 DEF Ordered

(* A close only takes a bound away.                                          *)
LEMMA OrderedClosed ==
    ASSUME Typed, Ordered, NEW t \in Task, NEW u \in Uri, DidClose(t, u)
    PROVE  Ordered'
<1>1. /\ next_revision \in Nat
      /\ \A v \in Uri : buffer[v] \in Nat /\ published[v].revision \in Nat
      /\ \A x \in Task : task[x].doc \in Nat /\ task[x].uri \in Uri \cup {Null}
  BY Revisions
<1>2. /\ task'[t].doc = 0 /\ task'[t].pc = "drop" /\ task'[t].uri = u
      /\ \A x \in Task \ {t} : task'[x] = task[x]
  BY HandlerEffects DEF Becomes
<1>3. /\ next_revision' = next_revision /\ published' = published
      /\ \A v \in Uri : buffer'[v] = IF v = u THEN 0 ELSE buffer[v]
  BY DEF DidClose, Typed, TypeOK
<1>4. \A v \in Uri : /\ buffer'[v] <= next_revision' /\ published'[v].revision <= next_revision'
                     /\ buffer'[v] # 0 => published'[v].revision <= buffer'[v]
  BY <1>1, <1>3 DEF Ordered
<1>5. \A x \in Task :
        /\ task'[x].doc <= next_revision'
        /\ task'[x].uri # Null /\ buffer'[task'[x].uri] # 0
            => task'[x].doc <= buffer'[task'[x].uri]
        /\ task'[x].pc = "next" => task'[x].doc = 0
        /\ task'[x].pc = "publish" /\ task'[x].kind # "clear"
            => published'[task'[x].uri].revision <= task'[x].doc
  BY <1>1, <1>2, <1>3 DEF Ordered
<1> QED
  BY <1>4, <1>5 DEF Ordered

(* Only one task is about to publish for the document, so what is shown from *)
(* here on is no later than what anyone else is about to show.               *)
LEMMA OrderedPublished ==
    ASSUME Typed, Ordered, OnePublisher, NEW t \in Task, Publish(t)
    PROVE  Ordered'
<1> DEFINE u == task[t].uri
           r == IF task[t].kind = "clear" THEN 0 ELSE task[t].doc
<1>1. /\ next_revision \in Nat
      /\ \A v \in Uri : buffer[v] \in Nat /\ published[v].revision \in Nat
      /\ \A x \in Task : task[x].doc \in Nat /\ task[x].uri \in Uri \cup {Null}
  BY Revisions
<1>2. /\ At(t, "publish") /\ task'[t].doc = 0 /\ task'[t].pc = "unlock" /\ task'[t].uri = u
      /\ \A x \in Task \ {t} : task'[x] = task[x]
  BY LockEffects DEF Becomes
<1>3. u \in Uri
  BY <1>2 DEF At, Typed, Fits
<1>4. /\ next_revision' = next_revision /\ buffer' = buffer
      /\ \A v \in Uri : published'[v].revision = IF v = u THEN r ELSE published[v].revision
  BY <1>3 DEF Publish, editorVars, Clear, Typed, TypeOK
<1>5. r \in Nat /\ r <= next_revision /\ (buffer[u] # 0 => r <= buffer[u])
  BY <1>1, <1>3, NullAssumption DEF Ordered
<1>6. \A v \in Uri : /\ buffer'[v] <= next_revision' /\ published'[v].revision <= next_revision'
                     /\ buffer'[v] # 0 => published'[v].revision <= buffer'[v]
  BY <1>1, <1>4, <1>5 DEF Ordered
<1>7. \A x \in Task : task'[x].pc = "publish" => x # t /\ task[x].uri \in Uri /\ task[x].uri # u
  <2> SUFFICES ASSUME NEW x \in Task, task'[x].pc = "publish"
               PROVE  x # t /\ task[x].uri \in Uri /\ task[x].uri # u
    OBVIOUS
  <2>1. x # t /\ task[x].pc = "publish"
    BY <1>2
  <2>2. task[x].uri \in Uri
    BY <2>1 DEF Typed, Fits
  <2> QED
    BY <1>2, <2>1, <2>2 DEF OnePublisher, UnderLock, At
<1>8. \A x \in Task :
        /\ task'[x].doc <= next_revision'
        /\ task'[x].uri # Null /\ buffer'[task'[x].uri] # 0
            => task'[x].doc <= buffer'[task'[x].uri]
        /\ task'[x].pc = "next" => task'[x].doc = 0
  <2> HIDE DEF u
  <2> QED
    BY <1>1, <1>2, <1>3, <1>4 DEF Ordered
<1>9. \A x \in Task : task'[x].pc = "publish" /\ task'[x].kind # "clear"
            => published'[task'[x].uri].revision <= task'[x].doc
  <2> HIDE DEF u, r
  <2> QED
    BY <1>2, <1>4, <1>7 DEF Ordered
<1> QED
  BY <1>6, <1>8, <1>9 DEF Ordered

(* Every step keeps the order.                                               *)
LEMMA NextOrdered ==
    Typed /\ Typed' /\ Ordered /\ OnePublisher /\ [Next]_vars => Ordered'
<1> SUFFICES ASSUME Typed, Typed', Ordered, OnePublisher, [Next]_vars PROVE Ordered'
  OBVIOUS
<1>1. CASE UNCHANGED vars \/ ScanFolder
  BY <1>1 DEF vars, ScanFolder, editorVars, Ordered
<1>2. ASSUME NEW t \in Task, NEW u \in Uri, Notification(t, u) \/ RefreshObligations(t, u)
      PROVE  Ordered'
  <2>1. CASE DidOpen(t, u) \/ DidSave(t, u) \/ RefreshObligations(t, u)
    <3>1. UNCHANGED << buffer, next_revision, published >>
      BY <2>1 DEF DidOpen, DidSave, RefreshObligations, editorVars
    <3> QED
      BY <2>1, <3>1, HandlerEffects, OrderedKept DEF Becomes
  <2>2. CASE DidChangeAnalyze(t, u) \/ DidChangeDebounce(t, u)
    <3>1. Draw(u) /\ published' = published
      BY <2>2 DEF DidChangeAnalyze, DidChangeDebounce, Edit
    <3> QED
      BY <2>2, <3>1, HandlerEffects, OrderedDrawn DEF Becomes
  <2> QED
    BY <1>2, <2>1, <2>2, OrderedClosed DEF Notification
<1>3. ASSUME NEW t \in Task,
             \/ ChangeShared(t) \/ DropDocument(t) \/ NoRefresh(t)
             \/ BeginParse(t) \/ EndParse(t)
      PROVE  Ordered'
  <2>1. UNCHANGED << buffer, next_revision, published >>
    BY <1>3 DEF ChangeShared, DropDocument, NoRefresh, BeginParse, EndParse, editorVars
  <2>2. task[t].pc \in {"analyze", "parse", "drop"} => task[t].uri \in Uri
    BY DEF Typed, Fits
  <2> QED
    BY <1>3, <2>1, <2>2, ReadEffects, OrderedKept DEF At, Becomes, Moves
<1>4. ASSUME NEW t \in Task, StoreOpen(t)
      PROVE  Ordered'
  <2>1. Draw(task[t].uri) /\ published' = published
    BY <1>4 DEF StoreOpen
  <2>2. task[t].uri \in Uri
    BY <1>4 DEF StoreOpen, At, Typed, Fits
  <2> QED
    BY <1>4, <2>1, <2>2, ReadEffects, OrderedDrawn DEF Becomes
<1>5. ASSUME NEW t \in Task, Wake(t) \/ RepublishAll(t) \/ RepublishNext(t) \/ ApplyRefresh(t)
      PROVE  Ordered'
  <2>1. UNCHANGED << buffer, next_revision, published >>
    BY <1>5 DEF Wake, RepublishAll, RepublishNext, ApplyRefresh, editorVars
  <2>2. CASE Wake(t)
    BY <2>1, <2>2, ChoiceEffects, OrderedKept DEF Becomes, Moves
  <2>3. CASE RepublishAll(t) \/ ApplyRefresh(t)
    BY <2>1, <2>3, ChoiceEffects, OrderedKept DEF Becomes
  <2>4. CASE RepublishNext(t)
    <3>1. task[t].doc = 0
      BY <2>4, ChoiceEffects DEF At, Ordered
    <3>2. /\ task'[t].pc = "analyze" /\ task'[t].doc = task[t].doc
          /\ \A x \in Task \ {t} : task'[x] = task[x]
      BY <2>4, ChoiceEffects DEF Becomes
    <3> QED
      BY <2>1, <3>1, <3>2, OrderedKept
  <2> QED
    BY <1>5, <2>2, <2>3, <2>4
<1>6. ASSUME NEW t \in Task, NoSnapshot(t) \/ Return(t)
      PROVE  Ordered'
  <2>1. UNCHANGED << buffer, next_revision, published >>
    BY <1>6 DEF NoSnapshot, Return, editorVars
  <2> QED
    BY <1>6, <2>1, DoneEffects, OrderedKept DEF Becomes
<1>7. ASSUME NEW t \in Task, DiagnosticLock(t)
      PROVE  Ordered'
  <2>1. UNCHANGED << buffer, next_revision, published >>
    BY <1>7 DEF DiagnosticLock, editorVars
  <2> QED
    BY <1>7, <2>1, DiagnosticLockEffect, OrderedKept DEF Becomes
<1>8. ASSUME NEW t \in Task,
             \/ Enqueue(t) \/ Acquire(t) \/ Unlock(t) \/ EvictDiagnosticLock(t)
             \/ Commit(t) \/ ApplyObligations(t) \/ DiagnosticsFor(t) \/ Recheck(t)
      PROVE  Ordered'
  <2>1. UNCHANGED << buffer, next_revision, published >>
    BY <1>8 DEF Enqueue, Acquire, Unlock, EvictDiagnosticLock, Commit, ApplyObligations,
                DiagnosticsFor, Recheck, editorVars
  <2>2. \A x \in Task \ {t} : task'[x] = task[x]
    BY <1>8, LockEffects DEF Becomes, Moves
  <2>3. \/ task'[t].doc = 0
        \/ task'[t].doc = task[t].doc /\ task'[t].uri = task[t].uri
    BY <1>8, LockEffects DEF Becomes, Moves
  <2>4. task'[t].pc # "next"
    BY <1>8, LockEffects DEF Becomes, Moves
  <2>5. \/ task'[t].pc # "publish"
        \/ task'[t].kind = "clear"
        \/ task[t].pc = "recheck" /\ Current(t) /\ task'[t].uri = task[t].uri
           /\ task'[t].doc = task[t].doc /\ task'[t].kind = task[t].kind
    BY <1>8, LockEffects DEF At, Becomes, Moves
  <2> QED
    BY <2>1, <2>2, <2>3, <2>4, <2>5, OrderedKept
<1> QED
  BY <1>1, <1>2, <1>3, <1>4, <1>5, <1>6, <1>7, <1>8, OrderedPublished DEF Next, Proceed

(* Nothing has been drawn at first.                                          *)
LEMMA InitOrdered == Init => Ordered
BY IdleTask DEF Init, Ordered, Clear

(* The client never sees diagnostics of an older revision after newer ones.  *)
THEOREM RevisionsAdvance == Spec => NeverOlder
<1>1. Typed /\ Ordered /\ [Next]_vars
        => [\A u \in Uri : published'[u].revision # 0
                             => published'[u].revision >= published[u].revision]_vars
  <2> SUFFICES ASSUME Typed, Ordered, Next, NEW v \in Uri, published'[v].revision # 0
               PROVE  published'[v].revision >= published[v].revision
    OBVIOUS
  <2>1. \A u \in Uri : published[u].revision \in Nat
    BY Revisions
  <2>2. CASE published' = published
    BY <2>1, <2>2
  <2>3. ASSUME NEW t \in Task, Publish(t)
        PROVE  published'[v].revision >= published[v].revision
    <3>1. At(t, "publish") /\ task[t].uri \in Uri /\ task[t].doc \in Nat
      BY <2>3, LockEffects, Revisions DEF At, Typed, Fits
    <3>2. /\ v # task[t].uri => published'[v] = published[v]
          /\ v = task[t].uri
             => published'[v].revision = IF task[t].kind = "clear" THEN 0 ELSE task[t].doc
      <4>1. published \in [Uri -> [revision : 0 .. MaxRevision, seen : Seen]]
        BY DEF Typed, TypeOK
      <4> QED
        BY <2>3, <3>1, <4>1 DEF Publish, Clear
    <3> QED
      BY <2>1, <3>1, <3>2 DEF Ordered, At
  <2>4. ASSUME NEW t \in Task, NEW u \in Uri, Notification(t, u) \/ RefreshObligations(t, u)
        PROVE  published' = published
    BY <2>4 DEF Notification, DidOpen, DidChangeAnalyze, DidChangeDebounce, Edit, DidSave,
                DidClose, RefreshObligations
  <2>5. ASSUME NEW t \in Task, ChangeShared(t) \/ Proceed(t)
        PROVE  published' = published \/ Publish(t)
    BY <2>5
       DEF ChangeShared, Proceed, StoreOpen, Wake, DropDocument, RepublishAll,
           RepublishNext, ApplyRefresh, NoRefresh, BeginParse, EndParse, NoSnapshot,
           DiagnosticLock, Enqueue, Acquire, Unlock, EvictDiagnosticLock, Return, Commit,
           ApplyObligations, DiagnosticsFor, Recheck
  <2>6. ASSUME ScanFolder PROVE published' = published
    BY <2>6 DEF ScanFolder
  <2> QED
    BY <2>2, <2>3, <2>4, <2>5, <2>6 DEF Next
<1> QED
  BY <1>1, InitTyped, InitLocks, InitOrdered, NextTyped, NextLocks, NextOrdered, LocksExclude,
     PTL DEF Spec, NeverOlder

-----------------------------------------------------------------------------
(* What is shown in the end.                                                 *)

(* A close that has not been published yet.                                  *)
Clearing(s, u) == task[s].kind = "clear" /\ task[s].uri = u

Ahead(s, t) ==
    \E i \in 1 .. Len(queue[task[s].lock]) :
        /\ queue[task[s].lock][i] = s
        /\ \A j \in 1 .. Len(queue[task[s].lock]) : queue[task[s].lock][j] = t => i < j

(* A task that will show the buffer as it is, under inputs it has yet to     *)
(* read.                                                                     *)
Pending(t, u) ==
    \/ task[t].pc = "republish_all"
    \/ u \in task[t].todo
    \/ task[t].uri = u /\ task[t].pc = "analyze"
    \/ /\ task[t].uri = u /\ task[t].kind # "clear" /\ task[t].doc = buffer[u]
       /\ task[t].pc \in {"sleep", "parse", "lock", "enqueue", "wait", "commit", "compute",
                          "derive"}

(* No close can wipe out what it shows.                                      *)
Good(t, u) ==
    /\ Pending(t, u)
    /\ \A s \in Task : Clearing(s, u) => task[s].lock # Null /\ Ahead(s, t)

UpToDate(t, u) ==
    /\ task[t].pc \in {"compute", "derive", "recheck", "publish"} => task[t].doc = buffer[u]
    /\ task[t].pc \in {"recheck", "publish"} => Latest(u, task[t].seen)

(* The document shows its buffer, or is about to, and no task will show      *)
(* anything else.                                                            *)
Undisturbed(u) ==
    /\ \A s \in Task : task[s].uri = u => task[s].kind # "clear" /\ UpToDate(s, u)
    /\ \/ published[u].revision = buffer[u] /\ Latest(u, published[u].seen)
       \/ \E t \in Task : task[t].uri = u /\ task[t].pc \in {"recheck", "publish"}

ClearShown(u) ==
    \/ \E s \in Task : Clearing(s, u)
    \/ /\ published[u] = Clear
       /\ \A s \in Task : task[s].uri = u => task[s].pc # "publish"

ShownFor(u) ==
    IF buffer[u] = 0 THEN ClearShown(u)
    ELSE Undisturbed(u) \/ \E t \in Task : Good(t, u)

Shown == \A u \in Uri : ShownFor(u)

(* What a step of t keeps for a document whose buffer, inputs and shown      *)
(* diagnostics it leaves alone.                                              *)
Carries(t, u) ==
    /\ Clearing(t, u)' <=> Clearing(t, u)
    /\ buffer[u] # 0
        => /\ Pending(t, u) => Pending(t, u)'
           /\ task'[t].uri = u /\ ~ Clearing(t, u)' /\ (task[t].uri = u => UpToDate(t, u))
               => UpToDate(t, u)'
           /\ task[t].uri = u /\ task[t].pc \in {"recheck", "publish"} /\ UpToDate(t, u)
               => task'[t].uri = u /\ task'[t].pc \in {"recheck", "publish"}
    /\ buffer[u] = 0 /\ task'[t].uri = u /\ task'[t].pc = "publish"
        => \/ Clearing(t, u)'
           \/ task[t].uri = u /\ task[t].pc = "publish"

LinesKept(u) ==
    buffer[u] # 0
        => \A s, x \in Task : Clearing(s, u) /\ task[s].lock # Null /\ Ahead(s, x)
                                => task'[s].lock # Null /\ Ahead(s, x)'

LeavesAlone(u) ==
    /\ buffer'[u] = buffer[u] /\ published'[u] = published[u]
    /\ \A seen \in Seen : Latest(u, seen) => Latest(u, seen)'

(* What is read is as it is, or moved and not touched since.                 *)
StaysLatest(u) ==
    /\ shared' = shared /\ saved' = saved /\ proof_obligations'[u] = proof_obligations[u]
    /\ buffer'[u] = buffer[u] /\ overlay'[u] = overlay[u] /\ published'[u] = published[u]
    /\ moved[u] \subseteq moved'[u]
    /\ \A v \in Uri : \/ v \in moved'[u] \ {u}
                      \/ buffer'[v] = buffer[v] /\ overlay'[v] = overlay[v]

LEMMA LatestStays ==
    ASSUME NEW u \in Uri, StaysLatest(u)
    PROVE  LeavesAlone(u)
<1> SUFFICES ASSUME NEW seen \in Seen, Latest(u, seen)
             PROVE  Latest(u, seen)'
  BY DEF StaysLatest, LeavesAlone
<1>1. \A v \in Uri : \/ seen.documents[v] = << buffer'[v], overlay'[v] >>
                     \/ v \in moved'[u] \ {u}
  BY DEF StaysLatest, Latest
<1>2. /\ seen.shared = shared' /\ seen.obligations = proof_obligations'[u]
      /\ seen.saved = saved' \/ Disk \in moved'[u]
  BY DEF StaysLatest, Latest
<1> QED
  BY <1>1, <1>2 DEF Latest

(* What a task read stays as good as it was.                                 *)
LEMMA UpToDateStays ==
    ASSUME Typed, NEW s \in Task, NEW u \in Uri, LeavesAlone(u), task'[s] = task[s],
           UpToDate(s, u)
    PROVE  UpToDate(s, u)'
<1>1. PICK seen \in Seen : seen = task[s].seen
  BY DEF Typed, TaskState
<1>2. Latest(u, seen) => Latest(u, seen)'
  BY DEF LeavesAlone
<1>3. task'[s].seen = seen
  BY <1>1
<1>4. task[s].pc \in {"recheck", "publish"} => Latest(u, task[s].seen)'
  BY <1>1, <1>2, <1>3 DEF UpToDate, Latest
<1> QED
  BY <1>4 DEF UpToDate, LeavesAlone

(* Such a step keeps what is shown, or about to be.                          *)
LEMMA ShownKept ==
    ASSUME Typed, NEW t \in Task, NEW u \in Uri, ShownFor(u), LeavesAlone(u),
           \A x \in Task \ {t} : task'[x] = task[x], Carries(t, u), LinesKept(u)
    PROVE  ShownFor(u)'
<1>1. /\ buffer'[u] = buffer[u] /\ published'[u] = published[u]
      /\ \A seen \in Seen : Latest(u, seen) => Latest(u, seen)'
  BY DEF LeavesAlone
<1>2. \A s \in Task : Clearing(s, u)' <=> Clearing(s, u)
  BY DEF Carries, Clearing
<1>3. CASE buffer[u] = 0
  <2>1. CASE \E s \in Task : Clearing(s, u)
    BY <1>1, <1>2, <1>3, <2>1 DEF ShownFor, ClearShown
  <2>2. CASE ~ \E s \in Task : Clearing(s, u)
    <3>1. /\ published[u] = Clear
          /\ \A s \in Task : task[s].uri = u => task[s].pc # "publish"
      BY <1>3, <2>2 DEF ShownFor, ClearShown
    <3>2. \A s \in Task : task'[s].uri = u => task'[s].pc # "publish"
      BY <1>2, <1>3, <2>2, <3>1 DEF Carries
    <3> QED
      BY <1>1, <1>3, <3>1, <3>2 DEF ShownFor, ClearShown
  <2> QED
    BY <2>1, <2>2
<1>4. CASE buffer[u] # 0 /\ Undisturbed(u)
  <2>1. \A s \in Task : task[s].uri = u => task[s].kind # "clear" /\ UpToDate(s, u)
    BY <1>4 DEF Undisturbed
  <2>2. \A s \in Task : ~ Clearing(s, u)
    BY <2>1 DEF Clearing
  <2>3. \A s \in Task : task'[s].uri = u => task'[s].kind # "clear" /\ UpToDate(s, u)'
    <3> SUFFICES ASSUME NEW s \in Task, task'[s].uri = u
                 PROVE  task'[s].kind # "clear" /\ UpToDate(s, u)'
      OBVIOUS
    <3>1. ~ Clearing(s, u)' /\ task'[s].kind # "clear"
      BY <1>2, <2>2 DEF Clearing
    <3>2. CASE s = t
      BY <1>4, <2>1, <3>1, <3>2 DEF Carries
    <3>3. CASE s # t
      <4>1. task'[s] = task[s] /\ (task[s].uri = u => UpToDate(s, u))
        BY <2>1, <3>3
      <4>2. UpToDate(s, u)
        BY <4>1
      <4> QED
        BY <1>1, <3>1, <4>1, <4>2, UpToDateStays DEF LeavesAlone
    <3> QED
      BY <3>2, <3>3
  <2>4. \/ published'[u].revision = buffer'[u] /\ Latest(u, published[u].seen)'
        \/ \E x \in Task : task'[x].uri = u /\ task'[x].pc \in {"recheck", "publish"}
    <3>1. CASE published[u].revision = buffer[u] /\ Latest(u, published[u].seen)
      <4>1. PICK seen \in Seen : seen = published[u].seen
        BY DEF Typed, TypeOK
      <4>2. Latest(u, seen)'
        BY <1>1, <3>1, <4>1
      <4>3. published'[u].seen = seen
        BY <1>1, <4>1
      <4> QED
        BY <1>1, <3>1, <4>2, <4>3 DEF Latest
    <3>2. ASSUME NEW x \in Task, task[x].uri = u, task[x].pc \in {"recheck", "publish"}
          PROVE  task'[x].uri = u /\ task'[x].pc \in {"recheck", "publish"}
      BY <1>4, <2>1, <3>2 DEF Carries
    <3> QED
      BY <1>4, <3>1, <3>2 DEF Undisturbed
  <2>5. Undisturbed(u)'
    BY <2>3, <2>4 DEF Undisturbed
  <2> QED
    BY <1>1, <1>4, <2>5 DEF ShownFor
<1>5. ASSUME buffer[u] # 0, NEW x \in Task, Good(x, u)
      PROVE  ShownFor(u)'
  <2>1. Pending(x, u)'
    <3>1. CASE x = t
      BY <1>5, <3>1 DEF Good, Carries
    <3>2. CASE x # t
      BY <1>1, <1>5, <3>2 DEF Good, Pending
    <3> QED
      BY <3>1, <3>2
  <2>2. \A s \in Task : Clearing(s, u)' => task'[s].lock # Null /\ Ahead(s, x)'
    BY <1>2, <1>5 DEF Good, LinesKept
  <2>3. Good(x, u)'
    BY <2>1, <2>2 DEF Good
  <2> QED
    BY <1>1, <1>5, <2>3 DEF ShownFor
<1> QED
  BY <1>3, <1>4, <1>5 DEF ShownFor

(* A close that waits for its turn is ahead of whoever is not in line yet.   *)
LEMMA GoodArises ==
    ASSUME Typed', Queued', NEW t \in Task, NEW u \in Uri, buffer'[u] # 0, Pending(t, u)',
           task'[t].pc \notin InLine
    PROVE  ShownFor(u)'
<1>1. ASSUME NEW s \in Task, Clearing(s, u)'
      PROVE  task'[s].lock # Null /\ Ahead(s, t)'
  <2>1. task'[s].pc \in InLine
    BY <1>1 DEF Clearing, Typed, Fits, ServerShape, InLine, Locked
  <2>2. task'[s].lock # Null /\ task'[s].lock \in Lock
    BY <2>1 DEF Typed, TypeOK, Fits, Owning
  <2>3. PICK i \in 1 .. Len(queue'[task'[s].lock]) : queue'[task'[s].lock][i] = s
    BY <2>1 DEF Queued
  <2>4. \A j \in 1 .. Len(queue'[task'[s].lock]) : queue'[task'[s].lock][j] # t
    BY <2>2 DEF Queued
  <2> QED
    BY <2>2, <2>3, <2>4 DEF Ahead
<1>2. Good(t, u)'
  BY <1>1 DEF Good
<1> QED
  BY <1>2 DEF ShownFor

(* For a closed document it is enough that the close is not forgotten and    *)
(* nobody else comes to publish.                                             *)
LEMMA ClearKept ==
    ASSUME NEW t \in Task, NEW u \in Uri, ShownFor(u), buffer[u] = 0, buffer'[u] = 0,
           published'[u] = published[u], \A x \in Task \ {t} : task'[x] = task[x],
           Clearing(t, u) => Clearing(t, u)',
           task'[t].uri = u /\ task'[t].pc = "publish"
             => \/ Clearing(t, u)'
                \/ task[t].uri = u /\ task[t].pc = "publish"
    PROVE  ShownFor(u)'
<1>1. \A s \in Task : Clearing(s, u) => Clearing(s, u)'
  BY DEF Clearing
<1>2. CASE \E s \in Task : Clearing(s, u)
  BY <1>1, <1>2 DEF ShownFor, ClearShown
<1>3. CASE ~ \E s \in Task : Clearing(s, u)
  BY <1>1, <1>3 DEF ShownFor, ClearShown
<1> QED
  BY <1>2, <1>3

(* Nobody else joins or leaves a line.                                       *)
LEMMA LinesLeft ==
    ASSUME Typed, NEW t \in Task, NEW u \in Uri, queue' = queue,
           \A x \in Task \ {t} : task'[x] = task[x],
           Clearing(t, u) /\ task[t].lock # Null => task'[t].lock = task[t].lock
    PROVE  LinesKept(u)
<1> SUFFICES ASSUME NEW s \in Task, NEW x \in Task, Clearing(s, u), task[s].lock # Null, Ahead(s, x)
             PROVE  task'[s].lock # Null /\ Ahead(s, x)'
  BY DEF LinesKept
<1>1. task'[s].lock = task[s].lock
  OBVIOUS
<1> QED
  BY <1>1 DEF Ahead

(* Who joins a line is behind everyone in it.                                *)
LEMMA LinesJoined ==
    ASSUME Typed, Queued, NEW t \in Task, NEW u \in Uri, Enqueue(t)
    PROVE  LinesKept(u)
<1> SUFFICES ASSUME buffer[u] # 0, NEW s \in Task, NEW x \in Task, Clearing(s, u),
                    task[s].lock # Null, Ahead(s, x)
             PROVE  task'[s].lock # Null /\ Ahead(s, x)'
  BY DEF LinesKept
<1> DEFINE l == task[t].lock
           q == queue[l]
           k == task[s].lock
<1>1. task[t].pc = "enqueue" /\ \A y \in Task \ {t} : task'[y] = task[y]
  BY LockEffects DEF At, Moves
<1>2. s # t
  BY <1>1 DEF Clearing, Typed, ServerShape
<1>3. task'[s] = task[s] /\ k \in Lock /\ l \in Lock /\ q \in Seq(Task)
      /\ queue \in [Lock -> Seq(Task)]
  BY <1>1, <1>2 DEF Typed, TypeOK, Fits, Owning
<1>4. PICK r, n : r = Append(q, t) /\ n = Len(q)
  OBVIOUS
<1>5. \A m \in Lock : queue'[m] = IF m = l THEN r ELSE queue[m]
  BY <1>3, <1>4 DEF Enqueue
<1>6. /\ Len(r) = n + 1 /\ n \in Nat /\ n = Len(q)
      /\ \A i \in 1 .. n : r[i] = q[i]
  BY <1>3, <1>4
<1>7. PICK i \in 1 .. Len(queue[k]) :
        queue[k][i] = s /\ \A j \in 1 .. Len(queue[k]) : queue[k][j] = x => i < j
  BY DEF Ahead
<1>8. CASE k # l
  <2>1. queue'[k] = queue[k]
    BY <1>3, <1>5, <1>8
  <2> QED
    BY <1>3, <2>1 DEF Ahead
<1>9. CASE k = l
  <2>1. i \in 1 .. n /\ q[i] = s /\ \A j \in 1 .. n : q[j] = x => i < j
    BY <1>6, <1>7, <1>9
  <2> HIDE DEF q
  <2>2. i \in 1 .. n + 1 /\ r[i] = s
    BY <1>6, <2>1
  <2>3. \A j \in 1 .. n + 1 : r[j] = x => i < j
    <3> SUFFICES ASSUME NEW j \in 1 .. n + 1, r[j] = x PROVE i < j
      OBVIOUS
    <3>1. CASE j \in 1 .. n
      BY <1>6, <2>1, <3>1
    <3>2. CASE j = n + 1
      BY <1>6, <2>1, <3>2
    <3> QED
      BY <1>6, <3>1, <3>2
  <2>4. queue'[k] = r
    BY <1>3, <1>5, <1>9
  <2> HIDE DEF k
  <2> QED
    BY <1>3, <1>6, <2>2, <2>3, <2>4 DEF Ahead, k
<1> QED
  BY <1>8, <1>9

(* Who leaves a line is its head, and no close any more.                     *)
LEMMA LinesShortened ==
    ASSUME Typed, Queued, NEW t \in Task, NEW u \in Uri, Unlock(t)
    PROVE  LinesKept(u)
<1> SUFFICES ASSUME NEW s \in Task, NEW x \in Task, Clearing(s, u), task[s].lock # Null,
                    Ahead(s, x)
             PROVE  task'[s].lock # Null /\ Ahead(s, x)'
  BY DEF LinesKept
<1> DEFINE l == task[t].lock
           q == queue[l]
           k == task[s].lock
<1>1. task[t].pc = "unlock" /\ \A y \in Task \ {t} : task'[y] = task[y]
  BY LockEffects DEF At, Moves
<1>2. s # t
  BY <1>1 DEF Clearing, Typed, Fits
<1>3. task'[s] = task[s] /\ k \in Lock /\ l \in Lock /\ q \in Seq(Task)
      /\ queue \in [Lock -> Seq(Task)] /\ q # << >> /\ q[1] = t
  BY <1>1, <1>2 DEF Typed, TypeOK, Fits, Owning, InLine, Locked, Queued
<1>4. PICK r, n : r = Tail(q) /\ n = Len(q)
  OBVIOUS
<1>5. \A m \in Lock : queue'[m] = IF m = l THEN r ELSE queue[m]
  BY <1>3, <1>4 DEF Unlock
<1>6. /\ n \in Nat \ {0} /\ Len(r) = n - 1 /\ n = Len(q)
      /\ \A i \in 1 .. n - 1 : r[i] = q[i + 1]
  BY <1>3, <1>4
<1>7. PICK i \in 1 .. Len(queue[k]) :
        queue[k][i] = s /\ \A j \in 1 .. Len(queue[k]) : queue[k][j] = x => i < j
  BY DEF Ahead
<1>8. CASE k # l
  <2>1. queue'[k] = queue[k]
    BY <1>3, <1>5, <1>8
  <2> QED
    BY <1>3, <2>1 DEF Ahead
<1>9. CASE k = l
  <2>1. i \in 1 .. n /\ q[i] = s /\ i # 1 /\ \A j \in 1 .. n : q[j] = x => i < j
    BY <1>2, <1>3, <1>6, <1>7, <1>9
  <2> HIDE DEF q
  <2>2. i - 1 \in 1 .. n - 1 /\ (i - 1) + 1 = i
    BY <1>6, <2>1
  <2>3. r[i - 1] = s
    BY <1>6, <2>1, <2>2
  <2>4. \A j \in 1 .. n - 1 : r[j] = x => i - 1 < j
    <3> SUFFICES ASSUME NEW j \in 1 .. n - 1, r[j] = x PROVE i - 1 < j
      OBVIOUS
    <3>1. j + 1 \in 1 .. n /\ q[j + 1] = x
      BY <1>6
    <3>2. i < j + 1
      BY <2>1, <3>1
    <3> QED
      BY <1>6, <2>1, <3>2
  <2>5. queue'[k] = r
    BY <1>3, <1>5, <1>9
  <2> HIDE DEF k
  <2> QED
    BY <1>3, <1>6, <2>2, <2>3, <2>4, <2>5 DEF Ahead, k
<1> QED
  BY <1>8, <1>9

(* A task that starts on something.                                          *)
LEMMA IdleCarries ==
    ASSUME Typed, NEW t \in Task, NEW u \in Uri, At(t, "idle"), ~ Clearing(t, u)',
           task'[t].pc \notin {"compute", "derive", "recheck", "publish"}
    PROVE  Carries(t, u)
<1>1. task[t].todo = {} /\ task[t].kind # "clear" /\ task[t].pc = "idle"
  BY DEF At, Typed, Fits
<1> QED
  BY <1>1 DEF Carries, Clearing, Pending, UpToDate

(* A task short of deriving anything that moves on, or drops what is not     *)
(* pending.                                                                  *)
LEMMA EarlyCarries ==
    ASSUME NEW t \in Task, NEW u \in Uri,
           Clearing(t, u)' <=> Clearing(t, u),
           buffer[u] # 0 /\ Pending(t, u) => Pending(t, u)',
           task[t].pc \notin {"recheck", "publish"},
           task'[t].pc \notin {"compute", "derive", "recheck", "publish"}
    PROVE  Carries(t, u)
BY DEF Carries, UpToDate

(* Notifications and requests.                                               *)
LEMMA HandlersShown ==
    ASSUME Typed, Typed', Queued', NEW t \in Task, NEW w \in Uri, NEW u \in Uri, ShownFor(u),
           Notification(t, w) \/ RefreshObligations(t, w)
    PROVE  ShownFor(u)'
<1>0. CASE DidSave(t, w) /\ u = w
  <2>1. /\ At(t, "idle") /\ task'[t].pc = "analyze" /\ task'[t].uri = w
        /\ buffer[w] # 0 /\ buffer' = buffer
    BY <1>0, HandlerEffects DEF Becomes, DidSave, editorVars
  <2> QED
    BY <1>0, <2>1, GoodArises DEF Pending, InLine, Locked
<1>1. CASE DidOpen(t, w) \/ (DidSave(t, w) /\ u # w) \/ RefreshObligations(t, w)
  <2>1. /\ At(t, "idle") /\ \A x \in Task \ {t} : task'[x] = task[x]
        /\ task'[t].kind # "clear"
        /\ task'[t].pc \notin {"compute", "derive", "recheck", "publish"}
    BY <1>1, HandlerEffects DEF Becomes
  <2>m. moved'[u] = moved[u]
    BY <1>1 DEF DidOpen, DidSave, RefreshObligations, Touched, graphVars, Typed, TypeOK
  <2>k. StaysLatest(u)
    BY <1>1, <2>m DEF DidOpen, DidSave, RefreshObligations, StaysLatest, editorVars, inputVars,
                      graphVars
  <2>2. LeavesAlone(u) /\ queue' = queue
    BY <1>1, <2>k, LatestStays DEF DidOpen, DidSave, RefreshObligations, lockVars
  <2>3. Carries(t, u) /\ ~ Clearing(t, u)
    BY <2>1, IdleCarries DEF Clearing, At, Typed, Fits
  <2>4. LinesKept(u)
    BY <2>1, <2>2, <2>3, LinesLeft
  <2> QED
    BY <2>1, <2>2, <2>3, <2>4, ShownKept
<1>2. CASE DidChangeAnalyze(t, w) \/ DidChangeDebounce(t, w)
  <2>1. /\ At(t, "idle") /\ \A x \in Task \ {t} : task'[x] = task[x]
        /\ task'[t].kind = "analyze" /\ task'[t].uri = w
        /\ \/ task'[t].pc = "analyze"
           \/ task'[t].pc = "sleep" /\ task'[t].doc = next_revision + 1
    BY <1>2, HandlerEffects DEF Becomes
  <2>2. Draw(w) /\ UNCHANGED << inputVars, overlay, saved, published, lockVars >>
    BY <1>2 DEF DidChangeAnalyze, DidChangeDebounce, Edit
  <2>3. /\ \A v \in Uri : buffer'[v] = IF v = w THEN next_revision + 1 ELSE buffer[v]
        /\ next_revision + 1 # 0
    BY <2>2, Revisions DEF Draw, Typed, TypeOK
  <2>4. CASE u = w
    BY <2>1, <2>3, <2>4, GoodArises DEF Pending, InLine, Locked
  <2>5. CASE u # w
    <3>m. moved'[u] = moved[u] \cup {w}
      BY <2>2, <2>5 DEF Draw
    <3>k. StaysLatest(u)
      BY <2>2, <2>3, <2>5, <3>m DEF StaysLatest, inputVars
    <3>1. LeavesAlone(u) /\ queue' = queue
      BY <2>2, <3>k, LatestStays DEF lockVars
    <3>2. Carries(t, u) /\ ~ Clearing(t, u)
      BY <2>1, IdleCarries DEF Clearing, At, Typed, Fits
    <3>3. LinesKept(u)
      BY <2>1, <3>1, <3>2, LinesLeft
    <3> QED
      BY <2>1, <3>1, <3>2, <3>3, ShownKept
  <2> QED
    BY <2>4, <2>5
<1>3. CASE DidClose(t, w)
  <2>1. /\ At(t, "idle") /\ \A x \in Task \ {t} : task'[x] = task[x]
        /\ task'[t].kind = "clear" /\ task'[t].uri = w /\ task'[t].pc = "drop"
    BY <1>3, HandlerEffects DEF Becomes
  <2>2. /\ \A v \in Uri : buffer'[v] = IF v = w THEN 0 ELSE buffer[v]
        /\ UNCHANGED << inputVars, overlay, saved, published, lockVars >> /\ Moved(w)
    BY <1>3 DEF DidClose, Typed, TypeOK
  <2>3. CASE u = w
    BY <2>1, <2>2, <2>3 DEF ShownFor, ClearShown, Clearing
  <2>4. CASE u # w
    <3>m. moved'[u] = moved[u] \cup {w}
      BY <2>2, <2>4 DEF Moved
    <3>k. StaysLatest(u)
      BY <2>2, <2>4, <3>m DEF StaysLatest, inputVars
    <3>1. LeavesAlone(u) /\ queue' = queue
      BY <2>2, <3>k, LatestStays DEF lockVars
    <3>2. Carries(t, u) /\ ~ Clearing(t, u)
      BY <2>1, <2>4, IdleCarries DEF Clearing, At, Typed, Fits
    <3>3. LinesKept(u)
      BY <2>1, <3>1, <3>2, LinesLeft
    <3> QED
      BY <2>1, <3>1, <3>2, <3>3, ShownKept
  <2> QED
    BY <2>3, <2>4
<1> QED
  BY <1>0, <1>1, <1>2, <1>3 DEF Notification

(* Steps that write a buffer or an input, or may have to.                    *)
LEMMA StoreOpenShown ==
    ASSUME Typed, Typed', Queued', NEW t \in Task, NEW u \in Uri, ShownFor(u), StoreOpen(t)
    PROVE  ShownFor(u)'
<1> DEFINE w == task[t].uri
<1>1. /\ At(t, "register") /\ \A x \in Task \ {t} : task'[x] = task[x]
      /\ task'[t].kind = "analyze" /\ task'[t].uri = w /\ task'[t].pc = "analyze"
      /\ task'[t].todo = task[t].todo
  BY ReadEffects DEF Becomes
<1>2. w \in Uri /\ task[t].kind # "clear"
  BY <1>1 DEF At, Typed, Fits
<1>3. Draw(w) /\ UNCHANGED << inputVars, overlay, saved, published, lockVars >>
  BY DEF StoreOpen
<1>4. /\ \A v \in Uri : buffer'[v] = IF v = w THEN next_revision + 1 ELSE buffer[v]
      /\ next_revision + 1 # 0
  BY <1>2, <1>3, Revisions DEF Draw, Typed, TypeOK
<1>5. CASE u = w
  BY <1>1, <1>4, <1>5, GoodArises DEF Pending, InLine, Locked
<1>6. CASE u # w
  <2>m. moved'[u] = moved[u] \cup {w}
    BY <1>3, <1>6 DEF Draw
  <2>k. StaysLatest(u)
    BY <1>2, <1>3, <1>4, <1>6, <2>m DEF StaysLatest, inputVars
  <2>1. LeavesAlone(u) /\ queue' = queue
    BY <1>3, <2>k, LatestStays DEF lockVars
  <2>2. Carries(t, u)
    BY <1>1, <1>2, <1>6, EarlyCarries DEF At, Clearing, Pending
  <2>3. LinesKept(u)
    BY <1>1, <1>2, <2>1, LinesLeft DEF Clearing
  <2> QED
    BY <1>1, <2>1, <2>2, <2>3, ShownKept
<1> QED
  BY <1>5, <1>6

LEMMA ChangeSharedShown ==
    ASSUME Typed, Typed', Queued', NEW t \in Task, NEW u \in Uri, ShownFor(u), ChangeShared(t)
    PROVE  ShownFor(u)'
<1>1. /\ At(t, "idle") /\ \A x \in Task \ {t} : task'[x] = task[x]
      /\ task'[t].pc = "republish_all"
  BY ReadEffects DEF Moves
<1>2. buffer' = buffer /\ published' = published
  BY DEF ChangeShared, editorVars
<1>3. CASE buffer[u] = 0
  BY <1>1, <1>2, <1>3, ClearKept DEF At, Clearing, Typed, Fits
<1>4. CASE buffer[u] # 0
  BY <1>1, <1>2, <1>4, GoodArises DEF Pending, InLine, Locked
<1> QED
  BY <1>3, <1>4

LEMMA DropShown ==
    ASSUME Typed, NEW t \in Task, NEW u \in Uri, ShownFor(u), DropDocument(t)
    PROVE  ShownFor(u)'
<1>1. At(t, "drop") /\ Moves(t, "lock") /\ \A x \in Task \ {t} : task'[x] = task[x]
  BY ReadEffects DEF Moves
<1>2. /\ task[t].kind = "clear" /\ task[t].uri \in Uri /\ buffer[task[t].uri] = 0
      /\ task[t].lock = Null
  BY <1>1 DEF At, Typed, Fits, ServerShape, Owning, InLine, Locked
<1>3. UNCHANGED << buffer, shared, saved, published, queue >> /\ Moved(task[t].uri)
  BY DEF DropDocument, editorVars, lockVars
<1>4. CASE u = task[t].uri
  BY <1>1, <1>2, <1>3, <1>4, ClearKept DEF Moves, Clearing
<1>5. CASE u # task[t].uri
  <2>m. moved'[u] = moved[u] \cup {task[t].uri}
    BY <1>3, <1>5 DEF Moved
  <2>d. \A v \in Uri \ {task[t].uri} : overlay'[v] = overlay[v]
                                       /\ proof_obligations'[v] = proof_obligations[v]
    BY <1>2 DEF DropDocument, Typed, TypeOK
  <2>k. StaysLatest(u)
    BY <1>2, <1>3, <1>5, <2>m, <2>d DEF StaysLatest
  <2>1. LeavesAlone(u)
    BY <2>k, LatestStays
  <2>2. Carries(t, u)
    BY <1>1, <1>2, <1>5, EarlyCarries DEF At, Moves, Clearing, Pending
  <2>3. LinesKept(u)
    BY <1>1, <1>2, <1>3, LinesLeft
  <2> QED
    BY <1>1, <2>1, <2>2, <2>3, ShownKept
<1> QED
  BY <1>4, <1>5

LEMMA ApplyRefreshShown ==
    ASSUME Typed, Typed', Queued', NEW t \in Task, NEW u \in Uri, ShownFor(u), ApplyRefresh(t)
    PROVE  ShownFor(u)'
<1> DEFINE w == task[t].uri
           changed == proof_obligations[w] # task[t].doc
<1>1. /\ At(t, "refresh") /\ \A x \in Task \ {t} : task'[x] = task[x]
      /\ task'[t].kind # "clear"
      /\ changed => task'[t].uri = w /\ task'[t].pc = "analyze"
      /\ task'[t].pc \in {"analyze", "idle"}
  BY ChoiceEffects DEF Becomes
<1>2. w \in Uri /\ task[t].kind # "clear" /\ task[t].todo = {} /\ task[t].pc = "refresh"
  BY <1>1 DEF At, Typed, Fits
<1>3. /\ UNCHANGED << buffer, shared, overlay, saved, published, queue >>
      /\ moved' = IF changed THEN [moved EXCEPT ![w] = {}] ELSE moved
      /\ \A v \in Uri : proof_obligations'[v] = IF v = w THEN task[t].doc
                                                ELSE proof_obligations[v]
  BY <1>2 DEF ApplyRefresh, editorVars, lockVars, Typed, TypeOK
<1>4. CASE u = w /\ changed
  <2>1. CASE buffer[u] = 0
    BY <1>1, <1>2, <1>3, <2>1, ClearKept DEF Clearing
  <2>2. CASE buffer[u] # 0
    BY <1>1, <1>3, <1>4, <2>2, GoodArises DEF Pending, InLine, Locked
  <2> QED
    BY <2>1, <2>2
<1>5. CASE u # w \/ ~ changed
  <2>m. moved'[u] = moved[u]
    BY <1>3, <1>5 DEF Typed, TypeOK
  <2>k. StaysLatest(u)
    BY <1>3, <1>5, <2>m DEF StaysLatest
  <2>1. LeavesAlone(u)
    BY <2>k, LatestStays
  <2>2. Carries(t, u)
    BY <1>1, <1>2, EarlyCarries DEF Clearing, Pending
  <2>3. LinesKept(u)
    BY <1>1, <1>2, <1>3, LinesLeft DEF Clearing
  <2> QED
    BY <1>1, <2>1, <2>2, <2>3, ShownKept
<1> QED
  BY <1>4, <1>5

(* A task under the lock that has yet to derive the diagnostics of a         *)
(* revision that is current takes over, whatever it does to what is read.    *)
LEMMA RereadShown ==
    ASSUME Typed, NEW t \in Task, NEW u \in Uri, ShownFor(u), u = task[t].uri, buffer[u] # 0,
           task[t].kind # "clear", task[t].doc = buffer[u], task[t].pc \in {"commit", "compute"},
           \A x \in Task \ {t} : task'[x] = task[x],
           Moves(t, "compute") \/ Moves(t, "derive"), UNCHANGED << buffer, queue >>
    PROVE  ShownFor(u)'
<1>1. \A s \in Task : Clearing(s, u)' <=> Clearing(s, u)
  BY DEF Clearing, Moves
<1>2. LinesKept(u)
  BY LinesLeft DEF Moves
<1>3. CASE Undisturbed(u)
  <2>1. Pending(t, u)'
    BY DEF Moves, Pending
  <2>2. \A s \in Task : ~ Clearing(s, u)'
    BY <1>1, <1>3 DEF Undisturbed, Clearing
  <2>3. Good(t, u)'
    BY <2>1, <2>2 DEF Good
  <2> QED
    BY <2>3 DEF ShownFor
<1>4. ASSUME NEW x \in Task, Good(x, u)
      PROVE  ShownFor(u)'
  <2>1. Pending(x, u)'
    BY <1>4 DEF Good, Moves, Pending
  <2>2. \A s \in Task : Clearing(s, u)' => task'[s].lock # Null /\ Ahead(s, x)'
    BY <1>1, <1>2, <1>4 DEF Good, LinesKept
  <2>3. Good(x, u)'
    BY <2>1, <2>2 DEF Good
  <2> QED
    BY <2>3 DEF ShownFor
<1> QED
  BY <1>3, <1>4 DEF ShownFor

(* The list is for the revision that is current, and what is shown will be   *)
(* derived from it.                                                          *)
LEMMA ApplyObligationsShown ==
    ASSUME Typed, NEW t \in Task, NEW u \in Uri, ShownFor(u), ApplyObligations(t)
    PROVE  ShownFor(u)'
<1> DEFINE w == task[t].uri
<1>1. At(t, "compute") /\ Moves(t, "derive") /\ \A x \in Task \ {t} : task'[x] = task[x]
  BY LockEffects DEF Moves
<1>2. w \in Uri /\ task[t].kind # "clear" /\ task[t].pc = "compute"
  BY <1>1 DEF At, Typed, Fits
<1>3. /\ UNCHANGED << buffer, shared, overlay, saved, moved, published, queue >>
      /\ \A v \in Uri \ {w} : proof_obligations'[v] = proof_obligations[v]
  BY <1>2 DEF ApplyObligations, editorVars, graphVars, lockVars, Typed, TypeOK
<1>4. \A s \in Task : Clearing(s, u)' <=> Clearing(s, u)
  BY <1>1, <1>2 DEF Clearing, Moves
<1>5. LinesKept(u)
  BY <1>1, <1>2, <1>3, LinesLeft DEF Clearing
<1>6. CASE buffer[u] = 0
  BY <1>1, <1>3, <1>4, <1>6, ClearKept DEF Moves
<1>7. CASE u # w
  <2>k. StaysLatest(u)
    BY <1>3, <1>7 DEF StaysLatest
  <2>1. LeavesAlone(u)
    BY <2>k, LatestStays
  <2>2. Carries(t, u)
    BY <1>1, <1>2, <1>7, <1>3, <1>4 DEF Carries, Moves, Pending, Clearing
  <2> QED
    BY <1>1, <1>5, <2>1, <2>2, ShownKept
<1>8. CASE u = w /\ buffer[u] # 0 /\ task[t].doc = buffer[u]
  BY <1>1, <1>2, <1>3, <1>8, RereadShown
<1>9. CASE u = w /\ buffer[u] # 0 /\ task[t].doc # buffer[u]
  <2>1. PICK x \in Task : Good(x, u)
    BY <1>2, <1>9 DEF ShownFor, Undisturbed, UpToDate
  <2>2. Pending(x, u)'
    BY <1>1, <1>2, <1>3, <1>9, <2>1 DEF Good, Moves, Pending
  <2>3. \A s \in Task : Clearing(s, u)' => task'[s].lock # Null /\ Ahead(s, x)'
    BY <1>4, <1>5, <1>9, <2>1 DEF Good, LinesKept
  <2>4. Good(x, u)'
    BY <2>2, <2>3 DEF Good
  <2> QED
    BY <1>3, <1>9, <2>4 DEF ShownFor
<1> QED
  BY <1>6, <1>7, <1>8, <1>9

(* A commit moves what the others read; the document's own diagnostics are   *)
(* derived behind it.                                                        *)
LEMMA CommitShown ==
    ASSUME Typed, NEW t \in Task, NEW u \in Uri, ShownFor(u), Commit(t)
    PROVE  ShownFor(u)'
<1> DEFINE w == task[t].uri
<1>1. /\ task[t].pc = "commit" /\ w \in Uri /\ task[t].kind # "clear" /\ task[t].doc # 0
  BY LockEffects DEF At, Typed, Fits, Locked, Commit
<1>2. /\ task'[t].uri = w /\ task'[t].todo = task[t].todo /\ task'[t].lock = task[t].lock
      /\ \A x \in Task \ {t} : task'[x] = task[x]
      /\ \/ /\ buffer[w] = task[t].doc /\ (Moves(t, "compute") \/ Moves(t, "derive"))
         \/ buffer[w] # task[t].doc /\ task'[t].pc = "unlock" /\ task'[t].kind = "none"
  BY LockEffects DEF At, Becomes, Moves, Current
<1>3. /\ UNCHANGED << buffer, shared, proof_obligations, saved, published, queue >>
      /\ \/ buffer[w] = task[t].doc /\ overlay' = [overlay EXCEPT ![w] = task[t].doc] /\ Moved(w)
         \/ UNCHANGED << overlay, moved >>
  BY DEF Commit, Current, editorVars, inputVars, lockVars
<1>4. LinesKept(u)
  BY <1>1, <1>2, <1>3, LinesLeft
<1>5. CASE u = w /\ buffer[w] = task[t].doc
  BY <1>1, <1>2, <1>3, <1>5, RereadShown
<1>6. CASE u # w \/ buffer[w] # task[t].doc
  <2>1. StaysLatest(u)
    <3>1. CASE u # w /\ overlay' = [overlay EXCEPT ![w] = task[t].doc] /\ Moved(w)
      <4>1. /\ moved'[u] = moved[u] \cup {w}
            /\ \A v \in Uri \ {w} : overlay'[v] = overlay[v]
        BY <1>1, <3>1 DEF Moved, Typed, TypeOK
      <4> QED
        BY <1>1, <1>3, <3>1, <4>1 DEF StaysLatest
    <3>2. CASE UNCHANGED << overlay, moved >>
      BY <1>3, <3>2 DEF StaysLatest
    <3> QED
      BY <1>3, <1>6, <3>1, <3>2
  <2>2. LeavesAlone(u)
    BY <2>1, LatestStays
  <2>3. Clearing(t, u)' <=> Clearing(t, u)
    BY <1>1, <1>2 DEF Clearing, Moves
  <2>4. Carries(t, u)
    BY <1>1, <1>2, <1>3, <1>6, <2>3 DEF Carries, Clearing, Pending, UpToDate, Moves
  <2> QED
    BY <1>2, <1>4, <2>2, <2>4, ShownKept
<1> QED
  BY <1>5, <1>6

(* Which document a republish goes on to.                                    *)
LEMMA RepublishedNext ==
    ASSUME Typed, NEW t \in Task, RepublishNext(t)
    PROVE  \E v \in task[t].todo :
             /\ task'[t].pc = "analyze" /\ task'[t].kind = "republish" /\ task'[t].uri = v
             /\ task'[t].lock = task[t].lock /\ task'[t].todo = task[t].todo \ {v}
             /\ \A x \in Task \ {t} : task'[x] = task[x]
             /\ Touched(v)
<1>1. PICK v \in task[t].todo :
        /\ task' = [task EXCEPT ![t].pc = "analyze", ![t].kind = "republish",
                                ![t].uri = v, ![t].todo = @ \ {v}]
        /\ Touched(v)
  BY DEF RepublishNext
<1> QED
  BY <1>1 DEF Typed, TaskState

(* A republish touches the document it goes on to.                           *)
LEMMA RepublishNextShown ==
    ASSUME Typed, Typed', Queued', NEW t \in Task, NEW u \in Uri, ShownFor(u), RepublishNext(t)
    PROVE  ShownFor(u)'
<1>1. task[t].pc = "next" /\ task[t].kind # "clear" /\ task[t].todo \subseteq Uri
  BY ChoiceEffects DEF At, Typed, TypeOK, Fits
<1>2. PICK v \in task[t].todo :
        /\ task'[t].pc = "analyze" /\ task'[t].kind = "republish" /\ task'[t].uri = v
        /\ task'[t].lock = task[t].lock /\ task'[t].todo = task[t].todo \ {v}
        /\ \A x \in Task \ {t} : task'[x] = task[x]
        /\ Touched(v)
  BY RepublishedNext
<1>3. UNCHANGED << buffer, shared, proof_obligations, overlay, saved, published, queue >>
  BY DEF RepublishNext, editorVars, inputVars, lockVars
<1>4. CASE u = v /\ buffer[u] = 0
  BY <1>1, <1>2, <1>3, <1>4, ClearKept DEF Clearing
<1>5. CASE u = v /\ buffer[u] # 0
  BY <1>2, <1>3, <1>5, GoodArises DEF Pending, InLine, Locked
<1>6. CASE u # v
  <2>m. moved'[u] = moved[u]
    BY <1>2, <1>6 DEF Touched, Typed, TypeOK
  <2>k. StaysLatest(u)
    BY <1>3, <2>m DEF StaysLatest
  <2>1. LeavesAlone(u)
    BY <2>k, LatestStays
  <2>2. Carries(t, u)
    BY <1>1, <1>2, <1>6, EarlyCarries DEF Clearing, Pending
  <2>3. LinesKept(u)
    BY <1>1, <1>2, <1>3, LinesLeft
  <2> QED
    BY <1>2, <2>1, <2>2, <2>3, ShownKept
<1> QED
  BY <1>4, <1>5, <1>6

(* Steps on the way to a lock, and past it.                                  *)
LEMMA WayShown ==
    ASSUME Typed, Queued, NEW t \in Task, NEW u \in Uri, ShownFor(u),
           \/ NoRefresh(t) \/ BeginParse(t) \/ EndParse(t) \/ Wake(t)
           \/ RepublishAll(t) \/ NoSnapshot(t) \/ Return(t)
           \/ DiagnosticLock(t) \/ Enqueue(t) \/ Unlock(t) \/ EvictDiagnosticLock(t)
    PROVE  ShownFor(u)'
<1>0. Fits(task[t])
  BY DEF Typed
<1>a. StaysLatest(u) /\ buffer' = buffer
  BY DEF NoRefresh, BeginParse, EndParse, Wake, RepublishAll, NoSnapshot, Return,
         DiagnosticLock, Enqueue, Unlock, EvictDiagnosticLock, StaysLatest, editorVars,
         inputVars, graphVars
<1>1. LeavesAlone(u) /\ buffer' = buffer
  BY <1>a, LatestStays
<1>2. CASE NoRefresh(t)
  <2>1. /\ At(t, "refresh") /\ task'[t].pc = "idle" /\ task'[t].kind = "none"
        /\ \A x \in Task \ {t} : task'[x] = task[x]
    BY <1>2, ReadEffects DEF Becomes
  <2>2. task[t].kind # "clear" /\ task[t].todo = {} /\ task[t].pc = "refresh"
    BY <1>0, <2>1 DEF At, Fits
  <2>3. Carries(t, u)
    BY <2>1, <2>2, EarlyCarries DEF Clearing, Pending
  <2>4. LinesKept(u)
    BY <1>2, <2>1, <2>2, LinesLeft DEF NoRefresh, lockVars, Clearing
  <2> QED
    BY <1>1, <2>1, <2>3, <2>4, ShownKept
<1>3. CASE BeginParse(t) \/ EndParse(t)
  <2>1. /\ \/ At(t, "analyze") /\ task'[t].pc = "parse" /\ task'[t].doc = buffer[task[t].uri]
           \/ At(t, "parse") /\ task'[t].pc = "lock" /\ task'[t].doc = task[t].doc
        /\ task'[t].kind = task[t].kind /\ task'[t].uri = task[t].uri
        /\ task'[t].lock = task[t].lock /\ task'[t].todo = task[t].todo
        /\ \A x \in Task \ {t} : task'[x] = task[x]
    BY <1>3, ReadEffects DEF Becomes, Moves
  <2>2. task[t].kind # "clear"
    BY <1>0, <2>1 DEF At, Fits
  <2>3. Carries(t, u)
    BY <1>1, <2>1, <2>2, EarlyCarries DEF At, Clearing, Pending
  <2>4. LinesKept(u)
    BY <1>3, <2>1, LinesLeft DEF BeginParse, EndParse, lockVars
  <2> QED
    BY <1>1, <2>1, <2>3, <2>4, ShownKept
<1>4. CASE Wake(t) \/ RepublishAll(t)
  <2>1. /\ task[t].pc \in {"sleep", "republish_all"}
        /\ \A x \in Task \ {t} : task'[x] = task[x]
    BY <1>4, ChoiceEffects DEF At, Becomes, Moves
  <2>2. task[t].kind # "clear" /\ task[t].todo = {}
    BY <1>0, <2>1 DEF Fits
  <2>3. task'[t].kind # "clear" /\ task'[t].pc \in {"analyze", "next", "idle"}
    BY <1>4, <2>2, ChoiceEffects DEF Becomes, Moves
  <2>4. buffer[u] # 0 /\ Pending(t, u) => Pending(t, u)'
    <3>1. CASE Wake(t)
      BY <1>1, <2>2, <3>1, ChoiceEffects DEF At, Becomes, Moves, Pending
    <3>2. CASE RepublishAll(t)
      <4>1. buffer[u] # 0 => u \in {v \in Uri : buffer[v] # 0}
        OBVIOUS
      <4>2. buffer[u] # 0 => task'[t].todo = {v \in Uri : buffer[v] # 0}
        BY <3>2, <4>1, ChoiceEffects DEF Becomes
      <4> QED
        BY <4>1, <4>2 DEF Pending
    <3> QED
      BY <1>4, <3>1, <3>2
  <2>5. Carries(t, u)
    BY <2>1, <2>2, <2>3, <2>4, EarlyCarries DEF Clearing
  <2>6. LinesKept(u)
    BY <1>4, <2>1, <2>2, LinesLeft DEF Wake, RepublishAll, lockVars, Clearing
  <2> QED
    BY <1>1, <2>1, <2>5, <2>6, ShownKept
<1>6. CASE NoSnapshot(t) \/ Return(t)
  <2>1. /\ task[t].pc \in {"analyze", "parse", "return"} /\ task'[t].pc \in {"idle", "next"}
        /\ task'[t].kind = "none" /\ task'[t].todo = task[t].todo
        /\ \A x \in Task \ {t} : task'[x] = task[x]
    BY <1>6, DoneEffects DEF Becomes
  <2>2. task[t].kind # "clear"
    BY <1>0, <2>1 DEF Fits
  <2>3. buffer[u] # 0 /\ Pending(t, u) => Pending(t, u)'
    BY <1>6, <2>1 DEF NoSnapshot, Return, At, Pending
  <2>4. Carries(t, u)
    BY <2>1, <2>2, <2>3, EarlyCarries DEF Clearing
  <2>5. LinesKept(u)
    BY <1>6, <2>1, <2>2, LinesLeft DEF NoSnapshot, Return, lockVars, Clearing
  <2> QED
    BY <1>1, <2>1, <2>4, <2>5, ShownKept
<1>7. CASE DiagnosticLock(t)
  <2>1. /\ task[t].pc = "lock" /\ task'[t].pc = "enqueue"
        /\ task'[t].kind = task[t].kind /\ task'[t].uri = task[t].uri
        /\ task'[t].doc = task[t].doc /\ task'[t].todo = task[t].todo
        /\ \A x \in Task \ {t} : task'[x] = task[x]
    BY <1>7, DiagnosticLockEffect DEF Becomes
  <2>2. task[t].lock = Null
    BY <1>0, <2>1 DEF Fits, Owning, InLine, Locked
  <2>3. Carries(t, u)
    BY <1>1, <2>1, EarlyCarries DEF Clearing, Pending
  <2>4. LinesKept(u)
    BY <1>7, <2>1, <2>2, LinesLeft DEF DiagnosticLock
  <2> QED
    BY <1>1, <2>1, <2>3, <2>4, ShownKept
<1>8. CASE Enqueue(t) \/ Unlock(t) \/ EvictDiagnosticLock(t)
  <2>1. /\ \/ task[t].pc = "enqueue" /\ task'[t].pc = "wait"
           \/ task[t].pc = "unlock" /\ task'[t].pc = "evict"
           \/ task[t].pc = "evict" /\ task'[t].pc = "return"
        /\ task'[t].kind = task[t].kind /\ task'[t].uri = task[t].uri
        /\ task'[t].lock = task[t].lock /\ task'[t].todo = task[t].todo
        /\ task'[t].doc = task[t].doc
        /\ \A x \in Task \ {t} : task'[x] = task[x]
    BY <1>8, LockEffects DEF At, Moves
  <2>2. Carries(t, u)
    BY <1>1, <2>1, EarlyCarries DEF Clearing, Pending
  <2>3. LinesKept(u)
    BY <1>8, <2>1, LinesLeft, LinesJoined, LinesShortened DEF EvictDiagnosticLock
  <2> QED
    BY <1>1, <2>1, <2>2, <2>3, ShownKept
<1> QED
  BY <1>2, <1>3, <1>4, <1>6, <1>7, <1>8

(* A task that has the lock goes on only for the revision that is current.   *)
LEMMA UnderLockShown ==
    ASSUME Typed, NEW t \in Task, NEW u \in Uri, ShownFor(u),
           Acquire(t) \/ Recheck(t)
    PROVE  ShownFor(u)'
<1>0. Fits(task[t])
  BY DEF Typed
<1>a. StaysLatest(u) /\ buffer' = buffer /\ queue' = queue
  BY DEF Acquire, Recheck, StaysLatest, editorVars, inputVars, graphVars, lockVars
<1>1. LeavesAlone(u) /\ buffer' = buffer /\ queue' = queue
  BY <1>a, LatestStays
<1>2. /\ task[t].pc \in {"wait", "recheck"}
      /\ task'[t].uri = task[t].uri /\ task'[t].todo = task[t].todo
      /\ task'[t].lock = task[t].lock
      /\ \A x \in Task \ {t} : task'[x] = task[x]
  BY LockEffects DEF At, Becomes, Moves
<1>3. LinesKept(u)
  BY <1>1, <1>2, LinesLeft
<1>4. CASE Acquire(t)
  <2>1. /\ task[t].pc = "wait" /\ task'[t].kind = task[t].kind /\ task'[t].doc = task[t].doc
        /\ task'[t].pc = IF task[t].kind = "clear" THEN "publish" ELSE "commit"
    BY <1>4, LockEffects DEF At, Moves
  <2>2. task[t].kind = "clear" => task[t].todo = {}
    BY <1>0 DEF Fits
  <2>3. Carries(t, u)
    BY <1>1, <1>2, <2>1, <2>2 DEF Carries, Clearing, Pending, UpToDate
  <2> QED
    BY <1>1, <1>2, <1>3, <2>3, ShownKept
<1>6. CASE Recheck(t)
  <2>1. /\ task[t].pc = "recheck"
        /\ \/ /\ buffer[task[t].uri] = task[t].doc /\ task'[t].pc = "publish"
              /\ task'[t].doc = task[t].doc /\ task'[t].kind = task[t].kind
           \/ /\ buffer[task[t].uri] # task[t].doc /\ task'[t].pc = "unlock"
              /\ task'[t].kind = "none"
    BY <1>6, LockEffects DEF At, Becomes, Moves, Current
  <2>2. task[t].kind # "clear" /\ task[t].doc # 0
    BY <1>0, <2>1 DEF Fits, Locked
  <2>3. task'[t].pc = "publish" => task'[t].seen = task[t].seen
    <3>1. task'[t].pc = "publish" => task' = [task EXCEPT ![t].pc = "publish"]
      BY <1>6, <2>1 DEF Recheck, Goto, Current
    <3> QED
      BY <3>1 DEF Typed, TaskState
  <2>4. PICK seen \in Seen : seen = task[t].seen
    BY DEF Typed, TaskState
  <2>6. Latest(u, seen) => Latest(u, seen)'
    BY <1>1 DEF LeavesAlone
  <2>7. task'[t].pc = "publish" /\ Latest(u, task[t].seen) => Latest(u, task[t].seen)'
    BY <2>3, <2>4, <2>6 DEF Latest
  <2>5. Carries(t, u)
    BY <1>1, <1>2, <2>1, <2>2, <2>3, <2>7 DEF Carries, Clearing, Pending, UpToDate
  <2> QED
    BY <1>1, <1>2, <1>3, <2>5, ShownKept
<1> QED
  BY <1>4, <1>6

(* The inputs are read under the lock, when every close that could come in   *)
(* between has been published.                                               *)
LEMMA DiagnosticsForShown ==
    ASSUME Typed, Queued, EntriesOwned, OnePublisher, NEW t \in Task, NEW u \in Uri, ShownFor(u),
           DiagnosticsFor(t)
    PROVE  ShownFor(u)'
<1>1. /\ At(t, "derive") /\ Moves(t, "recheck") /\ task[t].pc = "derive"
      /\ task'[t].uri = task[t].uri /\ task'[t].kind = task[t].kind /\ task'[t].pc = "recheck"
      /\ task'[t].doc = task[t].doc /\ task'[t].todo = task[t].todo
      /\ task'[t].lock = task[t].lock
      /\ \A x \in Task \ {t} : task'[x] = task[x]
  BY LockEffects DEF At, Moves
<1>2. task[t].uri \in Uri /\ task[t].kind # "clear" /\ task[t].lock \in Lock
  BY <1>1 DEF Typed, TypeOK, Fits, Owning, InLine, Locked
<1>a. /\ StaysLatest(u) /\ buffer' = buffer /\ queue' = queue /\ published' = published
      /\ UNCHANGED << shared, proof_obligations, saved, overlay, moved >>
  BY DEF DiagnosticsFor, StaysLatest, editorVars, inputVars, graphVars, lockVars
<1>3. /\ LeavesAlone(u) /\ buffer' = buffer /\ queue' = queue /\ published' = published
  BY <1>a, LatestStays
<1>4. task'[t].seen = Inputs(task[t].uri)
  BY DEF DiagnosticsFor, Typed, TaskState
<1>b. u = task[t].uri => Latest(u, task[t].seen)'
  BY <1>a, <1>4 DEF Inputs, Latest
<1>5. LinesKept(u)
  BY <1>1, <1>3, LinesLeft
<1>6. \A s \in Task : Clearing(s, u)' <=> Clearing(s, u)
  BY <1>1 DEF Clearing
<1>7. CASE buffer[u] = 0
  BY <1>1, <1>3, <1>6, <1>7, ClearKept
<1>8. CASE u # task[t].uri
  <2>1. Carries(t, u)
    BY <1>1, <1>6, <1>8 DEF Carries, Pending
  <2> QED
    BY <1>1, <1>3, <1>5, <2>1, ShownKept
<1>9. ASSUME u = task[t].uri, buffer[u] # 0, task[t].doc = buffer[u],
             \A s \in Task : ~ Clearing(s, u)
      PROVE  ShownFor(u)'
  <2>1. \A s \in Task : task'[s].uri = u => task'[s].kind # "clear" /\ UpToDate(s, u)'
    <3> SUFFICES ASSUME NEW s \in Task, task'[s].uri = u
                 PROVE  task'[s].kind # "clear" /\ UpToDate(s, u)'
      OBVIOUS
    <3>1. task'[s].kind # "clear"
      BY <1>6, <1>9 DEF Clearing
    <3>2. CASE s = t
      BY <1>1, <1>3, <1>b, <1>9, <3>1, <3>2 DEF UpToDate
    <3>3. CASE s # t
      <4>1. task'[s] = task[s] /\ task[s].uri = task[t].uri
        BY <1>1, <1>9, <3>3
      <4>2. task[s].pc \notin {"compute", "derive", "recheck", "publish"}
        BY <1>1, <3>3, <4>1 DEF OnePublisher, UnderLock
      <4> QED
        BY <3>1, <4>1, <4>2 DEF UpToDate
    <3> QED
      BY <3>2, <3>3
  <2>2. task'[t].uri = u /\ task'[t].pc \in {"recheck", "publish"}
    BY <1>1, <1>9
  <2>3. Undisturbed(u)'
    BY <2>1, <2>2 DEF Undisturbed
  <2> QED
    BY <1>3, <1>9, <2>3 DEF ShownFor
<1>10. CASE u = task[t].uri /\ buffer[u] # 0 /\ Undisturbed(u)
  <2>1. task[t].doc = buffer[u] /\ \A s \in Task : ~ Clearing(s, u)
    BY <1>1, <1>10 DEF Undisturbed, UpToDate, Clearing
  <2> QED
    BY <1>9, <1>10, <2>1
<1>11. ASSUME u = task[t].uri, buffer[u] # 0, NEW x \in Task, Good(x, u)
       PROVE  ShownFor(u)'
  <2>1. CASE Pending(x, u)'
    <3>1. \A s \in Task : Clearing(s, u)' => task'[s].lock # Null /\ Ahead(s, x)'
      BY <1>5, <1>6, <1>11 DEF Good, LinesKept
    <3>2. Good(x, u)'
      BY <2>1, <3>1 DEF Good
    <3> QED
      BY <1>3, <1>11, <3>2 DEF ShownFor
  <2>2. CASE ~ Pending(x, u)'
    <3>1. x = t
      BY <1>1, <1>3, <1>11, <2>2 DEF Good, Pending
    <3>2. task[t].doc = buffer[u]
      BY <1>1, <1>11, <2>2, <3>1 DEF Good, Pending
    <3>3. ASSUME NEW s \in Task, Clearing(s, u)
          PROVE  FALSE
      <4>1. task[s].lock # Null /\ Ahead(s, t)
        BY <1>11, <3>1, <3>3 DEF Good
      <4>2. task[s].pc \in Owning
        BY <3>3, <4>1 DEF Clearing, Typed, Fits, Owning, InLine, Locked
      <4>3. task[s].lock = task[t].lock
        BY <1>1, <1>11, <3>3, <4>2 DEF Clearing, EntriesOwned, Owning, InLine, Locked
      <4>4. queue[task[t].lock] # << >> /\ queue[task[t].lock][1] = t
        BY <1>1 DEF Queued, Locked
      <4>5. queue[task[t].lock] \in Seq(Task)
        BY <1>2 DEF Typed, TypeOK
      <4>6. 1 \in 1 .. Len(queue[task[t].lock])
        BY <4>4, <4>5
      <4> QED
        BY <4>1, <4>3, <4>4, <4>5, <4>6 DEF Ahead
    <3> QED
      BY <1>9, <1>11, <3>2, <3>3
  <2> QED
    BY <2>1, <2>2
<1> QED
  BY <1>7, <1>8, <1>10, <1>11 DEF ShownFor

(* What is published is what the document is to show, unless somebody else   *)
(* is going to show that.                                                    *)
LEMMA PublishShown ==
    ASSUME Typed, Queued, OnePublisher, NEW t \in Task, NEW u \in Uri, ShownFor(u), Publish(t)
    PROVE  ShownFor(u)'
<1>1. /\ task[t].pc = "publish" /\ task'[t].pc = "unlock" /\ task'[t].kind = "none"
      /\ task'[t].uri = task[t].uri /\ task'[t].lock = task[t].lock
      /\ task'[t].todo = task[t].todo /\ \A x \in Task \ {t} : task'[x] = task[x]
  BY LockEffects DEF At, Becomes
<1>2. /\ task[t].uri \in Uri /\ task[t].kind = "clear" => task[t].todo = {}
  BY <1>1 DEF Typed, Fits
<1>3. /\ buffer' = buffer /\ queue' = queue
      /\ UNCHANGED << shared, proof_obligations, saved, overlay, moved >>
  BY DEF Publish, editorVars, inputVars, graphVars, lockVars
<1>4. /\ u # task[t].uri => published'[u] = published[u]
      /\ u = task[t].uri
         => published'[u] = IF task[t].kind = "clear" THEN Clear
                            ELSE [revision |-> task[t].doc, seen |-> task[t].seen]
  BY <1>2 DEF Publish, Typed, TypeOK
<1>5. LinesKept(u)
  BY <1>1, <1>3, LinesLeft
<1>6. \A s \in Task : s # t => (Clearing(s, u)' <=> Clearing(s, u))
  BY <1>1 DEF Clearing
<1>7. \A s \in Task : s # t /\ task[s].uri = task[t].uri
                      => task[s].pc \notin {"compute", "derive", "recheck", "publish"}
  BY <1>1 DEF OnePublisher, UnderLock
<1>8. CASE u # task[t].uri
  <2>k. StaysLatest(u)
    BY <1>3, <1>4, <1>8 DEF StaysLatest
  <2>1. LeavesAlone(u)
    BY <2>k, LatestStays
  <2>2. Carries(t, u)
    BY <1>1, <1>8 DEF Carries, Clearing, Pending
  <2> QED
    BY <1>1, <1>5, <2>1, <2>2, ShownKept
<1>9. CASE u = task[t].uri /\ buffer[u] = 0
  <2>1. \A s \in Task : task'[s].uri = u => task'[s].pc # "publish"
    BY <1>1, <1>7, <1>9
  <2>2. CASE task[t].kind = "clear"
    BY <1>3, <1>4, <1>9, <2>1, <2>2 DEF ShownFor, ClearShown
  <2>3. CASE task[t].kind # "clear"
    <3>1. PICK s \in Task : Clearing(s, u)
      BY <1>1, <1>9 DEF ShownFor, ClearShown
    <3>2. Clearing(s, u)'
      BY <1>6, <2>3, <3>1 DEF Clearing
    <3> QED
      BY <1>3, <1>9, <3>2 DEF ShownFor, ClearShown
  <2> QED
    BY <2>2, <2>3
<1>10. CASE u = task[t].uri /\ buffer[u] # 0 /\ Undisturbed(u)
  <2>1. \A s \in Task : task[s].uri = u => task[s].kind # "clear" /\ UpToDate(s, u)
    BY <1>10 DEF Undisturbed
  <2>2. task[t].kind # "clear" /\ task[t].doc = buffer[u] /\ Latest(u, task[t].seen)
    BY <1>1, <1>10, <2>1 DEF UpToDate
  <2>3. published'[u].revision = buffer'[u] /\ Latest(u, published[u].seen)'
    BY <1>3, <1>4, <1>10, <2>2 DEF Latest
  <2>4. \A s \in Task : task'[s].uri = u => task'[s].kind # "clear" /\ UpToDate(s, u)'
    <3> SUFFICES ASSUME NEW s \in Task, task'[s].uri = u
                 PROVE  task'[s].kind # "clear" /\ UpToDate(s, u)'
      OBVIOUS
    <3>1. CASE s = t
      BY <1>1, <3>1 DEF UpToDate
    <3>2. CASE s # t
      BY <1>1, <1>7, <1>10, <2>1, <3>2 DEF UpToDate
    <3> QED
      BY <3>1, <3>2
  <2>5. Undisturbed(u)'
    BY <2>3, <2>4 DEF Undisturbed
  <2> QED
    BY <1>3, <1>10, <2>5 DEF ShownFor
<1>11. ASSUME u = task[t].uri, buffer[u] # 0, NEW x \in Task, Good(x, u)
       PROVE  ShownFor(u)'
  <2>1. Pending(x, u)'
    BY <1>1, <1>3, <1>11 DEF Good, Pending
  <2>2. \A s \in Task : Clearing(s, u)' => task'[s].lock # Null /\ Ahead(s, x)'
    <3>1. ~ Clearing(t, u)'
      BY <1>1 DEF Clearing
    <3> QED
      BY <1>5, <1>6, <1>11, <3>1 DEF Good, LinesKept
  <2>3. Good(x, u)'
    BY <2>1, <2>2 DEF Good
  <2> QED
    BY <1>3, <1>11, <2>3 DEF ShownFor
<1> QED
  BY <1>8, <1>9, <1>10, <1>11 DEF ShownFor

(* When no task takes a step, what is shown can only have moved.             *)
LEMMA ShownStays ==
    ASSUME Typed, NEW u \in Uri, ShownFor(u), LeavesAlone(u), UNCHANGED << task, queue >>
    PROVE  ShownFor(u)'
<1>1. buffer'[u] = buffer[u] /\ published'[u] = published[u]
  BY DEF LeavesAlone
<1>2. \A s \in Task : Clearing(s, u)' <=> Clearing(s, u)
  BY DEF Clearing
<1>3. CASE buffer[u] = 0
  BY <1>1, <1>2, <1>3 DEF ShownFor, ClearShown
<1>4. CASE buffer[u] # 0 /\ Undisturbed(u)
  <2>1. \A s \in Task : task'[s].uri = u => task'[s].kind # "clear" /\ UpToDate(s, u)'
    BY <1>4, UpToDateStays DEF Undisturbed
  <2>2. \/ published'[u].revision = buffer'[u] /\ Latest(u, published[u].seen)'
        \/ \E t \in Task : task'[t].uri = u /\ task'[t].pc \in {"recheck", "publish"}
    <3>1. CASE published[u].revision = buffer[u] /\ Latest(u, published[u].seen)
      <4>1. PICK seen \in Seen : seen = published[u].seen
        BY DEF Typed, TypeOK
      <4>2. Latest(u, seen)'
        BY <3>1, <4>1 DEF LeavesAlone
      <4>3. published'[u].seen = seen
        BY <1>1, <4>1
      <4> QED
        BY <1>1, <3>1, <4>2, <4>3 DEF Latest
    <3> QED
      BY <1>4, <3>1 DEF Undisturbed
  <2>3. Undisturbed(u)'
    BY <2>1, <2>2 DEF Undisturbed
  <2> QED
    BY <1>1, <1>4, <2>3 DEF ShownFor
<1>5. ASSUME buffer[u] # 0, NEW x \in Task, Good(x, u)
      PROVE  ShownFor(u)'
  <2>1. Good(x, u)'
    BY <1>1, <1>2, <1>5 DEF Good, Pending, Ahead
  <2> QED
    BY <1>1, <1>5, <2>1 DEF ShownFor
<1> QED
  BY <1>3, <1>4, <1>5 DEF ShownFor

(* Every step keeps what is shown, or about to be.                           *)
LEMMA NextShown ==
    /\ Typed /\ Queued /\ EntriesOwned /\ Typed' /\ Queued' /\ Shown /\ [Next]_vars
    => Shown'
<1> SUFFICES ASSUME Typed, Queued, EntriesOwned, Typed', Queued', Shown, [Next]_vars,
                    NEW u \in Uri
             PROVE  ShownFor(u)'
  BY DEF Shown
<1>1. ShownFor(u) /\ OnePublisher
  BY LocksExclude DEF Shown
<1>2. CASE UNCHANGED vars \/ ScanFolder
  <2>1. UNCHANGED << buffer, overlay, shared, proof_obligations, published, queue, task >>
    BY <1>2 DEF vars, ScanFolder, editorVars, inputVars, graphVars, lockVars
  <2>2. LeavesAlone(u)
    <3>1. CASE UNCHANGED vars
      BY <2>1, <3>1, LatestStays DEF vars, graphVars, StaysLatest
    <3>2. CASE ScanFolder
      <4>1. Disk \in moved'[u] /\ moved[u] \subseteq moved'[u]
        BY <3>2 DEF ScanFolder
      <4> SUFFICES ASSUME NEW seen \in Seen, Latest(u, seen)
                   PROVE  Latest(u, seen)'
        BY <2>1 DEF LeavesAlone
      <4> QED
        BY <2>1, <4>1 DEF Latest
    <3> QED
      BY <1>2, <3>1, <3>2
  <2> QED
    BY <1>1, <2>1, <2>2, ShownStays
<1>3. ASSUME NEW t \in Task, NEW w \in Uri, Notification(t, w) \/ RefreshObligations(t, w)
      PROVE  ShownFor(u)'
  BY <1>1, <1>3, HandlersShown
<1>4. ASSUME NEW t \in Task, ChangeShared(t) \/ Proceed(t)
      PROVE  ShownFor(u)'
  BY <1>1, <1>4, ChangeSharedShown, StoreOpenShown, DropShown, ApplyRefreshShown,
     ApplyObligationsShown, RepublishNextShown, CommitShown, WayShown, UnderLockShown, DiagnosticsForShown, PublishShown
     DEF Proceed
<1> QED
  BY <1>2, <1>3, <1>4 DEF Next

(* Nothing is open or shown at first.                                        *)
LEMMA InitShown == Init => Shown
BY IdleTask DEF Init, Shown, ShownFor, ClearShown

(* Once every task is done, a closed document shows nothing, and an open one *)
(* its last edit under the inputs as they are, but for what has moved in the *)
(* workspace since it was last opened, edited, saved or republished.         *)
THEOREM QuietIsLatest == Spec => []QuietShowsLatest
<1>1. Typed /\ Shown => QuietShowsLatest
  <2> SUFFICES ASSUME Typed, Shown, Quiet, NEW u \in Uri
               PROVE  IF buffer[u] = 0 THEN published[u] = Clear
                      ELSE published[u].revision = buffer[u] /\ Latest(u, published[u].seen)
    BY DEF QuietShowsLatest
  <2>1. \A t \in Task : task[t].pc = "idle" /\ task[t].todo = {} /\ task[t].kind # "clear"
    BY DEF Quiet, At, Typed, Fits
  <2>2. CASE buffer[u] = 0
    BY <2>1, <2>2 DEF Shown, ShownFor, ClearShown, Clearing
  <2>3. CASE buffer[u] # 0
    <3>1. \A t \in Task : ~ Good(t, u)
      BY <2>1 DEF Good, Pending
    <3> QED
      BY <2>1, <2>3, <3>1 DEF Shown, ShownFor, Undisturbed
  <2> QED
    BY <2>2, <2>3
<1> QED
  BY <1>1, InitTyped, InitLocks, InitShown, NextTyped, NextLocks, NextShown, PTL DEF Spec
=============================================================================
