------------------------- MODULE RodinWatcherProofs -------------------------
(***************************************************************************)
(* Proofs about RodinWatcher, for any number of directories, starts and    *)
(* leases.  A start that was not superseded is the one its slot waits for, *)
(* and a lease belongs to one start; so the end of a superseded connection *)
(* cannot be taken for the end of the one that replaced it.                *)
(***************************************************************************)
EXTENDS RodinWatcher, TLAPS

(* The watcher's slot says Starting while some start has its directory.      *)
SyncOwned ==
    rodin_sync.state = "starting" => \E s \in Start : sync_start[s].dir = rodin_sync.dir

Owns(s) ==
    /\ live_start[s].dir = rodin_live.dir /\ live_start[s].dir # Null
    /\ live_start[s].lease = rodin_live.lease /\ ~ live_start[s].superseded
LiveOwned == rodin_live.state = "starting" => \E s \in Start : Owns(s)

LeasesPast == \A s \in Start : live_start[s].dir # Null => live_start[s].lease < rodin_live_lease

IInv == TypeOK /\ SyncOwned /\ LiveOwned /\ LeasesPast

-----------------------------------------------------------------------------
(* What a step does to a slot.                                              *)

SyncVars == << rodin_sync, sync_start >>
LiveVars == << rodin_live, rodin_live_lease, live_start >>

SyncStarted(d, s) ==
    /\ sync_start[s].dir = Null
    /\ rodin_sync' = [state |-> "starting", dir |-> d]
    /\ sync_start' = [Supersede(sync_start) EXCEPT ![s] = [dir |-> d, superseded |-> FALSE]]

LiveStarted(d, s, launching) ==
    /\ live_start[s].dir = Null
    /\ rodin_live_lease' = rodin_live_lease + 1
    /\ rodin_live' = [state |-> "starting", dir |-> d, lease |-> rodin_live_lease, running |-> FALSE]
    /\ live_start' = [Supersede(live_start) EXCEPT ![s] =
                        [dir |-> d, lease |-> rodin_live_lease, launching |-> launching,
                         superseded |-> FALSE]]

LEMMA SyncSteps ==
    ASSUME TypeOK, [Next]_vars
    PROVE  \/ UNCHANGED SyncVars \/ SyncOff
           \/ \E d \in Dir, s \in Start : SyncStarted(d, s)
           \/ \E s \in Start : SyncReturns(s)
<1>1. ASSUME NEW d \in Dir, EnsureRodinSync(d)
      PROVE  UNCHANGED SyncVars \/ \E s \in Start : SyncStarted(d, s)
  BY <1>1 DEF EnsureRodinSync, SyncStarted, SyncVars
<1>2. CASE DidChangeConfiguration
  BY <1>1, <1>2 DEF DidChangeConfiguration, EnsureForExistingWorkspace, SyncVars
<1>3. CASE ExecuteRodinOpen
  <2>1. config.dir \in Dir
    BY DEF TypeOK
  <2> QED
    BY <1>1, <1>3, <2>1 DEF ExecuteRodinOpen, SyncVars
<1> QED
  BY <1>2, <1>3 DEF Next, vars, SyncVars, Shutdown, RodinQuits, LiveReturns, ConnectLive, GiveUpLive, RetryLive

LEMMA LiveSteps ==
    ASSUME TypeOK, [Next]_vars
    PROVE  \/ UNCHANGED LiveVars \/ LiveTurnedOff
           \/ \E d \in Dir, s \in Start, launching \in BOOLEAN : LiveStarted(d, s, launching)
           \/ \E s \in Start : LiveReturns(s)
           \/ RodinQuits
<1>1. ASSUME NEW c, NEW d \in Dir, NEW launching \in BOOLEAN, EnsureRodinLive(c, d, launching)
      PROVE  UNCHANGED LiveVars \/ LiveTurnedOff \/ \E s \in Start : LiveStarted(d, s, launching)
  BY <1>1 DEF EnsureRodinLive, LiveStarted, LiveVars, NextLease
<1>2. CASE DidChangeConfiguration
  BY <1>1, <1>2 DEF DidChangeConfiguration, EnsureForExistingWorkspace, LiveVars
<1>3. CASE ExecuteRodinOpen
  <2>1. config.dir \in Dir
    BY DEF TypeOK
  <2>2. \/ UNCHANGED LiveVars
        \/ EnsureRodinLive(config, config.dir, TRUE)
    BY <1>3 DEF ExecuteRodinOpen, LiveVars
  <2> QED
    BY <1>1, <2>1, <2>2 DEF EnsureRodinLive, LiveStarted, LiveVars, NextLease
<1> QED
  BY <1>2, <1>3 DEF Next, vars, LiveVars, Shutdown, SyncReturns, InstallSync, FailSync, RetryLive

-----------------------------------------------------------------------------
(* Types.                                                                   *)

SyncOK ==
    /\ rodin_sync \in [state : {"starting", "ready"}, dir : Dir] \cup {Off}
    /\ sync_start \in [Start -> [dir : Dir \cup {Null}, superseded : BOOLEAN]]
LiveOK ==
    /\ rodin_live \in [state : {"starting", "ready"}, dir : Dir, lease : Nat, running : BOOLEAN]
                       \cup {LiveOff}
    /\ rodin_live_lease \in Nat /\ rodin_live.lease <= rodin_live_lease
    /\ live_start \in [Start -> [dir : Dir \cup {Null}, lease : Nat, launching : BOOLEAN,
                                 superseded : BOOLEAN]]
OneLeaseEach ==
    \A s, t \in Start : live_start[s].dir # Null /\ live_start[t].dir # Null
                          /\ live_start[s].lease = live_start[t].lease => s = t

LEMMA SyncInv == ASSUME TypeOK, SyncOwned, [Next]_vars PROVE SyncOK' /\ SyncOwned'
<1> USE DEF SyncOK, SyncOwned
<1> SyncOK
  BY DEF TypeOK
<1>1. CASE UNCHANGED SyncVars
  BY <1>1 DEF SyncVars
<1>2. CASE SyncOff
  BY <1>2 DEF SyncOff, Off, Supersede
<1>3. ASSUME NEW d \in Dir, NEW s \in Start, SyncStarted(d, s) PROVE SyncOK' /\ SyncOwned'
  <2>1. Supersede(sync_start) \in [Start -> [dir : Dir \cup {Null}, superseded : BOOLEAN]]
    BY DEF Supersede
  <2>2. sync_start'[s] = [dir |-> d, superseded |-> FALSE]
    BY <1>3, <2>1 DEF SyncStarted
  <2> QED
    BY <1>3, <2>1, <2>2 DEF SyncStarted
<1>4. ASSUME NEW s \in Start, SyncReturns(s) PROVE SyncOK' /\ SyncOwned'
  <2>1. /\ sync_start' = [sync_start EXCEPT ![s] = NoSyncStart]
        /\ IF rodin_sync = [state |-> "starting", dir |-> sync_start[s].dir]
           THEN rodin_sync' = Off \/ rodin_sync' = [rodin_sync EXCEPT !.state = "ready"]
           ELSE rodin_sync' = rodin_sync
    BY <1>4 DEF SyncReturns, InstallSync, FailSync
  <2>2. SyncOK'
    BY <2>1 DEF NoSyncStart, Off
  <2>3. CASE rodin_sync = [state |-> "starting", dir |-> sync_start[s].dir]
    BY <2>1, <2>2, <2>3 DEF Off
  <2>4. CASE rodin_sync # [state |-> "starting", dir |-> sync_start[s].dir]
    <3> SUFFICES ASSUME rodin_sync.state = "starting"
                 PROVE  \E t \in Start : sync_start'[t].dir = rodin_sync.dir
      BY <2>1, <2>2, <2>4
    <3>1. PICK t \in Start : sync_start[t].dir = rodin_sync.dir
      OBVIOUS
    <3>2. rodin_sync \in [state : {"starting", "ready"}, dir : Dir]
      BY DEF Off
    <3>3. t # s
      BY <2>4, <3>1, <3>2
    <3> QED
      BY <2>1, <3>1, <3>3
  <2> QED
    BY <2>2, <2>3, <2>4
<1> QED
  BY <1>1, <1>2, <1>3, <1>4, SyncSteps

LEMMA LiveInv ==
    ASSUME TypeOK, LiveOwned, LeasesPast, [Next]_vars
    PROVE  LiveOK' /\ OneLeaseEach' /\ LiveOwned' /\ LeasesPast'
<1> USE DEF LiveOK, OneLeaseEach, LiveOwned, LeasesPast, Owns
<1> LiveOK /\ OneLeaseEach
  BY DEF TypeOK
<1> DEFINE Records == [dir : Dir \cup {Null}, lease : Nat, launching : BOOLEAN, superseded : BOOLEAN]
<1>1. CASE UNCHANGED LiveVars
  BY <1>1 DEF LiveVars
<1>2. /\ Supersede(live_start) \in [Start -> Records]
      /\ \A t \in Start : /\ Supersede(live_start)[t].dir = live_start[t].dir
                          /\ Supersede(live_start)[t].lease = live_start[t].lease
  BY DEF Supersede
<1>3. CASE LiveTurnedOff
  BY <1>2, <1>3 DEF LiveTurnedOff, LiveOff
<1>4. ASSUME NEW d \in Dir, NEW s \in Start, NEW launching \in BOOLEAN, LiveStarted(d, s, launching)
      PROVE  LiveOK' /\ OneLeaseEach' /\ LiveOwned' /\ LeasesPast'
  <2>1. /\ live_start' \in [Start -> Records]
        /\ live_start'[s] = [dir |-> d, lease |-> rodin_live_lease, launching |-> launching,
                             superseded |-> FALSE]
        /\ \A t \in Start \ {s} : /\ live_start'[t].dir = live_start[t].dir
                                  /\ live_start'[t].lease = live_start[t].lease
    BY <1>2, <1>4 DEF LiveStarted
  <2>2. /\ rodin_live' = [state |-> "starting", dir |-> d, lease |-> rodin_live_lease, running |-> FALSE]
        /\ rodin_live_lease' = rodin_live_lease + 1
    BY <1>4 DEF LiveStarted
  <2>3. LiveOK'
    BY <2>1, <2>2
  <2>4. LeasesPast'
    BY <2>1, <2>2
  <2>5. OneLeaseEach'
    BY <2>1
  <2>6. LiveOwned'
    BY <2>1, <2>2, NullAssumption
  <2> QED
    BY <2>3, <2>4, <2>5, <2>6
<1>5. ASSUME NEW s \in Start, LiveReturns(s) PROVE LiveOK' /\ OneLeaseEach' /\ LiveOwned' /\ LeasesPast'
  <2>1. /\ live_start' = [live_start EXCEPT ![s] = NoLiveStart] /\ rodin_live_lease' = rodin_live_lease
        /\ IF Leased(s) THEN \/ rodin_live' = LiveOff
                             \/ /\ live_start[s].dir # Null
                                /\ rodin_live' = [state |-> "ready", dir |-> live_start[s].dir,
                                                  lease |-> live_start[s].lease, running |-> TRUE]
           ELSE rodin_live' = rodin_live
    BY <1>5 DEF LiveReturns, ConnectLive, GiveUpLive
  <2>2. live_start' \in [Start -> Records] /\ live_start'[s].dir = Null
    BY <2>1 DEF NoLiveStart
  <2>3. \A t \in Start \ {s} : live_start'[t] = live_start[t]
    BY <2>1
  <2>4. OneLeaseEach' /\ LeasesPast'
    BY <2>1, <2>2, <2>3
  <2>5. CASE Leased(s)
    <3>1. live_start[s].lease \in Nat /\ live_start[s].dir \in Dir \cup {Null}
      OBVIOUS
    <3>2. rodin_live.lease = live_start[s].lease
      BY <2>5 DEF Leased
    <3>3. \/ rodin_live' = LiveOff
          \/ /\ live_start[s].dir # Null
             /\ rodin_live' = [state |-> "ready", dir |-> live_start[s].dir,
                               lease |-> live_start[s].lease, running |-> TRUE]
      BY <2>1, <2>5
    <3>4. rodin_live'.state # "starting"
      BY <3>3 DEF LiveOff
    <3>5. /\ rodin_live' \in [state : {"starting", "ready"}, dir : Dir, lease : Nat, running : BOOLEAN]
                              \cup {LiveOff}
          /\ rodin_live'.lease <= rodin_live_lease
      <4>1. CASE rodin_live' = LiveOff
        BY <4>1 DEF LiveOff
      <4>2. CASE /\ live_start[s].dir # Null
                 /\ rodin_live' = [state |-> "ready", dir |-> live_start[s].dir,
                                   lease |-> live_start[s].lease, running |-> TRUE]
        BY <3>1, <3>2, <4>2
      <4> QED
        BY <3>3, <4>1, <4>2
    <3>6. LiveOK'
      BY <2>1, <2>2, <3>5
    <3>7. LiveOwned'
      BY <3>4
    <3> QED
      BY <2>4, <3>6, <3>7
  <2>6. CASE ~ Leased(s)
    <3>1. rodin_live' = rodin_live
      BY <2>1, <2>6
    <3>2. \A t \in Start : rodin_live.state = "starting" /\ Owns(t) => t # s
      BY <2>6 DEF Leased
    <3> QED
      BY <2>1, <2>2, <2>3, <2>4, <3>1, <3>2
  <2> QED
    BY <2>5, <2>6
<1>6. CASE RodinQuits
  <2>1. /\ rodin_live.state = "ready" /\ rodin_live' = [rodin_live EXCEPT !.running = FALSE]
        /\ rodin_live_lease' = rodin_live_lease /\ live_start' = live_start
    BY <1>6 DEF RodinQuits
  <2>2. rodin_live \in [state : {"starting", "ready"}, dir : Dir, lease : Nat, running : BOOLEAN]
    BY <2>1 DEF LiveOff
  <2>3. /\ rodin_live' \in [state : {"starting", "ready"}, dir : Dir, lease : Nat, running : BOOLEAN]
        /\ rodin_live'.state = "ready" /\ rodin_live'.lease = rodin_live.lease
    BY <2>1, <2>2
  <2>4. LiveOK'
    BY <2>1, <2>3
  <2>5. OneLeaseEach' /\ LeasesPast'
    BY <2>1
  <2>6. LiveOwned'
    BY <2>3
  <2> QED
    BY <2>4, <2>5, <2>6
<1> QED
  BY <1>1, <1>3, <1>4, <1>5, <1>6, LiveSteps

LEMMA ConfigOK == ASSUME TypeOK, [Next]_vars PROVE config' \in [dir : Dir, sync : BOOLEAN, live : BOOLEAN]
  BY DEF TypeOK, Next, vars, DidChangeConfiguration, ExecuteRodinOpen, Shutdown, RodinQuits, SyncReturns,
         InstallSync, FailSync, LiveReturns, ConnectLive, GiveUpLive, RetryLive

LEMMA InitInv == Init => IInv
<1> SUFFICES ASSUME Init PROVE IInv
  OBVIOUS
<1>1. config \in [dir : Dir, sync : BOOLEAN, live : BOOLEAN]
  BY DEF Init
<1>2. SyncOK /\ SyncOwned
  BY DEF Init, SyncOK, SyncOwned, Off, NoSyncStart
<1>3. /\ live_start \in [Start -> [dir : Dir \cup {Null}, lease : Nat, launching : BOOLEAN,
                                   superseded : BOOLEAN]]
      /\ \A s \in Start : live_start[s].dir = Null
  BY DEF Init, NoLiveStart
<1>4. rodin_live = LiveOff /\ rodin_live_lease = 0
  BY DEF Init
<1>5. LiveOK /\ LiveOwned
  BY <1>3, <1>4 DEF LiveOK, LiveOwned, LiveOff
<1>6. OneLeaseEach /\ LeasesPast
  BY <1>3 DEF OneLeaseEach, LeasesPast
<1> QED
  BY <1>1, <1>2, <1>5, <1>6 DEF IInv, TypeOK, SyncOK, LiveOK, OneLeaseEach

LEMMA Invariant == Spec => []IInv
<1>1. IInv /\ [Next]_vars => IInv'
  BY SyncInv, LiveInv, ConfigOK DEF IInv, TypeOK, SyncOK, LiveOK, OneLeaseEach
<1> QED
  BY <1>1, InitInv, PTL DEF Spec

-----------------------------------------------------------------------------
(* The slots and the starts are well typed, and no lease is given twice.     *)
THEOREM TypeCorrect == Spec => []TypeOK
<1>1. IInv => TypeOK
  BY DEF IInv
<1> QED
  BY <1>1, Invariant, PTL

(* A slot that says Starting has a start to end it, whatever configuration   *)
(* changes, clicks and shutdowns fell in between.                            *)
THEOREM SlotsAreOwned == Spec => []StartsAreOwned
<1>1. IInv => StartsAreOwned
  BY DEF IInv, SyncOwned, LiveOwned, Owns, StartsAreOwned
<1> QED
  BY <1>1, Invariant, PTL

(* The end of a connection attempt that was superseded leaves the slot to    *)
(* the one that replaced it, even for the same directory.                    *)
THEOREM SupersededIsDiscarded == Spec => SupersededLiveIsDiscarded
<1>1. ASSUME IInv, [Next]_vars, NEW s \in Start, live_start[s].superseded, live_start'[s] = NoLiveStart
      PROVE  rodin_live' = rodin_live
  <2>1. TypeOK /\ LiveOwned
    BY <1>1 DEF IInv
  <2>2. live_start[s].superseded # FALSE /\ live_start'[s].dir = Null /\ live_start'[s].superseded = FALSE
    BY <1>1 DEF NoLiveStart
  <2>3. /\ live_start[s].superseded \in BOOLEAN
        /\ Supersede(live_start)[s].superseded \in {live_start[s].superseded, TRUE}
        /\ Supersede(live_start) \in [Start -> [dir : Dir \cup {Null}, lease : Nat,
                                                launching : BOOLEAN, superseded : BOOLEAN]]
    BY <2>1 DEF TypeOK, Supersede
  <2>4. CASE UNCHANGED LiveVars
    BY <2>4 DEF LiveVars
  <2>5. CASE LiveTurnedOff
    BY <2>2, <2>3, <2>5 DEF LiveTurnedOff
  <2>6. ASSUME NEW d \in Dir, NEW t \in Start, NEW launching \in BOOLEAN, LiveStarted(d, t, launching)
        PROVE  FALSE
    <3>1. t = s => live_start'[s].dir = d
      BY <2>3, <2>6 DEF LiveStarted
    <3>2. t # s => live_start'[s] = Supersede(live_start)[s]
      BY <2>3, <2>6 DEF LiveStarted
    <3> QED
      BY <2>2, <2>3, <3>1, <3>2, NullAssumption
  <2>7. CASE RodinQuits
    BY <2>2, <2>7 DEF RodinQuits
  <2>8. ASSUME NEW t \in Start, LiveReturns(t)
        PROVE  rodin_live' = rodin_live
    <3>1. /\ live_start' = [live_start EXCEPT ![t] = NoLiveStart] /\ live_start[t].dir # Null
          /\ ~ Leased(t) => rodin_live' = rodin_live
      BY <2>8 DEF LiveReturns, ConnectLive, GiveUpLive
    <3>2. t = s
      BY <2>1, <2>2, <3>1 DEF TypeOK
    <3>3. ~ Leased(s)
      BY <2>1, <2>2, <3>1, <3>2 DEF TypeOK, LiveOwned, Owns, Leased
    <3> QED
      BY <3>1, <3>2, <3>3
  <2> QED
    BY <1>1, <2>1, <2>4, <2>5, <2>6, <2>7, <2>8, LiveSteps
<1>2. IInv /\ [Next]_vars =>
        [\A s \in Start : live_start[s].superseded /\ live_start'[s] = NoLiveStart
                            => rodin_live' = rodin_live]_vars
  BY <1>1
<1> QED
  BY <1>2, Invariant, PTL DEF Spec, SupersededLiveIsDiscarded
=============================================================================
