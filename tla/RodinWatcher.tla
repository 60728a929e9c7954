---------------------------- MODULE RodinWatcher ----------------------------
(***************************************************************************)
(* The two slots through which the language server (eventb-lsp, server.rs) *)
(* follows a shared Rodin workspace: the file watcher (rodin_sync) and the *)
(* held bridge connection (rodin_live).  Either is created off the request *)
(* path, by a start that takes as long as it takes; meanwhile the slot     *)
(* says Starting, and the configuration, a lens click or a shutdown may    *)
(* ask for something else.  A watcher's Starting is told apart by its      *)
(* directory, a connection's by the lease of its start.                    *)
(*                                                                         *)
(* Handlers run one at a time and await nothing between reading the        *)
(* configuration and leaving the slots, so each is one step.               *)
(***************************************************************************)
EXTENDS Naturals

CONSTANTS
    Dir,            \* Rodin workspace directories
    Start,          \* starts in flight at once, of either kind
    MaxLease,       \* bound on the leases handed out
    Null

ASSUME MaxLeaseAssumption == MaxLease \in Nat
ASSUME NullAssumption == Null \notin Dir

VARIABLES
    config,         \* RodinConfig: the directory and the two switches
    exists,         \* directories there are
    rodin_sync,     \* RodinSyncState
    rodin_live,     \* LiveSyncState; a Ready one may have lost its Rodin
    rodin_live_lease,
    sync_start,     \* detached threads creating a watcher
    live_start      \* tasks connecting to a bridge

vars == << config, exists, rodin_sync, rodin_live, rodin_live_lease, sync_start, live_start >>

Off == [state |-> "off", dir |-> Null]
LiveOff == [state |-> "off", dir |-> Null, lease |-> 0, running |-> FALSE]

(* superseded records that the slot has been given to something else since.  *)
NoSyncStart == [dir |-> Null, superseded |-> FALSE]
NoLiveStart == [dir |-> Null, lease |-> 0, launching |-> FALSE, superseded |-> FALSE]

Init ==
    /\ config \in [dir : Dir, sync : {TRUE}, live : BOOLEAN]
    /\ exists \in SUBSET Dir
    /\ rodin_sync = Off
    /\ rodin_live = LiveOff
    /\ rodin_live_lease = 0
    /\ sync_start = [s \in Start |-> NoSyncStart]
    /\ live_start = [s \in Start |-> NoLiveStart]

Supersede(starts) ==
    [s \in Start |-> IF starts[s].dir = Null THEN starts[s]
                     ELSE [starts[s] EXCEPT !.superseded = TRUE]]

-----------------------------------------------------------------------------
(* replace_rodin_sync with Starting: nothing happens when the watcher is, or *)
(* is being, created for this directory.                                     *)
EnsureRodinSync(d) ==
    IF rodin_sync.state # "off" /\ rodin_sync.dir = d
    THEN UNCHANGED << rodin_sync, sync_start >>
    ELSE \E s \in Start :
        /\ sync_start[s].dir = Null
        /\ rodin_sync' = [state |-> "starting", dir |-> d]
        /\ sync_start' = [Supersede(sync_start) EXCEPT ![s] = [dir |-> d, superseded |-> FALSE]]

SyncOff ==
    /\ rodin_sync' = Off
    /\ sync_start' = IF rodin_sync.state = "off" THEN sync_start ELSE Supersede(sync_start)

LiveTurnedOff ==
    /\ rodin_live' = LiveOff
    /\ live_start' = Supersede(live_start)
    /\ UNCHANGED rodin_live_lease

(* The lease counter only ever moves under the slot's lock.                  *)
SameLease == rodin_live_lease      \* mutant: it does not move
NextLease == rodin_live_lease + 1

(* ensure_rodin_live: a connection whose Rodin quit is not a current one.    *)
LiveCurrent(d) ==
    /\ rodin_live.dir = d
    /\ rodin_live.state = "starting" \/ (rodin_live.state = "ready" /\ rodin_live.running)

EnsureRodinLive(c, d, launching) ==
    IF ~ c.live THEN LiveTurnedOff
    ELSE IF LiveCurrent(d) THEN UNCHANGED << rodin_live, rodin_live_lease, live_start >>
    ELSE \E s \in Start :
        /\ live_start[s].dir = Null
        /\ rodin_live_lease < MaxLease
        /\ rodin_live_lease' = NextLease
        /\ rodin_live' = [state |-> "starting", dir |-> d, lease |-> rodin_live_lease,
                          running |-> FALSE]
        /\ live_start' = [Supersede(live_start) EXCEPT ![s] =
                            [dir |-> d, lease |-> rodin_live_lease, launching |-> launching,
                             superseded |-> FALSE]]

(* Off tears both down; otherwise only a directory there is gets watched.    *)
EnsureForExistingWorkspace(c) ==
    IF ~ c.sync THEN SyncOff /\ LiveTurnedOff
    ELSE IF c.dir \in exists THEN EnsureRodinSync(c.dir) /\ EnsureRodinLive(c, c.dir, FALSE)
    ELSE UNCHANGED << rodin_sync, sync_start, rodin_live, rodin_live_lease, live_start >>

-----------------------------------------------------------------------------
DidChangeConfiguration ==
    /\ \E c \in [dir : Dir, sync : BOOLEAN, live : BOOLEAN] :
        /\ config' = c
        /\ EnsureForExistingWorkspace(c)
    /\ UNCHANGED exists

(* The lens creates the directory, and a Rodin is about to be launched.      *)
ExecuteRodinOpen ==
    /\ exists' = exists \cup {config.dir}
    /\ IF config.sync THEN EnsureRodinSync(config.dir) /\ EnsureRodinLive(config, config.dir, TRUE)
       ELSE UNCHANGED << rodin_sync, sync_start, rodin_live, rodin_live_lease, live_start >>
    /\ UNCHANGED config

Shutdown ==
    /\ SyncOff /\ LiveTurnedOff
    /\ UNCHANGED << config, exists >>

(* A creation returns.                                                       *)
InstallSync(s) ==
    /\ sync_start[s].dir # Null
    /\ rodin_sync' = IF rodin_sync = [state |-> "starting", dir |-> sync_start[s].dir]
                     THEN [rodin_sync EXCEPT !.state = "ready"] ELSE rodin_sync
    /\ sync_start' = [sync_start EXCEPT ![s] = NoSyncStart]
    /\ UNCHANGED << config, exists, rodin_live, rodin_live_lease, live_start >>

FailSync(s) ==
    /\ sync_start[s].dir # Null
    /\ rodin_sync' = IF rodin_sync = [state |-> "starting", dir |-> sync_start[s].dir]
                     THEN Off ELSE rodin_sync
    /\ sync_start' = [sync_start EXCEPT ![s] = NoSyncStart]
    /\ UNCHANGED << config, exists, rodin_live, rodin_live_lease, live_start >>

(* Mutants: the start is told by its directory, as the watcher's is; its     *)
(* lease is the counter after the bump.                                      *)
LeasedByDir(s) == rodin_live.state = "starting" /\ rodin_live.dir = live_start[s].dir
LeasedAfterBump(s) ==
    rodin_live.state = "starting" /\ rodin_live.lease = live_start[s].lease + 1

Leased(s) == rodin_live.state = "starting" /\ rodin_live.lease = live_start[s].lease

ConnectLive(s) ==
    /\ live_start[s].dir # Null
    /\ rodin_live' = IF Leased(s)
                     THEN [state |-> "ready", dir |-> live_start[s].dir,
                           lease |-> live_start[s].lease, running |-> TRUE]
                     ELSE rodin_live
    /\ live_start' = [live_start EXCEPT ![s] = NoLiveStart]
    /\ UNCHANGED << config, exists, rodin_sync, rodin_live_lease, sync_start >>

(* Mutant: a start that gives up leaves the slot as it is.                   *)
GiveUpSilently(s) ==
    /\ live_start[s].dir # Null
    /\ live_start' = [live_start EXCEPT ![s] = NoLiveStart]
    /\ UNCHANGED << config, exists, rodin_sync, rodin_live, rodin_live_lease, sync_start >>

(* A start that fails after its deadline, or finds itself superseded, ends.  *)
GiveUpLive(s) ==
    /\ live_start[s].dir # Null
    /\ rodin_live' = IF Leased(s) THEN LiveOff ELSE rodin_live
    /\ live_start' = [live_start EXCEPT ![s] = NoLiveStart]
    /\ UNCHANGED << config, exists, rodin_sync, rodin_live_lease, sync_start >>

(* One that fails while its Rodin may still be booting tries again later.    *)
RetryLive(s) ==
    /\ live_start[s].dir # Null /\ live_start[s].launching /\ Leased(s)
    /\ UNCHANGED vars

RodinQuits ==
    /\ rodin_live.state = "ready" /\ rodin_live.running
    /\ rodin_live' = [rodin_live EXCEPT !.running = FALSE]
    /\ UNCHANGED << config, exists, rodin_sync, rodin_live_lease, sync_start, live_start >>

SyncReturns(s) == InstallSync(s) \/ FailSync(s)
LiveReturns(s) == ConnectLive(s) \/ GiveUpLive(s)

Next ==
    \/ DidChangeConfiguration \/ ExecuteRodinOpen \/ Shutdown \/ RodinQuits
    \/ \E s \in Start : SyncReturns(s) \/ LiveReturns(s) \/ RetryLive(s)

Spec == Init /\ [][Next]_vars

(* A creation ends, and a connection attempt does: the boot deadline passes. *)
FairSpec == Spec /\ \A s \in Start : WF_vars(SyncReturns(s)) /\ WF_vars(LiveReturns(s))

-----------------------------------------------------------------------------
(* Properties.                                                              *)

(* The slots and the starts, no two of which have one lease.                 *)
TypeOK ==
    /\ config \in [dir : Dir, sync : BOOLEAN, live : BOOLEAN]
    /\ rodin_sync \in [state : {"starting", "ready"}, dir : Dir] \cup {Off}
    /\ sync_start \in [Start -> [dir : Dir \cup {Null}, superseded : BOOLEAN]]
    /\ rodin_live \in [state : {"starting", "ready"}, dir : Dir, lease : Nat, running : BOOLEAN]
                       \cup {LiveOff}
    /\ rodin_live_lease \in Nat /\ rodin_live.lease <= rodin_live_lease
    /\ live_start \in [Start -> [dir : Dir \cup {Null}, lease : Nat, launching : BOOLEAN,
                                 superseded : BOOLEAN]]
    /\ \A s, t \in Start : live_start[s].dir # Null /\ live_start[t].dir # Null
                             /\ live_start[s].lease = live_start[t].lease => s = t

(* A slot is never left Starting with nobody to end it: the ensure functions *)
(* would wait for that start for ever after.                                 *)
StartsAreOwned ==
    /\ rodin_sync.state = "starting" =>
        \E s \in Start : sync_start[s].dir = rodin_sync.dir
    /\ rodin_live.state = "starting" =>
        \E s \in Start : /\ live_start[s].dir = rodin_live.dir /\ live_start[s].dir # Null
                         /\ live_start[s].lease = rodin_live.lease /\ ~ live_start[s].superseded

(* "a superseded one must not report its own failure over the lease that     *)
(* replaced it": the end of a superseded start leaves the slot alone.        *)
SupersededLiveIsDiscarded ==
    [][\A s \in Start : live_start[s].superseded /\ live_start'[s] = NoLiveStart
                          => rodin_live' = rodin_live]_vars

(* "Only install if nothing superseded this start", said of the watcher.     *)
(* The code does not keep it; no run checks it.                             *)
SupersededSyncIsDiscarded ==
    [][\A s \in Start : sync_start[s].superseded /\ sync_start'[s] = NoSyncStart
                          => rodin_sync' = rodin_sync]_vars

(* What is asked for is settled in the end.                                  *)
StartsSettle ==
    /\ \A d \in Dir : rodin_sync = [state |-> "starting", dir |-> d]
                        ~> rodin_sync # [state |-> "starting", dir |-> d]
    /\ \A l \in 0 .. MaxLease : rodin_live.state = "starting" /\ rodin_live.lease = l
                        ~> ~ (rodin_live.state = "starting" /\ rodin_live.lease = l)

(* "A changed `rossi.rodin.workspace` must re-target the sync watcher": what *)
(* the watcher follows is the configured workspace.                          *)
(* The code does not keep it; no run checks it.                             *)
WatchesConfigured == rodin_sync.state = "ready" => rodin_sync.dir = config.dir
=============================================================================
