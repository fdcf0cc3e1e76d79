----------------------------- MODULE EtcdWatch -----------------------------
(***************************************************************************)
(* The pod-mode watch of src/etcdconfig/etcd.go: WatchForMigration, which *)
(* each component (processor, router, ...) calls to subscribe to mode     *)
(* changes, MigrationWatch, the goroutine that turns each change of the   *)
(* pod's /mode key into a publication on the event bus and waits on       *)
(* podStatusWaitGroup before acknowledging it with /status =             *)
(* <mode>_completed; GetWorkspaces, which connects through GetEtcdClient  *)
(* (the only place the shared cli is set, and which starts a watcher and *)
(* the heartbeat itself), reads /workspaces and hands on its changes     *)
(* through WatchForWorkspaces.  Every panic (connection error, connect   *)
(* timeout, heartbeat timeout) ends the process, which is restarted: the *)
(* keys in etcd survive, the process's memory does not.                  *)
(*                                                                         *)
(* Each revision of /mode is a number; a mode is identified by it.  The   *)
(* event bus (utils.EventBus, outside src/) is a per-subscriber queue;    *)
(* a subscriber takes a published status, acts on it and calls Done on   *)
(* the wait group WatchForMigration handed it.  A revision of            *)
(* /workspaces is a number too.                                          *)
(***************************************************************************)
EXTENDS Integers, Sequences, FiniteSets

CONSTANTS
    Subscribers,       \* the components calling WatchForMigration
    MaxEvents,         \* writes of /mode in a behaviour
    MaxWorkspaceWrites,\* writes of /workspaces in a behaviour
    MaxFaults,         \* panics (and restarts) in a behaviour
    WritesAfterStartup \* environment: a key changes only once the process has
                       \* started: every component has subscribed and every watcher
                       \* started has opened its watch

\* At most one watcher per WatchForMigration call plus GetEtcdClient's.
Watchers == 1..(Cardinality(Subscribers) + 1)

VARIABLES
    revs,          \* revisions of /mode written so far
    initialized,   \* podStatuswatchInitialized
    podStatus,     \* the shared podStatus (a revision, 0 before any)
    wg,            \* podStatusWaitGroup's counter
    subscribed,    \* subscribers of PODSTATUS on the event bus
    spc,           \* subscriber: "none", "subscribed" (in WatchForMigration), "ready"
    inbox,         \* subscriber -> published statuses not yet handled
    mode,          \* subscriber -> the mode it acts in (initial /mode, then each status handled)
    wpc,           \* watcher: "off", "spawned", "watching", "received", "added", "waiting"
    pos,           \* watcher -> the last revision its etcd watch delivered
    released,      \* watchers a Done has woken from Wait
    completed,     \* /status acknowledgements written, in order
    cpc,           \* GetEtcdClient: "dial", "send" (connected, heartbeat running), "done"
    gpc,           \* GetWorkspaces: "select" (waiting for the client), "returned"
    wsRevs,        \* revisions of /workspaces written so far
    wsSeen,        \* the workspaces the process serves (initial read, then each change)
    wspc,          \* WatchForWorkspaces' goroutine: "off", "spawned", "watching"
    wsPos,         \* the last revision of /workspaces its watch delivered
    faults         \* panics so far

proc == <<initialized, podStatus, wg, subscribed, spc, inbox, mode, wpc, pos, released,
          cpc, gpc, wsSeen, wspc, wsPos>>
vars == <<revs, completed, wsRevs, faults, proc>>

Msg == [rev : 0..MaxEvents, from : Watchers, seq : 0..MaxEvents]

\* A goroutine running MigrationWatch is started.
Spawn(w) == wpc' = [wpc EXCEPT ![w] = "spawned"]

FreeWatcher == CHOOSE w \in Watchers : wpc[w] = "off"


\* The variables the steps of the pod-mode watch leave to the others.
wsVars == <<revs, wsRevs, faults, cpc, gpc, wsSeen, wspc, wsPos>>

\* The variables the connection and the workspace watch leave alone.
modeVars == <<initialized, podStatus, wg, subscribed, spc, inbox, mode, pos, released,
              completed>>

-----------------------------------------------------------------------------
(* The environment: writes of the pod's /mode and /workspaces keys. *)
ModeWrite ==
    /\ revs < MaxEvents
    /\ WritesAfterStartup => /\ \A s \in Subscribers : spc[s] = "ready"
                             /\ \A w \in Watchers : wpc[w] # "spawned"
    /\ revs' = revs + 1
    /\ UNCHANGED <<completed, wsRevs, faults, proc>>

WorkspacesWrite ==
    /\ wsRevs < MaxWorkspaceWrites
    /\ WritesAfterStartup => gpc = "returned" /\ wspc = "watching"
    /\ wsRevs' = wsRevs + 1
    /\ UNCHANGED <<revs, completed, faults, proc>>

\* A panic ends the process and it is started again: what is in etcd stays,
\* every goroutine and package variable starts afresh, and main calls
\* GetWorkspaces again.
Restart ==
    /\ faults' = faults + 1
    /\ initialized' = FALSE /\ podStatus' = 0 /\ wg' = 0 /\ subscribed' = {}
    /\ spc' = [s \in Subscribers |-> "none"] /\ inbox' = [s \in Subscribers |-> <<>>]
    /\ mode' = [s \in Subscribers |-> 0]
    /\ wpc' = [w \in Watchers |-> "off"] /\ pos' = [w \in Watchers |-> 0] /\ released' = {}
    /\ cpc' = "dial" /\ gpc' = "select" /\ wsSeen' = 0 /\ wspc' = "off" /\ wsPos' = 0
    /\ UNCHANGED <<revs, completed, wsRevs>>

-----------------------------------------------------------------------------
(* GetWorkspaces, GetEtcdClient and the heartbeat. *)

\* GetEtcdClient: clientv3.New sets the shared cli, cli.Status succeeds and
\* etcdHeartBeat starts the heartbeat goroutine.
Dial ==
    /\ cpc = "dial"
    /\ cpc' = "send"
    /\ UNCHANGED <<revs, wsRevs, faults, gpc, wsSeen, wspc, wsPos, wpc, modeVars>>

\* clientv3.New fails (panic), or cli.Status fails and GetWorkspaces,
\* receiving the error, panics.
ConnectFails ==
    /\ cpc = "dial" /\ faults < MaxFaults
    /\ Restart

\* GetWorkspaces' select times out (connectTimeout) before the client is
\* handed over, and panics; GetEtcdClient may still be dialling or sending.
ConnectTimeout ==
    /\ gpc = "select" /\ cpc \in {"dial", "send"} /\ faults < MaxFaults
    /\ Restart

\* A heartbeat (lease grant and Put of the pod key) does not finish within
\* connectTimeout: etcdHeartBeat panics.
HeartbeatTimeout ==
    /\ cpc \in {"send", "done"} /\ faults < MaxFaults
    /\ Restart

\* GetEtcdClient hands the client over (clientReturnChan is unbuffered, so
\* GetWorkspaces receives it in the same step) and starts a MigrationWatch;
\* GetWorkspaces reads /workspaces, starts WatchForWorkspaces and returns.
ClientReturned ==
    /\ cpc = "send" /\ gpc = "select"
    /\ cpc' = "done" /\ gpc' = "returned"
    /\ Spawn(FreeWatcher)
    /\ wsSeen' = wsRevs
    /\ wspc' = "spawned"
    /\ UNCHANGED <<revs, wsRevs, faults, wsPos, modeVars>>

\* WatchForWorkspaces' goroutine opens its watch at the current revision.
WatchWorkspaces ==
    /\ wspc = "spawned"
    /\ wspc' = "watching" /\ wsPos' = wsRevs
    /\ UNCHANGED <<revs, wsRevs, faults, cpc, gpc, wsSeen, wpc, modeVars>>

\* The next event of the workspace watch is sent on the unbuffered
\* returnChan; the caller of GetWorkspaces takes it in the same step.
WorkspacesChanged ==
    /\ wspc = "watching" /\ wsPos < wsRevs
    /\ wsPos' = wsPos + 1
    /\ wsSeen' = wsPos + 1
    /\ UNCHANGED <<revs, wsRevs, faults, cpc, gpc, wspc, wpc, modeVars>>

-----------------------------------------------------------------------------
(* WatchForMigration(s).  The components call it once GetWorkspaces has   *)
(* returned (before, cli is nil and cli.Get would panic).                 *)

\* First statement: Eb.Subscribe(PODSTATUS, ...).
Subscribe(s) ==
    /\ gpc = "returned" /\ spc[s] = "none"
    /\ subscribed' = subscribed \cup {s}
    /\ spc' = [spc EXCEPT ![s] = "subscribed"]
    /\ UNCHANGED <<initialized, podStatus, wg, inbox, mode, wpc, pos, released,
                   completed, wsVars>>

\* Mutant: the initial /mode is not read (the component keeps the empty
\* mode it starts with).
CheckAndReturnWithoutRead(s) ==
    /\ spc[s] = "subscribed"
    /\ IF initialized THEN UNCHANGED wpc ELSE Spawn(FreeWatcher)
    /\ spc' = [spc EXCEPT ![s] = "ready"]
    /\ UNCHANGED <<initialized, podStatus, wg, subscribed, inbox, mode, pos, released,
                   completed, wsVars>>

\* The rest, under podStatusLock.RLock: start a watcher unless
\* podStatuswatchInitialized, read /mode, return the group.
CheckAndReturn(s) ==
    /\ spc[s] = "subscribed"
    /\ IF initialized THEN UNCHANGED wpc ELSE Spawn(FreeWatcher)
    /\ spc' = [spc EXCEPT ![s] = "ready"]
    /\ mode' = [mode EXCEPT ![s] = revs]
    /\ UNCHANGED <<initialized, podStatus, wg, subscribed, inbox, pos, released,
                   completed, wsVars>>

-----------------------------------------------------------------------------
(* MigrationWatch(w). *)

\* Mutant: the watch opened one revision past the current one.
StartWatchOffByOne(w) ==
    /\ wpc[w] = "spawned"
    /\ initialized' = TRUE
    /\ wpc' = [wpc EXCEPT ![w] = "watching"]
    /\ pos' = [pos EXCEPT ![w] = revs + 1]
    /\ UNCHANGED <<podStatus, wg, subscribed, spc, inbox, mode, released, completed, wsVars>>

\* Set podStatuswatchInitialized under the lock, then open the watch; it
\* delivers the revisions written from now on.
StartWatch(w) ==
    /\ wpc[w] = "spawned"
    /\ initialized' = TRUE
    /\ wpc' = [wpc EXCEPT ![w] = "watching"]
    /\ pos' = [pos EXCEPT ![w] = revs]
    /\ UNCHANGED <<podStatus, wg, subscribed, spc, inbox, mode, released, completed, wsVars>>

\* The next event of the watch: podStatus = its value.
\* Mutant: the switch leaves podStatus as it was.
ReceiveKeepsStatus(w) ==
    /\ wpc[w] = "watching" /\ pos[w] < revs
    /\ pos' = [pos EXCEPT ![w] = @ + 1]
    /\ wpc' = [wpc EXCEPT ![w] = "received"]
    /\ UNCHANGED <<initialized, podStatus, wg, subscribed, spc, inbox, mode, released,
                   completed, wsVars>>

Receive(w) ==
    /\ wpc[w] = "watching" /\ pos[w] < revs
    /\ pos' = [pos EXCEPT ![w] = @ + 1]
    /\ podStatus' = pos[w] + 1
    /\ wpc' = [wpc EXCEPT ![w] = "received"]
    /\ UNCHANGED <<initialized, wg, subscribed, spc, inbox, mode, released, completed, wsVars>>

\* podStatusWaitGroup.Add(Eb.NumSubscribers(PODSTATUS)).
Add(w) ==
    /\ wpc[w] = "received"
    /\ wg' = wg + Cardinality(subscribed)
    /\ wpc' = [wpc EXCEPT ![w] = "added"]
    /\ UNCHANGED <<initialized, podStatus, subscribed, spc, inbox, mode, pos, released,
                   completed, wsVars>>

\* Eb.Publish(PODSTATUS, podStatus) to the subscribers of this moment, then
\* podStatusWaitGroup.Wait().
Publish(w) ==
    /\ wpc[w] = "added"
    /\ inbox' = [s \in Subscribers |->
                   IF s \in subscribed
                   THEN Append(inbox[s], [rev |-> podStatus, from |-> w, seq |-> pos[w]])
                   ELSE inbox[s]]
    /\ wpc' = [wpc EXCEPT ![w] = "waiting"]
    /\ released' = released \ {w}
    /\ UNCHANGED <<initialized, podStatus, wg, subscribed, spc, mode, pos, completed, wsVars>>

\* Wait returns (the counter is zero, or a Done woke it) and the watcher
\* writes /status = podStatus + "_completed".
Complete(w) ==
    /\ wpc[w] = "waiting" /\ (wg = 0 \/ w \in released)
    /\ completed' = Append(completed, podStatus)
    /\ wpc' = [wpc EXCEPT ![w] = "watching"]
    /\ released' = released \ {w}
    /\ UNCHANGED <<initialized, podStatus, wg, subscribed, spc, inbox, mode, pos, wsVars>>

\* A subscriber takes the next published status, acts on it and calls Done.
\* A Done that brings the counter to zero wakes every waiting watcher.
Handle(s) ==
    /\ spc[s] = "ready" /\ inbox[s] # <<>>
    /\ mode' = [mode EXCEPT ![s] = Head(inbox[s]).rev]
    /\ inbox' = [inbox EXCEPT ![s] = Tail(@)]
    /\ wg' = wg - 1
    /\ released' = IF wg - 1 = 0 THEN released \cup {w \in Watchers : wpc[w] = "waiting"}
                   ELSE released
    /\ UNCHANGED <<initialized, podStatus, subscribed, spc, wpc, pos, completed, wsVars>>

\* Every write delivered and acknowledged: the watchers block on their watch.
Quiet ==
    /\ revs = MaxEvents /\ wsRevs = MaxWorkspaceWrites
    /\ \A w \in Watchers : wpc[w] \in {"off", "watching"} /\ (wpc[w] = "watching" => pos[w] = revs)
    /\ \A s \in Subscribers : spc[s] = "ready" /\ inbox[s] = <<>>
    /\ wspc = "watching" /\ wsPos = wsRevs

Quiescent == Quiet /\ UNCHANGED vars

Init ==
    /\ revs = 0 /\ initialized = FALSE /\ podStatus = 0 /\ wg = 0
    /\ subscribed = {} /\ spc = [s \in Subscribers |-> "none"]
    /\ inbox = [s \in Subscribers |-> <<>>] /\ mode = [s \in Subscribers |-> 0]
    /\ wpc = [w \in Watchers |-> "off"] /\ pos = [w \in Watchers |-> 0]
    /\ released = {} /\ completed = <<>>
    /\ cpc = "dial" /\ gpc = "select"
    /\ wsRevs = 0 /\ wsSeen = 0 /\ wspc = "off" /\ wsPos = 0 /\ faults = 0

Next ==
    \/ ModeWrite \/ WorkspacesWrite \/ Quiescent
    \/ Dial \/ ConnectFails \/ ConnectTimeout \/ HeartbeatTimeout \/ ClientReturned
    \/ WatchWorkspaces \/ WorkspacesChanged
    \/ \E s \in Subscribers : Subscribe(s) \/ CheckAndReturn(s) \/ Handle(s)
    \/ \E w \in Watchers : StartWatch(w) \/ Receive(w) \/ Add(w) \/ Publish(w) \/ Complete(w)

\* Every goroutine that can run eventually runs: GetEtcdClient and
\* GetWorkspaces, the watchers, the subscribers' handlers and the callers
\* of WatchForMigration.  Panics and the environment's writes are not fair.
Fairness ==
    /\ WF_vars(Dial) /\ WF_vars(ClientReturned)
    /\ WF_vars(WatchWorkspaces) /\ WF_vars(WorkspacesChanged)
    /\ \A s \in Subscribers : WF_vars(Subscribe(s)) /\ WF_vars(CheckAndReturn(s)) /\ WF_vars(Handle(s))
    /\ \A w \in Watchers : WF_vars(StartWatch(w)) /\ WF_vars(Receive(w)) /\ WF_vars(Add(w))
                           /\ WF_vars(Publish(w)) /\ WF_vars(Complete(w))

Spec == Init /\ [][Next]_vars /\ Fairness

-----------------------------------------------------------------------------
TypeOK ==
    /\ revs \in 0..MaxEvents /\ initialized \in BOOLEAN /\ podStatus \in 0..MaxEvents
    /\ wg \in Int /\ subscribed \subseteq Subscribers
    /\ spc \in [Subscribers -> {"none", "subscribed", "ready"}]
    /\ inbox \in [Subscribers -> Seq(Msg)] /\ mode \in [Subscribers -> 0..MaxEvents]
    /\ wpc \in [Watchers -> {"off", "spawned", "watching", "received", "added", "waiting"}]
    /\ pos \in [Watchers -> 0..MaxEvents] /\ released \subseteq Watchers
    /\ completed \in Seq(0..MaxEvents)
    /\ cpc \in {"dial", "send", "done"} /\ gpc \in {"select", "returned"}
    /\ wsRevs \in 0..MaxWorkspaceWrites /\ wsSeen \in 0..MaxWorkspaceWrites
    /\ wspc \in {"off", "spawned", "watching"} /\ wsPos \in 0..MaxWorkspaceWrites
    /\ faults \in 0..MaxFaults

\* podStatusWaitGroup never goes negative (Go panics "sync: negative
\* WaitGroup counter"): MigrationWatch adds one per subscriber it publishes
\* to, and each subscriber calls Done once per status it handles.
\* It fails once /mode may change during startup (WritesAfterStartup =
\* FALSE): a component subscribing between Add and Publish is published to
\* without being counted.
WaitGroupNeverNegative == wg >= 0

\* While the process runs, a component never goes back to an older pod
\* mode: the statuses it handles after reading the initial /mode are never
\* older than what it already acts on.
ModesNeverRegress ==
    [][faults' = faults => \A s \in Subscribers : mode'[s] >= mode[s]]_vars

\* Once every write of /mode has been delivered and acknowledged, every
\* component acts on the latest mode, although both watchers write the
\* shared podStatus and may publish each other's value.
EndsOnLatest ==
    Quiet => \A s \in Subscribers : mode[s] = revs

\* Every write of /mode is eventually acknowledged with a /status write of
\* that mode or a later one.
EveryModeAcknowledged ==
    \A r \in 1..MaxEvents :
        (revs >= r) ~> (\E i \in DOMAIN completed : completed[i] >= r)

\* Every write of /mode eventually reaches every component, through a
\* restart after a panic too: each is running and acts on that mode or a
\* later one (by the watch, or by the initial read of the restarted
\* process).
ComponentsReachLatestMode ==
    \A r \in 1..MaxEvents :
        (revs >= r) ~> (\A s \in Subscribers : spc[s] = "ready" /\ mode[s] >= r)

====
