---- MODULE RuntimeUpdate ----
(***************************************************************************)
(* update-localmcp.ps1: replacing the installed runtime by a new version.  *)
(*                                                                         *)
(* The updater is two processes.  The parent runs as the ordinary user: it *)
(* closes the Tunnel, holds the Tunnel's mutex, verifies what the child    *)
(* built and binds the Tunnel's state to the new launcher.  The child runs *)
(* elevated: it builds the new version beside the old one, stops the       *)
(* service, moves the two directories and starts the service again.  They  *)
(* talk through files: status.json one way, a decision per phase the other *)
(* way.  Either may die or give up waiting at any time, and a server that  *)
(* was started directly asks for neither mutex nor leave.                  *)
(*                                                                         *)
(* Not modelled: the files the hashes of plan, snapshot, configuration and *)
(* constraints protect.  The launchers of the two versions differ (when    *)
(* they do not, there is nothing to bind).                                 *)
(***************************************************************************)
EXTENDS Naturals

CONSTANTS
    MaxRaises,  \* bound: steps that raise
    MaxKills,   \* bound: processes of the updater that are killed
    MaxVisits,  \* bound: servers that start while the updater exists
    MaxEdits    \* bound: changes of the Tunnel's state by others

ASSUME UpdateAssumption ==
    MaxRaises \in Nat /\ MaxKills \in Nat /\ MaxVisits \in Nat /\ MaxEdits \in Nat

VARIABLES
    oldAt,      \* where the old version is
    newAt,      \* where the new version is
    sound,      \* the new version passes the checks of the ordinary user
    serviceState,    \* the Approved Host service
    host,       \* an Approved Host run is active or waits for recovery
    server,     \* the LocalMCP server that runs from the installed version
    ui,         \* an approval window that runs from it is open
    row,        \* the audit store has a row that is not terminal
    mutex,      \* the Tunnel's named mutex
    checked,    \* a launcher has found its binding valid and has not tried the mutex yet
    tunnel,     \* the Tunnel's state: [script, writer]
    statusFile,     \* status.json
    decision,   \* staged.decision.json and switched.decision.json
    ppc,        \* where the parent is
    handled,    \* phases it has answered, or is answering
    launcher,   \* the launcher it hashed at the install root
    saved,      \* what it knows of the binding it replaced
    final,      \* $finalStatus
    cpc,        \* where the elevated child is
    retired, published, stopped,   \* its $retired, $published, $serviceStopped
    raised, kills, visits, edits

places == <<oldAt, newAt, sound>>
world  == <<host, server, ui, row, mutex, checked>>
files  == <<statusFile, decision>>
parent == <<ppc, handled, launcher, saved, final>>
flags  == <<retired, published, stopped>>
bounds == <<raised, kills, visits, edits>>
updateVars == <<oldAt, newAt, sound, serviceState, host, server, ui, row, mutex, checked, tunnel,
            statusFile, decision, ppc, handled, launcher, saved, final, cpc, retired, published, stopped,
            raised, kills, visits, edits>>

Phases == {"staged", "switched"}
Final  == {"installed", "rolled_back", "failed_before_switch", "recovery_required"}

\* The version at the install root.
Installed ==
    IF oldAt = "install" THEN "old" ELSE IF newAt = "install" THEN "new" ELSE "none"

UpdateInit ==
    /\ oldAt = "install" /\ newAt = "none" /\ sound = FALSE
    /\ serviceState \in {"running", "stopped"} /\ host = "idle"
    /\ server \in {"down", "tunnel", "direct"}
    /\ mutex = IF server = "tunnel" THEN "launcher" ELSE "free"
    /\ ui \in BOOLEAN /\ row \in BOOLEAN /\ checked = FALSE
    /\ tunnel = [script |-> "old", writer |-> "setup"]
    /\ statusFile = "none" /\ decision = [p \in Phases |-> "none"]
    /\ ppc = "idle" /\ handled = {} /\ launcher = "none" /\ saved = "none" /\ final = "none"
    /\ cpc = "none" /\ retired = FALSE /\ published = FALSE /\ stopped = FALSE
    /\ raised = 0 /\ kills = 0 /\ visits = 0 /\ edits = 0

----
\* Around the updater.

\* Executables of the installed version run, and Windows does not rename its directory.
InUse == server # "down" \/ ui

\* No operation is pending and nothing waits for recovery: what the idle check reads.
Idle == host = "idle" /\ ~row

\* Neither is anything open that runs from the runtime: the offline check of the helper.
Offline == Idle /\ ~InUse

\* The service answers the ordinary user and would admit a run.
AuthorityReady == serviceState = "running" /\ host = "idle"

Still(others) ==
    UNCHANGED <<places, serviceState, tunnel, files, parent, cpc, flags, raised, kills, edits, others>>

Visit == visits < MaxVisits /\ visits' = visits + 1

\* run-server.ps1 started from another terminal takes no mutex and checks no binding.
ServerStarts ==
    /\ server = "down" /\ Installed # "none" /\ Visit /\ server' = "direct"
    /\ Still(<<host, ui, row, mutex, checked>>)

\* run-localmcp.ps1 wants the launcher its state was bound to, before it asks for the mutex.
LauncherChecks ==
    /\ ~checked /\ Installed # "none" /\ tunnel.script = Installed /\ Visit
    /\ checked' = TRUE
    /\ Still(<<host, server, ui, row, mutex>>)

\* The mutex is tried once.  The server may not be reached; a window of its own may be opened.
LauncherStarts ==
    /\ checked /\ checked' = FALSE
    /\ \/ /\ server = "down" /\ mutex = "free" /\ Installed # "none"
          /\ server' = "tunnel" /\ mutex' = "launcher" /\ ui' \in {ui, TRUE}
       \/ UNCHANGED <<server, mutex, ui>>
    /\ Still(<<host, row, visits>>)

\* run-approvals.ps1 started from another terminal.
UiOpens ==
    /\ ~ui /\ Installed # "none" /\ Visit /\ ui' = TRUE
    /\ Still(<<host, server, row, mutex, checked>>)

UiCloses ==
    /\ ui /\ ui' = FALSE
    /\ Still(<<host, server, row, mutex, checked, visits>>)

ServerStops ==
    /\ server # "down" /\ server' = "down"
    /\ Still(<<host, ui, row, mutex, checked, visits>>)

\* Its finally block has closed the windows it opened.
LauncherExits ==
    /\ mutex = "launcher" /\ server # "tunnel" /\ mutex' = "free" /\ ui' \in {ui, FALSE}
    /\ Still(<<host, server, row, checked, visits>>)

\* A server records an operation; the row may outlive it.
RowBegins ==
    /\ server # "down" /\ ~row /\ row' = TRUE
    /\ Still(<<host, server, ui, mutex, checked, visits>>)

\* The operation ends, is decided in the window, or is reconciled by a server that starts.
RowEnds ==
    /\ InUse /\ row /\ row' = FALSE
    /\ Still(<<host, server, ui, mutex, checked, visits>>)

\* A server asks the service to run something; the latch may outlive the server.
HostRuns ==
    /\ host = "idle" /\ server # "down" /\ serviceState = "running" /\ host' = "busy"
    /\ Still(<<server, ui, row, mutex, checked, visits>>)

HostEnds ==
    /\ host = "busy" /\ serviceState = "running" /\ host' = "idle"
    /\ Still(<<server, ui, row, mutex, checked, visits>>)

\* The user sets the Tunnel up again, or edits its state by hand.
Reconfigure ==
    /\ edits < MaxEdits /\ Installed # "none"
    /\ edits' = edits + 1 /\ tunnel' = [script |-> Installed, writer |-> "other"]
    /\ UNCHANGED <<places, serviceState, world, files, parent, cpc, flags, raised, kills, visits>>

----
\* The parent, before the elevated child exists.

\* A hash of the Tunnel's state equals the one taken at the start.
Unchanged == tunnel.writer = "setup"

ParentOnly == UNCHANGED <<places, tunnel, files, handled, launcher, saved, final, cpc, flags,
                         bounds>>

\* Invoke-LocalMcpUpdate: the mutex is tried once without waiting.
Begin ==
    /\ ppc = "idle" /\ ppc' = "checking"
    /\ mutex' = IF mutex = "free" THEN "updater" ELSE mutex
    /\ UNCHANGED <<serviceState, host, server, ui, row, checked>> /\ ParentOnly

\* Ensure-UpdateAuthority, the authority and idle checks.
CheckIdle ==
    /\ ppc = "checking"
    /\ \/ /\ serviceState' = "running" /\ Idle /\ Unchanged /\ ppc' = "closing"
       \/ /\ serviceState = "stopped" \/ ~Idle \/ ~Unchanged
          /\ serviceState' \in {serviceState, "running"} /\ ppc' = "finishing"
    /\ UNCHANGED world /\ ParentOnly

\* Stop-UpdateTunnel kills the client it identified; its server ends with it.
StopTunnel ==
    /\ ppc = "closing" /\ ppc' = "dismissing"
    /\ server' = IF server = "tunnel" THEN "down" ELSE server
    /\ UNCHANGED <<serviceState, host, ui, row, mutex, checked>> /\ ParentOnly

\* The window is asked to end as by Ctrl+C, after looking again that nothing is pending.  One
\* that was not started the way the launcher does is left open.
CloseUi ==
    /\ ppc = "dismissing"
    /\ \/ /\ AuthorityReady /\ Idle /\ ui' \in {ui, FALSE} /\ ppc' = "waiting"
       \/ /\ ui \/ ~AuthorityReady \/ ~Idle
          /\ ui' \in {ui, FALSE} /\ ppc' = "finishing"
    /\ UNCHANGED <<serviceState, host, server, row, mutex, checked>> /\ ParentOnly

\* Thirty seconds for the launcher to release the mutex.
AwaitMutex ==
    /\ ppc = "waiting"
    /\ \/ mutex \in {"free", "updater"} /\ mutex' = "updater" /\ ppc' = "settling"
       \/ mutex = "launcher" /\ UNCHANGED mutex /\ ppc' = "finishing"
    /\ UNCHANGED <<serviceState, host, server, ui, row, checked>> /\ ParentOnly

\* Wait-UpdateOffline, then the last look at the Tunnel's state.
AwaitOffline ==
    /\ ppc = "settling"
    /\ ppc' = IF Offline /\ Unchanged THEN "copying" ELSE "finishing"
    /\ UNCHANGED <<serviceState, world>> /\ ParentOnly

\* The source tree is copied file by file and its manifest hashed.
Snapshot ==
    /\ ppc = "copying" /\ ppc' \in {"preparing", "finishing"}
    /\ UNCHANGED <<serviceState, world>> /\ ParentOnly

\* Constraints, start tests, plan; the user may refuse the elevation.
Prepare ==
    /\ ppc = "preparing"
    /\ \/ ppc' = "polling" /\ cpc' = "start"
       \/ ppc' = "finishing" /\ UNCHANGED cpc
    /\ UNCHANGED <<places, serviceState, world, tunnel, files, handled, launcher, saved, final, flags,
                   bounds>>

----
\* The elevated child.

ChildOnly == UNCHANGED <<world, tunnel, decision, parent, bounds>>

Throw == cpc' = "caught"

SetStatus(s) == statusFile' = s

\* Invoke-ElevatedUpdate up to the build.
ChildBegins ==
    /\ cpc = "start"
    /\ IF Offline /\ serviceState = "running"
       THEN cpc' = "building" /\ SetStatus("building")
       ELSE Throw /\ UNCHANGED statusFile
    /\ UNCHANGED <<places, serviceState, flags>> /\ ChildOnly

\* The new version is built at the ready root.
Build ==
    /\ cpc = "building"
    /\ \/ newAt' = "ready" /\ sound' \in BOOLEAN /\ SetStatus("staged") /\ cpc' = "staged"
       \/ Throw /\ UNCHANGED <<newAt, sound, statusFile>>
    /\ UNCHANGED <<oldAt, serviceState, flags>> /\ ChildOnly

\* Wait-UpdateDecision: the wait also ends by rejection, the parent's death and its deadline.
Accepted(phase) == decision[phase] = "accept"

AwaitStaged ==
    /\ cpc = "staged"
    /\ \/ Accepted("staged") /\ cpc' = "accepted"
       \/ Throw
    /\ UNCHANGED <<places, serviceState, statusFile, flags>> /\ ChildOnly

\* Mutant: the flag is set once the service has stopped.
RecheckUnflagged ==
    /\ cpc = "accepted"
    /\ IF Offline THEN cpc' = "stopping" ELSE Throw
    /\ UNCHANGED <<places, serviceState, statusFile, flags>> /\ ChildOnly

\* Still offline and idle: $serviceStopped is set before the service is asked to stop.
Recheck ==
    /\ cpc = "accepted"
    /\ IF Offline
       THEN stopped' = TRUE /\ cpc' = "stopping"
       ELSE Throw /\ UNCHANGED stopped
    /\ UNCHANGED <<places, serviceState, statusFile, retired, published>> /\ ChildOnly

StopHostService ==
    /\ cpc = "stopping" /\ serviceState' = "stopped" /\ cpc' = "again"
    /\ UNCHANGED <<places, statusFile, flags>> /\ ChildOnly

\* Mutant: what was idle before the service stopped is taken to be idle still.
CheckAgainServers ==
    /\ cpc = "again"
    /\ IF ~InUse THEN cpc' = "retiring" ELSE Throw
    /\ UNCHANGED <<places, serviceState, statusFile, flags>> /\ ChildOnly

\* The last look before the directories move.
CheckAgain ==
    /\ cpc = "again"
    /\ IF Offline THEN cpc' = "retiring" ELSE Throw
    /\ UNCHANGED <<places, serviceState, statusFile, flags>> /\ ChildOnly

\* Windows does not rename a directory whose executables run.
Retire ==
    /\ cpc = "retiring"
    /\ IF ~InUse
       THEN oldAt' = "backup" /\ retired' = TRUE /\ cpc' = "publishing"
       ELSE Throw /\ UNCHANGED <<oldAt, retired>>
    /\ UNCHANGED <<newAt, sound, serviceState, statusFile, published, stopped>> /\ ChildOnly

Publish ==
    /\ cpc = "publishing" /\ newAt' = "install" /\ published' = TRUE /\ cpc' = "starting"
    /\ UNCHANGED <<oldAt, sound, serviceState, statusFile, retired, stopped>> /\ ChildOnly

StartNew ==
    /\ cpc = "starting" /\ serviceState' = "running" /\ stopped' = FALSE
    /\ SetStatus("switched") /\ cpc' = "switched"
    /\ UNCHANGED <<places, retired, published>> /\ ChildOnly

AwaitSwitched ==
    /\ cpc = "switched"
    /\ \/ Accepted("switched") /\ SetStatus("installed") /\ cpc' = "exited"
       \/ Throw /\ UNCHANGED statusFile
    /\ UNCHANGED <<places, serviceState, flags>> /\ ChildOnly

GiveUp == SetStatus("recovery_required") /\ cpc' = "exited"

\* The catch block: a new run or an unexpected process keeps the old version in its backup.
Caught ==
    /\ cpc = "caught"
    /\ \/ /\ retired /\ UNCHANGED serviceState
          /\ IF Offline THEN cpc' = "undoing" /\ UNCHANGED statusFile ELSE GiveUp
       \/ /\ ~retired /\ serviceState' = IF stopped THEN "running" ELSE serviceState
          /\ SetStatus("failed_before_switch") /\ cpc' = "exited"
    /\ UNCHANGED <<places, flags>> /\ ChildOnly

UndoStop ==
    /\ cpc = "undoing" /\ serviceState' = "stopped" /\ cpc' = "withdrawing"
    /\ UNCHANGED <<places, statusFile, flags>> /\ ChildOnly

Withdraw ==
    /\ cpc = "withdrawing"
    /\ \/ published /\ ~InUse /\ newAt' = "failed" /\ cpc' = "restoring" /\ UNCHANGED statusFile
       \/ published /\ InUse /\ GiveUp /\ UNCHANGED newAt
       \/ ~published /\ cpc' = "restoring" /\ UNCHANGED <<newAt, statusFile>>
    /\ UNCHANGED <<oldAt, sound, serviceState, flags>> /\ ChildOnly

RestoreOld ==
    /\ cpc = "restoring" /\ oldAt' = "install" /\ cpc' = "reviving"
    /\ UNCHANGED <<newAt, sound, serviceState, statusFile, flags>> /\ ChildOnly

\* Mutant: the service is left for the next update to start.
ReviveNothing ==
    /\ cpc = "reviving" /\ SetStatus("rolled_back") /\ cpc' = "exited"
    /\ UNCHANGED <<places, serviceState, flags>> /\ ChildOnly

Revive ==
    /\ cpc = "reviving" /\ serviceState' = "running"
    /\ SetStatus("rolled_back") /\ cpc' = "exited"
    /\ UNCHANGED <<places, flags>> /\ ChildOnly

\* Start-Service and Stop-Service may fail after the service has moved.
Unsettled(state) == serviceState' \in {serviceState, state}

\* A step of the child raises: the try block is caught, its catch block gives up.
ChildFails ==
    /\ raised < MaxRaises /\ raised' = raised + 1
    /\ \/ /\ cpc \in {"start", "building", "staged", "accepted", "again", "retiring", "publishing",
                      "switched"}
          /\ Throw /\ UNCHANGED <<serviceState, statusFile>>
       \/ cpc = "stopping" /\ Throw /\ Unsettled("stopped") /\ UNCHANGED statusFile
       \/ cpc = "starting" /\ Throw /\ Unsettled("running") /\ UNCHANGED statusFile
       \/ cpc = "caught" /\ (retired \/ stopped) /\ GiveUp /\ UNCHANGED serviceState
       \/ cpc = "undoing" /\ GiveUp /\ Unsettled("stopped")
       \/ cpc \in {"withdrawing", "restoring"} /\ GiveUp /\ UNCHANGED serviceState
       \/ cpc = "reviving" /\ GiveUp /\ Unsettled("running")
    /\ UNCHANGED <<places, world, tunnel, decision, parent, flags, kills, visits, edits>>

ChildKilled ==
    /\ kills < MaxKills /\ kills' = kills + 1
    /\ cpc \notin {"none", "exited", "killed"} /\ cpc' = "killed"
    /\ UNCHANGED <<places, serviceState, world, tunnel, files, parent, flags, raised, visits, edits>>

----
\* The parent, beside the child.

Verifying == UNCHANGED <<places, serviceState, world, statusFile, final, cpc, flags, bounds>>

\* The phase it is answering.
PhaseAsked == IF "switched" \in handled THEN "switched" ELSE "staged"

Decide(answer) ==
    /\ decision' = [decision EXCEPT ![PhaseAsked] = answer]
    /\ ppc' = "polling"

\* status.json names a phase it has not answered.
Notice ==
    /\ ppc = "polling" /\ statusFile \in Phases \ handled
    /\ handled' = handled \cup {statusFile} /\ ppc' = "probing"
    /\ UNCHANGED <<tunnel, decision, launcher, saved>> /\ Verifying

\* The version at the probed root passes.  An old version that is back there may as well.
Passes ==
    IF PhaseAsked = "staged" THEN newAt = "ready" /\ sound
    ELSE Installed = "old" \/ (Installed = "new" /\ sound)

\* Immutability, start test and tool definitions; after the switch the authority too.
Probe ==
    /\ ppc = "probing"
    /\ \/ /\ Unchanged /\ Passes
          /\ IF PhaseAsked = "staged"
             THEN Decide("accept")
             ELSE /\ AuthorityReady
                  /\ ppc' = "binding" /\ UNCHANGED decision
       \/ Decide("reject")
    /\ UNCHANGED <<tunnel, handled, launcher, saved>> /\ Verifying

\* Update-ServerScriptBinding: the state is the one it knows; which launcher is installed?
Bind ==
    /\ ppc = "binding"
    /\ \/ /\ Unchanged /\ Installed # "none"
          /\ launcher' = Installed /\ UNCHANGED decision
          /\ ppc' = IF tunnel.script = Installed THEN "rebound" ELSE "saving"
       \/ (~Unchanged \/ Installed = "none") /\ Decide("reject") /\ UNCHANGED launcher
    /\ UNCHANGED <<tunnel, handled, saved>> /\ Verifying

Rebound == [script |-> launcher, writer |-> "updater"]

\* Save-TunnelStateAtomic keeps a backup.  When the new state cannot be hashed the backup is
\* forgotten, and the phase rejected.
Save ==
    /\ ppc = "saving" /\ tunnel' = Rebound
    /\ \/ saved' = "kept" /\ ppc' = "rebound" /\ UNCHANGED <<decision, raised>>
       \/ /\ raised < MaxRaises /\ raised' = raised + 1
          /\ saved' = "lost" /\ Decide("reject")
    /\ UNCHANGED <<places, serviceState, world, statusFile, handled, launcher, final, cpc, flags, kills,
                   visits, edits>>

\* The saved state is read again and must resolve to the installed launcher.
Confirm ==
    /\ ppc = "rebound"
    /\ \/ tunnel.script = Installed /\ Decide("accept")
       \/ Decide("reject")
    /\ UNCHANGED <<tunnel, handled, launcher, saved>> /\ Verifying

Conclude(outcome) ==
    /\ final' = outcome /\ ppc' = "finishing"
    /\ UNCHANGED <<places, serviceState, world, tunnel, files, handled, launcher, saved, cpc, flags,
                   bounds>>

\* A final status, or a child that exited without one.
Learn ==
    /\ ppc = "polling"
    /\ \/ statusFile \in Final /\ Conclude(statusFile)
       \/ statusFile \notin Final /\ cpc \in {"exited", "killed"} /\ Conclude("none")

\* Forty-five minutes have passed.
Deadline == ppc = "polling" /\ Conclude("none")

\* Mutant: the state to be replaced is looked for as it was at the start.
RestorableUntouched == saved = "kept" /\ final = "rolled_back" /\ Installed = "old" /\ Unchanged

\* The old version is confirmed to be back and the state is the one this update saved.
Restorable == saved = "kept" /\ final = "rolled_back" /\ Installed = "old" /\ tunnel = Rebound

\* The finally block, and the restart of LocalMCP after a success (LauncherStarts).
Finish ==
    /\ ppc = "finishing" /\ ppc' = "ended"
    /\ tunnel' = IF Restorable THEN [script |-> "old", writer |-> "setup"] ELSE tunnel
    /\ mutex' = IF mutex = "updater" THEN "free" ELSE mutex
    /\ UNCHANGED <<places, serviceState, host, server, ui, row, checked, files, handled, launcher,
                   saved, final, cpc, flags, bounds>>

\* The mutex of a process that died is abandoned; the child sees that it exited.
ParentKilled ==
    /\ kills < MaxKills /\ kills' = kills + 1
    /\ ppc \notin {"idle", "ended", "killed"} /\ ppc' = "killed"
    /\ mutex' = IF mutex = "updater" THEN "free" ELSE mutex
    /\ UNCHANGED <<places, serviceState, host, server, ui, row, checked, tunnel, files, handled,
                   launcher, saved, final, cpc, flags, raised, visits, edits>>

----
Environment ==
    \/ ServerStarts \/ LauncherChecks \/ LauncherStarts \/ UiOpens \/ UiCloses
    \/ ServerStops \/ LauncherExits \/ RowBegins \/ RowEnds \/ HostRuns \/ HostEnds
    \/ Reconfigure \/ ChildFails \/ ChildKilled \/ ParentKilled

Parent ==
    \/ Begin \/ CheckIdle \/ StopTunnel \/ CloseUi \/ AwaitMutex \/ AwaitOffline \/ Snapshot
    \/ Prepare
    \/ Notice \/ Probe \/ Bind \/ Save \/ Confirm \/ Learn \/ Deadline \/ Finish

Child ==
    \/ ChildBegins \/ Build \/ AwaitStaged \/ Recheck \/ StopHostService \/ CheckAgain \/ Retire
    \/ Publish \/ StartNew \/ AwaitSwitched \/ Caught \/ UndoStop \/ Withdraw \/ RestoreOld
    \/ Revive

UpdateNext == Environment \/ Parent \/ Child

UpdateSpec == UpdateInit /\ [][UpdateNext]_updateVars

\* The child is never blocked: each of its waits has a deadline.
LiveUpdateSpec == UpdateSpec /\ WF_updateVars(Child)

----
\* Properties.

Parents == {"idle", "checking", "closing", "dismissing", "waiting", "settling", "copying",
            "preparing", "polling",
            "probing", "binding", "saving", "rebound", "finishing", "ended", "killed"}

Children == {"none", "start", "building", "staged", "accepted", "stopping", "again", "retiring",
             "publishing", "starting", "switched", "caught", "undoing", "withdrawing",
             "restoring", "reviving", "exited", "killed"}

UpdateTypeOK ==
    /\ oldAt \in {"install", "backup"}
    /\ newAt \in {"none", "ready", "install", "failed"} /\ sound \in BOOLEAN
    /\ serviceState \in {"running", "stopped"} /\ host \in {"idle", "busy"}
    /\ ui \in BOOLEAN /\ row \in BOOLEAN /\ checked \in BOOLEAN
    /\ server \in {"down", "tunnel", "direct"} /\ mutex \in {"free", "updater", "launcher"}
    /\ tunnel \in [script : {"old", "new", "none"}, writer : {"setup", "updater", "other"}]
    /\ statusFile \in Phases \cup Final \cup {"none", "building"}
    /\ decision \in [Phases -> {"none", "accept", "reject"}]
    /\ ppc \in Parents /\ handled \subseteq Phases /\ launcher \in {"none", "old", "new"}
    /\ saved \in {"none", "kept", "lost"} /\ final \in Final \cup {"none"}
    /\ cpc \in Children
    /\ retired \in BOOLEAN /\ published \in BOOLEAN /\ stopped \in BOOLEAN
    /\ raised \in 0..MaxRaises /\ kills \in 0..MaxKills
    /\ visits \in 0..MaxVisits /\ edits \in 0..MaxEdits

\* update-localmcp.ps1, RUNTIME_UPDATE.md: what status.json says in the end is what is on the
\* disk.  "installed" is a new version both phases of the ordinary user's checks accepted, with
\* the old one kept aside; the two other outcomes have the old version back in its place, and
\* the service runs.  Without a failing step and without a server in the way the updater never
\* has to ask for recovery, whichever of parent and child gave up, and when.
StatusTellsRuntime ==
    /\ statusFile = "installed" =>
         /\ newAt = "install" /\ oldAt = "backup" /\ sound /\ serviceState = "running"
         /\ decision = [p \in Phases |-> "accept"]
    /\ statusFile = "rolled_back" => oldAt = "install" /\ newAt # "install" /\ serviceState = "running"
    /\ statusFile = "failed_before_switch" =>
         oldAt = "install" /\ newAt # "install" /\ serviceState = "running"
    /\ statusFile = "recovery_required" => raised > 0 \/ visits > 0

\* Invoke-LocalMcpUpdate: when the parent has learnt how the update ended, the Tunnel is bound
\* to the launcher that is installed, unless someone else rewrote its state or the parent could
\* not hash the state it had just written.
BindingFollowsRuntime ==
    ppc = "ended" /\ final \in Final \ {"recovery_required"} /\ saved # "lost" =>
        tunnel.script = Installed \/ tunnel.writer = "other"

\* Invoke-ElevatedUpdate: the old version is taken away only while nothing runs from it and no
\* run of the Approved Host is active or waits for recovery, also when the run began after the
\* first check and its server has gone again.
RetiredOnlyIdle == [][oldAt = "install" /\ oldAt' = "backup" => ~InUse /\ host = "idle"]_updateVars

\* Once the child stopped the service it runs again, unless the child asked for recovery or was
\* killed: a parent that died or does not answer does not keep it down.
ServiceComesBack ==
    (cpc # "none" /\ serviceState = "stopped") ~>
        (serviceState = "running" \/ statusFile = "recovery_required" \/ cpc = "killed")
====
