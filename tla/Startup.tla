------------------------------- MODULE Startup -------------------------------
(***************************************************************************)
(* The life of the core process: the modules registered in this source    *)
(* (core, filter, network, processes, intel) and the interception module  *)
(* whose Start and Stop Interception models, prepared, started and        *)
(* stopped by the portbase module manager, with the core's global         *)
(* shutdown hook (core/core.go) run first when shutting down.             *)
(*                                                                         *)
(* The module manager is the environment.  It prepares every module       *)
(* once the modules it depends on are prepared, then starts every module  *)
(* once the modules it depends on are started; a failing prep or start    *)
(* aborts and shuts down.  A shutdown (a signal, or a restart requested   *)
(* by the updates module) runs the global shutdown hook, then stops a     *)
(* started module once every started module depending on it has stopped, *)
(* cancelling its workers before its stop function.  When every module    *)
(* has stopped the process exits, and may be started again.              *)
(* Dependencies on modules outside this source (base, api, config, ui,    *)
(* netenv, netquery, updates, ...) are left out.                          *)
(***************************************************************************)
EXTENDS Interception

VARIABLES
    phase,      \* the manager: "prep", "start", "running", "shutdown", "stopping", "exited"
    mod,        \* [Mods -> "registered", "prepped", "started", "stopped", "failed"]
    workers,    \* service workers running
    fwHandler,  \* network.defaultFirewallHandler: "nil" or "verdictHandler"
    hooked,     \* the filter's event hooks: "none", "all", "partial" (a registration failed)
    events,     \* events the core module registered
    triggered,  \* events the shutdown hook triggered
    reason,     \* why the process is going down: "none", "signal", "restart", "failure"
    restarting, \* updates.IsRestarting
    disableShutdownEvent  \* the -disable-shutdown-event flag

lifeVars == <<phase, mod, workers, fwHandler, hooked, events,
              triggered, reason, restarting, disableShutdownEvent>>
allVars == <<vars, lifeVars>>

Mods == {"interception", "processes", "network", "intel", "core", "filter"}

-----------------------------------------------------------------------------
(* Registrations: the dependencies each modules.Register call declares,   *)
(* restricted to Mods.                                                    *)

CoreDeps == {"interception", "network"}
FilterDeps == {"core", "interception", "intel"}
NetworkDeps == {"processes"}
ProcessesDeps == {}
IntelDeps == {}

Deps(m) == CASE m = "core"      -> CoreDeps
             [] m = "filter"    -> FilterDeps
             [] m = "network"   -> NetworkDeps
             [] m = "processes" -> ProcessesDeps
             [] m = "intel"     -> IntelDeps
             [] OTHER           -> {}

Dependents(m) == {d \in Mods : m \in Deps(d)}

-----------------------------------------------------------------------------
(* Module functions.  Each takes a result for every call of its that can *)
(* fail, and gives the module's new state.                               *)

(* A step of the manager on module m: m's new state, and an abort.       *)
Done(m, ok, next) ==
    /\ mod' = [mod EXCEPT ![m] = IF ok THEN next ELSE "failed"]
    /\ phase' = IF ok THEN phase ELSE "shutdown"
    /\ reason' = IF ok THEN reason ELSE "failure"

CanPrep(m) ==
    /\ phase = "prep" /\ mod[m] = "registered"
    /\ \A d \in Deps(m) : mod[d] = "prepped"

CanStart(m) ==
    /\ phase = "start" /\ mod[m] = "prepped"
    /\ \A d \in Deps(m) : mod[d] = "started"

(* core prep: registerEvents, then registerConfig and                    *)
(* registerAPIEndpoints, either of which fails the prep.                 *)
CorePrep ==
    /\ CanPrep("core")
    /\ events' = {"shutdown", "restart"}
    /\ \E ok \in BOOLEAN : Done("core", ok, "prepped")
    /\ UNCHANGED <<vars, workers, fwHandler, hooked, triggered,
                   restarting, disableShutdownEvent>>

(* core start: startPlatformSpecific may fail. *)
CoreStart ==
    /\ CanStart("core")
    /\ \E ok \in BOOLEAN : Done("core", ok, "started")
    /\ UNCHANGED <<vars, workers, fwHandler, hooked, events, triggered,
                   restarting, disableShutdownEvent>>

(* network.SetDefaultFirewallHandler: only the first handler is kept. *)
SetDefaultFirewallHandler(h) == IF fwHandler = "nil" THEN h ELSE fwHandler

(* Mutant: the packet handler worker is started in prep. *)
FilterPrepStartsWorkers ==
    /\ CanPrep("filter")
    /\ fwHandler' = SetDefaultFirewallHandler("verdictHandler")
    /\ hooked' \in {"all", "partial"}
    /\ workers' = workers \cup {"packet handler"}
    /\ \E ok \in BOOLEAN : Done("filter", ok, "prepped")
    /\ UNCHANGED <<vars, events, triggered, restarting, disableShutdownEvent>>

(* filter prep: set the default firewall handler, register the four      *)
(* event hooks (a failed registration is only logged), then               *)
(* registerConfig and prepAPIAuth, either of which fails the prep.        *)
FilterPrep ==
    /\ CanPrep("filter")
    /\ fwHandler' = SetDefaultFirewallHandler("verdictHandler")
    /\ hooked' \in {"all", "partial"}
    /\ \E ok \in BOOLEAN : Done("filter", ok, "prepped")
    /\ UNCHANGED <<vars, workers, events, triggered, restarting,
                   disableShutdownEvent>>

(* filter start: getConfig, startAPIAuth, and the packet handler and     *)
(* bandwidth update workers; the stat logger only at trace log level.   *)
FilterStart ==
    /\ CanStart("filter")
    /\ \E trace \in BOOLEAN :
         workers' = workers \cup {"packet handler", "bandwidth update handler"}
                            \cup (IF trace THEN {"stat logger"} ELSE {})
    /\ Done("filter", TRUE, "started")
    /\ UNCHANGED <<vars, fwHandler, hooked, events, triggered, restarting,
                   disableShutdownEvent>>

(* network prep: the dual-stack tables when IPv6 is enabled (left out),  *)
(* then registerAPIEndpoints, which may fail.                             *)
NetworkPrep ==
    /\ CanPrep("network")
    /\ \E ok \in BOOLEAN : Done("network", ok, "prepped")
    /\ UNCHANGED <<vars, workers, fwHandler, hooked, events, triggered, restarting,
                   disableShutdownEvent>>

(* network start: registerAsDatabase and registerMetrics may fail; then  *)
(* the connection cleaner and the DNS request writer run.                 *)
NetworkStart ==
    /\ CanStart("network")
    /\ \E ok \in BOOLEAN :
         /\ workers' = IF ok THEN workers \cup {"clean connections", "write open dns requests"}
                       ELSE workers
         /\ Done("network", ok, "started")
    /\ UNCHANGED <<vars, fwHandler, hooked, events, triggered, restarting,
                   disableShutdownEvent>>

(* processes prep: registerConfiguration; start: the updates path, then   *)
(* registerAPIEndpoints.  Either may fail.                                *)
ProcessesPrep ==
    /\ CanPrep("processes")
    /\ \E ok \in BOOLEAN : Done("processes", ok, "prepped")
    /\ UNCHANGED <<vars, workers, fwHandler, hooked, events, triggered,
                   restarting, disableShutdownEvent>>

ProcessesStart ==
    /\ CanStart("processes")
    /\ \E ok \in BOOLEAN : Done("processes", ok, "started")
    /\ UNCHANGED <<vars, workers, fwHandler, hooked, events, triggered,
                   restarting, disableShutdownEvent>>

(* intel registers no prep, start or stop function; the interception     *)
(* module's prep is outside this source.                                  *)
NoPrep(m) ==
    /\ m \in {"intel", "interception"} /\ CanPrep(m)
    /\ Done(m, TRUE, "prepped")
    /\ UNCHANGED <<vars, workers, fwHandler, hooked, events, triggered,
                   restarting, disableShutdownEvent>>

IntelStart ==
    /\ CanStart("intel")
    /\ Done("intel", TRUE, "started")
    /\ UNCHANGED <<vars, workers, fwHandler, hooked, events, triggered,
                   restarting, disableShutdownEvent>>

(* The interception module's start runs Start (Windows) or                *)
(* startInterception (elsewhere); its error fails the start.              *)
InterceptionStart ==
    /\ CanStart("interception")
    /\ StartWindows \/ StartDefault
    /\ Done("interception", started' = "ok", "started")
    /\ UNCHANGED <<workers, fwHandler, hooked, events, triggered,
                   restarting, disableShutdownEvent>>

-----------------------------------------------------------------------------
(* The module manager *)

PrepDone ==
    /\ phase = "prep" /\ \A m \in Mods : mod[m] = "prepped"
    /\ phase' = "start"
    /\ UNCHANGED <<vars, mod, workers, fwHandler, hooked, events,
                   triggered, reason, restarting, disableShutdownEvent>>

StartDone ==
    /\ phase = "start" /\ \A m \in Mods : mod[m] = "started"
    /\ phase' = "running"
    /\ UNCHANGED <<vars, mod, workers, fwHandler, hooked, events,
                   triggered, reason, restarting, disableShutdownEvent>>

(* A shutdown signal, or the updates module restarting the core. *)
RequestShutdown ==
    /\ phase = "running"
    /\ \E restart \in BOOLEAN :
         /\ restarting' = restart
         /\ reason' = IF restart THEN "restart" ELSE "signal"
    /\ phase' = "shutdown"
    /\ UNCHANGED <<vars, mod, workers, fwHandler, hooked, events,
                   triggered, disableShutdownEvent>>

(* shutdownHook: the restart event when the updates module restarts the *)
(* core, otherwise the shutdown event unless the flag disables it.  An   *)
(* event the core module has not registered (its prep has not run) is    *)
(* not delivered.  The 100 ms wait is left out.                          *)
shutdownHook ==
    /\ phase = "shutdown"
    /\ triggered' = events \cap
                    (IF ~restarting THEN (IF disableShutdownEvent THEN {} ELSE {"shutdown"})
                     ELSE {"restart"})
    /\ phase' = "stopping"
    /\ UNCHANGED <<vars, mod, workers, fwHandler, hooked, events,
                   reason, restarting, disableShutdownEvent>>

(* The workers each module runs. *)
WorkersOf(m) ==
    CASE m = "filter"  -> {"packet handler", "bandwidth update handler", "stat logger"}
      [] m = "network" -> {"clean connections", "write open dns requests"}
      [] OTHER         -> {}

CanStop(m) ==
    /\ phase = "stopping" /\ mod[m] = "started"
    /\ \A d \in Dependents(m) : mod[d] # "started"

(* Stopping m: its workers are cancelled, then its stop function runs.   *)
Stopped(m) ==
    /\ mod' = [mod EXCEPT ![m] = "stopped"]
    /\ workers' = workers \ WorkersOf(m)
    /\ UNCHANGED <<phase, fwHandler, hooked, events, triggered,
                   reason, restarting, disableShutdownEvent>>

(* Modules without a stop function of their own in this source; the     *)
(* filter's stop returns nil.                                            *)
StopModule(m) ==
    /\ m # "interception" /\ CanStop(m)
    /\ Stopped(m)
    /\ UNCHANGED vars

(* The interception module's stop runs Stop (Windows) or                 *)
(* stopInterception, a no-op, elsewhere.                                 *)
InterceptionStop ==
    /\ CanStop("interception")
    /\ Stop
    /\ Stopped("interception")

Exit ==
    /\ phase = "stopping" /\ \A m \in Mods : mod[m] # "started"
    /\ phase' = "exited"
    /\ UNCHANGED <<vars, mod, workers, fwHandler, hooked, events,
                   triggered, reason, restarting, disableShutdownEvent>>

(* A fresh process: the registrations of the package init functions. *)
Fresh(ph, md, wk, fw, hk, ev, tr, rs, rt) ==
    /\ ph = "prep"
    /\ md = [m \in Mods |-> "registered"]
    /\ wk = {} /\ fw = "nil" /\ hk = "none"
    /\ ev = {} /\ tr = {} /\ rs = "none" /\ rt = FALSE

(* The process is started again; the flag may be given differently.  A   *)
(* process whose interception never started has nothing to reset there.  *)
Relaunch ==
    /\ phase = "exited"
    /\ \/ Restart
       \/ /\ started = "no" /\ runs < MaxRuns
          /\ runs' = runs + 1
          /\ UNCHANGED <<platform, kext, started, handler, dnsTask, dnscache,
                         notified>>
    /\ Fresh(phase', mod', workers', fwHandler', hooked', events',
             triggered', reason', restarting')
    /\ disableShutdownEvent' \in BOOLEAN

-----------------------------------------------------------------------------

StartupInit ==
    /\ Init
    /\ Fresh(phase, mod, workers, fwHandler, hooked, events,
             triggered, reason, restarting)
    /\ disableShutdownEvent \in BOOLEAN

ModuleStep ==
    \/ CorePrep \/ CoreStart \/ FilterPrep \/ FilterStart
    \/ NetworkPrep \/ NetworkStart \/ ProcessesPrep \/ ProcessesStart
    \/ \E m \in Mods : NoPrep(m)
    \/ IntelStart \/ InterceptionStart
    \/ \E m \in Mods : StopModule(m)
    \/ InterceptionStop

StartupNext ==
    \/ ModuleStep
    \/ PrepDone \/ StartDone \/ RequestShutdown \/ shutdownHook \/ Exit
    \/ HandleDNSCache /\ UNCHANGED lifeVars
    \/ Relaunch

StartupSpec == StartupInit /\ [][StartupNext]_allVars

-----------------------------------------------------------------------------
(* Properties *)

(* The filter's packet handler reads the Packets channel only while the   *)
(* interception module is started and, on Windows, the kext runs and its  *)
(* packet handler feeds the channel: the dependency lists order the       *)
(* filter's start after Start and its stop before Stop, through every     *)
(* failed prep or start and every restart.                                *)
PacketHandlerFed ==
    "packet handler" \in workers =>
        /\ started = "ok"
        /\ platform = "windows" => kext = "running" /\ handler

=============================================================================
