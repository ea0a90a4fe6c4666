----------------------------- MODULE Interception -----------------------------
(***************************************************************************)
(* Starting and stopping packet interception                               *)
(* (firewall/interception/interception_windows.go, interception_default.go). *)
(* On Windows, Start loads the kext's two platform files, initialises and  *)
(* starts the kext, then starts the packet handler that feeds the Packets *)
(* channel and a goroutine that stops the Windows DNS Client service       *)
(* (dnscache), or disables it when it cannot be stopped, notifying the     *)
(* user when that fails.  Elsewhere, start only logs (logs are left out). *)
(* The kext, the service manager and the update files are the environment: *)
(* each call succeeds or fails.  The process may exit (after an update, *)
(* or when a module fails to start) and be started again: the service's   *)
(* state survives that, the process's goroutines and in-memory            *)
(* notifications do not.                                                  *)
(***************************************************************************)
EXTENDS Naturals

CONSTANT MaxRuns    \* bound on the runs of the core process

Platforms == {"windows", "default"}

VARIABLES
    platform,    \* the build
    kext,        \* "none", "initialised", "running", "stopped"
    started,     \* the result of Start: "no", "ok", "error"; "stopped" after Stop
    handler,     \* the packet handler goroutine feeds Packets
    dnsTask,     \* handleWindowsDNSCache: "none", "running", "done"
    dnscache,    \* the DNS Client service: "running", "stopped", "disabled"
    notified,    \* notifications saved: subset of {"disable-dns-cache", "reboot-required"}
    runs         \* runs of the process so far

vars == <<platform, kext, started, handler, dnsTask, dnscache, notified, runs>>

-----------------------------------------------------------------------------

(* Start on Windows: each step may fail and Start returns its error; the  *)
(* steps done before it stay done.                                        *)
StartWindows ==
    /\ platform = "windows" /\ started = "no"
    /\ \E fails \in {"dll", "sys", "init", "start", "none"} :
         /\ kext' = CASE fails \in {"dll", "sys", "init"} -> kext
                      [] fails = "start"                  -> "initialised"
                      [] OTHER                            -> "running"
         /\ started' = IF fails = "none" THEN "ok" ELSE "error"
         /\ handler' = (fails = "none")
         /\ dnsTask' = IF fails = "none" THEN "running" ELSE dnsTask
    /\ UNCHANGED <<platform, dnscache, notified, runs>>

(* startInterception elsewhere: there is nothing to intercept with. *)
StartDefault ==
    /\ platform = "default" /\ started = "no"
    /\ started' = "ok"
    /\ UNCHANGED <<platform, kext, handler, dnsTask, dnscache, notified, runs>>

(* Mutant: a failed stop of the service is only logged. *)
StopFailedLogOnly(n) == n

(* Any other error of StopService: warn and ask the user to disable the *)
(* service by hand.                                                      *)
StopFailed(n) == n \cup {"disable-dns-cache"}

(* handleWindowsDNSCache: stop the service; when it cannot be stopped,   *)
(* disable it and ask for a reboot (and for disabling it by hand when    *)
(* that fails too); on another error, StopFailed.  Log lines are left    *)
(* out.                                                                  *)
HandleDNSCache ==
    /\ dnsTask = "running"
    /\ dnsTask' = "done"
    /\ \E stop \in {"ok", "notStoppable", "error"}, disabled \in BOOLEAN :
         IF stop = "notStoppable"
         THEN /\ dnscache' = IF disabled THEN "disabled" ELSE dnscache
              /\ notified' = notified \cup {"reboot-required"}
                               \cup (IF disabled THEN {} ELSE {"disable-dns-cache"})
         ELSE /\ dnscache' = IF stop = "ok" THEN "stopped" ELSE dnscache
              /\ notified' = IF stop = "ok" THEN notified ELSE StopFailed(notified)
    /\ UNCHANGED <<platform, kext, started, handler, runs>>

(* Stop on shutdown: windowskext.Stop; elsewhere a no-op.  The DNS cache *)
(* goroutine is not waited for.                                         *)
Stop ==
    /\ started = "ok"
    /\ kext' = IF platform = "windows" THEN "stopped" ELSE kext
    /\ handler' = FALSE
    /\ started' = "stopped"
    /\ UNCHANGED <<platform, dnsTask, dnscache, notified, runs>>

(* The process exits after a shutdown or a failed start and is started   *)
(* again; a DNS cache goroutine still running dies with it.              *)
Restart ==
    /\ started \in {"stopped", "error"}
    /\ runs < MaxRuns
    /\ runs' = runs + 1
    /\ kext' = "none" /\ started' = "no" /\ handler' = FALSE
    /\ dnsTask' = "none" /\ notified' = {}
    /\ UNCHANGED <<platform, dnscache>>

-----------------------------------------------------------------------------

Init ==
    /\ platform \in Platforms
    /\ kext = "none"
    /\ started = "no"
    /\ handler = FALSE
    /\ dnsTask = "none"
    /\ dnscache = "running"
    /\ notified = {}
    /\ runs = 1

Next == StartWindows \/ StartDefault \/ HandleDNSCache \/ Stop \/ Restart

Spec == Init /\ [][Next]_vars

-----------------------------------------------------------------------------
(* Properties *)

TypeOK ==
    /\ platform \in Platforms
    /\ kext \in {"none", "initialised", "running", "stopped"}
    /\ started \in {"no", "ok", "error", "stopped"}
    /\ handler \in BOOLEAN
    /\ dnsTask \in {"none", "running", "done"}
    /\ dnscache \in {"running", "stopped", "disabled"}
    /\ notified \subseteq {"disable-dns-cache", "reboot-required"}
    /\ runs \in 1..MaxRuns

(* Once the DNS cache goroutine of this run is done, the DNS Client       *)
(* service no longer runs or the user was asked to disable it: no failure *)
(* path of handleWindowsDNSCache leaves it running silently, in any run.  *)
DNSCacheHandled ==
    dnsTask = "done" => dnscache # "running" \/ "disable-dns-cache" \in notified

=============================================================================
