# TLA+ models of the Portmaster decision pipeline

These modules model the parts of `src/` that decide whether a connection is
allowed. Each module is written from the Go code. The run table below says
what TLC checks, and `PROJECT.json` maps every definition to the source lines
it stands for.

## 1. The system and its parts

A packet reaches the firewall through the interception layer's bounded
channel (`firewall/interception`). A packet-handler worker then needs the
connection's owning process:

1. **PID correlation.** `process.GetPidOfConnection` (`process/find.go`)
   either takes the pid the kernel extension set on the packet, or calls
   `state.Lookup`.
2. On Linux, the lookup goes through `CheckPID`
   (`network/state/system_linux.go`). CheckPID calls `proc.GetPID` up to 20
   times with a growing sleep.
3. `GetPID` (`network/proc/findpid.go`) reuses the pid already stored on the
   shared `socket.Info`, or runs `findPID`.
4. `findPID` searches a cached uid → pids map, newest pid first, by reading
   `/proc/<pid>/fd`. When the uid is missing or the search misses, it refreshes
   the map once (`updatePids`). It retries `lookupRetries` more times with
   back-off, and finally stores the result with `SetPID`.
5. **BypassGuard.** The verdict handler runs `PreventBypassing`
   (`firewall/bypassing.go`) before the endpoint rules. It is a fixed chain of
   checks against DNS-filter evasion.
6. **VerdictEngine.** Verdicts are cached per connection.
   `firewall/module.go` registers hooks on four events (configuration change,
   profile change, SPN connect, account update). Each hook resets all cached
   verdicts, and they are recomputed on the next packet.
7. **Process resolution.** API requests find the process that sent them
   with `GetProcessByRequestOrigin` (`process/find.go`). It calls
   GetPidOfConnection, then `GetProcessWithProfile`, which reuses or creates
   the cached process record. On creation, tag handlers such as the svchost
   handler (`process/tags/svchost_windows.go`) run. It refreshes the record's
   profile and saves the record when the profile changed. Requests run
   concurrently and share records.
8. **Interception start-up.** On Windows, `Start`
   (`firewall/interception/interception_windows.go`) loads and starts the
   kernel extension. It then starts the packet handler and a goroutine that
   stops or disables the Windows DNS Client service. On platforms without
   interception support, start only logs a message. The same goes
   for the no-op socket tables of `network/state/system_default.go`, whose
   init goroutine turns process detection off after a minute.
9. **Module lifecycle.** `cmds/portmaster-core/main.go` imports the
   packages whose `init` functions register the modules (`core`, `filter`,
   `network`, `processes`, `intel`, `interception`, ...) with their
   dependencies, then hands control to the portbase module manager. The
   manager prepares and starts the modules in dependency order. On shutdown it
   runs the core's `shutdownHook` (`core/core.go`), which triggers the restart
   or the shutdown event for the clients. It then stops the modules in
   reverse order. The filter's packet handler worker reads the channel that
   the interception module's Start feeds.
10. **Netquery.** Independently of the pipeline, the query handler
   (`netquery/query_handler.go`) turns an HTTP query payload into one SQL query
   over the connection history.

## 2. Inventory

| Component | State | Operations | Hard behaviour |
|---|---|---|---|
| PID correlation (`findpid.go`, `system_linux.go`) | cached uid → pids map; pid stored on the shared socket info | GetPID, findPID (lookup, forced refresh, back-off), SetPID, CheckPID loop | concurrent lookups of one socket; stale cache; a socket that shows up late; nested retry loops |
| Process detection entry (`find.go`) | none of its own | GetPidOfConnection: detection off, kext pid, lookup error, lookup, fallback to Unsolicited/Unidentified | the fallback depends on direction and destination |
| BypassGuard (`bypassing.go`) | none (pure) | PreventBypassing | the order of the checks |
| VerdictEngine hooks (`module.go`, interception channel) | per-connection verdict and reset flag; the packet queue | event hooks → reset all; workers decide and cache | a reset racing a decision; resets overlapping; the queue at capacity |
| Process resolution (`find.go`, `svchost_windows.go`, `system_default.go`) | process cache by pid; detection option | GetProcessByRequestOrigin, GetProcessWithProfile (find, GetProfile, Save), AddTags, CreateProfile, the default-off timer | two requests refreshing one shared record; the option changing between two reads |
| Interception start-up (`interception_windows.go`, `interception_default.go`) | kext state, DNS Client service, notifications | Start (four failing steps), Stop, handleWindowsDNSCache, startInterception | partial start; a goroutine cut off by shutdown; failure paths of the service handling |
| Module lifecycle (`core.go`, `firewall/module.go`, `network/module.go`, `process/module.go`, `intel/module.go`, `main.go`) | module states, running workers, default firewall handler, registered and triggered events | Register (dependencies), each prep, start and stop, SetDefaultFirewallHandler, shutdownHook | failures at any prep or start; the packet handler against the kext start and stop |
| Netquery handler (`query_handler.go`) | per-request selected and whitelisted names, parameter map | ServeHTTP, parseRequest, prepareSelectedFields, validateColumnName, group-by, order-by | names validated against state the request itself built up |

Properties per component:
- **PID correlation:**
  - never give up while the socket is visible in a live process;
  - a stored pid never regresses to Undefined;
  - the back-off stays within its documented bound.
- **BypassGuard:** agrees with the spec's ordered chain.
- **VerdictEngine:**
  - stale verdicts are always flagged;
  - the cache converges once changes stop;
  - both only when every reset hook registered: a failed registration
    leaves stale verdicts in use (a finding).
- **Process resolution:** every svchost tag is a service name cut at its
  first `_` (the type invariant).
- **Interception:**
  - no failure path leaves the DNS Client running without telling the user.
- **Module lifecycle:**
  - the filter's packet handler only runs while interception feeds it.
- **Netquery:**
  - GROUP BY and ORDER BY only name what the query defines;
  - only identifiers reach the SQL;
  - `$min` is treated like `$sum`.

## 3. Modules

**`PidLookup` / `MC_PidLookup`** model GetPidOfConnection, GetPID, findPID,
SetPID and CheckPID.
- Handlers are threads with a program counter `pc`:
  `idle → getpid → find1 → find2 → setpid → checked`.
- Each action is one step of the code:
  - `GetPidOfConnection` has the four early outcomes of `find.go:47-70`;
  - `FindPIDLookup` is the cached search, with a refresh when the uid is missing (`findpid.go:46-67`);
  - `FindPIDRefresh` is the forced refresh and second search (69-83);
  - `EndIteration` is the back-off or the give-up (85-96);
  - `SetPID` (36);
  - `CheckPID` is the retry loop (`system_linux.go:24-42`).
- The search over `/proc/<pid>/fd` is the operator `SearchPids`: the highest
  live pid of the uid that holds the socket.
- The kernel is the environment. Processes spawn and exit, and a socket
  appears in its owner's fd table at some later step.
- Sleeps are counted, in units of `baseWaitTime` (3 ms), in `waited`.
- `updatePids` is not in `src/`. It is modelled from spec 4.1 as an atomic
  snapshot of the live processes (`Snapshot`).
- A pid that exits can be spawned again.

**`BypassGuard` / `MC_BypassGuard`** model PreventBypassing.
- PreventBypassing is a `CASE` chain in the code's order.
- The MC module enumerates every connection:
  - inbound or not;
  - four protocols;
  - the canary domain in two cases and an ordinary domain;
  - DNS request or not;
  - system resolver or not;
  - ports 53, 443 and 853;
  - filter-list membership.
- It compares the result with `SpecChain`, the chain of spec 4.4.

**`VerdictEngine` / `MC_VerdictEngine`** model the verdict engine.
- The configuration is a `version` number.
- `Change(e)` triggers one of the four events.
- `EventHook(e)` is the hook `prep` registers. It starts a reset of every
  connection if `e` is in the constant `Registered` (`module.go:37-94`).
  `RegisterEventHook` can fail, and the code only logs the error, so
  `Registered` is the set of hooks that exist in a given build.
- `ResetConn(c)` flags one connection under its lock.
- Workers follow `Dequeue → Lock → UseCache → StoreVerdict`.
  - `UseCache` reuses a cached, unflagged verdict.
  - Otherwise the worker reads the current version, and `StoreVerdict`
    caches `Decide(c, version)` with that version as its basis.
  - `Decide` runs `PreventBypassing` first.
- `Intercept` appends to the channel only below its capacity
  (`interception_windows.go:18`).
- The packet handler and `resetAllConnectionVerdicts` are not in `src/`. They
  are modelled from spec 4.5 and 5 and marked `spec_modelled` in the map.
  An earlier refinement check against an abstract verdict cache was dropped:
  every action that changes the cache is one of these spec-modelled ones, so
  it said nothing about `src/`.

**`QueryHandler` / `MC_QueryHandler`** model the netquery handler.
- The code's functions are operators over the request:
  - `PrepareSelectedFields` is RECURSIVE over the select list;
  - `validateColumnName` checks the schema, then the whitelist, then the
    selected fields;
  - `generateGroupByClause` and `generateOrderByClause`;
  - `generateSQL` runs the steps in the code's order, and the first error wins;
  - `ServeHTTP` gives the status: 400, 500 or 200.
- The SQL is kept as its parts. Each select entry carries the string
  `validateColumnName` compares names with, formatted as the code formats it,
  and the identifiers it puts into the text.
- The where clause, the text search and the execution are not in `src/`. Each
  is an input that fails or not (`fail`).
- `parseRequest` takes the method and the kind of body: the known payload,
  one with an unknown field, empty, malformed, or unreadable. It decodes as
  the code does, with `json.Unmarshal`, not with the decoder it configures.
- The server state machine is `Receive → Respond → Return`, one request at a
  time.

**`ProcessResolver` / `MC_ProcessResolver`** model process resolution for
API requests.
- Handlers are threads with `pc`: `idle → find → profile → save → done`.
- `RequestOrigin` is GetProcessByRequestOrigin up to GetPidOfConnection
  (`find.go:115-135`). A remote address may fail to parse. Detection off gives
  Unidentified. On Linux the lookup finds a pid, finds none or fails. On other
  platforms `CheckPID` (`system_default.go:47-51`) gives the Undefined pid,
  which falls back to Unidentified.
- `FindProcess` is GetProcessWithProfile up to GetOrFindProcess
  (`find.go:20-30`). A new record gets the tags of `AddTags`
  (`svchost_windows.go:50-78`): one per service, cut at the first `_`.
- `GetProfile` (32-36) attaches `ProfileOf`: the profile of `CreateProfile`
  (80-102), otherwise the executable's, at the current configuration
  revision. A change leads to `Save` (37-39); the database it writes is not
  modelled. Loading the profile may fail: the error is only
  logged (33-35), the record keeps the profile it had, and the process is
  returned.
- `SetDetection` and `EditProfile` are the user. `DisableDetectionDefault` is
  the init goroutine of `system_default.go:18-29`, which does not override a
  value the user set.
- GetOrFindProcess, process.GetProfile and Save are not in `src/`. They follow
  spec 4.2; `ProfileOf` is marked `spec_modelled`.

**`Interception`** models the interception start-up and shutdown.
- `StartWindows` (`interception_windows.go:21-47`) fails at the dll, the sys
  file, Init or Start, or starts the packet handler and the DNS cache
  goroutine. Steps done before a failure stay done.
- `HandleDNSCache` (54-93) covers the three outcomes of StopService. For
  "not stoppable" it tries DisableDNSCache and returns. For any other error
  it notifies (`StopFailed`). Log lines are left out.
- `StartDefault` (`interception_default.go:11-15`) only logs, so it only
  marks the module started.
- `Stop` (49-52) stops the kext. `Restart` is the process exiting (after a
  shutdown or a failed start) and coming back. The DNS Client service's state
  survives it; the goroutines and the in-memory notifications do not.

**`Startup`** composes `Interception` (by EXTENDS) with the module
lifecycle. The portbase module manager is the environment: `CanPrep`,
`CanStart`, `CanStop`, `PrepDone`, `StartDone`, `Exit` and `Relaunch` are its
steps.
- The dependency sets (`CoreDeps`, `FilterDeps`, `NetworkDeps`, ...) are
  those of the `modules.Register` calls, restricted to the modules above.
- Each module function is an action: `CorePrep` (registerEvents, then two
  calls that may fail), `CoreStart`, `FilterPrep` (SetDefaultFirewallHandler,
  four hook registrations that may fail and are only logged, two calls that
  may fail), `FilterStart` (its workers, the stat logger only at trace
  level), `NetworkPrep`, `NetworkStart`, `ProcessesPrep`, `ProcessesStart`
  and the nil functions of intel.
- `InterceptionStart` is `StartWindows` or `StartDefault`; its error fails
  the start. `InterceptionStop` is `Stop`.
- A failed prep or start aborts: the manager shuts down.
- `shutdownHook` picks the restart event when the updates module is
  restarting, otherwise the shutdown event unless the flag disables it. An
  event the core has not registered yet is not delivered.
- Stopping a module cancels its workers and then runs its stop function. A
  module stops only when none of its started dependents is still running.
- `Relaunch` starts the process again (Interception's `Restart`).

## 4. Runs

| Run | Checks | Expect | Result |
|---|---|---|---|
| `pid_lookup` (`PidLookup.cfg`) | `TypeOK`, `GiveUpOnlyWhenAbsent` | pass | ≈825k states, 15 s |
| `pid_regress` (`PidRegress.cfg`) | `PidNeverRegresses` | violation | a miss overwrites a stored pid |
| `pid_latency` (`PidLatency.cfg`) | `WaitWithinComment` | violation | 329 × 3 ms = 987 ms of back-off |
| `bypass_guard` (`BypassGuard.cfg`) | `BypassAgreesWithSpec` | pass | 1,152 states |
| `verdict_engine` (`VerdictEngine.cfg`) | `TypeOK`, `StaleVerdictIsFlagged`, `EventuallyConsistent` | pass | ≈633k states, ~1.5 min |
| `verdict_hook_fail` (`VerdictHookFail.cfg`) | `StaleVerdictIsFlagged` | violation | the SPN connect hook failed to register; an SPN change leaves a stale verdict unflagged |
| `process_resolver` (`ProcessResolver.cfg`) | `TypeOK` | pass | ≈23k states |
| `startup` (`Startup.cfg`) | `DNSCacheHandled`, `PacketHandlerFed` | pass | 15,400 states, 2 s |
| `query_handler` (`QueryHandler.cfg`) | `OrderAndGroupResolve` | pass | ≈23k states |
| `query_injection` (`QhInjection.cfg`) | `SQLNamesAreIdentifiers` | violation | a `$count` `as` name reaches the SQL |
| `query_decode` (`QhDecode.cfg`) | `DecodedAsConfigured` | violation | an empty body is refused with 400 |
| `query_min` (`QhMin.cfg`) | `MinAcceptedLikeSum` | violation | `$min` over a condition → 400 |

Every property of a passing run has a mutant in `PROJECT.json`: a plausible
bug in a mapped definition, which TLC detects.
- `AnotherIterationOffByOne` (of `AnotherIteration`): `<=` for `<` in the back-off bound.
- `ForcedRefreshNever` (of `ForcedRefresh`): the forced refresh after a miss is dropped.
- `PreventBypassingResolverFirst`: the resolver exemption moves before the
  canary check.
- `InterceptUnbounded`: the channel grows without bound.
- `EventHookSkipWhileRunning` (for both `StaleVerdictIsFlagged` and
  `EventuallyConsistent`): a hook skips its reset while another reset runs.
- `validateColumnNameAnyName`: the final error is dropped.
- `AddTagsNoCut`: the per-user suffix stays on the service name.
- `StopFailedLogOnly` (of `StopFailed`): a failed stop is only logged.
- `FilterPrepStartsWorkers`: the packet handler worker is started in prep,
  before interception has started.

### Findings

1. **The pid regresses** (`findpid.go:36`). `GetPID` stores findPID's result
   even when it is Undefined. Two handlers look up one socket. t1's last search
   misses. The socket appears. t2 finds the pid and stores it. Then t1 stores
   Undefined over it. Spec section 3 says a resolved pid never regresses.
2. **The back-off is ten times the comment** (`system_linux.go:16,36`).
   - CheckPID sleeps 3 ms × (2 + … + 20) = 627 ms between tries.
   - Every failing GetPID also sleeps 3 + 6 + 9 ms in findPID: 20 × 18 ms = 360 ms.
   - The total is 987 ms, against "up to 100ms", "84ms in total" and the
     spec's "tens of milliseconds".
3. **Unvalidated `as` names reach the SQL** (`query_handler.go:250,258,285,312`).
   - The `as` of `$count`, `$sum` and `$min` is formatted into the select list
     as given.
   - It is then whitelisted, so GROUP BY and ORDER BY accept it too.
4. **`$min` over a condition is always rejected** (`query_handler.go:237`). The
   guard that skips validating `"*"` names `Count` and `Sum` but not `Min`.

5. **Unknown fields are accepted, an empty body refused**
   (`query_handler.go:131`). parseRequest builds a decoder with
   `DisallowUnknownFields` and exempts `io.EOF`, then decodes with
   `json.Unmarshal`. A misspelt field is dropped silently. An empty body (a
   GET without `q`) gets 400 instead of running the empty query.
6. **A failed hook registration leaves verdicts stale** (`module.go:48`).
   prep only logs an error of `RegisterEventHook`, for each of the four
   hooks. Spec 4.5 has every configuration, profile, SPN and account event
   reset the verdicts. In a build where one registration fails, a change of
   that kind leaves verdicts from the old rules cached and reused.

Also noted, but not findings (no run checks them, see the hazards in
`PROJECT.json`):
- A shared svchost gets the first service's profile (`svchost_windows.go:83`).
  AddTags adds one tag per hosted service, but CreateProfile takes
  `p.GetTag`, the first. Spec 4.2 does not say what a process hosting
  several services should get.
- A failed GetProfile is only logged (`find.go:33`): on a process's first
  lookup the process is returned without a profile and without an error.
  The model keeps this branch as a fault of GetProfile.
- For port 53 the code answers with
`nsutil.BlockIP()`, where spec 4.4 step 5 says "NXDOMAIN-equivalent block".
The spec's wording allows either reading.

## 5. Bounds and why they are enough

**`pid_lookup`:**
- 2 handlers, 1 socket, 3 pids over 2 uids.
- The socket's owner (pid 2) shares its uid with pid 1, so a cached list can
  be stale for that uid.
- `lookupRetries = 1` and `lookupTries = 2` keep every branch (refresh,
  retry, give up, re-try in CheckPID) while bounding the counters.
- Two handlers are the fewest that race on one socket info.

**`pid_latency`:** runs one handler with the code's values (3 and 20) because
the question is numeric.

**`verdict_engine`:**
- 2 workers, 2 connections (one plain, one DoT on port 853, which BypassGuard
  denies and reports).
- 2 configuration changes, a channel of 2.
- That is enough for a worker to hold one connection while a reset flags the
  other and two resets overlap.
- The endpoint rules' answer cycles through Permitted, Denied and Undecided
  with the version, so verdicts really change.

**`query_handler`:**
- One schema column, an alias `c`, an unknown name, `*`, and an unsafe `as`
  string.
- Every kind of select, with every `as` and condition outcome that changes
  the path.
- Up to two selects, so a later select can use an earlier one's name.
- One group-by name and one order-by name.
- Every failure point of ServeHTTP.

**`process_resolver`:**
- 2 handlers, so two requests can share a record.
- 2 pids: svchost.exe hosting `CDPUserSvc_1bf5729` and `Dnscache`, and
  firefox.exe.
- 1 profile edit, so a record's profile changes after it was first attached.
- Both platforms, and an initial option set by the user or not.

**`verdict_hook_fail`:** the `verdict_engine` instance with the SPN connect
hook missing from `Registered`. The filter does not depend on the module
that owns that event (`module.go:17`), which is one way the registration can
fail.

**`startup`:** both platforms and every outcome of each call that can fail,
in every module. `MaxRuns = 3` runs of the process allow a restart after a
failed start and after a shutdown or update restart of a running core, with
the DNS cache goroutine cut off or not. The bound is also why deadlock is not
checked: the last permitted run ends. Redundant dependencies are real: filter
depends on interception directly and through core, so dropping either entry
alone keeps the order, and the mutant for `PacketHandlerFed` moves the worker
into prep instead.

## 6. Fairness

`VerdictEngine` assumes:
- **Weak fairness for each worker.** The packet handlers are service workers
  started in `start()` (`module.go:107`).
- **Weak fairness for event delivery.** The hooks run as soon as the event is
  triggered.
- **Strong fairness for taking a connection's lock, for workers and for
  reset.** Go's `sync.Mutex` enters starvation mode and hands the lock to a
  waiter that keeps losing it.

Packets and configuration changes are not fair: they may stop.

The other modules check only safety and assume no fairness. A liveness
property that `Startup` once checked (every shutdown completes) followed from
the modelled module manager alone, since nothing in `src/` can block a stop,
and was dropped.

## 7. Not modelled, and the plan

- **`updatePids` and the socket tables, `state.Lookup`.** Not in `src/`. The
  refresh is an atomic snapshot. The spec's single-flight refresh is therefore
  not checked.
- **`GetNetworkHost`.** It builds a fresh record and asks the profile store
  (not in `src/`) for its profile. It shares no state with other calls.
- **`core/config.go`.** registerConfig registers one expert option whose
  value nothing in `src/` reads; its failure is an input of `CorePrep`.
- **The portbase module manager.** Not in this repository: its order, abort
  and stop rules are the environment of `Startup`, taken from its
  documented behaviour.
- **`decider_grpc.pb.go`.** Generated code.
- **`mergeParams`.** Parameter names come from `toSQLWhereClause`, which is not
  in `src/`, so whether two clauses can produce the same key is unknown here.
- **The kext itself** (`windowskext`). Not in `src/`. Start and Stop are
  calls that succeed or fail.

Planned modules, in order:
1. `EndpointMatcher`. Modelled from spec 4.3 (the matcher is not in `src/`)
   and checked against the fixtures of `profile/endpoints/endpoints_test.go`.
   Covers the wildcard classes, port ranges and CIDR, with layer evaluation
   as a RECURSIVE operator.
2. A composition of `PidLookup` with `VerdictEngine`. A connection's verdict
   would depend on the pid it is attributed to, to check that a regressed pid
   changes a cached verdict only through a reset.
