--------------------------- MODULE ProcessResolver ---------------------------
(***************************************************************************)
(* Resolving the origin of an API request to a process with its profile:  *)
(* GetProcessByRequestOrigin, which calls GetPidOfConnection and then      *)
(* GetProcessWithProfile (process/find.go).  Handlers run concurrently and *)
(* share the process cache: a process record is created on the first      *)
(* lookup of its pid, when the tag handlers run (the svchost handler of    *)
(* process/tags/svchost_windows.go), and its profile is refreshed on every *)
(* lookup; a changed profile is persisted with process.Save.              *)
(*                                                                         *)
(* Process detection is the configuration option                           *)
(* core/enableProcessDetection, read by both functions.  On platforms      *)
(* without socket tables (network/state/system_default.go) CheckPID        *)
(* returns the socket info's pid, which is Undefined, and a goroutine sets *)
(* the option's default to off one minute after start.                    *)
(*                                                                         *)
(* GetOrFindProcess, process.GetProfile and process.Save are not in this   *)
(* source and follow spec 4.2: a record is cached by pid, GetProfile      *)
(* attaches the profile derived from the tags or the executable and says  *)
(* whether it changed, and a change is persisted with Save.              *)
(* A profile is identified by what it is derived from and by the revision *)
(* of the profile configuration.                                           *)
(***************************************************************************)
EXTENDS Naturals, Sequences

CONSTANTS
    Handlers,       \* concurrent API request handlers
    Pids,           \* real process ids
    Exec,           \* [Pids -> executable names]
    ServiceNames,   \* [Pids -> Seq(Seq(segments))]: GetServiceNames, split at "_"
    MaxEdits,       \* bound on profile configuration changes
    Unidentified,   \* process.UnidentifiedProcessID
    Error,          \* a request answered with an error
    None            \* no record / no profile / no result

Platforms == {"linux", "default"}

VARIABLES
    platform,   \* the build: Linux, or a platform without socket tables
    detection,  \* core/enableProcessDetection
    userSet,    \* the user configured the option (a default change is hidden)
    timer,      \* system_default.go's init goroutine: "sleeping" or "done"
    procs,      \* [Pids -> None or [tags, profile]]: the process cache
    edits,      \* revision of the profile configuration
    pc,         \* [Handlers -> step]
    hpid,       \* [Handlers -> pid]: the pid GetPidOfConnection returned
    out         \* [Handlers -> the request's result]

vars == <<platform, detection, userSet, timer, procs, edits, pc, hpid, out>>

-----------------------------------------------------------------------------
(* The svchost tag handler *)

svchostTagKey == "svchost"

(* Mutant: the per-user suffix is not cut off the service name. *)
AddTagsNoCut(exec, err, names) ==
    IF exec # "svchost.exe" \/ err # "nil" THEN << >>
    ELSE [i \in DOMAIN names |-> names[i]]

(* AddTags: for svchost.exe whose service names could be read, one tag   *)
(* per service, the name cut at its first "_" (CDPUserSvc_1bf5729 ->     *)
(* CDPUserSvc).  Other executables, and a failed read, add no tags.      *)
AddTags(exec, err, names) ==
    IF exec # "svchost.exe" \/ err # "nil" THEN << >>
    ELSE [i \in DOMAIN names |-> names[i][1]]

(* CreateProfile: the profile of the first svchost tag, or None to skip. *)
CreateProfile(tags) ==
    IF tags = << >> THEN None ELSE <<svchostTagKey, tags[1]>>

(* The profile GetProfile attaches: the tag handler's, else the one of   *)
(* the executable; at the current configuration revision.                *)
ProfileOf(p, tags, rev) ==
    [id  |-> IF CreateProfile(tags) # None THEN CreateProfile(tags)
             ELSE <<"exec", Exec[p]>>,
     rev |-> rev]

-----------------------------------------------------------------------------
(* Environment *)

(* The user sets the option. *)
SetDetection(v) ==
    /\ detection' = v
    /\ userSet' = TRUE
    /\ UNCHANGED <<platform, timer, procs, edits, pc, hpid, out>>

(* A profile configuration change. *)
EditProfile ==
    /\ edits < MaxEdits
    /\ edits' = edits + 1
    /\ UNCHANGED <<platform, detection, userSet, timer, procs, pc, hpid, out>>

(* system_default.go init: after a minute, the option's default becomes *)
(* off; a value the user set stays in force.                             *)
DisableDetectionDefault ==
    /\ platform = "default"
    /\ timer = "sleeping"
    /\ timer' = "done"
    /\ detection' = IF userSet THEN detection ELSE FALSE
    /\ UNCHANGED <<platform, userSet, procs, edits, pc, hpid, out>>

-----------------------------------------------------------------------------
(* Request handlers *)

Finish(h, result) ==
    /\ out' = [out EXCEPT ![h] = result]
    /\ pc' = [pc EXCEPT ![h] = "done"]

(* GetProcessByRequestOrigin up to GetPidOfConnection (outbound): the    *)
(* remote address may not parse; detection off gives Unidentified; on    *)
(* Linux the lookup finds a pid, finds none (Unidentified) or fails;     *)
(* elsewhere CheckPID returns the socket info's Undefined pid.           *)
RequestOrigin(h) ==
    /\ pc[h] = "idle"
    /\ \E parsed \in BOOLEAN, found \in Pids \cup {Unidentified, Error} :
         LET pid == CASE ~detection          -> Unidentified
                      [] platform = "linux"  -> found
                      [] OTHER               -> Unidentified
         IN  IF ~parsed \/ pid = Error
             THEN Finish(h, Error) /\ UNCHANGED hpid
             ELSE /\ hpid' = [hpid EXCEPT ![h] = pid]
                  /\ pc' = [pc EXCEPT ![h] = "find"]
                  /\ UNCHANGED out
    /\ UNCHANGED <<platform, detection, userSet, timer, procs, edits>>

(* GetProcessWithProfile up to GetOrFindProcess.  Detection off, or the  *)
(* Unidentified pid, gives the Unidentified process.  A cached record is *)
(* reused; otherwise the process is read, which fails for a process that *)
(* is gone (GetProcessByRequestOrigin then answers with the error), and  *)
(* the tag handlers run on the new record.                               *)
FindProcess(h) ==
    /\ pc[h] = "find"
    /\ LET p == hpid[h] IN
       IF ~detection \/ p = Unidentified
       THEN Finish(h, Unidentified) /\ UNCHANGED procs
       ELSE IF procs[p] # None
       THEN /\ pc' = [pc EXCEPT ![h] = "profile"]
            /\ UNCHANGED <<procs, out>>
       ELSE \E read \in BOOLEAN, err \in {"nil", "notfound", "other"} :
              IF ~read THEN Finish(h, Error) /\ UNCHANGED procs
              ELSE /\ procs' = [procs EXCEPT ![p] =
                        [tags |-> AddTags(Exec[p], err, ServiceNames[p]),
                         profile |-> None]]
                   /\ pc' = [pc EXCEPT ![h] = "profile"]
                   /\ UNCHANGED out
    /\ UNCHANGED <<platform, detection, userSet, timer, edits, hpid>>

(* process.GetProfile: attach the current profile; a change is saved.     *)
(* Loading the profile can fail (the profile store is not in this        *)
(* source): the error is only logged, the record keeps the profile it    *)
(* had, nothing is reported as changed, and the process is returned.     *)
GetProfile(h) ==
    /\ pc[h] = "profile"
    /\ LET p   == hpid[h]
           new == ProfileOf(p, procs[p].tags, edits)
       IN  \/ /\ procs' = [procs EXCEPT ![p].profile = new]
              /\ IF procs[p].profile # new
                 THEN pc' = [pc EXCEPT ![h] = "save"] /\ UNCHANGED out
                 ELSE Finish(h, p)
           \/ Finish(h, p) /\ UNCHANGED procs
    /\ UNCHANGED <<platform, detection, userSet, timer, edits, hpid>>

(* process.Save persists the record (the database is not modelled). *)
Save(h) ==
    /\ pc[h] = "save"
    /\ Finish(h, hpid[h])
    /\ UNCHANGED <<platform, detection, userSet, timer, procs, edits, hpid>>

(* The handler returns; it takes the next request. *)
Return(h) ==
    /\ pc[h] = "done"
    /\ pc' = [pc EXCEPT ![h] = "idle"]
    /\ out' = [out EXCEPT ![h] = None]
    /\ hpid' = [hpid EXCEPT ![h] = Unidentified]
    /\ UNCHANGED <<platform, detection, userSet, timer, procs, edits>>

-----------------------------------------------------------------------------

Init ==
    /\ platform \in Platforms
    /\ userSet \in BOOLEAN
    /\ detection \in IF userSet THEN BOOLEAN ELSE {TRUE}
    /\ timer = "sleeping"
    /\ procs = [p \in Pids |-> None]
    /\ edits = 0
    /\ pc = [h \in Handlers |-> "idle"]
    /\ hpid = [h \in Handlers |-> Unidentified]
    /\ out = [h \in Handlers |-> None]

Handler(h) ==
    \/ RequestOrigin(h) \/ FindProcess(h) \/ GetProfile(h) \/ Save(h) \/ Return(h)

Next ==
    \/ \E v \in BOOLEAN : SetDetection(v)
    \/ EditProfile
    \/ DisableDetectionDefault
    \/ \E h \in Handlers : Handler(h)

Spec == Init /\ [][Next]_vars

-----------------------------------------------------------------------------
(* Properties *)

Segments == UNION {UNION {{ServiceNames[p][i][j] : j \in DOMAIN ServiceNames[p][i]}
                           : i \in DOMAIN ServiceNames[p]} : p \in Pids}
Profile == [id : ({svchostTagKey} \X Segments) \cup ({"exec"} \X {Exec[p] : p \in Pids}),
            rev : 0..MaxEdits]

TypeOK ==
    /\ platform \in Platforms
    /\ detection \in BOOLEAN /\ userSet \in BOOLEAN
    /\ timer \in {"sleeping", "done"}
    /\ \A p \in Pids :
         \/ procs[p] = None
         \/ /\ procs[p].tags \in Seq(Segments)
            /\ procs[p].profile \in Profile \cup {None}
    /\ edits \in 0..MaxEdits
    /\ pc \in [Handlers -> {"idle", "find", "profile", "save", "done"}]
    /\ hpid \in [Handlers -> Pids \cup {Unidentified}]
    /\ out \in [Handlers -> Pids \cup {Unidentified, Error, None}]

=============================================================================
