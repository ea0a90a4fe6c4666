----------------------------- MODULE PidLookup -----------------------------
(***************************************************************************)
(* Correlating a socket with its owning process (Linux).                   *)
(*                                                                         *)
(* Threads are packet handlers running GetPidOfConnection                  *)
(* (process/find.go) concurrently.  A lookup goes through state.Lookup    *)
(* into CheckPID (network/state/system_linux.go), which calls GetPID and   *)
(* findPID (network/proc/findpid.go) up to LookupTries times.  findPID     *)
(* searches the cached uid -> pids map, refreshing it with updatePids,     *)
(* up to LookupRetries + 1 times with a linear back-off.  The PID found is *)
(* stored on the shared socket.Info, which later lookups reuse.            *)
(*                                                                         *)
(* The kernel is the environment: processes start and exit, and a socket   *)
(* shows up in its owner's /proc/<pid>/fd some time after it exists.       *)
(* Sleeps are not modelled as waiting but counted, in units of             *)
(* baseWaitTime, in waited.                                                *)
(***************************************************************************)
EXTENDS Integers, FiniteSets, FiniteSetsExt

CONSTANTS
    Threads,        \* concurrent packet handlers
    Pids,           \* process ids (integers: the search order is numeric)
    Uids,           \* user ids
    Owner,          \* [Pids -> Uids]: the user running each pid
    Sockets,        \* socket inodes
    SockOwner,      \* [Sockets -> Pids]: the process that creates the socket
    KextPids,       \* PIDs a kernel extension may preset on a packet
    LookupRetries,  \* findpid.go: lookupRetries
    LookupTries,    \* system_linux.go: lookupTries
    Undefined,      \* socket.UndefinedProcessID
    Unidentified,   \* process.UnidentifiedProcessID
    Unsolicited     \* process.UnsolicitedProcessID

ASSUME /\ Owner \in [Pids -> Uids]
       /\ SockOwner \in [Sockets -> Pids]
       /\ KextPids \subseteq Pids
       /\ LookupRetries \in Nat /\ LookupTries \in Nat \ {0}
       /\ {Undefined, Unidentified, Unsolicited} \cap Pids = {}

VARIABLES
    alive,       \* pids of running processes
    fds,         \* [Pids -> SUBSET Sockets]: sockets listed in /proc/<pid>/fd
    sockState,   \* [Sockets -> {"none", "open", "closed"}]
    pidsByUser,  \* the cached uid -> pids map: a function on the cached uids
    socketPid,   \* [Sockets -> Pids \cup {Undefined}]: socket.Info's PID
    pc,          \* program counter of each handler
    sock,        \* the socket a handler is looking up
    miss,        \* the special pid GetPidOfConnection falls back to for this packet
    iter,        \* findPID's loop counter i
    try,         \* CheckPID's loop counter i
    updated,     \* findPID's pidsUpdated
    found,       \* the pid the current GetPID / findPID call produced
    waited,      \* back-off slept by the current lookup, in baseWaitTime units
    connPid      \* the pid GetPidOfConnection last returned, per handler

kernelVars == <<alive, fds, sockState>>
threadVars == <<pc, sock, miss, iter, try, updated, found, waited, connPid>>
vars == <<kernelVars, pidsByUser, socketPid, threadVars>>

Special == {Undefined, Unidentified, Unsolicited}

(* The socket table reports the uid of the socket's creator. *)
SockUid(s) == Owner[SockOwner[s]]

(* updatePids: a fresh uid -> pids map of the running processes. *)
Snapshot ==
    [u \in {Owner[p] : p \in alive} |-> {p \in alive : Owner[p] = u}]

(* getPidsByUser(uid) against the map m: the pids, or {} when not ok. *)
PidsOf(m, u) == IF u \in DOMAIN m THEN m[u] ELSE {}

(* The reverse-order scan of findSocketFromPid over the pid list: the     *)
(* highest pid whose fd directory links to socket:[inode], or Undefined.  *)
SearchPids(pids, s) ==
    LET holders == {p \in pids : s \in fds[p]}
    IN  IF holders = {} THEN Undefined ELSE Max(holders)

(* GetPidOfConnection's fallback to the special profiles when the pid is *)
(* Undefined: Unsolicited for an inbound packet to a non-localhost        *)
(* address, Unidentified otherwise.                                       *)
FallbackPid(inbound, dstLocal) ==
    IF inbound /\ ~dstLocal THEN Unsolicited ELSE Unidentified

Fallback(pid, missPid) == IF pid # Undefined THEN pid ELSE missPid

-----------------------------------------------------------------------------
(* Kernel *)

(* A process starts, possibly under the pid of one that exited. *)
Spawn(p) ==
    /\ p \notin alive
    /\ alive' = alive \cup {p}
    /\ fds' = [fds EXCEPT ![p] = {}]
    /\ UNCHANGED <<sockState, pidsByUser, socketPid, threadVars>>

(* A process exits: its fds vanish and the sockets it created close. *)
Exit(p) ==
    /\ p \in alive
    /\ alive' = alive \ {p}
    /\ fds' = [fds EXCEPT ![p] = {}]
    /\ sockState' = [s \in Sockets |->
                        IF SockOwner[s] = p /\ sockState[s] = "open"
                        THEN "closed" ELSE sockState[s]]
    /\ UNCHANGED <<pidsByUser, socketPid, threadVars>>

(* A new socket becomes visible in its owner's fd directory. *)
OpenSocket(s) ==
    /\ sockState[s] = "none"
    /\ SockOwner[s] \in alive
    /\ sockState' = [sockState EXCEPT ![s] = "open"]
    /\ fds' = [fds EXCEPT ![SockOwner[s]] = @ \cup {s}]
    /\ UNCHANGED <<alive, pidsByUser, socketPid, threadVars>>

-----------------------------------------------------------------------------
(* Packet handlers *)

(* GetPidOfConnection up to the call of state.Lookup.  Process detection *)
(* is a configuration option read on every call; state.Lookup (not part  *)
(* of this source) may fail to find the socket, which is an error.       *)
GetPidOfConnection(t) ==
    /\ pc[t] = "idle"
    /\ \E s \in Sockets, inbound, dstLocal, detect, lookupErr \in BOOLEAN,
          pktPid \in {Undefined} \cup KextPids :
         \/ /\ ~detect
            /\ connPid' = [connPid EXCEPT ![t] = Unidentified]
            /\ UNCHANGED <<pc, sock, miss>>
         \/ /\ detect /\ pktPid # Undefined
            /\ connPid' = [connPid EXCEPT ![t] = pktPid]
            /\ UNCHANGED <<pc, sock, miss>>
         \/ /\ detect /\ pktPid = Undefined /\ lookupErr
            /\ connPid' = [connPid EXCEPT ![t] = FallbackPid(inbound, dstLocal)]
            /\ UNCHANGED <<pc, sock, miss>>
         \/ /\ detect /\ pktPid = Undefined /\ ~lookupErr
            /\ pc' = [pc EXCEPT ![t] = "getpid"]
            /\ sock' = [sock EXCEPT ![t] = s]
            /\ miss' = [miss EXCEPT ![t] = FallbackPid(inbound, dstLocal)]
            /\ connPid' = [connPid EXCEPT ![t] = Undefined]
    /\ UNCHANGED <<kernelVars, pidsByUser, socketPid, iter, try, updated,
                   found, waited>>

(* GetPID: reuse the PID already set on the socket info, else findPID. *)
GetPID(t) ==
    /\ pc[t] = "getpid"
    /\ LET current == socketPid[sock[t]]
       IN  IF current # Undefined
           THEN /\ found' = [found EXCEPT ![t] = current]
                /\ pc' = [pc EXCEPT ![t] = "checked"]
                /\ UNCHANGED iter
           ELSE /\ iter' = [iter EXCEPT ![t] = 0]
                /\ pc' = [pc EXCEPT ![t] = "find1"]
                /\ UNCHANGED found
    /\ UNCHANGED <<kernelVars, pidsByUser, socketPid, sock, miss, try,
                   updated, waited, connPid>>

(* Mutant: the loop bound read as i <= lookupRetries, one sleep too many. *)
AnotherIterationOffByOne(i) == i <= LookupRetries

(* findPID's loop: after iteration i comes a sleep and another iteration *)
(* unless i is the last one.                                            *)
AnotherIteration(i) == i < LookupRetries

(* The end of a findPID iteration that found nothing: back off and go   *)
(* round again, or give up with Undefined after the last iteration.     *)
EndIteration(t) ==
    IF AnotherIteration(iter[t])
    THEN /\ iter' = [iter EXCEPT ![t] = @ + 1]
         /\ waited' = [waited EXCEPT ![t] = @ + iter[t] + 1]
         /\ pc' = [pc EXCEPT ![t] = "find1"]
         /\ UNCHANGED found
    ELSE /\ found' = [found EXCEPT ![t] = Undefined]
         /\ pc' = [pc EXCEPT ![t] = "setpid"]
         /\ UNCHANGED <<iter, waited>>

(* A hit ends findPID with the pid. *)
Hit(t, pid) ==
    /\ found' = [found EXCEPT ![t] = pid]
    /\ pc' = [pc EXCEPT ![t] = "setpid"]
    /\ UNCHANGED <<iter, waited>>

(* Mutant: no forced refresh after a miss on the cached pid list. *)
ForcedRefreshNever(pidsUpdated) == FALSE

(* After a miss, the map is refreshed and searched again unless this    *)
(* iteration already refreshed it.                                      *)
ForcedRefresh(pidsUpdated) == ~pidsUpdated

(* First half of a findPID iteration: look the uid up in the cached map, *)
(* refreshing it first when the uid is missing, and scan its pids.       *)
FindPIDLookup(t) ==
    /\ pc[t] = "find1"
    /\ LET u       == SockUid(sock[t])
           refresh == u \notin DOMAIN pidsByUser
           m       == IF refresh THEN Snapshot ELSE pidsByUser
           hit     == SearchPids(PidsOf(m, u), sock[t])
       IN  /\ pidsByUser' = m
           /\ updated' = [updated EXCEPT ![t] = refresh]
           /\ IF hit # Undefined THEN Hit(t, hit)
              ELSE IF ForcedRefresh(refresh)
                   THEN /\ pc' = [pc EXCEPT ![t] = "find2"]
                        /\ UNCHANGED <<iter, waited, found>>
                   ELSE EndIteration(t)
    /\ UNCHANGED <<kernelVars, socketPid, sock, miss, try, connPid>>

(* Second half: the map had the uid but not the socket, so refresh it   *)
(* and scan again immediately.                                           *)
FindPIDRefresh(t) ==
    /\ pc[t] = "find2"
    /\ LET u   == SockUid(sock[t])
           hit == SearchPids(PidsOf(Snapshot, u), sock[t])
       IN  /\ pidsByUser' = Snapshot
           /\ IF hit # Undefined THEN Hit(t, hit) ELSE EndIteration(t)
    /\ UNCHANGED <<kernelVars, socketPid, sock, miss, try, updated, connPid>>

(* GetPID stores findPID's result on the socket info, found or not. *)
SetPID(t) ==
    /\ pc[t] = "setpid"
    /\ socketPid' = [socketPid EXCEPT ![sock[t]] = found[t]]
    /\ pc' = [pc EXCEPT ![t] = "checked"]
    /\ UNCHANGED <<kernelVars, pidsByUser, sock, miss, iter, try, updated,
                   found, waited, connPid>>

(* CheckPID's loop after GetPID returned: stop on a pid or on the last  *)
(* try, else back off and call GetPID again.  Returning ends the lookup: *)
(* GetPidOfConnection applies its fallback and the handler's locals die. *)
CheckPID(t) ==
    /\ pc[t] = "checked"
    /\ IF found[t] # Undefined \/ try[t] = LookupTries
       THEN /\ connPid' = [connPid EXCEPT ![t] = Fallback(found[t], miss[t])]
            /\ pc' = [pc EXCEPT ![t] = "idle"]
            /\ iter' = [iter EXCEPT ![t] = 0]
            /\ try' = [try EXCEPT ![t] = 1]
            /\ updated' = [updated EXCEPT ![t] = FALSE]
            /\ found' = [found EXCEPT ![t] = Undefined]
            /\ waited' = [waited EXCEPT ![t] = 0]
            /\ miss' = [miss EXCEPT ![t] = Unidentified]
       ELSE /\ waited' = [waited EXCEPT ![t] = @ + try[t] + 1]
            /\ try' = [try EXCEPT ![t] = @ + 1]
            /\ pc' = [pc EXCEPT ![t] = "getpid"]
            /\ UNCHANGED <<connPid, iter, updated, found, miss>>
    /\ UNCHANGED <<kernelVars, pidsByUser, socketPid, sock>>

-----------------------------------------------------------------------------

Init ==
    /\ alive \in SUBSET Pids
    /\ fds = [p \in Pids |-> {}]
    /\ sockState = [s \in Sockets |-> "none"]
    /\ pidsByUser = << >>
    /\ socketPid = [s \in Sockets |-> Undefined]
    /\ pc = [t \in Threads |-> "idle"]
    /\ sock = [t \in Threads |-> CHOOSE s \in Sockets : TRUE]
    /\ miss = [t \in Threads |-> Unidentified]
    /\ iter = [t \in Threads |-> 0]
    /\ try = [t \in Threads |-> 1]
    /\ updated = [t \in Threads |-> FALSE]
    /\ found = [t \in Threads |-> Undefined]
    /\ waited = [t \in Threads |-> 0]
    /\ connPid = [t \in Threads |-> Undefined]

Kernel ==
    \/ \E p \in Pids : Spawn(p) \/ Exit(p)
    \/ \E s \in Sockets : OpenSocket(s)

Handler(t) ==
    \/ GetPidOfConnection(t)
    \/ GetPID(t)
    \/ FindPIDLookup(t)
    \/ FindPIDRefresh(t)
    \/ SetPID(t)
    \/ CheckPID(t)

Next == Kernel \/ \E t \in Threads : Handler(t)

Spec == Init /\ [][Next]_vars

-----------------------------------------------------------------------------
(* Properties *)

TypeOK ==
    /\ alive \subseteq Pids
    /\ fds \in [Pids -> SUBSET Sockets]
    /\ sockState \in [Sockets -> {"none", "open", "closed"}]
    /\ DOMAIN pidsByUser \subseteq Uids
    /\ \A u \in DOMAIN pidsByUser : pidsByUser[u] \subseteq Pids
    /\ socketPid \in [Sockets -> Pids \cup {Undefined}]
    /\ pc \in [Threads -> {"idle", "getpid", "find1", "find2", "setpid", "checked"}]
    /\ sock \in [Threads -> Sockets]
    /\ iter \in [Threads -> 0..LookupRetries]
    /\ try \in [Threads -> 1..LookupTries]
    /\ updated \in [Threads -> BOOLEAN]
    /\ found \in [Threads -> Pids \cup {Undefined}]
    /\ waited \in [Threads -> Nat]
    /\ miss \in [Threads -> {Unidentified, Unsolicited}]
    /\ connPid \in [Threads -> Pids \cup Special]

(* The live processes of the socket's uid that hold it right now. *)
Holders(s) == {p \in alive : s \in fds[p] /\ Owner[p] = SockUid(s)}

(* findPID gives up (returns Undefined) only when, at that moment, no     *)
(* live process of the socket's uid holds the socket: the forced refresh  *)
(* after a miss on a cached pid list means a stale cache never makes it   *)
(* miss a socket that is already visible.                                 *)
GiveUpOnlyWhenAbsent ==
    [][\A t \in Threads :
         (pc[t] \in {"find1", "find2"} /\ pc'[t] = "setpid"
            /\ found'[t] = Undefined)
         => Holders(sock[t]) = {}]_vars

(* Once GetPID has stored a PID on a socket info, no later step replaces *)
(* it by Undefined (spec: a resolved pid never regresses to unidentified *)
(* except by an explicit reset).                                          *)
PidNeverRegresses ==
    [][\A s \in Sockets :
         socketPid[s] # Undefined => socketPid'[s] # Undefined]_socketPid

(* The back-off a single lookup sleeps stays within the 100 ms that the  *)
(* comment on lookupTries promises (with baseWaitTime = 3 ms).            *)
BaseWaitMs == 3
WaitWithinComment == \A t \in Threads : waited[t] * BaseWaitMs <= 100


=============================================================================
