---------------------------- MODULE VerdictEngine ----------------------------
(***************************************************************************)
(* The verdict engine: packet workers decide a verdict per connection and *)
(* cache it; configuration, profile, SPN and account events reset all     *)
(* cached verdicts, which are then recomputed lazily on the next packet.  *)
(*                                                                         *)
(* From the source: the four event hooks of firewall/module.go, the       *)
(* bounded packet channel of the interception layer, PreventBypassing     *)
(* (BypassGuard) run before the endpoint rules.  The packet handler and   *)
(* resetAllConnectionVerdicts are not in this source and follow the spec  *)
(* (sections 4.5 and 5): a worker holds the connection's lock while it    *)
(* decides; a reset visits the connections one by one, each under its     *)
(* lock, and only flags them.                                              *)
(*                                                                         *)
(* The rules a verdict is computed from are abstracted to a version      *)
(* number that each configuration change increments; EndpointResult gives *)
(* the endpoint rules' answer for a connection under a version.           *)
(***************************************************************************)
EXTENDS Naturals, Sequences, SequencesExt, BypassGuard

CONSTANTS
    Conns,              \* tracked connections
    Workers,            \* packet handler workers
    Attr,               \* [Conns -> connection fields read by PreventBypassing]
    EndpointResult(_, _), \* (version, conn) -> "Permitted" | "Denied" | "Undecided"
    DefaultVerdict,     \* the verdict applied when the rules are undecided
    QueueCap,           \* capacity of the interception packet channel
    MaxChanges,         \* bound on configuration changes
    Registered,         \* the events whose RegisterEventHook succeeded in prep
    None                \* no verdict yet

Events == {"config", "profile", "spn", "account"}
Verdicts == {"Permitted", "Denied"}

VARIABLES
    version,    \* the configuration the verdicts are computed from
    pending,    \* events triggered whose hooks have not run yet
    resetTodo,  \* connections a running reset has still to flag
    conn,       \* [Conns -> [verdict, basis, flagged]]: the verdict cache
    queue,      \* packets (by connection) waiting in the channel
    wpc,        \* worker program counter
    wconn,      \* the connection a worker handles
    wsnap,      \* the configuration version a worker read while deciding
    reported    \* connections whose process was reported for a DNS bypass

vars == <<version, pending, resetTodo, conn, queue, wpc, wconn, wsnap, reported>>

(* A connection is locked while a worker holds it. *)
Locked(c) == \E w \in Workers : wpc[w] \in {"locked", "deciding"} /\ wconn[w] = c

(* The verdict for c under configuration v: PreventBypassing first, then *)
(* the endpoint rules, then the default for an undecided result.         *)
Decide(c, v) ==
    IF PreventBypassing(Attr[c]).result = "Denied" THEN "Denied"
    ELSE IF EndpointResult(v, c) = "Undecided" THEN DefaultVerdict
    ELSE EndpointResult(v, c)

-----------------------------------------------------------------------------
(* Environment: the interception layer and configuration changes *)

(* Mutant: the channel grows without bound instead of blocking. *)
InterceptUnbounded(c) ==
    /\ queue' = Append(queue, c)
    /\ UNCHANGED <<version, pending, resetTodo, conn, wpc, wconn, wsnap, reported>>

(* The interception layer hands a packet over; it blocks on a full channel. *)
Intercept(c) ==
    /\ Len(queue) < QueueCap
    /\ queue' = Append(queue, c)
    /\ UNCHANGED <<version, pending, resetTodo, conn, wpc, wconn, wsnap, reported>>

(* A configuration change of some kind triggers its event. *)
Change(e) ==
    /\ version < MaxChanges
    /\ version' = version + 1
    /\ pending' = pending \cup {e}
    /\ UNCHANGED <<resetTodo, conn, queue, wpc, wconn, wsnap, reported>>

-----------------------------------------------------------------------------
(* Event hooks (firewall/module.go, prep) *)

(* prep registers a hook calling resetAllConnectionVerdicts for each of *)
(* the four events; a failed registration is only logged, so the hooks   *)
(* that exist are those of Registered.                                   *)
ASSUME Registered \subseteq Events

(* Mutant: a hook skips its reset while another reset is still running. *)
EventHookSkipWhileRunning(e) ==
    /\ e \in pending
    /\ pending' = pending \ {e}
    /\ resetTodo' = IF e \in Registered /\ resetTodo = {} THEN Conns ELSE resetTodo
    /\ UNCHANGED <<version, conn, queue, wpc, wconn, wsnap, reported>>

(* The event is delivered; a hooked one starts resetting every connection. *)
EventHook(e) ==
    /\ e \in pending
    /\ pending' = pending \ {e}
    /\ resetTodo' = IF e \in Registered THEN Conns ELSE resetTodo
    /\ UNCHANGED <<version, conn, queue, wpc, wconn, wsnap, reported>>

(* resetAllConnectionVerdicts flags one connection, under its lock. *)
ResetConn(c) ==
    /\ c \in resetTodo
    /\ ~Locked(c)
    /\ conn' = [conn EXCEPT ![c].flagged = TRUE]
    /\ resetTodo' = resetTodo \ {c}
    /\ UNCHANGED <<version, pending, queue, wpc, wconn, wsnap, reported>>

-----------------------------------------------------------------------------
(* Packet workers *)

Dequeue(w) ==
    /\ wpc[w] = "idle"
    /\ queue # << >>
    /\ wconn' = [wconn EXCEPT ![w] = Head(queue)]
    /\ queue' = Tail(queue)
    /\ wpc' = [wpc EXCEPT ![w] = "lock"]
    /\ UNCHANGED <<version, pending, resetTodo, conn, wsnap, reported>>

Lock(w) ==
    /\ wpc[w] = "lock"
    /\ ~Locked(wconn[w])
    /\ wpc' = [wpc EXCEPT ![w] = "locked"]
    /\ UNCHANGED <<version, pending, resetTodo, conn, queue, wconn, wsnap, reported>>

(* A cached verdict that was not reset is reused and the lock released; *)
(* otherwise the worker reads the current configuration and decides.    *)
UseCache(w) ==
    /\ wpc[w] = "locked"
    /\ LET c == wconn[w]
       IN  IF conn[c].verdict # None /\ ~conn[c].flagged
           THEN /\ wpc' = [wpc EXCEPT ![w] = "idle"]
                /\ UNCHANGED wsnap
           ELSE /\ wsnap' = [wsnap EXCEPT ![w] = version]
                /\ wpc' = [wpc EXCEPT ![w] = "deciding"]
    /\ UNCHANGED <<version, pending, resetTodo, conn, queue, wconn, reported>>

(* The decided verdict is cached with the configuration it came from,    *)
(* the reset flag cleared, the bypass report sent, the lock released.    *)
StoreVerdict(w) ==
    /\ wpc[w] = "deciding"
    /\ LET c == wconn[w]
       IN  /\ conn' = [conn EXCEPT ![c] =
                         [verdict |-> Decide(c, wsnap[w]), basis |-> wsnap[w],
                          flagged |-> FALSE]]
           /\ reported' = IF PreventBypassing(Attr[c]).report
                          THEN reported \cup {c} ELSE reported
    /\ wpc' = [wpc EXCEPT ![w] = "idle"]
    /\ UNCHANGED <<version, pending, resetTodo, queue, wconn, wsnap>>

-----------------------------------------------------------------------------

Init ==
    /\ version = 0
    /\ pending = {}
    /\ resetTodo = {}
    /\ conn = [c \in Conns |-> [verdict |-> None, basis |-> 0, flagged |-> FALSE]]
    /\ queue = << >>
    /\ wpc = [w \in Workers |-> "idle"]
    /\ wconn = [w \in Workers |-> CHOOSE c \in Conns : TRUE]
    /\ wsnap = [w \in Workers |-> 0]
    /\ reported = {}

Worker(w) == Dequeue(w) \/ Lock(w) \/ UseCache(w) \/ StoreVerdict(w)

Hooks == \/ \E e \in Events : EventHook(e)
         \/ \E c \in Conns : ResetConn(c)

Next ==
    \/ \E c \in Conns : Intercept(c)
    \/ \E e \in Events : Change(e)
    \/ Hooks
    \/ \E w \in Workers : Worker(w)

(* Workers are service workers that always run; event hooks run as soon  *)
(* as they are scheduled.  Waiting for a connection's lock is strongly    *)
(* fair: the lock is a sync.Mutex, whose starvation mode hands it to a    *)
(* waiter that keeps losing it.  Packets and configuration changes may    *)
(* stop.                                                                  *)
Fairness ==
    /\ \A w \in Workers : WF_vars(Worker(w)) /\ SF_vars(Lock(w))
    /\ \A e \in Events : WF_vars(EventHook(e))
    /\ \A c \in Conns : SF_vars(ResetConn(c))

Spec == Init /\ [][Next]_vars /\ Fairness

-----------------------------------------------------------------------------
(* Properties *)

TypeOK ==
    /\ version \in 0..MaxChanges
    /\ pending \subseteq Events
    /\ resetTodo \subseteq Conns
    /\ conn \in [Conns -> [verdict: Verdicts \cup {None}, basis: 0..MaxChanges,
                           flagged: BOOLEAN]]
    /\ queue \in BoundedSeq(Conns, QueueCap)
    /\ wpc \in [Workers -> {"idle", "lock", "locked", "deciding"}]
    /\ wconn \in [Workers -> Conns]
    /\ wsnap \in [Workers -> 0..MaxChanges]
    /\ reported \subseteq Conns

(* A cached verdict computed from an older configuration than the current *)
(* one is never taken as final: it is flagged for re-evaluation, or a      *)
(* reset that will flag it is on its way (an event not yet delivered or a  *)
(* running reset that has not reached it).  Breaking this takes a change   *)
(* that races a worker holding the connection and a reset that runs        *)
(* around it.  Spec 4.5 has every one of the four events reset the       *)
(* verdicts; an event whose hook failed to register resets nothing.       *)
StaleVerdictIsFlagged ==
    \A c \in Conns :
        (conn[c].verdict # None /\ conn[c].basis < version)
          => \/ conn[c].flagged
             \/ c \in resetTodo
             \/ pending \cap Registered # {}

(* Once configuration changes stop, every cached verdict that is not     *)
(* flagged is eventually, and from then on, computed from the current    *)
(* configuration.                                                         *)
EventuallyConsistent ==
    <>[](\A c \in Conns :
           (conn[c].verdict # None /\ ~conn[c].flagged) => conn[c].basis = version)
=============================================================================
