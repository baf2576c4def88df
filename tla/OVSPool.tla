------------------------------- MODULE OVSPool -------------------------------
(***************************************************************************)
(* The per-chassis connections of internal/ovsdb/pool.go: Add registers a  *)
(* client and starts its supervisor, which retries Connect and MonitorAll  *)
(* until both succeed or the pool's context ends; Close cancels, waits for *)
(* every supervisor and closes every client.                               *)
(***************************************************************************)
EXTENDS Integers, FiniteSets

CONSTANTS
    Chassis,        \* system-ids
    PoolClients,    \* client objects NewOVSDBClient may create
    NoClient,
    MaxFlaps        \* bound on changes of a chassis' reachability

VARIABLES
    member,         \* system-id -> its client, or NoClient
    client,         \* client -> "unmade", "open", "dialled", "monitored", "closed"
    sup,            \* system-id -> its supervisor: "none", "try", "wait", "done"
    poolCtx,        \* "open", "cancelled", "closing", "closed": Close's progress
    reach,          \* the chassis answers
    flaps,
    misuse          \* observation: a closed client was used or closed again

poolVars == <<member, client, sup, poolCtx, reach, flaps, misuse>>

ASSUME PoolConstants == MaxFlaps \in Nat /\ NoClient \notin PoolClients

PoolInit ==
    /\ member = [i \in Chassis |-> NoClient] /\ client = [c \in PoolClients |-> "unmade"]
    /\ sup = [i \in Chassis |-> "none"] /\ poolCtx = "open"
    /\ reach = [i \in Chassis |-> FALSE] /\ flaps = 0 /\ misuse = FALSE

\* A duplicate's client is closed at once.
Add(i) ==
    /\ poolCtx = "open"
    /\ \E c \in PoolClients :
          /\ client[c] = "unmade"
          /\ IF member[i] # NoClient
             THEN client' = [client EXCEPT ![c] = "closed"] /\ UNCHANGED <<member, sup>>
             ELSE /\ client' = [client EXCEPT ![c] = "open"]
                  /\ member' = [member EXCEPT ![i] = c]
                  /\ sup' = [sup EXCEPT ![i] = "try"]
    /\ UNCHANGED <<poolCtx, reach, flaps, misuse>>

\* Mutant: a chassis that is down at the first attempt is given up.
Retry_Never(i) == "done"

Retry(i) == "wait"

\* connectAndMonitor: one bounded attempt.  The connection may come up and
\* the monitor still fail; a cancelled context fails both.
Attempt(i) ==
    LET c == member[i]
        works == reach[i] /\ poolCtx = "open" IN
    /\ sup[i] = "try"
    /\ misuse' = (misuse \/ client[c] = "closed")
    /\ \/ /\ works
          /\ client' = [client EXCEPT ![c] = "monitored"] /\ sup' = [sup EXCEPT ![i] = "done"]
       \/ /\ ~ works /\ sup' = [sup EXCEPT ![i] = Retry(i)]
          /\ \/ UNCHANGED client
             \/ client[c] = "open" /\ poolCtx = "open" /\ client' = [client EXCEPT ![c] = "dialled"]
    /\ UNCHANGED <<member, poolCtx, reach, flaps>>

\* The backoff is over, ...
BackoffEnds(i) ==
    /\ sup[i] = "wait" /\ sup' = [sup EXCEPT ![i] = "try"]
    /\ UNCHANGED <<member, client, poolCtx, reach, flaps, misuse>>

\* ... or the context is; when both are, select takes either.
SupervisorStops(i) ==
    /\ sup[i] = "wait" /\ poolCtx # "open" /\ sup' = [sup EXCEPT ![i] = "done"]
    /\ UNCHANGED <<member, client, poolCtx, reach, flaps, misuse>>

CancelPool ==
    /\ poolCtx = "open" /\ poolCtx' = "cancelled"
    /\ UNCHANGED <<member, client, sup, reach, flaps, misuse>>

\* wg.Wait
Joined == poolCtx = "cancelled" /\ \A i \in Chassis : sup[i] \in {"none", "done"}

ClosePool ==
    /\ Joined /\ poolCtx' = "closed"
    /\ client' = [c \in PoolClients |-> IF \E i \in Chassis : member[i] = c THEN "closed" ELSE client[c]]
    /\ misuse' = (misuse \/ \E i \in Chassis : member[i] # NoClient /\ client[member[i]] = "closed")
    /\ UNCHANGED <<member, sup, reach, flaps>>

\* A chassis opens or loses its management port.
Flap(i) ==
    /\ flaps < MaxFlaps /\ flaps' = flaps + 1
    /\ reach' = [reach EXCEPT ![i] = ~ @]
    /\ UNCHANGED <<member, client, sup, poolCtx, misuse>>

PoolNext ==
    \/ CancelPool \/ ClosePool
    \/ \E i \in Chassis : Add(i) \/ Attempt(i) \/ BackoffEnds(i) \/ SupervisorStops(i) \/ Flap(i)

PoolSpec == PoolInit /\ [][PoolNext]_poolVars

---------------------------------------------------------------------------

PoolTypeOK ==
    /\ member \in [Chassis -> PoolClients \cup {NoClient}]
    /\ client \in [PoolClients -> {"unmade", "open", "dialled", "monitored", "closed"}]
    /\ sup \in [Chassis -> {"none", "try", "wait", "done"}]
    /\ poolCtx \in {"open", "cancelled", "closed"}

\* Close leaves no open client, touches none twice and none while its
\* supervisor may still dial it (pool.go:167-178), duplicates included.
PoolClosesAll ==
    /\ ~ misuse
    /\ poolCtx = "closed" => \A c \in PoolClients : client[c] \in {"unmade", "closed"}

\* A registered chassis that answers gets monitored, unless it stops
\* answering again or the pool is closed (pool.go:100-123).
ReachableIsMonitored ==
    \A i \in Chassis :
        member[i] # NoClient /\ reach[i] ~>
            poolCtx # "open" \/ ~ reach[i] \/ \E c \in PoolClients : member[i] = c /\ client[c] = "monitored"

\* Close returns: no supervisor keeps it waiting (pool.go:105-123, 169-178).
PoolCloseReturns == poolCtx = "cancelled" ~> poolCtx = "closed"
=============================================================================
