----------------------------- MODULE MCEventHub -----------------------------
(* Two instances of EventHub for TLC.  "clients": two publishers and a     *)
(* WebSocket client, while the persistence goroutine is not scheduled, so  *)
(* that its channel fills up.  "history": one publisher, the persistence   *)
(* goroutine, sessions, failing inserts and the stop, without clients.     *)
EXTENDS EventHub

CONSTANTS Solo,       \* the publisher of "history"
          FewEvents   \* bound on the events of a publisher in "clients"

VARIABLE part

all == <<part, vars>>

ClientsNext ==
    \/ \E p \in Publishers, t \in Tables : sent[p] < FewEvents /\ Publish(p, t)
    \/ \E p \in Publishers, s \in Subscribers : Deliver(p, s)
    \/ \E c \in Clients : ClientStep(c)

HistoryNext ==
    \/ \E t \in Tables : Publish(Solo, t)
    \/ \E s \in Subscribers : Deliver(Solo, s)
    \/ HistoryStep \/ StopCancel \/ StopUnsubscribe \/ SessionStep

HubInit == part \in {"clients", "history"} /\ Init

HubNext ==
    /\ UNCHANGED part
    /\ (part = "clients" /\ ClientsNext) \/ (part = "history" /\ HistoryNext)

\* EventHub's Fairness, the goroutine's for the part that schedules it.
HubFairness ==
    /\ \A p \in Publishers : WF_all((\E s \in Subscribers : Deliver(p, s)) /\ UNCHANGED part)
    /\ WF_all(part = "history" /\ HistoryStep /\ UNCHANGED part)
    /\ SF_all(part = "history" /\ StopUnsubscribe /\ UNCHANGED part)
    /\ WF_all(part = "history" /\ sess \in {"suspending", "resuming"} /\ SessionStep /\ UNCHANGED part)

HubSpec == HubInit /\ [][HubNext]_all /\ HubFairness

-----------------------------------------------------------------------------
(* Nobody stalls a publisher, and the collector's stop returns.            *)
HubProgress == PublishersNeverStall /\ StopReturns
=============================================================================
