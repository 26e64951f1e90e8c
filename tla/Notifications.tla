---------------------------- MODULE Notifications ----------------------------
(***************************************************************************)
(* What happens to a domain event once it is emitted                        *)
(* (notifications.listener.ts, notifications.service.ts): a listener of its *)
(* own walks over the members of the household, stores a notification for   *)
(* each and, for the kinds whose policy says so, sends it by e-mail and to  *)
(* the user's push subscriptions. Nothing of a delivery is stored but those *)
(* notifications: a delivery that throws, or a restart, loses the rest.     *)
(***************************************************************************)
EXTENDS Integers, FiniteSets, TLC

CONSTANTS
    Members,
    Watchers,       \* the members who may see the account of the goals
    Requester,      \* the member who asks for the reports
    Endpoints,      \* push endpoints of browsers
    Subjects,       \* what events are about
    MaxSame,        \* bound on events of one kind about one subject
    Nobody

ASSUME NotificationsAssumption ==
    Watchers \subseteq Members /\ Requester \in Members /\ Nobody \notin Members /\ MaxSame \in Nat \ {0}

VARIABLES
    delivery,   \* event -> how far its listener got
    push,       \* push_subscriptions: endpoint -> user
    gone        \* endpoints the push service no longer knows

notificationVars == <<delivery, push, gone>>

-----------------------------------------------------------------------------
Kinds == {"BUDGET_WARNING", "BUDGET_EXCEEDED", "SAVINGS_GOAL_COMPLETED", "REPORT_READY"}
Channels == {"IN_APP", "EMAIL", "WEB_PUSH"}

\* NOTIFICATION_CHANNEL_POLICY
Everywhere(kind) == kind = "BUDGET_EXCEEDED"

Event == [kind : Kinds, about : Subjects, nth : 1..MaxSame]

\* note[u] is u's notification, by its channels; none while empty.
DeliveryType == [pc : {"next", "mail", "push", "broken", "lost"}, left : SUBSET Members,
                 to : Members \cup {Nobody}, subs : SUBSET Endpoints, sent : SUBSET Channels,
                 note : [Members -> SUBSET Channels]]
\* fanOut begins with the list of the members; notifyReportReady has one to tell.
Begun(kind) ==
    [pc |-> "next", left |-> IF kind = "REPORT_READY" THEN {Requester} ELSE Members,
     to |-> Nobody, subs |-> {}, sent |-> {}, note |-> [u \in Members |-> {}]]

NotificationsInit ==
    /\ delivery = << >>
    /\ push \in [Endpoints -> Members]
    /\ gone = {}

Same(kind, about) == {e \in DOMAIN delivery : e.kind = kind /\ e.about = about}

\* EventEmitter2.emit: the listener starts at once and nobody waits for it.
Events(kind, abouts) ==
    {[kind |-> kind, about |-> x, nth |-> Cardinality(Same(kind, x)) + 1] : x \in abouts}
Raise(events) ==
    delivery' = [e \in DOMAIN delivery \cup events |-> IF e \in events THEN Begun(e.kind) ELSE delivery[e]]

Room(kind, abouts) == \A x \in abouts : Cardinality(Same(kind, x)) < MaxSame

-----------------------------------------------------------------------------
Step(e, d) == delivery' = [delivery EXCEPT ![e] = d]
On(e, pc) == e \in DOMAIN delivery /\ delivery[e].pc = pc
Told(e, u) == delivery[e].note[u] # {}
Done(e) == On(e, "next") /\ delivery[e].left = {}

Concerns(e, u) ==
    /\ e.kind = "SAVINGS_GOAL_COMPLETED" => u \in Watchers
    /\ e.kind = "REPORT_READY" => u = Requester

\* Fault: the first member who may not see the account ends the loop.
LeftAtFirst(e, u) == {}

LeftAfter(e, u) == delivery[e].left \ {u}

Skip(e, u) ==
    /\ On(e, "next") /\ u \in delivery[e].left /\ ~Concerns(e, u)
    /\ Step(e, [delivery[e] EXCEPT !.left = LeftAfter(e, u)])
    /\ UNCHANGED <<push, gone>>

\* persist: the notification is created first, in the app only.
Persist(e, u) ==
    LET d == [delivery[e] EXCEPT !.note[u] = {"IN_APP"}] IN
    /\ On(e, "next") /\ u \in delivery[e].left /\ Concerns(e, u)
    /\ Step(e, IF Everywhere(e.kind) THEN [d EXCEPT !.pc = "mail", !.to = u]
                                     ELSE [d EXCEPT !.left = @ \ {u}])
    /\ UNCHANGED <<push, gone>>

\* sendEmailBestEffort: a webhook that fails costs the channel only. The list of
\* subscriptions is read next.
SendEmail(e) ==
    LET d == delivery[e] IN
    /\ On(e, "mail")
    /\ \E mail \in {{}, {"EMAIL"}} :
          Step(e, [d EXCEPT !.pc = "push", !.sent = mail,
                            !.subs = {p \in Endpoints : push[p] = d.to}])
    /\ UNCHANGED <<push, gone>>

\* sendWebPushBestEffort, one subscription: an endpoint that is gone is deleted
\* by its id; the deletion of a row that is gone as well throws.
SendPush(e, p) ==
    LET d == [delivery[e] EXCEPT !.subs = @ \ {p}] IN
    /\ On(e, "push") /\ p \in delivery[e].subs
    /\ IF p \notin gone
       THEN UNCHANGED push /\ \E ok \in {{}, {"WEB_PUSH"}} : Step(e, [d EXCEPT !.sent = @ \cup ok])
       ELSE IF push[p] # Nobody
       THEN push' = [push EXCEPT ![p] = Nobody] /\ Step(e, d)
       ELSE UNCHANGED push /\ Step(e, [d EXCEPT !.pc = "broken"])
    /\ UNCHANGED gone

\* The channels that worked are written into the notification last.
Sent(e) ==
    LET d == delivery[e] IN
    /\ On(e, "push") /\ d.subs = {}
    /\ Step(e, [d EXCEPT !.pc = "next", !.left = @ \ {d.to}, !.to = Nobody, !.sent = {},
                         !.note[d.to] = @ \cup d.sent])
    /\ UNCHANGED <<push, gone>>

\* subscribePush: the endpoint is the key, so a browser that changes its user
\* takes its subscription along.
Subscribe(u, p) ==
    /\ p \notin gone /\ push[p] # u
    /\ push' = [push EXCEPT ![p] = u]
    /\ UNCHANGED <<delivery, gone>>

Unsubscribe(p) ==
    /\ push[p] # Nobody
    /\ push' = [push EXCEPT ![p] = Nobody]
    /\ UNCHANGED <<delivery, gone>>

\* The browser drops its subscription without telling the API.
EndpointDies(p) ==
    /\ p \notin gone
    /\ gone' = gone \cup {p}
    /\ UNCHANGED <<delivery, push>>

\* Deliveries are promises of the process: a restart drops them.
Interrupted ==
    [e \in DOMAIN delivery |-> IF Done(e) \/ On(e, "broken") THEN delivery[e]
                               ELSE [Begun(e.kind) EXCEPT !.pc = "lost", !.left = {}, !.note = delivery[e].note]]

DeliveryStep ==
    \E e \in DOMAIN delivery :
        \/ SendEmail(e) \/ Sent(e)
        \/ \E u \in Members : Skip(e, u) \/ Persist(e, u)
        \/ \E p \in Endpoints : SendPush(e, p)

DeviceStep ==
    \E p \in Endpoints : EndpointDies(p) \/ Unsubscribe(p) \/ \E u \in Members : Subscribe(u, p)

-----------------------------------------------------------------------------
\* The fan-out reaches everyone it concerns, whatever the channels did and
\* whoever may not see the account; only a subscription that disappeared while
\* it was being served ends it early, and then the rest is lost silently
\* (the delivery is "broken").
EveryoneToldUnlessBroken ==
    \A e \in DOMAIN delivery : \A u \in Members :
        /\ Done(e) => (Told(e, u) <=> Concerns(e, u))
        /\ On(e, "broken") /\ Concerns(e, u) /\ ~Told(e, u) => Everywhere(e.kind) /\ gone # {}
=============================================================================
