------------------------------ MODULE CdpEvents ------------------------------
(***************************************************************************)
(* The event side of the CDP client. The wire task publishes each event on *)
(* the browser-wide channel and, when a page owns its session, on the      *)
(* page's channels for that kind of event. A subscription is an inbox      *)
(* bounded by count and bytes that drops its oldest events and says so.    *)
(*                                                                         *)
(* Events are numbered, per subscription, in the order they are offered.   *)
(***************************************************************************)
EXTENDS Integers, SequencesExt, FiniteSetsExt

CONSTANTS
    Pages,           \* owners of a PageEvents
    Sessions,        \* CDP sessions; a page starts on one and may adopt others
    Subscribers,     \* subscriptions, each opened at most once
    EventSizes,      \* encoded sizes of the events published
    maximum_events, maximum_bytes,
    MaxPublished     \* bound: how many events the browser sends

VARIABLES
    sessions,    \* RouteState::sessions: the page a session is routed to
    pages,       \* RouteState::pages, the scopes to close with the publisher
    routes_closed,
    scope,       \* each PageEvents: "none", "open", "closed" or "dropped"
    all_closed,  \* the browser-wide channel is closed
    inbox,       \* per subscription: state, channel, queue and its accounting
    closing,     \* scopes the publisher took and has still to close
    published    \* events published so far

busVars == <<sessions, pages, routes_closed, scope, all_closed, inbox, closing, published>>

\* The kinds of event the channels tell apart.
Events == {"request", "document", "finished", "failed_document", "response", "data",
           "paused", "load", "attached", "console", "other"}

NavigationEvent(e) == e \in {"document", "failed_document", "load"}
OfflineEvent(e) == e \in {"request", "document", "console"}
TargetEvent(e) == e = "attached"

\* EventChannels::publish: the channels of a page that take an event.
Channels(e) ==
    {c \in {"navigation", "offline", "targets", "interception", "activity", "resources"} :
        \/ c = "activity" /\ e \in {"request", "document", "finished", "failed_document"}
        \/ c = "resources" /\ e \in
              {"request", "document", "finished", "failed_document", "response", "data"}
        \/ c = "interception" /\ e = "paused"
        \/ c = "navigation" /\ NavigationEvent(e)
        \/ c = "offline" /\ OfflineEvent(e)
        \/ c = "targets" /\ TargetEvent(e)}

PageChannels == UNION {Channels(e) : e \in Events}

Unopened == [open |-> FALSE, page |-> "all", channel |-> "all", events |-> <<>>, encoded |-> 0,
             skipped |-> 0, closed |-> FALSE, offered |-> 0, taken |-> 0, reported |-> 0]

EventsInit ==
    /\ sessions = [s \in Sessions |-> "none"] /\ pages = {} /\ routes_closed = FALSE
    /\ scope = [p \in Pages |-> "none"] /\ all_closed = FALSE
    /\ inbox = [r \in Subscribers |-> Unopened]
    /\ closing = {} /\ published = 0
-----------------------------------------------------------------------------
(* Pages and their sessions, under the lock of the routes. *)

\* EventBus::scope: a page's channels are born closed after the publisher.
OpenScope(p, s) ==
    /\ scope[p] = "none"
    /\ IF routes_closed
       THEN scope' = [scope EXCEPT ![p] = "closed"] /\ UNCHANGED <<sessions, pages>>
       ELSE /\ scope' = [scope EXCEPT ![p] = "open"]
            /\ pages' = pages \cup {p}
            /\ sessions' = [sessions EXCEPT ![s] = p]
    /\ UNCHANGED <<routes_closed, all_closed, inbox, closing, published>>

CloseInboxes(S) == [r \in Subscribers |->
    IF r \in S THEN [inbox[r] EXCEPT !.closed = TRUE] ELSE inbox[r]]

ReadersOf(p) == {r \in Subscribers : inbox[r].open /\ inbox[r].page = p}

\* PageEvents::register
Register(p, s) ==
    /\ scope[p] \in {"open", "closed"}
    /\ IF routes_closed
       THEN /\ scope' = [scope EXCEPT ![p] = "closed"]
            /\ inbox' = CloseInboxes(ReadersOf(p))
            /\ UNCHANGED sessions
       ELSE sessions' = [sessions EXCEPT ![s] = p] /\ UNCHANGED <<scope, inbox>>
    /\ UNCHANGED <<pages, routes_closed, all_closed, closing, published>>

\* PageEvents::unregister: only the page that holds the route removes it.
Unregister(p, s) ==
    /\ scope[p] \in {"open", "closed"} /\ sessions[s] = p
    /\ sessions' = [sessions EXCEPT ![s] = "none"]
    /\ UNCHANGED <<pages, routes_closed, scope, all_closed, inbox, closing, published>>

\* Drop for PageEvents, then for its channels: its readers see the end. A
\* publisher that took the scope already keeps it alive until it closes it.
DropScope(p) ==
    /\ scope[p] \in {"open", "closed"} /\ p \notin closing
    /\ scope' = [scope EXCEPT ![p] = "dropped"]
    /\ sessions' = [s \in Sessions |-> IF sessions[s] = p THEN "none" ELSE sessions[s]]
    /\ pages' = pages \ {p}
    /\ inbox' = CloseInboxes(ReadersOf(p))
    /\ UNCHANGED <<routes_closed, all_closed, closing, published>>
-----------------------------------------------------------------------------
(* Subscriptions. *)

\* EventSender::subscribe: a closed channel yields a closed inbox.
SubscribeBorn(r, p, c, isClosed) ==
    inbox' = [inbox EXCEPT ![r] = [Unopened EXCEPT
        !.open = TRUE, !.page = p, !.channel = c, !.closed = isClosed]]

Subscribe(r) ==
    /\ inbox[r] = Unopened
    /\ \/ SubscribeBorn(r, "all", "all", all_closed)
       \/ \E p \in Pages, c \in PageChannels :
             scope[p] \in {"open", "closed"} /\ SubscribeBorn(r, p, c, scope[p] = "closed")
    /\ UNCHANGED <<sessions, pages, routes_closed, scope, all_closed, closing, published>>

\* How many of the oldest events make room for one of these bytes.
Evicted(box, bytes) ==
    LET Left(n) == SumFunction([i \in 1..(Len(box.events) - n) |-> box.events[i + n].bytes])
        Fits(n) == /\ Len(box.events) - n < maximum_events
                   /\ bytes =< maximum_bytes - Left(n)
    IN  Min({n \in 0..Len(box.events) : Fits(n) \/ n = Len(box.events)})

\* Mutant: an event too large for any queue is dropped without a word.
PushQuietly(box, bytes) ==
    LET n == Evicted(box, bytes)
        kept == SubSeq(box.events, n + 1, Len(box.events))
        fits == maximum_events # 0 /\ bytes =< maximum_bytes
        events == IF fits THEN Append(kept, [n |-> box.offered + 1, bytes |-> bytes]) ELSE kept
    IN  [box EXCEPT !.events = events,
                    !.encoded = SumFunction([i \in DOMAIN events |-> events[i].bytes]),
                    !.skipped = @ + n, !.offered = @ + 1]

\* Inbox::push
Push(box, bytes) ==
    LET n == Evicted(box, bytes)
        kept == SubSeq(box.events, n + 1, Len(box.events))
        fits == maximum_events # 0 /\ bytes =< maximum_bytes
        events == IF fits THEN Append(kept, [n |-> box.offered + 1, bytes |-> bytes]) ELSE kept
    IN  [box EXCEPT !.events = events,
                    !.encoded = SumFunction([i \in DOMAIN events |-> events[i].bytes]),
                    !.skipped = @ + n + IF fits THEN 0 ELSE 1,
                    !.offered = @ + 1]

\* Inbox::try_recv: a loss is reported before the events that survived it.
Receive(r) ==
    /\ inbox[r].open
    /\ \/ /\ inbox[r].skipped # 0
          /\ inbox' = [inbox EXCEPT ![r].skipped = 0, ![r].reported = @ + inbox[r].skipped]
       \/ /\ inbox[r].skipped = 0 /\ inbox[r].events # <<>>
          /\ inbox' = [inbox EXCEPT ![r].events = Tail(@), ![r].taken = @ + 1,
                                    ![r].encoded = @ - Head(inbox[r].events).bytes]
    /\ UNCHANGED <<sessions, pages, routes_closed, scope, all_closed, closing, published>>

\* Drop of a subscription: its channel forgets it at the next event.
Unsubscribe(r) ==
    /\ inbox[r].open
    /\ inbox' = [inbox EXCEPT ![r].open = FALSE]
    /\ UNCHANGED <<sessions, pages, routes_closed, scope, all_closed, closing, published>>
-----------------------------------------------------------------------------
(* The publisher, which is the wire task. *)

\* EventBus::publish: the page that owns the session, then every event.
Takes(r, s, e) ==
    /\ inbox[r].open
    /\ \/ inbox[r].page = "all" /\ ~all_closed
       \/ /\ inbox[r].page # "all" /\ sessions[s] = inbox[r].page
          /\ scope[inbox[r].page] = "open" /\ inbox[r].channel \in Channels(e)

Publish(s, e, bytes) ==
    /\ ~routes_closed /\ published < MaxPublished
    /\ published' = published + 1
    /\ inbox' = [r \in Subscribers |->
          IF Takes(r, s, e) THEN Push(inbox[r], bytes) ELSE inbox[r]]
    /\ UNCHANGED <<sessions, pages, routes_closed, scope, all_closed, closing>>

\* Drop for EventPublisher takes the scopes under the lock and closes them,
\* and the browser-wide channel first, after it let go of the lock.
DropPublisher ==
    /\ ~routes_closed
    /\ routes_closed' = TRUE
    /\ sessions' = [s \in Sessions |-> "none"]
    /\ pages' = {} /\ closing' = pages \cup {"all"}
    /\ UNCHANGED <<scope, all_closed, inbox, published>>

CloseNext(p) ==
    /\ p \in closing /\ (p = "all" \/ "all" \notin closing)
    /\ closing' = closing \ {p}
    /\ all_closed' = (all_closed \/ p = "all")
    /\ scope' = IF p = "all" THEN scope ELSE [scope EXCEPT ![p] = "closed"]
    /\ inbox' = CloseInboxes(ReadersOf(p))
    /\ UNCHANGED <<sessions, pages, routes_closed, published>>
-----------------------------------------------------------------------------
EventsNext ==
    \/ DropPublisher
    \/ \E p \in Pages \cup {"all"} : CloseNext(p)
    \/ \E p \in Pages : DropScope(p)
    \/ \E p \in Pages, s \in Sessions : OpenScope(p, s) \/ Register(p, s) \/ Unregister(p, s)
    \/ \E r \in Subscribers : Subscribe(r) \/ Receive(r) \/ Unsubscribe(r)
    \/ \E s \in Sessions, e \in Events, bytes \in EventSizes : Publish(s, e, bytes)

EventsSpec == EventsInit /\ [][EventsNext]_busVars

\* Types of the bus and its routes.
EventsTypeOK ==
    /\ sessions \in [Sessions -> Pages \cup {"none"}] /\ pages \subseteq Pages
    /\ scope \in [Pages -> {"none", "open", "closed", "dropped"}]
    /\ closing \subseteq Pages \cup {"all"} /\ published \in 0..MaxPublished

\* A subscription never lies about what it missed: what it holds are the
\* newest events offered to it, in order and within both limits, and what it
\* took, what it reported as skipped and what it has still to report are all
\* the others, so that every gap is reported before the event after it.
LossesReported ==
    \A r \in Subscribers : LET box == inbox[r] IN
        /\ [i \in DOMAIN box.events |-> box.events[i].n]
              = [i \in DOMAIN box.events |-> box.offered - Len(box.events) + i]
        /\ Len(box.events) =< maximum_events /\ box.encoded =< maximum_bytes
        /\ box.encoded = SumFunction([i \in DOMAIN box.events |-> box.events[i].bytes])
        /\ box.taken + box.reported + box.skipped + Len(box.events) = box.offered

\* Once the publisher is gone no subscription waits for ever: those it found
\* are closed when it is done, those opened later on any channel, of an old
\* or a new page, are born closed, and no session is routed any more.
SubscriptionsEnd ==
    (routes_closed /\ closing = {}) =>
        /\ \A r \in Subscribers : inbox[r].open => inbox[r].closed
        /\ \A s \in Sessions : sessions[s] = "none"
=============================================================================
