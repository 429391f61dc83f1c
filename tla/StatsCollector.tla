--------------------------- MODULE StatsCollector ---------------------------
(***************************************************************************)
(* The collector thread of stats_server.py and the sqlite store it keeps   *)
(* in step with docker: Collector.run, follow, reconcile, handle_event and *)
(* Store.  The docker daemon (guests starting and exiting, the container   *)
(* list, the event log and its replay) is external: it is what the two     *)
(* calls of DockerClient see.                                              *)
(*                                                                         *)
(* A step of the collector is one call it makes to docker or to the store: *)
(* the daemon and the guests move between any two of them, the server may  *)
(* be killed between any two of them, and any of them may raise.           *)
(***************************************************************************)
EXTENDS Integers, Sequences, FiniteSets

CONSTANTS
    Guests,     \* one per ssh session: a guest container is never reused
    MaxTime,    \* bound: the last instant of the clock
    MaxOutages  \* bound: how many streams may break, calls raise, servers die

ASSUME MaxTimeAssumption == MaxTime \in Nat \ {0}
ASSUME MaxOutagesAssumption == MaxOutages \in Nat

VARIABLES
    clock,          \* the host's clock, two ticks to the second; starts at 1
    (* external: the docker daemon *)
    guest,          \* life of each guest container, and what docker has published of it
    born,           \* when it was created ("Created" in the container list)
    leftAt,         \* the time its die event carries; 0 until published
    events,         \* the start and die events published so far
    (* the collector thread *)
    pc,             \* where the thread is
    since,          \* the replay bound of the current /events request, in seconds
    cursor,         \* next event the stream delivers; 0 until the daemon subscribed it
    now,            \* the clock as reconcile read it
    listed,         \* the running guests, as the container list answered
    todo,           \* what the loop of reconcile has still to work through
    connected, reconciledAt, lastEventAt,
    (* the sessions table *)
    rows,
    outages

guestVars == <<guest, born, leftAt, events>>
streamVars == <<since, cursor>>
reconcileVars == <<now, listed, todo>>
shownVars == <<connected, reconciledAt, lastEventAt>>
vars == <<clock, guestVars, pc, streamVars, reconcileVars, shownVars, rows, outages>>

Times == 0..MaxTime
Second(t) == t \div 2           \* int() of an instant: whole seconds
Instant(s) == 2 * s             \* float() of whole seconds

Events == [action : {"start", "die"}, id : Guests, time : Times]
RowStates == {"absent", "open", "reconcile", "die"}
Rows == [state : RowStates, start : Times, end : Times]
NoRow == [state |-> "absent", start |-> 0, end |-> 0]

-----------------------------------------------------------------------------
(* The store.  A row's state stands for ended_at and end_reason together:  *)
(* "open" is ended_at NULL, the others name end_reason.                    *)

(* Mutants, here and below: each is the definition under it with one slip  *)
(* a change to the code could bring in.  None is part of the model.        *)

(* INSERT OR REPLACE *)
OpenSessionReplacing(row, startedAt) == [state |-> "open", start |-> startedAt, end |-> 0]

(* INSERT OR IGNORE *)
OpenSession(row, startedAt) ==
    IF row.state = "absent"
    THEN [state |-> "open", start |-> startedAt, end |-> 0]
    ELSE row

(* no END_RECONCILE clause: the first end stands *)
CloseSessionOnce(row, endedAt, reason) ==
    IF row.state = "open" THEN [row EXCEPT !.state = reason, !.end = endedAt] ELSE row

(* only an event ends a session *)
CloseSessionByEvent(row, endedAt, reason) ==
    IF row.state # "absent" /\ reason = "die"
    THEN [row EXCEPT !.state = reason, !.end = endedAt]
    ELSE row

(* UPDATE ... WHERE ended_at IS NULL OR (end_reason = reconcile AND reason = die) *)
CloseSession(row, endedAt, reason) ==
    IF row.state = "open" \/ (row.state = "reconcile" /\ reason = "die")
    THEN [row EXCEPT !.state = reason, !.end = endedAt]
    ELSE row

OpenIds == {g \in Guests : rows[g].state = "open"}

(* ended_at > ? *)
ConnectedInOpenWindow(at, window) ==
    {g \in Guests : \/ rows[g].state = "open"
                    \/ rows[g].state # "absent" /\ rows[g].end > at - window}

ConnectedInWindow(at, window) ==
    {g \in Guests : \/ rows[g].state = "open"
                    \/ rows[g].state # "absent" /\ rows[g].end >= at - window}

-----------------------------------------------------------------------------
(* The docker daemon, as DockerClient sees it.                             *)

Running == {g \in Guests : guest[g] \in {"up", "running"}}
Exited  == {g \in Guests : guest[g] \in {"exiting", "dead"}}

Tick ==
    /\ clock < MaxTime
    /\ clock' = clock + 1
    /\ UNCHANGED <<guestVars, pc, streamVars, reconcileVars, shownVars, rows, outages>>

(* Created and started: from here the guest is in the container list, but *)
(* its start event is not out yet.                                        *)
Start(g) ==
    /\ guest[g] = "none"
    /\ guest' = [guest EXCEPT ![g] = "up"]
    /\ born' = [born EXCEPT ![g] = clock]
    /\ UNCHANGED <<clock, leftAt, events, pc, streamVars, reconcileVars,
                   shownVars, rows, outages>>

Publish(action, g) ==
    events' = Append(events, [action |-> action, id |-> g, time |-> clock])

PublishStart(g) ==
    /\ guest[g] = "up"
    /\ guest' = [guest EXCEPT ![g] = "running"]
    /\ Publish("start", g)
    /\ UNCHANGED <<clock, born, leftAt, pc, streamVars, reconcileVars,
                   shownVars, rows, outages>>

(* From here the guest is not listed any more; its event is not out yet. *)
Exit(g) ==
    /\ guest[g] = "running"
    /\ guest' = [guest EXCEPT ![g] = "exiting"]
    /\ UNCHANGED <<clock, born, leftAt, events, pc, streamVars, reconcileVars,
                   shownVars, rows, outages>>

PublishDie(g) ==
    /\ guest[g] = "exiting"
    /\ guest' = [guest EXCEPT ![g] = "dead"]
    /\ leftAt' = [leftAt EXCEPT ![g] = clock]
    /\ Publish("die", g)
    /\ UNCHANGED <<clock, born, pc, streamVars, reconcileVars,
                   shownVars, rows, outages>>

Streaming == {"requested", "listing", "opening", "closing", "following"}

(* The daemon answers 200 and only then subscribes the stream; it begins   *)
(* with the first event that is not older than since.                      *)
DaemonSubscribes ==
    /\ pc \in Streaming
    /\ cursor = 0
    /\ \E c \in 1..(Len(events) + 1) :
          /\ \A i \in 1..(c - 1) : Second(events[i].time) < since
          /\ c <= Len(events) => Second(events[c].time) >= since
          /\ cursor' = c
    /\ UNCHANGED <<clock, guestVars, pc, since, reconcileVars, shownVars, rows, outages>>

-----------------------------------------------------------------------------
(* Collector.follow and reconcile.                                         *)

(* rounded up instead of down *)
ReplayFromNextSecond == Second(clock + 1)

ReplayFrom == Second(clock) - 1

(* docker.events(int(clock()) - 1) has answered *)
RequestEvents ==
    /\ pc = "idle"
    /\ pc' = "requested"
    /\ since' = ReplayFrom
    /\ cursor' = 0
    /\ UNCHANGED <<clock, guestVars, reconcileVars, shownVars, rows, outages>>

ReadClock ==
    /\ pc = "requested"
    /\ pc' = "listing"
    /\ now' = clock
    /\ UNCHANGED <<clock, guestVars, streamVars, listed, todo, shownVars, rows, outages>>

(* the list only serves to find who is gone *)
ListRunningUnopened ==
    /\ pc = "listing"
    /\ pc' = "opening"
    /\ listed' = Running
    /\ UNCHANGED <<clock, guestVars, streamVars, now, todo, shownVars, rows, outages>>

ListRunning ==
    /\ pc = "listing"
    /\ pc' = "opening"
    /\ listed' = Running
    /\ todo' = Running
    /\ UNCHANGED <<clock, guestVars, streamVars, now, shownVars, rows, outages>>

(* "Created" taken for clock ticks *)
CreatedInTicks(g) == Instant(born[g])

(* "Created" of the container list is in whole seconds *)
Created(g) == Instant(Second(born[g]))

OpenListed(g) ==
    /\ pc = "opening"
    /\ g \in todo
    /\ rows' = [rows EXCEPT ![g] = OpenSession(@, Created(g))]
    /\ todo' = todo \ {g}
    /\ UNCHANGED <<clock, guestVars, pc, streamVars, now, listed, shownVars, outages>>

(* the difference forgotten *)
AllOpen == OpenIds

(* store.open_ids() - running *)
Gone == OpenIds \ listed

FindGone ==
    /\ pc = "opening"
    /\ todo = {}
    /\ pc' = "closing"
    /\ todo' = Gone
    /\ listed' = {}
    /\ UNCHANGED <<clock, guestVars, streamVars, now, shownVars, rows, outages>>

CloseGone(g) ==
    /\ pc = "closing"
    /\ g \in todo
    /\ rows' = [rows EXCEPT ![g] = CloseSession(@, now, "reconcile")]
    /\ todo' = todo \ {g}
    /\ UNCHANGED <<clock, guestVars, pc, streamVars, now, listed, shownVars, outages>>

Reconciled ==
    /\ pc = "closing"
    /\ todo = {}
    /\ pc' = "following"
    /\ reconciledAt' = now
    /\ now' = 0
    /\ connected' = TRUE
    /\ UNCHANGED <<clock, guestVars, streamVars, listed, todo, lastEventAt, rows, outages>>

HandleEvent ==
    /\ pc = "following"
    /\ cursor \in 1..Len(events)
    /\ LET event == events[cursor] IN
          /\ lastEventAt' = event.time
          /\ rows' = [rows EXCEPT ![event.id] =
                        IF event.action = "start"
                        THEN OpenSession(@, event.time)
                        ELSE CloseSession(@, event.time, "die")]
    /\ cursor' = cursor + 1
    /\ UNCHANGED <<clock, guestVars, pc, since, reconcileVars, connected, reconciledAt, outages>>

(* The daemon closed the stream, or docker or the store raised: follow     *)
(* leaves through its finally clause, whatever it had got done.            *)
StreamLost ==
    /\ pc \in Streaming
    /\ outages < MaxOutages
    /\ outages' = outages + 1
    /\ pc' = "ended"
    /\ since' = 0 /\ cursor' = 0
    /\ now' = 0 /\ listed' = {} /\ todo' = {}
    /\ UNCHANGED <<clock, guestVars, shownVars, rows>>

(* only the next reconcile changes connected *)
DisconnectedQuietly ==
    /\ pc = "ended"
    /\ pc' = "idle"
    /\ UNCHANGED <<clock, guestVars, streamVars, reconcileVars, shownVars, rows, outages>>

(* run's except and else branches, before it waits reconnect_delay *)
Disconnected ==
    /\ pc = "ended"
    /\ pc' = "idle"
    /\ connected' = FALSE
    /\ UNCHANGED <<clock, guestVars, streamVars, reconcileVars, reconciledAt, lastEventAt,
                   rows, outages>>

(* The stats container is killed; only the database file survives it. *)
Crash ==
    /\ pc # "down"
    /\ outages < MaxOutages
    /\ outages' = outages + 1
    /\ pc' = "down"
    /\ since' = 0 /\ cursor' = 0
    /\ now' = 0 /\ listed' = {} /\ todo' = {}
    /\ connected' = FALSE /\ reconciledAt' = 0 /\ lastEventAt' = 0
    /\ UNCHANGED <<clock, guestVars, rows>>

Boot ==
    /\ pc = "down"
    /\ pc' = "idle"
    /\ UNCHANGED <<clock, guestVars, streamVars, reconcileVars, shownVars, rows, outages>>

-----------------------------------------------------------------------------
Init ==
    /\ clock = 1
    /\ guest = [g \in Guests |-> "none"]
    /\ born = [g \in Guests |-> 0]
    /\ leftAt = [g \in Guests |-> 0]
    /\ events = <<>>
    /\ pc = "down"
    /\ since = 0 /\ cursor = 0
    /\ now = 0 /\ listed = {} /\ todo = {}
    /\ connected = FALSE /\ reconciledAt = 0 /\ lastEventAt = 0
    /\ rows = [g \in Guests |-> NoRow]
    /\ outages = 0

GuestStep(g) == Start(g) \/ PublishStart(g) \/ Exit(g) \/ PublishDie(g)

CollectorStep ==
    \/ RequestEvents \/ ReadClock \/ ListRunning
    \/ \E g \in Guests : OpenListed(g) \/ CloseGone(g)
    \/ FindGone \/ Reconciled \/ HandleEvent \/ Disconnected

Next ==
    \/ Tick
    \/ \E g \in Guests : GuestStep(g)
    \/ DaemonSubscribes
    \/ CollectorStep
    \/ StreamLost
    \/ Crash
    \/ Boot

Spec == Init /\ [][Next]_vars

(* The collector thread and the daemon keep running; guests come and go    *)
(* as they like, and nothing makes a stream break, a server die, or one    *)
(* that died start again (compose is told restart: "no").                  *)
Fairness ==
    /\ WF_vars(CollectorStep)
    /\ WF_vars(DaemonSubscribes)
    /\ \A g \in Guests : WF_vars(PublishStart(g)) /\ WF_vars(PublishDie(g))

FairSpec == Spec /\ Fairness

-----------------------------------------------------------------------------
(* Every variable keeps its type. *)
TypeOK ==
    /\ clock \in 1..MaxTime
    /\ guest \in [Guests -> {"none", "up", "running", "exiting", "dead"}]
    /\ born \in [Guests -> Times]
    /\ leftAt \in [Guests -> Times]
    /\ events \in Seq(Events)
    /\ pc \in Streaming \cup {"down", "idle", "ended"}
    /\ since \in -1..MaxTime
    /\ cursor \in Nat
    /\ now \in Times
    /\ listed \in SUBSET Guests
    /\ todo \in SUBSET Guests
    /\ connected \in BOOLEAN
    /\ reconciledAt \in Times
    /\ lastEventAt \in Times
    /\ rows \in [Guests -> Rows]
    /\ outages \in 0..MaxOutages

(* Docker has published all there is to say, and the collector has applied *)
(* everything the stream had for it. *)
Settled ==
    /\ pc = "following"
    /\ cursor = Len(events) + 1
    /\ \A g \in Guests : guest[g] \notin {"up", "exiting"}

(* One open session per running guest (the Collector docstring): however a *)
(* guest's start and exit fell between the subscription, the list and the  *)
(* events, and whatever broke before, once the stream has been drained the *)
(* open rows are the running guests. *)
OpenIsRunning == Settled => OpenIds = Running

(* An ended row belongs to a guest that is over, and the end an event      *)
(* reported is the one docker announced - a replayed, duplicated or late   *)
(* event never closes a live session or moves an observed end. *)
ObservedEnds ==
    \A g \in Guests :
        /\ rows[g].state \in {"reconcile", "die"} => g \in Exited /\ rows[g].start <= rows[g].end
        /\ rows[g].state = "die" => rows[g].end = leftAt[g]

(* connected_in_window, once settled, counts a recorded session exactly    *)
(* when it was still running inside the window - except that a guessed end *)
(* may be off, which is all reconciliation can know. *)
WindowExact ==
    Settled =>
        \A window \in 1..MaxTime : \A g \in Guests :
            rows[g].state \notin {"absent", "reconcile"} =>
                (g \in ConnectedInWindow(clock, window)
                    <=> g \in Running \/ (leftAt[g] # 0 /\ leftAt[g] >= clock - window))

(* A guess is overwritten by the event whenever the stream still has it:   *)
(* once settled, a guessed end is left only where the die event is older   *)
(* than the replay bound of this stream - so it was before reconciledAt. *)
GuessOnlyWhereUnseen ==
    Settled =>
        \A g \in Guests : rows[g].state = "reconcile" => Second(leftAt[g]) < since

(* Nothing the collector does contradicts the ledger that the statistics   *)
(* are documented to be. *)
session ==
    [g \in Guests |-> IF guest[g] = "none" THEN "never"
                      ELSE IF g \in Running THEN "connected" ELSE "left"]

Ledger == INSTANCE SessionLedger WITH
    Time <- Times, session <- session, leftAt <- leftAt, ledger <- rows

RefinesLedger == Ledger!Spec

(* From some point on the server is not down. *)
StaysUp == <>[](pc # "down")

(* A guest that stays is counted: whatever streams broke and calls raised  *)
(* before, a running guest gets a row, or leaves, if the server stays up.  *)
GuestCounted ==
    StaysUp =>
        \A g \in Guests : guest[g] = "running" ~> (rows[g].state # "absent" \/ g \in Exited)

(* No session stays open for ever once its guest is gone - also one that   *)
(* went while no server was there to see it - if the server stays up.      *)
SessionEnds ==
    StaysUp => \A g \in Guests : guest[g] = "dead" ~> rows[g].state # "open"
=============================================================================
