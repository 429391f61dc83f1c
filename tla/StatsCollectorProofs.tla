------------------------ MODULE StatsCollectorProofs ------------------------
(***************************************************************************)
(* For any number of guests, any length of the clock and any number of     *)
(* outages: the collector's variables keep their types, the open rows are  *)
(* the running guests whenever the stream is drained, ended rows are right *)
(* about their guests, and the whole implements SessionLedger.             *)
(*                                                                         *)
(* The argument is that of the Collector docstring.  A change of a guest   *)
(* that the container list did not show is still to come on the stream     *)
(* (WillSee), because the stream was asked for from before the moment the  *)
(* list was made.  The invariant says, for each place the thread can be,   *)
(* which guests still need an event and which are still on the list.       *)
(***************************************************************************)
EXTENDS StatsCollector, TLAPS

(* Event i of the log is the given one. *)
IsEvent(i, action, g) == events[i].action = action /\ events[i].id = g

(* The stream, once drained, will have delivered this event: docker has    *)
(* still to publish it, or it is ahead of the cursor, or it will be        *)
(* replayed when the daemon gets round to the subscription. *)
WillSee(action, g) ==
    \/ action = "start" /\ guest[g] = "up"
    \/ action = "die" /\ guest[g] = "exiting"
    \/ \E i \in 1..Len(events) :
          /\ IsEvent(i, action, g)
          /\ IF cursor = 0 THEN Second(events[i].time) >= since ELSE i >= cursor

(* What docker's log says is what happened, in the order it happened. *)
EventTrue(e) ==
    /\ e.time <= clock
    /\ e.action = "start" => guest[e.id] \in {"running", "exiting", "dead"}
    /\ e.action = "start" /\ leftAt[e.id] # 0 => e.time <= leftAt[e.id]
    /\ e.action = "die" => guest[e.id] = "dead" /\ e.time = leftAt[e.id]

EventsTrue == \A i \in 1..Len(events) : EventTrue(events[i])

StartBeforeDie ==
    \A i, j \in 1..Len(events) :
        /\ events[i].action = "start" /\ events[j].action = "die"
        /\ events[i].id = events[j].id
        => i < j

GuestTimes ==
    \A g \in Guests :
        /\ born[g] <= clock
        /\ leftAt[g] # 0 <=> guest[g] = "dead"
        /\ leftAt[g] # 0 => born[g] <= leftAt[g] /\ leftAt[g] <= clock

DieLogged ==
    \A g \in Guests : guest[g] = "dead" => \E i \in 1..Len(events) : IsEvent(i, "die", g)

LogInv == EventsTrue /\ StartBeforeDie /\ GuestTimes /\ DieLogged

(* A row is only ever written for a guest that was there, and is right about it. *)
RowTrue(g) ==
    /\ rows[g].state # "absent" =>
          /\ guest[g] # "none"
          /\ rows[g].start <= clock
          /\ leftAt[g] # 0 => rows[g].start <= leftAt[g]
    /\ rows[g].state \in {"reconcile", "die"} => g \in Exited /\ rows[g].start <= rows[g].end
    /\ rows[g].state = "die" => leftAt[g] # 0 /\ rows[g].end = leftAt[g]

RowInv == \A g \in Guests : RowTrue(g)

(* The stream was asked for from before now, and before the list was made. *)
StreamInv ==
    pc \in Streaming =>
        /\ since <= Second(clock) - 1
        /\ cursor <= Len(events) + 1
        /\ now <= clock
        /\ pc \in {"listing", "opening", "closing"} => now # 0

IdleInv == pc \in {"down", "idle", "ended"} => now = 0

ListingInv ==
    pc = "listing" => \A g \in Guests : rows[g].state # "absent" => rows[g].start <= now

(* The list in hand: what it got wrong since it was made is on the stream. *)
Opening(g) ==
    /\ g \in listed => guest[g] # "none"
    /\ g \in listed => g \in Running \/ WillSee("die", g)
    /\ g \in Running /\ rows[g].state = "absent" => g \in todo \/ WillSee("start", g)
    /\ rows[g].state # "absent" /\ g \notin listed => g \in Exited /\ rows[g].start <= now

OpeningInv ==
    pc = "opening" =>
        /\ todo \subseteq listed
        /\ \A g \in Guests : Opening(g)

(* Everything the rows are missing is in todo or on the stream. *)
Closing(g) ==
    /\ g \in todo => g \in Exited /\ rows[g].state = "open" /\ rows[g].start <= now
    /\ rows[g].state = "open" /\ g \notin Running => g \in todo \/ WillSee("die", g)
    /\ g \in Running /\ rows[g].state = "absent" => WillSee("start", g)

ClosingInv ==
    pc \in {"closing", "following"} =>
        /\ pc = "following" => todo = {}
        /\ \A g \in Guests : Closing(g)

IInv == TypeOK /\ LogInv /\ RowInv /\ StreamInv /\ IdleInv /\ ListingInv /\ OpeningInv /\ ClosingInv

-----------------------------------------------------------------------------
(* Types. *)

(* The types at first.                                                     *)
LEMMA InitType == Init => TypeOK
<1> SUFFICES ASSUME Init PROVE TypeOK
  OBVIOUS
<1>1. NoRow \in Rows
  BY MaxTimeAssumption DEF NoRow, Rows, RowStates, Times
<1>2. 0 \in Times /\ 1 \in 1..MaxTime /\ 0 \in 0..MaxOutages /\ 0 \in -1..MaxTime
  BY MaxTimeAssumption, MaxOutagesAssumption DEF Times
<1>3. events \in Seq(Events)
  BY DEF Init
<1> QED
  BY <1>1, <1>2, <1>3 DEF Init, TypeOK, Streaming

(* The store's two statements keep a row a row. *)
LEMMA RowTypes ==
    ASSUME NEW row \in Rows,
           NEW t \in Times, NEW reason \in {"reconcile", "die"}
    PROVE  /\ OpenSession(row, t) \in Rows
           /\ CloseSession(row, t, reason) \in Rows
<1>1. 0 \in Times
  BY MaxTimeAssumption DEF Times
<1>2. OpenSession(row, t) \in Rows
  BY <1>1 DEF OpenSession, Rows, RowStates
<1>3. CloseSession(row, t, reason) \in Rows
  BY DEF CloseSession, Rows, RowStates
<1> QED
  BY <1>2, <1>3

(* Whole seconds round down, by less than one. *)
LEMMA SecondFloor ==
    ASSUME NEW t \in Nat
    PROVE  /\ Second(t) \in Nat /\ Second(t) <= t
           /\ Instant(Second(t)) \in Nat /\ Instant(Second(t)) <= t
           /\ t < Instant(Second(t)) + 2
BY DEF Second, Instant

(* Rounding down to seconds keeps the order.                               *)
LEMMA SecondMonotone ==
    ASSUME NEW s \in Nat, NEW t \in Nat, s <= t
    PROVE  Second(s) <= Second(t)
BY DEF Second

(* The types are kept.                                                     *)
LEMMA NextType == TypeOK /\ [Next]_vars => TypeOK'
<1> SUFFICES ASSUME TypeOK, [Next]_vars PROVE TypeOK'
  OBVIOUS
<1> USE MaxTimeAssumption, MaxOutagesAssumption
<1> clock \in Nat /\ clock \in Times /\ 0 \in Times
  BY DEF TypeOK, Times
<1>1. CASE Tick
  BY <1>1 DEF Tick, TypeOK, guestVars, streamVars, reconcileVars, shownVars
<1>2. CASE \E g \in Guests : GuestStep(g)
  <2>1. PICK g \in Guests : GuestStep(g)
    BY <1>2
  <2>2. ASSUME NEW action \in {"start", "die"}, Publish(action, g)
        PROVE  events' \in Seq(Events)
    <3>1. [action |-> action, id |-> g, time |-> clock] \in Events
      BY DEF Events
    <3> QED
      BY <2>2, <3>1 DEF Publish, TypeOK
  <2>3. CASE Start(g)
    BY <2>3 DEF Start, TypeOK, streamVars, reconcileVars, shownVars
  <2>4. CASE PublishStart(g)
    BY <2>2, <2>4 DEF PublishStart, TypeOK, streamVars, reconcileVars, shownVars
  <2>5. CASE Exit(g)
    BY <2>5 DEF Exit, TypeOK, streamVars, reconcileVars, shownVars
  <2>6. CASE PublishDie(g)
    BY <2>2, <2>6 DEF PublishDie, TypeOK, streamVars, reconcileVars, shownVars
  <2> QED
    BY <2>1, <2>3, <2>4, <2>5, <2>6 DEF GuestStep
<1>3. CASE DaemonSubscribes
  BY <1>3 DEF DaemonSubscribes, TypeOK, guestVars, reconcileVars, shownVars
<1>4. CASE CollectorStep
  <2>1. CASE RequestEvents
    <3>1. Second(clock) - 1 \in -1..MaxTime
      <4>1. clock \in Nat /\ clock <= MaxTime
        BY DEF TypeOK
      <4>2. Second(clock) \in Nat /\ Second(clock) <= clock
        BY <4>1, SecondFloor
      <4> QED
        BY <4>1, <4>2
    <3> QED
      BY <2>1, <3>1 DEF RequestEvents, ReplayFrom, TypeOK, guestVars, reconcileVars,
          shownVars, Streaming
  <2>2. CASE ReadClock
    BY <2>2 DEF ReadClock, TypeOK, guestVars, streamVars, shownVars, Streaming
  <2>3. CASE ListRunning
    BY <2>3 DEF ListRunning, Running, TypeOK, guestVars, streamVars, shownVars, Streaming
  <2>4. ASSUME NEW g \in Guests, OpenListed(g) PROVE TypeOK'
    <3>1. Instant(Second(born[g])) \in Times
      <4>1. born[g] \in Nat /\ born[g] <= MaxTime
        BY DEF TypeOK, Times
      <4> QED
        BY <4>1, SecondFloor DEF Times
    <3>2. OpenSession(rows[g], Instant(Second(born[g]))) \in
             Rows
      BY <3>1, RowTypes DEF TypeOK
    <3> QED
      BY <2>4, <3>2 DEF OpenListed, Created, TypeOK, guestVars, streamVars, shownVars
  <2>5. ASSUME NEW g \in Guests, CloseGone(g) PROVE TypeOK'
    <3>1. CloseSession(rows[g], now, "reconcile") \in
             Rows
      BY RowTypes DEF TypeOK
    <3> QED
      BY <2>5, <3>1 DEF CloseGone, TypeOK, guestVars, streamVars, shownVars
  <2>6. CASE FindGone
    BY <2>6 DEF FindGone, Gone, OpenIds, TypeOK, guestVars, streamVars, shownVars, Streaming
  <2>7. CASE Reconciled
    BY <2>7 DEF Reconciled, TypeOK, guestVars, streamVars, Streaming
  <2>8. CASE HandleEvent
    <3>1. events[cursor] \in Events
      BY <2>8 DEF HandleEvent, TypeOK
    <3> DEFINE e == events[cursor]
    <3>2. e.id \in Guests /\ e.time \in Times
      BY <3>1 DEF Events
    <3>3. /\ OpenSession(rows[e.id], e.time) \in
                Rows
          /\ CloseSession(rows[e.id], e.time, "die") \in
                Rows
      BY <3>2, RowTypes DEF TypeOK
    <3> QED
      BY <2>8, <3>2, <3>3 DEF HandleEvent, TypeOK, guestVars, reconcileVars
  <2>9. CASE Disconnected
    BY <2>9 DEF Disconnected, TypeOK, guestVars, streamVars, reconcileVars
  <2> QED
    BY <1>4, <2>1, <2>2, <2>3, <2>4, <2>5, <2>6, <2>7, <2>8, <2>9 DEF CollectorStep
<1>5. CASE StreamLost
  BY <1>5 DEF StreamLost, TypeOK, guestVars, shownVars
<1>6. CASE Crash
  <2>1. outages' \in 0..MaxOutages
    BY <1>6 DEF Crash, TypeOK
  <2>2. 0 \in Nat /\ 0 \in -1..MaxTime
    OBVIOUS
  <2> QED
    BY <1>6, <2>1, <2>2 DEF Crash, TypeOK, guestVars
<1>7. CASE Boot
  BY <1>7 DEF Boot, TypeOK, guestVars, streamVars, reconcileVars, shownVars
<1>8. CASE UNCHANGED vars
  BY <1>8 DEF TypeOK, vars, guestVars, streamVars, reconcileVars, shownVars
<1> QED
  BY <1>1, <1>2, <1>3, <1>4, <1>5, <1>6, <1>7, <1>8 DEF Next

(* Type correctness, for every set of guests and every bound. *)
THEOREM TypeCorrect == Spec => []TypeOK
<1>1. Init => TypeOK
  BY InitType
<1>2. TypeOK /\ [Next]_vars => TypeOK'
  BY NextType
<1> QED
  BY <1>1, <1>2, PTL DEF Spec

-----------------------------------------------------------------------------
(* The docker daemon.                                                      *)

(* docker adds to the end of its log, stamped with the clock.              *)
LEMMA PublishAppends ==
    ASSUME TypeOK, NEW g \in Guests, NEW action \in {"start", "die"}, Publish(action, g)
    PROVE  /\ Len(events) \in Nat
           /\ Len(events') = Len(events) + 1
           /\ \A i \in 1..Len(events) : events'[i] = events[i]
           /\ events'[Len(events) + 1] = [action |-> action, id |-> g, time |-> clock]
<1>1. [action |-> action, id |-> g, time |-> clock] \in Events
  BY DEF Events, TypeOK, Times
<1> QED
  BY <1>1 DEF Publish, TypeOK

(* Only the clock and the guests' own steps touch what docker knows. *)
LEMMA WhoMovesGuests ==
    [Next]_vars =>
        \/ Tick
        \/ \E g \in Guests : GuestStep(g)
        \/ UNCHANGED <<clock, guestVars>>
BY DEF Next, CollectorStep, vars, DaemonSubscribes, RequestEvents, ReadClock, ListRunning,
       OpenListed, FindGone, CloseGone, Reconciled, HandleEvent, StreamLost, Disconnected,
       Crash, Boot

(* An empty log.                                                           *)
LEMMA InitLog == Init => LogInv
BY DEF Init, LogInv, EventsTrue, StartBeforeDie, GuestTimes, DieLogged

(* When guests started and ended lies in the past and in this order ...    *)
LEMMA GuestTimesStep == TypeOK /\ LogInv /\ [Next]_vars => GuestTimes'
<1> SUFFICES ASSUME TypeOK, GuestTimes, [Next]_vars, NEW h \in Guests
             PROVE  /\ born'[h] <= clock'
                    /\ leftAt'[h] # 0 <=> guest'[h] = "dead"
                    /\ leftAt'[h] # 0 => born'[h] <= leftAt'[h] /\ leftAt'[h] <= clock'
  BY DEF GuestTimes, LogInv
<1> clock \in Nat /\ clock # 0 /\ born[h] \in Nat /\ leftAt[h] \in Nat
  BY DEF TypeOK, Times
<1>1. CASE Tick
  BY <1>1 DEF Tick, guestVars, GuestTimes
<1>2. ASSUME NEW g \in Guests, GuestStep(g)
      PROVE  /\ born'[h] <= clock'
             /\ leftAt'[h] # 0 <=> guest'[h] = "dead"
             /\ leftAt'[h] # 0 => born'[h] <= leftAt'[h] /\ leftAt'[h] <= clock'
  BY <1>2 DEF GuestStep, Start, PublishStart, Exit, PublishDie, TypeOK, GuestTimes
<1>3. CASE UNCHANGED <<clock, guestVars>>
  BY <1>3 DEF guestVars, GuestTimes
<1> QED
  BY <1>1, <1>2, <1>3, WhoMovesGuests

(* ... the log tells the truth of it ...                                   *)
LEMMA EventsTrueStep == TypeOK /\ LogInv /\ [Next]_vars => EventsTrue'
<1> SUFFICES ASSUME TypeOK, LogInv, [Next]_vars, NEW i \in 1..Len(events')
             PROVE  EventTrue(events[i])'
  BY DEF EventsTrue
<1> clock \in Nat /\ clock # 0
  BY DEF TypeOK
<1> DEFINE Kept == i \in 1..Len(events) /\ events'[i] = events[i]
<1>1. Kept => /\ EventTrue(events[i])
              /\ events[i].id \in Guests
              /\ events[i].action \in {"start", "die"}
              /\ events[i].time \in Nat
  <2> SUFFICES ASSUME Kept PROVE /\ EventTrue(events[i])
                                 /\ events[i].id \in Guests
                                 /\ events[i].action \in {"start", "die"}
                                 /\ events[i].time \in Nat
    OBVIOUS
  <2>1. events[i] \in Events
    BY DEF TypeOK
  <2> QED
    BY <2>1 DEF LogInv, EventsTrue, Events, Times
<1>2. CASE Tick
  <2>1. Kept /\ leftAt' = leftAt /\ guest' = guest /\ clock' = clock + 1
    BY <1>2 DEF Tick, guestVars
  <2> QED
    BY <1>1, <2>1 DEF EventTrue
<1>3. ASSUME NEW g \in Guests, GuestStep(g) PROVE EventTrue(events[i])'
  <2>1. CASE Start(g)
    BY <1>1, <2>1 DEF Start, EventTrue, TypeOK
  <2>2. CASE PublishStart(g)
    <3>1. leftAt[g] = 0
      BY <2>2 DEF PublishStart, LogInv, GuestTimes
    <3>p. Publish("start", g)
      BY <2>2 DEF PublishStart
    <3>a. /\ Len(events) \in Nat
          /\ Len(events') = Len(events) + 1
          /\ \A k \in 1..Len(events) : events'[k] = events[k]
          /\ events'[Len(events) + 1] = [action |-> "start", id |-> g, time |-> clock]
      BY <3>p, PublishAppends
    <3>2. CASE i = Len(events) + 1
      BY <2>2, <3>1, <3>2, <3>a DEF PublishStart, EventTrue, TypeOK
    <3>3. CASE i # Len(events) + 1
      <4>1. Kept
        BY <3>3, <3>a
      <4> QED
        BY <1>1, <2>2, <4>1 DEF PublishStart, EventTrue, TypeOK
    <3> QED
      BY <3>2, <3>3
  <2>3. CASE Exit(g)
    BY <1>1, <2>3 DEF Exit, EventTrue, TypeOK
  <2>4. CASE PublishDie(g)
    <3>p. Publish("die", g)
      BY <2>4 DEF PublishDie
    <3>a. /\ Len(events) \in Nat
          /\ Len(events') = Len(events) + 1
          /\ \A k \in 1..Len(events) : events'[k] = events[k]
          /\ events'[Len(events) + 1] = [action |-> "die", id |-> g, time |-> clock]
      BY <3>p, PublishAppends
    <3>1. CASE i = Len(events) + 1
      BY <2>4, <3>1, <3>a DEF PublishDie, EventTrue, TypeOK
    <3>2. CASE i # Len(events) + 1
      <4>1. Kept
        BY <3>2, <3>a
      <4> QED
        BY <1>1, <2>4, <4>1 DEF PublishDie, EventTrue, TypeOK
    <3> QED
      BY <3>1, <3>2
  <2> QED
    BY <1>3, <2>1, <2>2, <2>3, <2>4 DEF GuestStep
<1>4. CASE UNCHANGED <<clock, guestVars>>
  BY <1>1, <1>4 DEF guestVars, EventTrue
<1> QED
  BY <1>2, <1>3, <1>4, WhoMovesGuests

(* ... a start before its end ...                                          *)
LEMMA StartBeforeDieStep == TypeOK /\ LogInv /\ [Next]_vars => StartBeforeDie'
<1> SUFFICES ASSUME TypeOK, LogInv, [Next]_vars PROVE StartBeforeDie'
  OBVIOUS
<1>1. CASE UNCHANGED events
  BY <1>1 DEF LogInv, StartBeforeDie
<1>2. ASSUME NEW g \in Guests, PublishStart(g) PROVE StartBeforeDie'
  <2>1. \A j \in 1..Len(events) : ~(events[j].action = "die" /\ events[j].id = g)
    BY <1>2 DEF PublishStart, LogInv, EventsTrue, EventTrue
  <2>2. Publish("start", g)
    BY <1>2 DEF PublishStart
  <2>3. /\ Len(events) \in Nat
        /\ Len(events') = Len(events) + 1
        /\ \A k \in 1..Len(events) : events'[k] = events[k]
        /\ events'[Len(events) + 1] = [action |-> "start", id |-> g, time |-> clock]
    BY <2>2, PublishAppends
  <2> QED
    BY <2>1, <2>3 DEF LogInv, StartBeforeDie
<1>3. ASSUME NEW g \in Guests, PublishDie(g) PROVE StartBeforeDie'
  <2>1. Publish("die", g)
    BY <1>3 DEF PublishDie
  <2>2. /\ Len(events) \in Nat
        /\ Len(events') = Len(events) + 1
        /\ \A k \in 1..Len(events) : events'[k] = events[k]
        /\ events'[Len(events) + 1] = [action |-> "die", id |-> g, time |-> clock]
    BY <2>1, PublishAppends
  <2> QED
    BY <2>2 DEF LogInv, StartBeforeDie
<1>4. UNCHANGED events \/ \E g \in Guests : PublishStart(g) \/ PublishDie(g)
  BY WhoMovesGuests DEF Tick, GuestStep, Start, Exit, guestVars
<1> QED
  BY <1>1, <1>2, <1>3, <1>4

(* ... and every end of one is in it, once docker has published it.        *)
LEMMA DieLoggedStep == TypeOK /\ LogInv /\ [Next]_vars => DieLogged'
<1> SUFFICES ASSUME TypeOK, LogInv, [Next]_vars, NEW h \in Guests, guest'[h] = "dead"
             PROVE  \E i \in 1..Len(events') : IsEvent(i, "die", h)'
  BY DEF DieLogged
<1>1. CASE UNCHANGED events /\ guest[h] = "dead"
  BY <1>1 DEF LogInv, DieLogged, IsEvent
<1>2. ASSUME NEW g \in Guests, NEW action \in {"start", "die"}, Publish(action, g),
             guest[h] = "dead" \/ (action = "die" /\ h = g)
      PROVE  \E i \in 1..Len(events') : IsEvent(i, "die", h)'
  <2>1. /\ Len(events) \in Nat
        /\ Len(events') = Len(events) + 1
        /\ \A k \in 1..Len(events) : events'[k] = events[k]
        /\ events'[Len(events) + 1] = [action |-> action, id |-> g, time |-> clock]
    BY <1>2, PublishAppends
  <2>2. CASE guest[h] = "dead"
    BY <2>1, <2>2 DEF LogInv, DieLogged, IsEvent
  <2>3. CASE action = "die" /\ h = g
    BY <2>1, <2>3 DEF IsEvent
  <2> QED
    BY <1>2, <2>2, <2>3
<1>3. \/ UNCHANGED events /\ guest[h] = "dead"
      \/ \E g \in Guests : \E action \in {"start", "die"} :
            Publish(action, g) /\ (guest[h] = "dead" \/ (action = "die" /\ h = g))
  BY WhoMovesGuests
  DEF Tick, GuestStep, Start, PublishStart, Exit, PublishDie, guestVars, TypeOK
<1> QED
  BY <1>1, <1>2, <1>3

(* The parts of LogInv together.                                           *)
LEMMA LogStep == TypeOK /\ LogInv /\ [Next]_vars => LogInv'
BY GuestTimesStep, EventsTrueStep, StartBeforeDieStep, DieLoggedStep DEF LogInv

-----------------------------------------------------------------------------
(* What everyone but the collector can do between two of its steps.        *)

EnvStep == Tick \/ (\E g \in Guests : GuestStep(g)) \/ DaemonSubscribes

(* What the guests, docker and the clock can do to the collector between   *)
(* two of its steps: guests come and go, the log grows, the clock moves    *)
(* on, and nothing the collector holds changes.                            *)
LEMMA EnvEffects ==
    ASSUME TypeOK, EnvStep
    PROVE  /\ UNCHANGED <<pc, since, now, listed, todo, rows>>
           /\ clock' \in Nat /\ clock <= clock'
           /\ \A g \in Guests :
                 /\ g \in Running => g \in Running' \/ guest'[g] = "exiting"
                 /\ g \in Running' => g \in Running \/ guest'[g] = "up"
                 /\ g \in Exited => g \in Exited'
                 /\ guest[g] # "none" => guest'[g] # "none"
                 /\ guest'[g] = "none" => guest[g] = "none"
<1> clock \in Nat
  BY DEF TypeOK
<1>1. CASE Tick
  BY <1>1 DEF Tick, guestVars, streamVars, reconcileVars, shownVars, Running, Exited
<1>2. ASSUME NEW g \in Guests, GuestStep(g)
      PROVE  /\ UNCHANGED <<clock, pc, since, now, listed, todo, rows>>
             /\ \A h \in Guests :
                 /\ h \in Running => h \in Running' \/ guest'[h] = "exiting"
                 /\ h \in Running' => h \in Running \/ guest'[h] = "up"
                 /\ h \in Exited => h \in Exited'
                 /\ guest[h] # "none" => guest'[h] # "none"
                 /\ guest'[h] = "none" => guest[h] = "none"
  BY <1>2 DEF GuestStep, Start, PublishStart, Exit, PublishDie, TypeOK,
              streamVars, reconcileVars, shownVars, Running, Exited
<1>3. CASE DaemonSubscribes
  BY <1>3 DEF DaemonSubscribes, guestVars, reconcileVars, shownVars, Running, Exited
<1> QED
  BY <1>1, <1>2, <1>3 DEF EnvStep

(* A published event is appended where the stream will still come to it. *)
LEMMA WillSeePublished ==
    ASSUME TypeOK, StreamInv, pc \in Streaming, NEW g \in Guests,
           NEW action \in {"start", "die"}, Publish(action, g),
           UNCHANGED <<cursor, since>>
    PROVE  WillSee(action, g)'
<1>1. /\ Len(events) \in Nat
      /\ Len(events') = Len(events) + 1
      /\ events'[Len(events) + 1] = [action |-> action, id |-> g, time |-> clock]
  BY PublishAppends
<1>2. Second(clock) >= since /\ cursor <= Len(events) + 1
  <2>1. Second(clock) \in Nat /\ since \in Int
    BY SecondFloor DEF TypeOK
  <2> QED
    BY <2>1 DEF StreamInv
<1> QED
  BY <1>1, <1>2 DEF WillSee, IsEvent

(* What is on its way stays on its way until the collector takes it. *)
LEMMA WillSeeKept ==
    ASSUME TypeOK, StreamInv, pc \in Streaming, EnvStep,
           NEW g \in Guests, NEW action \in {"start", "die"}, WillSee(action, g)
    PROVE  WillSee(action, g)'
<1>1. CASE Tick
  BY <1>1 DEF Tick, guestVars, streamVars, WillSee, IsEvent
<1>2. ASSUME NEW h \in Guests, GuestStep(h) PROVE WillSee(action, g)'
  <2>1. CASE UNCHANGED <<events, cursor, since>> /\ guest'[g] = guest[g]
    BY <2>1 DEF WillSee, IsEvent
  <2>2. ASSUME UNCHANGED <<cursor, since>>, NEW a \in {"start", "die"}, Publish(a, h),
               guest'[g] = guest[g] \/ (g = h /\ guest[g] = "up" /\ a = "start")
                                   \/ (g = h /\ guest[g] = "exiting" /\ a = "die")
        PROVE  WillSee(action, g)'
    <3>1. /\ Len(events) \in Nat
          /\ Len(events') = Len(events) + 1
          /\ \A k \in 1..Len(events) : events'[k] = events[k]
      BY <2>2, PublishAppends
    <3>2. CASE \E i \in 1..Len(events) :
                  /\ IsEvent(i, action, g)
                  /\ IF cursor = 0 THEN Second(events[i].time) >= since ELSE i >= cursor
      BY <2>2, <3>1, <3>2 DEF WillSee, IsEvent
    <3>3. CASE g = h /\ a = action
      BY <2>2, <3>3, WillSeePublished
    <3>4. CASE guest'[g] = guest[g]
      BY <3>2, <3>4 DEF WillSee
    <3> QED
      BY <2>2, <3>2, <3>3, <3>4 DEF WillSee
  <2>3. CASE Start(h)
    <3>1. CASE g = h
      BY <2>3, <3>1 DEF Start, WillSee, IsEvent, streamVars
    <3>2. CASE g # h
      BY <2>1, <2>3, <3>2 DEF Start, streamVars, TypeOK
    <3> QED
      BY <3>1, <3>2
  <2>4. CASE PublishStart(h)
    BY <2>2, <2>4 DEF PublishStart, streamVars, TypeOK
  <2>5. CASE Exit(h)
    <3>1. CASE g = h
      BY <2>5, <3>1 DEF Exit, WillSee, IsEvent, streamVars
    <3>2. CASE g # h
      BY <2>1, <2>5, <3>2 DEF Exit, streamVars, TypeOK
    <3> QED
      BY <3>1, <3>2
  <2>6. CASE PublishDie(h)
    BY <2>2, <2>6 DEF PublishDie, streamVars, TypeOK
  <2> QED
    BY <1>2, <2>3, <2>4, <2>5, <2>6 DEF GuestStep
<1>3. CASE DaemonSubscribes
  <2>1. PICK c \in 1..(Len(events) + 1) :
           /\ \A i \in 1..(c - 1) : Second(events[i].time) < since
           /\ cursor' = c
    BY <1>3 DEF DaemonSubscribes
  <2>2. UNCHANGED <<guest, events, since>> /\ cursor = 0
    BY <1>3 DEF DaemonSubscribes, guestVars
  <2>3. ASSUME NEW i \in 1..Len(events), Second(events[i].time) >= since
        PROVE  i >= c
    <3>1. Second(events[i].time) \in Nat /\ since \in Int
      <4>1. events[i] \in Events
        BY DEF TypeOK
      <4>2. events[i].time \in Nat
        BY <4>1 DEF Events, Times
      <4>3. since \in Int
        BY DEF TypeOK
      <4> QED
        BY <4>2, <4>3, SecondFloor
    <3> QED
      BY <2>1, <2>3, <3>1
  <2>4. Len(events) \in Nat /\ c # 0
    BY <2>1 DEF TypeOK
  <2> QED
    BY <2>1, <2>2, <2>3, <2>4 DEF WillSee, IsEvent
<1> QED
  BY <1>1, <1>2, <1>3 DEF EnvStep

-----------------------------------------------------------------------------
(* The invariant, part by part.                                            *)

(* The collector has seen nothing yet.                                     *)
LEMMA InitInv == Init => IInv
<1> SUFFICES ASSUME Init PROVE IInv
  OBVIOUS
<1>1. TypeOK /\ LogInv
  BY InitType, InitLog
<1>2. RowInv
  BY DEF Init, RowInv, RowTrue, NoRow
<1>3. StreamInv /\ IdleInv /\ ListingInv /\ OpeningInv /\ ClosingInv
  BY DEF Init, StreamInv, IdleInv, ListingInv, OpeningInv, ClosingInv, Streaming
<1> QED
  BY <1>1, <1>2, <1>3 DEF IInv

(* Next, with the environment's part of it named. *)
LEMMA NextCases ==
    [Next]_vars =>
        \/ EnvStep \/ RequestEvents \/ ReadClock \/ ListRunning
        \/ \E g \in Guests : OpenListed(g) \/ CloseGone(g)
        \/ FindGone \/ Reconciled \/ HandleEvent \/ Disconnected \/ Boot
        \/ StreamLost \/ Crash \/ UNCHANGED vars
BY DEF Next, EnvStep, CollectorStep

(* The stream was asked for from before the list.                          *)
LEMMA StreamStep == IInv /\ [Next]_vars => StreamInv'
<1> SUFFICES ASSUME IInv, [Next]_vars PROVE StreamInv'
  OBVIOUS
<1>0. clock \in Nat /\ clock # 0 /\ Len(events) \in Nat /\ Second(clock) \in Nat
      /\ since \in Int /\ now \in Nat /\ cursor \in Nat
  <2>1. clock \in Nat /\ clock # 0 /\ Len(events) \in Nat
        /\ since \in Int /\ now \in Nat /\ cursor \in Nat
    BY DEF IInv, TypeOK, Times
  <2> QED
    BY <2>1, SecondFloor
<1>1. CASE EnvStep
  <2>1. /\ UNCHANGED <<pc, since, now>>
        /\ clock' \in Nat /\ clock <= clock'
        /\ Second(clock') \in Nat /\ Second(clock) <= Second(clock')
    BY <1>0, <1>1, EnvEffects, SecondFloor, SecondMonotone DEF IInv
  <2>2. \/ UNCHANGED cursor /\ Len(events') >= Len(events) /\ Len(events') \in Nat
        \/ UNCHANGED events /\ cursor' \in 1..(Len(events) + 1)
    <3>1. CASE Tick
      BY <1>0, <3>1 DEF Tick, guestVars, streamVars
    <3>2. ASSUME NEW g \in Guests, GuestStep(g)
          PROVE  UNCHANGED cursor /\ Len(events') >= Len(events) /\ Len(events') \in Nat
      <4>1. ASSUME NEW action \in {"start", "die"}, Publish(action, g)
            PROVE  Len(events') >= Len(events) /\ Len(events') \in Nat
        <5>1. TypeOK
          BY DEF IInv
        <5>2. Len(events') = Len(events) + 1
          BY <4>1, <5>1, PublishAppends
        <5> QED
          BY <1>0, <5>2
      <4> QED
        <5>1. \/ UNCHANGED events
              \/ \E action \in {"start", "die"} : Publish(action, g)
          BY <3>2 DEF GuestStep, Start, PublishStart, Exit, PublishDie
        <5>2. UNCHANGED cursor
          BY <3>2 DEF GuestStep, Start, PublishStart, Exit, PublishDie, streamVars
        <5> QED
          BY <1>0, <4>1, <5>1, <5>2
    <3>3. CASE DaemonSubscribes
      BY <3>3 DEF DaemonSubscribes, guestVars
    <3> QED
      BY <1>1, <3>1, <3>2, <3>3 DEF EnvStep
  <2>3. cursor <= Len(events) + 1 /\ pc \in Streaming => cursor' <= Len(events') + 1
    BY <1>0, <2>2
  <2> QED
    BY <1>0, <2>1, <2>3 DEF IInv, StreamInv
<1>2. CASE RequestEvents
  <2>1. now' <= clock'
    BY <1>0, <1>2 DEF RequestEvents, reconcileVars, IdleInv, IInv
  <2> QED
    BY <1>0, <1>2, <2>1 DEF RequestEvents, ReplayFrom, StreamInv, guestVars, Streaming
<1>3. CASE ReadClock
  BY <1>0, <1>3 DEF ReadClock, StreamInv, guestVars, streamVars, IInv, Streaming
<1>4. CASE ListRunning
  BY <1>0, <1>4 DEF ListRunning, StreamInv, guestVars, streamVars, IInv, Streaming
<1>5. ASSUME NEW g \in Guests, OpenListed(g) \/ CloseGone(g) PROVE StreamInv'
  BY <1>0, <1>5 DEF OpenListed, CloseGone, StreamInv, guestVars, streamVars, IInv, Streaming
<1>6. CASE FindGone
  BY <1>0, <1>6 DEF FindGone, StreamInv, guestVars, streamVars, IInv, Streaming
<1>7. CASE Reconciled
  BY <1>0, <1>7 DEF Reconciled, StreamInv, guestVars, streamVars, IInv, Streaming
<1>8. CASE HandleEvent
  BY <1>0, <1>8 DEF HandleEvent, StreamInv, guestVars, reconcileVars, IInv, Streaming
<1>9. CASE Disconnected \/ Boot \/ StreamLost \/ Crash
  BY <1>9 DEF Disconnected, Boot, StreamLost, Crash, StreamInv, Streaming
<1>10. CASE UNCHANGED vars
  BY <1>10 DEF vars, guestVars, streamVars, reconcileVars, StreamInv, IInv
<1> QED
  BY <1>1, <1>2, <1>3, <1>4, <1>5, <1>6, <1>7, <1>8, <1>9, <1>10, NextCases

(* Without a stream no list has been asked for.                            *)
LEMMA IdleStep == IInv /\ [Next]_vars => IdleInv'
<1> SUFFICES ASSUME IInv, [Next]_vars PROVE IdleInv'
  OBVIOUS
<1>1. CASE EnvStep \/ RequestEvents \/ Disconnected \/ Boot \/ UNCHANGED vars
  BY <1>1, EnvEffects
  DEF RequestEvents, Disconnected, Boot, vars, reconcileVars, IInv, IdleInv
<1>2. CASE StreamLost \/ Crash
  BY <1>2 DEF StreamLost, Crash, IdleInv
<1>3. CASE ~(EnvStep \/ RequestEvents \/ Disconnected \/ Boot \/ UNCHANGED vars
             \/ StreamLost \/ Crash)
  BY <1>3, NextCases DEF ReadClock, ListRunning, OpenListed, CloseGone, FindGone, Reconciled,
                         HandleEvent, IdleInv, IInv
<1> QED
  BY <1>1, <1>2, <1>3

(* No row begins after the list was asked for.                             *)
LEMMA ListingStep == IInv /\ [Next]_vars => ListingInv'
<1> SUFFICES ASSUME IInv, [Next]_vars, pc' = "listing", NEW g \in Guests,
                    rows'[g].state # "absent"
             PROVE  rows'[g].start <= now'
  BY DEF ListingInv
<1>1. CASE EnvStep
  BY <1>1, EnvEffects DEF IInv, ListingInv
<1>2. CASE ReadClock
  BY <1>2 DEF ReadClock, IInv, RowInv, RowTrue
<1>3. CASE UNCHANGED vars
  BY <1>3 DEF vars, reconcileVars, IInv, ListingInv
<1>4. pc' = "listing" => EnvStep \/ ReadClock \/ UNCHANGED vars
  BY NextCases DEF RequestEvents, ListRunning, OpenListed, CloseGone, FindGone, Reconciled,
                   HandleEvent, Disconnected, Boot, StreamLost, Crash
<1> QED
  BY <1>1, <1>2, <1>3, <1>4

(* What the two statements do to the state of a row. *)
LEMMA OpenSessionEffect ==
    ASSUME NEW row \in Rows, NEW t \in Times
    PROVE  /\ row.state = "absent" => OpenSession(row, t) = [state |-> "open", start |-> t, end |-> 0]
           /\ row.state # "absent" => OpenSession(row, t) = row
           /\ OpenSession(row, t).state # "absent"
BY DEF OpenSession, Rows

(* Closing a row ends it, keeps its start, and adds none.                  *)
LEMMA CloseSessionEffect ==
    ASSUME NEW row \in Rows, NEW t \in Times, NEW reason \in {"reconcile", "die"}
    PROVE  /\ CloseSession(row, t, reason).state # "open"
           /\ CloseSession(row, t, reason).start = row.start
           /\ row.state = "absent" => CloseSession(row, t, reason) = row
           /\ row.state # "absent" => CloseSession(row, t, reason).state # "absent"
           /\ \/ CloseSession(row, t, reason) = row
              \/ CloseSession(row, t, reason) = [state |-> reason, start |-> row.start, end |-> t]
BY DEF CloseSession, Rows, RowStates

(* The event a stream delivers, and what has become of its guest. *)
LEMMA Delivered ==
    ASSUME IInv, HandleEvent
    PROVE  LET e == events[cursor] IN
           /\ e \in Events /\ cursor \in Nat /\ cursor # 0
           /\ e.id \in Guests /\ e.time \in Times /\ EventTrue(e)
           /\ e.action = "start" \/ e.action = "die"
           /\ rows' = [rows EXCEPT ![e.id] = IF e.action = "start"
                                            THEN OpenSession(rows[e.id], e.time)
                                            ELSE CloseSession(rows[e.id], e.time, "die")]
           /\ UNCHANGED <<clock, guest, born, leftAt, events, pc, todo>>
           /\ cursor' = cursor + 1 /\ pc = "following"
<1>1. cursor \in 1..Len(events) /\ events \in Seq(Events)
  BY DEF HandleEvent, IInv, TypeOK
<1>2. events[cursor] \in Events
  BY <1>1
<1> QED
  BY <1>1, <1>2 DEF HandleEvent, guestVars, reconcileVars, IInv, LogInv, EventsTrue, Events

(* A row is right about its guest.                                         *)
LEMMA RowStep == IInv /\ [Next]_vars => RowInv'
<1> SUFFICES ASSUME IInv, [Next]_vars, NEW g \in Guests PROVE RowTrue(g)'
  BY DEF RowInv
<1>0. /\ rows[g] \in Rows /\ rows \in [Guests -> Rows]
      /\ rows[g].start \in Nat /\ rows[g].end \in Nat
      /\ clock \in Nat /\ clock # 0 /\ leftAt[g] \in Nat /\ born[g] \in Nat /\ now \in Nat
      /\ RowTrue(g)
  BY DEF IInv, TypeOK, Rows, Times, RowInv
<1>1. CASE Tick
  <2>1. UNCHANGED <<guest, leftAt, rows>> /\ clock' = clock + 1
    BY <1>1 DEF Tick, guestVars
  <2> QED
    BY <1>0, <2>1 DEF RowTrue, Exited
<1>2. ASSUME NEW h \in Guests, GuestStep(h) PROVE RowTrue(g)'
  <2>1. UNCHANGED <<rows, clock>> /\ (g \in Exited => g \in Exited')
        /\ (guest[g] # "none" => guest'[g] # "none")
    <3>1. UNCHANGED <<rows, clock>>
      BY <1>2 DEF GuestStep, Start, PublishStart, Exit, PublishDie
    <3> QED
      BY <1>2, <3>1, EnvEffects DEF EnvStep, IInv
  <2>2. leftAt'[g] = leftAt[g] \/ (leftAt[g] = 0 /\ leftAt'[g] = clock)
    BY <1>2 DEF GuestStep, Start, PublishStart, Exit, PublishDie, IInv, TypeOK, LogInv, GuestTimes
  <2> QED
    BY <1>0, <2>1, <2>2 DEF RowTrue
<1>3. ASSUME NEW h \in Guests, OpenListed(h) PROVE RowTrue(g)'
  <2>1. UNCHANGED <<clock, guest, leftAt>>
        /\ rows' = [rows EXCEPT ![h] = OpenSession(rows[h], Instant(Second(born[h])))]
    BY <1>3 DEF OpenListed, Created, guestVars
  <2>2. CASE g # h \/ rows[g].state # "absent"
    BY <1>0, <2>1, <2>2 DEF RowTrue, Exited, OpenSession
  <2>3. CASE g = h /\ rows[g].state = "absent"
    <3>1. rows'[g] = [state |-> "open", start |-> Instant(Second(born[g])), end |-> 0]
      BY <1>0, <2>1, <2>3 DEF OpenSession
    <3>2. guest[g] # "none"
      BY <1>3, <2>3 DEF OpenListed, IInv, OpeningInv, Opening
    <3>3. Instant(Second(born[g])) \in Nat /\ Instant(Second(born[g])) <= born[g]
      BY <1>0, SecondFloor
    <3>4. born[g] <= clock /\ (leftAt[g] # 0 => born[g] <= leftAt[g])
      BY DEF IInv, LogInv, GuestTimes
    <3> QED
      BY <1>0, <2>1, <3>1, <3>2, <3>3, <3>4 DEF RowTrue
  <2> QED
    BY <2>2, <2>3
<1>4. ASSUME NEW h \in Guests, CloseGone(h) PROVE RowTrue(g)'
  <2>1. UNCHANGED <<clock, guest, leftAt>>
        /\ rows' = [rows EXCEPT ![h] = CloseSession(rows[h], now, "reconcile")]
    BY <1>4 DEF CloseGone, guestVars
  <2>2. CASE g # h
    BY <1>0, <2>1, <2>2 DEF RowTrue, Exited
  <2>3. CASE g = h
    <3>1. g \in Exited /\ rows[g].state = "open" /\ rows[g].start <= now
      BY <1>4, <2>3 DEF CloseGone, IInv, ClosingInv, Closing
    <3>2. rows'[g] = [state |-> "reconcile", start |-> rows[g].start, end |-> now]
      BY <1>0, <2>1, <2>3, <3>1 DEF CloseSession, Rows
    <3> QED
      BY <1>0, <2>1, <3>1, <3>2 DEF RowTrue, Exited
  <2> QED
    BY <2>2, <2>3
<1>5. CASE HandleEvent
  <2> DEFINE e == events[cursor]
  <2>1. /\ e.id \in Guests /\ e.time \in Times /\ EventTrue(e)
        /\ e.action = "start" \/ e.action = "die"
        /\ rows' = [rows EXCEPT ![e.id] = IF e.action = "start"
                                         THEN OpenSession(rows[e.id], e.time)
                                         ELSE CloseSession(rows[e.id], e.time, "die")]
        /\ UNCHANGED <<clock, guest, leftAt>>
    BY <1>5, Delivered
  <2>2. e.time \in Nat
    BY <2>1 DEF Times
  <2> HIDE DEF e
  <2>3. CASE g # e.id
    BY <1>0, <2>1, <2>3 DEF RowTrue, Exited
  <2>4. CASE g = e.id /\ e.action = "start"
    <3>1. rows'[g] = OpenSession(rows[g], e.time)
      BY <1>0, <2>1, <2>4
    <3>2. CASE rows[g].state # "absent"
      BY <1>0, <2>1, <3>1, <3>2 DEF RowTrue, Exited, OpenSession
    <3>3. CASE rows[g].state = "absent"
      BY <1>0, <2>1, <2>2, <2>4, <3>1, <3>3 DEF RowTrue, Exited, OpenSession, EventTrue
    <3> QED
      BY <3>2, <3>3
  <2>5. CASE g = e.id /\ e.action = "die"
    <3>1. rows'[g] = CloseSession(rows[g], e.time, "die")
      BY <1>0, <2>1, <2>5
    <3>2. guest[g] = "dead" /\ e.time = leftAt[g] /\ leftAt[g] # 0
      BY <2>1, <2>5 DEF EventTrue, IInv, LogInv, GuestTimes
    <3>3. \/ rows'[g] = rows[g]
          \/ rows[g].state # "absent"
             /\ rows'[g] = [state |-> "die", start |-> rows[g].start, end |-> leftAt[g]]
      BY <1>0, <3>1, <3>2 DEF CloseSession, Rows
    <3> QED
      BY <1>0, <2>1, <3>2, <3>3 DEF RowTrue, Exited
  <2> QED
    BY <2>1, <2>3, <2>4, <2>5
<1>6. CASE UNCHANGED <<clock, guest, leftAt, rows>>
  BY <1>0, <1>6 DEF RowTrue, Exited
<1>7. \/ Tick \/ (\E h \in Guests : GuestStep(h) \/ OpenListed(h) \/ CloseGone(h))
      \/ HandleEvent \/ UNCHANGED <<clock, guest, leftAt, rows>>
  BY NextCases DEF EnvStep, DaemonSubscribes, RequestEvents, ReadClock, ListRunning, FindGone,
                   Reconciled, Disconnected, Boot, StreamLost, Crash, vars, guestVars
<1> QED
  BY <1>1, <1>2, <1>3, <1>4, <1>5, <1>6, <1>7

(* While rows are opened from the list, what it got wrong is on the        *)
(* stream.                                                                 *)
LEMMA OpeningStep == IInv /\ [Next]_vars => OpeningInv'
<1> SUFFICES ASSUME IInv, [Next]_vars, pc' = "opening"
             PROVE  todo' \subseteq listed' /\ \A g \in Guests : Opening(g)'
  BY DEF OpeningInv
<1>0. TypeOK /\ StreamInv
  BY DEF IInv
<1>1. CASE EnvStep
  <2>1. UNCHANGED <<pc, now, listed, todo, rows>> /\ pc = "opening" /\ pc \in Streaming
    BY <1>0, <1>1, EnvEffects DEF Streaming
  <2>2. todo \subseteq listed /\ \A g \in Guests : Opening(g)
    BY <2>1 DEF IInv, OpeningInv
  <2>3. ASSUME NEW g \in Guests PROVE Opening(g)'
    <3>1. /\ g \in Running => g \in Running' \/ guest'[g] = "exiting"
          /\ g \in Running' => g \in Running \/ guest'[g] = "up"
          /\ g \in Exited => g \in Exited'
          /\ guest[g] # "none" => guest'[g] # "none"
      BY <1>0, <1>1, EnvEffects
    <3>2. /\ guest'[g] = "exiting" => WillSee("die", g)'
          /\ guest'[g] = "up" => WillSee("start", g)'
      BY DEF WillSee
    <3>3. /\ WillSee("die", g) => WillSee("die", g)'
          /\ WillSee("start", g) => WillSee("start", g)'
      BY <1>0, <1>1, <2>1, WillSeeKept
    <3> QED
      BY <2>1, <2>2, <3>1, <3>2, <3>3 DEF Opening
  <2> QED
    BY <2>1, <2>2, <2>3
<1>2. CASE ListRunning
  <2>1. listed' = Running /\ todo' = Running /\ UNCHANGED <<guest, now, rows>> /\ Running' = Running
        /\ Exited' = Exited
    BY <1>2 DEF ListRunning, guestVars, Running, Exited
  <2>2. ASSUME NEW g \in Guests PROVE Opening(g)'
    <3>1. g \in Running => guest[g] # "none"
      BY DEF Running
    <3>2. rows[g].state # "absent" /\ g \notin Running => g \in Exited
      BY <1>0 DEF IInv, RowInv, RowTrue, TypeOK, Running, Exited
    <3>3. rows[g].state # "absent" => rows[g].start <= now
      BY <1>2 DEF ListRunning, IInv, ListingInv
    <3> QED
      BY <2>1, <3>1, <3>2, <3>3 DEF Opening
  <2> QED
    BY <2>1, <2>2
<1>3. ASSUME NEW h \in Guests, OpenListed(h)
      PROVE  todo' \subseteq listed' /\ \A g \in Guests : Opening(g)'
  <2>1. /\ pc = "opening" /\ h \in todo /\ todo' = todo \ {h}
        /\ rows' = [rows EXCEPT ![h] = OpenSession(rows[h], Instant(Second(born[h])))]
        /\ UNCHANGED <<guest, events, cursor, since, now, listed>>
    BY <1>3 DEF OpenListed, Created, guestVars, streamVars
  <2>2. todo \subseteq listed /\ \A g \in Guests : Opening(g)
    BY <2>1 DEF IInv, OpeningInv
  <2>3. OpenSession(rows[h], Instant(Second(born[h]))).state # "absent"
    BY DEF OpenSession
  <2>4. ASSUME NEW g \in Guests PROVE Opening(g)'
    <3>1. /\ (g \in Running)' <=> g \in Running
          /\ (g \in Exited)' <=> g \in Exited
          /\ WillSee("die", g)' <=> WillSee("die", g)
          /\ WillSee("start", g)' <=> WillSee("start", g)
      BY <2>1 DEF Running, Exited, WillSee, IsEvent
    <3>2. CASE g # h
      <4>1. rows'[g] = rows[g] /\ (g \in todo' <=> g \in todo)
        BY <1>0, <2>1, <3>2 DEF TypeOK
      <4> QED
        BY <2>1, <2>2, <3>1, <4>1 DEF Opening
    <3>3. CASE g = h
      <4>1. rows'[g].state # "absent" /\ g \in listed
        BY <1>0, <2>1, <2>2, <2>3, <3>3 DEF TypeOK
      <4> QED
        BY <2>1, <2>2, <3>1, <4>1 DEF Opening
    <3> QED
      BY <3>2, <3>3
  <2> QED
    BY <2>1, <2>2, <2>4
<1>4. CASE UNCHANGED vars
  BY <1>4 DEF vars, guestVars, streamVars, reconcileVars, IInv, OpeningInv, Opening,
              Running, Exited, WillSee, IsEvent
<1>5. EnvStep \/ ListRunning \/ (\E h \in Guests : OpenListed(h)) \/ UNCHANGED vars
  BY NextCases DEF RequestEvents, ReadClock, CloseGone, FindGone, Reconciled, HandleEvent,
                   Disconnected, Boot, StreamLost, Crash
<1> QED
  BY <1>1, <1>2, <1>3, <1>4, <1>5

(* From there on, what the rows lack is to do or on the stream.            *)
LEMMA ClosingStep == IInv /\ [Next]_vars => ClosingInv'
<1> SUFFICES ASSUME IInv, [Next]_vars, pc' \in {"closing", "following"}
             PROVE  /\ pc' = "following" => todo' = {}
                    /\ \A g \in Guests : Closing(g)'
  BY DEF ClosingInv
<1>0. TypeOK /\ StreamInv /\ LogInv
  BY DEF IInv
<1>1. CASE EnvStep
  <2>1. UNCHANGED <<pc, now, todo, rows>> /\ pc \in Streaming
    BY <1>0, <1>1, EnvEffects DEF Streaming
  <2>2. (pc = "following" => todo = {}) /\ \A g \in Guests : Closing(g)
    BY <2>1 DEF IInv, ClosingInv
  <2>3. ASSUME NEW g \in Guests PROVE Closing(g)'
    <3>1. /\ g \in Running => g \in Running' \/ guest'[g] = "exiting"
          /\ g \in Running' => g \in Running \/ guest'[g] = "up"
          /\ g \in Exited => g \in Exited'
      BY <1>0, <1>1, EnvEffects
    <3>2. /\ guest'[g] = "exiting" => WillSee("die", g)'
          /\ guest'[g] = "up" => WillSee("start", g)'
      BY DEF WillSee
    <3>3. /\ WillSee("die", g) => WillSee("die", g)'
          /\ WillSee("start", g) => WillSee("start", g)'
      BY <1>0, <1>1, <2>1, WillSeeKept
    <3> QED
      BY <2>1, <2>2, <3>1, <3>2, <3>3 DEF Closing
  <2> QED
    BY <2>1, <2>2, <2>3
<1>2. CASE FindGone
  <2>1. /\ pc = "opening" /\ todo = {} /\ todo' = OpenIds \ listed /\ pc' = "closing"
        /\ UNCHANGED <<guest, events, cursor, since, now, rows>>
    BY <1>2 DEF FindGone, Gone, guestVars, streamVars
  <2>2. ASSUME NEW g \in Guests PROVE Closing(g)'
    <3>1. Opening(g)
      BY <2>1 DEF IInv, OpeningInv
    <3>2. /\ (g \in Running)' <=> g \in Running
          /\ (g \in Exited)' <=> g \in Exited
          /\ WillSee("die", g)' <=> WillSee("die", g)
          /\ WillSee("start", g)' <=> WillSee("start", g)
      BY <2>1 DEF Running, Exited, WillSee, IsEvent
    <3>3. g \in todo' <=> rows[g].state = "open" /\ g \notin listed
      BY <2>1 DEF OpenIds
    <3> QED
      BY <2>1, <3>1, <3>2, <3>3 DEF Opening, Closing
  <2> QED
    BY <2>1, <2>2
<1>3. ASSUME NEW h \in Guests, CloseGone(h)
      PROVE  (pc' = "following" => todo' = {}) /\ \A g \in Guests : Closing(g)'
  <2>1. /\ pc = "closing" /\ pc' = "closing" /\ h \in todo /\ todo' = todo \ {h}
        /\ rows' = [rows EXCEPT ![h] = CloseSession(rows[h], now, "reconcile")]
        /\ UNCHANGED <<guest, events, cursor, since, now>>
    BY <1>3 DEF CloseGone, guestVars, streamVars
  <2>2. \A g \in Guests : Closing(g)
    BY <2>1 DEF IInv, ClosingInv
  <2>3. rows[h].state = "open" => CloseSession(rows[h], now, "reconcile").state = "reconcile"
    BY <1>0 DEF CloseSession, TypeOK, Rows
  <2>4. ASSUME NEW g \in Guests PROVE Closing(g)'
    <3>1. /\ (g \in Running)' <=> g \in Running
          /\ (g \in Exited)' <=> g \in Exited
          /\ WillSee("die", g)' <=> WillSee("die", g)
          /\ WillSee("start", g)' <=> WillSee("start", g)
      BY <2>1 DEF Running, Exited, WillSee, IsEvent
    <3>2. CASE g # h
      <4>1. rows'[g] = rows[g] /\ (g \in todo' <=> g \in todo)
        BY <1>0, <2>1, <3>2 DEF TypeOK
      <4> QED
        BY <2>1, <2>2, <3>1, <4>1 DEF Closing
    <3>3. CASE g = h
      <4>1. rows'[g].state = "reconcile" /\ g \notin todo'
        BY <1>0, <2>1, <2>2, <2>3, <3>3 DEF TypeOK, Closing
      <4> QED
        BY <4>1 DEF Closing
    <3> QED
      BY <3>2, <3>3
  <2> QED
    BY <2>1, <2>4
<1>4. CASE Reconciled
  <2>1. /\ pc = "closing" /\ todo = {} /\ todo' = {}
        /\ UNCHANGED <<guest, events, cursor, since, rows>>
    BY <1>4 DEF Reconciled, guestVars, streamVars
  <2>2. \A g \in Guests : Closing(g)
    BY <2>1 DEF IInv, ClosingInv
  <2> QED
    BY <2>1, <2>2 DEF Closing, Running, Exited, WillSee, IsEvent
<1>5. CASE HandleEvent
  <2> DEFINE e == events[cursor]
  <2>1. /\ e \in Events /\ cursor \in Nat /\ cursor # 0
        /\ e.id \in Guests /\ e.time \in Times /\ EventTrue(e)
        /\ e.action = "start" \/ e.action = "die"
        /\ rows' = [rows EXCEPT ![e.id] = IF e.action = "start"
                                         THEN OpenSession(rows[e.id], e.time)
                                         ELSE CloseSession(rows[e.id], e.time, "die")]
        /\ UNCHANGED <<guest, events, pc, todo>>
        /\ cursor' = cursor + 1 /\ pc = "following"
    BY <1>5, Delivered
  <2>2. todo = {} /\ \A g \in Guests : Closing(g)
    BY <2>1 DEF IInv, ClosingInv
  <2>3. ASSUME NEW g \in Guests, NEW action \in {"start", "die"}, WillSee(action, g),
               ~(e.id = g /\ e.action = action)
        PROVE  WillSee(action, g)'
    <3>1. ~IsEvent(cursor, action, g)
      BY <2>3 DEF IsEvent
    <3> QED
      BY <2>1, <2>3, <3>1 DEF WillSee, IsEvent
  <2>4. ASSUME NEW g \in Guests, e.id = g, e.action = "start", g \notin Running
        PROVE  WillSee("die", g)'
    <3>1. guest[g] \in {"exiting", "dead"}
      BY <2>1, <2>4 DEF EventTrue, Running
    <3>2. CASE guest[g] = "exiting"
      BY <2>1, <3>2 DEF WillSee
    <3>3. CASE guest[g] = "dead"
      <4>1. PICK j \in 1..Len(events) : IsEvent(j, "die", g)
        BY <1>0, <3>3 DEF LogInv, DieLogged
      <4>2. cursor \in 1..Len(events)
        BY <1>5 DEF HandleEvent
      <4>3. cursor < j
        BY <1>0, <2>4, <4>1, <4>2 DEF LogInv, StartBeforeDie, IsEvent
      <4> QED
        BY <2>1, <4>1, <4>3 DEF WillSee, IsEvent
    <3> QED
      BY <3>1, <3>2, <3>3
  <2>5. ASSUME NEW g \in Guests PROVE Closing(g)'
    <3> HIDE DEF e
    <3>1. /\ (g \in Running)' <=> g \in Running
          /\ (g \in Exited)' <=> g \in Exited
      BY <2>1 DEF Running, Exited
    <3>2. rows[g] \in Rows /\ rows \in [Guests -> Rows]
      BY <1>0 DEF TypeOK
    <3>3. CASE g # e.id
      <4>1. rows'[g] = rows[g]
        BY <2>1, <3>2, <3>3
      <4> QED
        BY <2>1, <2>2, <2>3, <3>1, <3>3, <4>1 DEF Closing
    <3>4. CASE g = e.id /\ e.action = "start"
      <4>1. rows'[g] = OpenSession(rows[g], e.time)
        BY <2>1, <3>2, <3>4
      <4>2. rows'[g].state # "absent"
        BY <2>1, <3>2, <4>1, OpenSessionEffect
      <4>3. g \notin Running => WillSee("die", g)'
        BY <2>4, <3>4
      <4> QED
        BY <2>1, <2>2, <3>1, <4>2, <4>3 DEF Closing
    <3>5. CASE g = e.id /\ e.action = "die"
      <4>1. rows'[g] = CloseSession(rows[g], e.time, "die")
        BY <2>1, <3>2, <3>5
      <4>2. rows'[g].state # "open"
        BY <2>1, <3>2, <4>1, CloseSessionEffect
      <4>3. g \notin Running
        BY <2>1, <3>5 DEF EventTrue, Running
      <4> QED
        BY <2>1, <2>2, <3>1, <4>2, <4>3 DEF Closing
    <3> QED
      BY <2>1, <3>3, <3>4, <3>5
  <2> QED
    BY <2>1, <2>2, <2>5
<1>6. CASE UNCHANGED vars
  BY <1>6 DEF vars, guestVars, streamVars, reconcileVars, IInv, ClosingInv, Closing,
              Running, Exited, WillSee, IsEvent
<1>7. \/ EnvStep \/ FindGone \/ (\E h \in Guests : CloseGone(h)) \/ Reconciled \/ HandleEvent
      \/ UNCHANGED vars
  BY NextCases DEF RequestEvents, ReadClock, ListRunning, OpenListed, Disconnected, Boot,
                   StreamLost, Crash
<1> QED
  BY <1>1, <1>2, <1>3, <1>4, <1>5, <1>6, <1>7

-----------------------------------------------------------------------------
(* The invariant holds throughout, and what follows from it.               *)

(* All parts of the invariant together.                                    *)
LEMMA InvariantStep == IInv /\ [Next]_vars => IInv'
BY NextType, LogStep, RowStep, StreamStep, IdleStep, ListingStep, OpeningStep, ClosingStep
DEF IInv

(* The inductive invariant holds, for any guests, times and outages.       *)
THEOREM InvariantHolds == Spec => []IInv
<1>1. Init => IInv
  BY InitInv
<1>2. IInv /\ [Next]_vars => IInv'
  BY InvariantStep
<1> QED
  BY <1>1, <1>2, PTL DEF Spec

(* "One open session per running guest": for any number of guests, whatever *)
(* the order of subscription, list and events, and after any outages.       *)
THEOREM OpenIsRunningAlways == Spec => []OpenIsRunning
<1>1. IInv => OpenIsRunning
  <2> SUFFICES ASSUME IInv, Settled PROVE OpenIds = Running
    BY DEF OpenIsRunning
  <2>1. todo = {} /\ \A g \in Guests : Closing(g)
    BY DEF IInv, ClosingInv, Settled
  <2>2. ASSUME NEW g \in Guests, NEW action \in {"start", "die"} PROVE ~WillSee(action, g)
    BY DEF WillSee, Settled, IInv, TypeOK
  <2>3. ASSUME NEW g \in Guests PROVE rows[g].state = "open" <=> g \in Running
    <3>1. rows[g].state \in {"absent", "open", "reconcile", "die"}
      BY DEF IInv, TypeOK, Rows, RowStates
    <3>2. rows[g].state \in {"reconcile", "die"} => g \notin Running
      BY DEF IInv, RowInv, RowTrue, Exited, Running
    <3> QED
      BY <2>1, <2>2, <3>1, <3>2 DEF Closing
  <2> QED
    BY <2>3 DEF OpenIds, Running
<1> QED
  BY <1>1, InvariantHolds, PTL

(* A row is ended only for a guest that is over, never before it began, and *)
(* an observed end is the one docker announced.                             *)
THEOREM ObservedEndsAlways == Spec => []ObservedEnds
<1>1. IInv => ObservedEnds
  BY DEF IInv, RowInv, RowTrue, ObservedEnds
<1> QED
  BY <1>1, InvariantHolds, PTL

-----------------------------------------------------------------------------
(* What the stream cannot tell any more.  A guess stands only where the    *)
(* die event is behind the point the stream was asked to begin at: until   *)
(* the collector follows, the stream has passed by nothing newer than its  *)
(* replay bound, and from there on every die event it delivers replaces    *)
(* the guess. *)

CutInv ==
    pc \in Streaming \ {"following"} =>
        \A i \in 1..Len(events) : i < cursor => Second(events[i].time) < since

Guessed(g) ==
    rows[g].state = "reconcile" =>
        WillSee("die", g) \/ (leftAt[g] # 0 /\ Second(leftAt[g]) < since)

GuessInv == pc = "following" => \A g \in Guests : Guessed(g)

(* While the collector reconciles, only events from before the stream was  *)
(* asked for are behind its cursor.                                        *)
LEMMA CutStep == IInv /\ CutInv /\ [Next]_vars => CutInv'
<1> SUFFICES ASSUME IInv, CutInv, [Next]_vars, pc' \in Streaming \ {"following"},
                    NEW i \in 1..Len(events'), i < cursor'
             PROVE  Second(events'[i].time) < since'
  BY DEF CutInv
<1>0. TypeOK /\ Len(events) \in Nat /\ cursor \in Nat /\ (pc \in Streaming => StreamInv)
      /\ (pc \in Streaming => cursor <= Len(events) + 1)
  BY DEF IInv, TypeOK, StreamInv
<1>1. CASE Tick
  BY <1>1 DEF Tick, CutInv, guestVars, streamVars
<1>2. ASSUME NEW g \in Guests, GuestStep(g) PROVE Second(events'[i].time) < since'
  <2>1. UNCHANGED <<pc, since, cursor>>
    BY <1>2 DEF GuestStep, Start, PublishStart, Exit, PublishDie, streamVars
  <2>2. CASE UNCHANGED events
    BY <2>1, <2>2 DEF CutInv
  <2>3. ASSUME NEW action \in {"start", "die"}, Publish(action, g)
        PROVE  Second(events'[i].time) < since'
    <3>1. \A k \in 1..Len(events) : events'[k] = events[k]
      BY <1>0, <2>3, PublishAppends
    <3>2. i \in 1..Len(events)
      BY <1>0, <2>1
    <3> QED
      BY <2>1, <3>1, <3>2 DEF CutInv
  <2>4. UNCHANGED events \/ \E action \in {"start", "die"} : Publish(action, g)
    BY <1>2 DEF GuestStep, Start, PublishStart, Exit, PublishDie
  <2> QED
    BY <2>2, <2>3, <2>4
<1>3. CASE DaemonSubscribes
  <2>1. PICK c \in 1..(Len(events) + 1) :
           /\ \A k \in 1..(c - 1) : Second(events[k].time) < since
           /\ cursor' = c
    BY <1>3 DEF DaemonSubscribes
  <2>2. UNCHANGED <<events, since>>
    BY <1>3 DEF DaemonSubscribes, guestVars
  <2>3. i \in 1..(c - 1)
    BY <1>0, <2>1, <2>2
  <2> QED
    BY <2>1, <2>2, <2>3
<1>4. CASE RequestEvents
  BY <1>4 DEF RequestEvents
<1>5. CASE ReadClock \/ ListRunning \/ FindGone \/ \E g \in Guests : OpenListed(g) \/ CloseGone(g)
  BY <1>5 DEF ReadClock, ListRunning, FindGone, OpenListed, CloseGone, CutInv, Streaming,
              guestVars, streamVars
<1>6. CASE UNCHANGED vars
  BY <1>6 DEF vars, guestVars, streamVars, CutInv
<1>7. ~(Reconciled \/ HandleEvent \/ Disconnected \/ Boot \/ StreamLost \/ Crash)
  BY DEF Reconciled, HandleEvent, Disconnected, Boot, StreamLost, Crash, Streaming
<1> QED
  BY <1>1, <1>2, <1>3, <1>4, <1>5, <1>6, <1>7, NextCases DEF EnvStep

(* A guessed end will be corrected by the stream, or the guest was gone    *)
(* before the stream begins.                                               *)
LEMMA GuessStep == IInv /\ CutInv /\ GuessInv /\ [Next]_vars => GuessInv'
<1> SUFFICES ASSUME IInv, CutInv, GuessInv, [Next]_vars, pc' = "following",
                    NEW g \in Guests, rows'[g].state = "reconcile"
             PROVE  WillSee("die", g)' \/ (leftAt'[g] # 0 /\ Second(leftAt'[g]) < since')
  BY DEF GuessInv, Guessed
<1>0. TypeOK /\ StreamInv /\ LogInv /\ RowTrue(g)
  BY DEF IInv, RowInv
<1>1. CASE EnvStep
  <2>1. UNCHANGED <<pc, since, rows>> /\ pc \in Streaming
    BY <1>0, <1>1, EnvEffects DEF Streaming
  <2>2. CASE WillSee("die", g)
    BY <1>0, <1>1, <2>1, <2>2, WillSeeKept
  <2>3. CASE leftAt[g] # 0 /\ Second(leftAt[g]) < since
    <3>1. guest[g] = "dead"
      BY <1>0, <2>3 DEF LogInv, GuestTimes
    <3>2. UNCHANGED leftAt \/ \E h \in Guests : PublishDie(h)
      BY <1>1 DEF EnvStep, Tick, GuestStep, Start, PublishStart, Exit, DaemonSubscribes, guestVars
    <3>3. leftAt'[g] = leftAt[g]
      BY <1>0, <3>1, <3>2 DEF PublishDie, TypeOK
    <3> QED
      BY <2>1, <2>3, <3>3
  <2> QED
    BY <2>1, <2>2, <2>3 DEF GuessInv, Guessed
<1>2. CASE Reconciled
  <2>1. pc = "closing" /\ UNCHANGED <<guest, leftAt, events, cursor, since, rows>>
    BY <1>2 DEF Reconciled, guestVars, streamVars
  <2>2. guest[g] \in {"exiting", "dead"}
    BY <1>0, <2>1 DEF RowTrue, Exited
  <2>3. CASE guest[g] = "exiting"
    BY <2>1, <2>3 DEF WillSee
  <2>4. CASE guest[g] = "dead"
    <3>1. PICK j \in 1..Len(events) : IsEvent(j, "die", g)
      BY <1>0, <2>4 DEF LogInv, DieLogged
    <3>2. leftAt[g] # 0 /\ events[j].time = leftAt[g]
      BY <1>0, <2>4, <3>1 DEF LogInv, GuestTimes, EventsTrue, EventTrue, IsEvent
    <3>3. /\ leftAt[g] \in Nat /\ since \in Int /\ cursor \in Nat
          /\ Second(leftAt[g]) \in Nat
      <4>1. leftAt[g] \in Nat /\ since \in Int /\ cursor \in Nat
        BY <1>0 DEF TypeOK, Times
      <4> QED
        BY <4>1, SecondFloor
    <3>4. j < cursor => Second(leftAt[g]) < since
      BY <2>1, <3>1, <3>2 DEF CutInv, Streaming
    <3>5. j >= cursor /\ Second(leftAt[g]) >= since => WillSee("die", g)'
      BY <2>1, <3>1, <3>2 DEF WillSee, IsEvent
    <3> QED
      BY <2>1, <3>2, <3>3, <3>4, <3>5
  <2> QED
    BY <2>2, <2>3, <2>4
<1>3. CASE HandleEvent
  <2> DEFINE e == events[cursor]
  <2>1. /\ e.id \in Guests /\ e.time \in Times /\ cursor \in Nat /\ cursor # 0
        /\ e.action = "start" \/ e.action = "die"
        /\ rows' = [rows EXCEPT ![e.id] = IF e.action = "start"
                                         THEN OpenSession(rows[e.id], e.time)
                                         ELSE CloseSession(rows[e.id], e.time, "die")]
        /\ UNCHANGED <<guest, leftAt, events, pc>>
        /\ cursor' = cursor + 1 /\ pc = "following" /\ UNCHANGED since
    BY <1>3, Delivered DEF HandleEvent
  <2>2. rows[g] \in Rows /\ rows \in [Guests -> Rows]
    BY <1>0 DEF TypeOK
  <2>3. rows[g].state = "reconcile" /\ ~(e.id = g /\ e.action = "die")
    <3> HIDE DEF e
    <3>1. CASE e.id = g /\ e.action = "start"
      BY <2>1, <2>2, <3>1 DEF OpenSession
    <3>2. CASE e.id = g /\ e.action = "die"
      BY <2>1, <2>2, <3>2 DEF CloseSession, Rows
    <3>3. CASE e.id # g
      BY <2>1, <2>2, <3>3
    <3> QED
      BY <2>1, <3>1, <3>2, <3>3
  <2>4. CASE WillSee("die", g)
    <3>1. ~IsEvent(cursor, "die", g)
      BY <2>3 DEF IsEvent
    <3> QED
      BY <2>1, <2>4, <3>1 DEF WillSee, IsEvent
  <2> QED
    BY <2>1, <2>3, <2>4 DEF GuessInv, Guessed
<1>4. CASE UNCHANGED vars
  BY <1>4 DEF vars, guestVars, streamVars, GuessInv, Guessed, WillSee, IsEvent
<1>5. EnvStep \/ Reconciled \/ HandleEvent \/ UNCHANGED vars
  BY NextCases DEF RequestEvents, ReadClock, ListRunning, OpenListed, CloseGone, FindGone,
                   Disconnected, Boot, StreamLost, Crash
<1> QED
  BY <1>1, <1>2, <1>3, <1>4, <1>5

(* A guess is overwritten by the event whenever the stream still has it:   *)
(* what stays guessed is older than anything the stream was asked for.     *)
THEOREM GuessedOnlyWhereUnseen == Spec => []GuessOnlyWhereUnseen
<1>1. Init => CutInv /\ GuessInv
  BY DEF Init, CutInv, GuessInv, Streaming
<1>2. IInv /\ (CutInv /\ GuessInv) /\ [Next]_vars => (CutInv /\ GuessInv)'
  BY CutStep, GuessStep
<1>3. IInv /\ GuessInv => GuessOnlyWhereUnseen
  <2> SUFFICES ASSUME IInv, GuessInv, Settled, NEW g \in Guests, rows[g].state = "reconcile"
               PROVE  Second(leftAt[g]) < since
    BY DEF GuessOnlyWhereUnseen
  <2>1. ~WillSee("die", g)
    BY DEF WillSee, Settled, IInv, TypeOK
  <2> QED
    BY <2>1 DEF Settled, GuessInv, Guessed
<1> QED
  BY <1>1, <1>2, <1>3, InvariantHolds, PTL DEF Spec

(* Once the stream is drained, connected_in_window counts a session whose  *)
(* end was observed exactly when its guest was there inside the window.    *)
THEOREM WindowAlwaysExact == Spec => []WindowExact
<1>1. IInv /\ OpenIsRunning => WindowExact
  <2> SUFFICES ASSUME IInv, OpenIsRunning, Settled, NEW window \in 1..MaxTime, NEW g \in Guests,
                      rows[g].state \notin {"absent", "reconcile"}
               PROVE  g \in ConnectedInWindow(clock, window)
                        <=> g \in Running \/ (leftAt[g] # 0 /\ leftAt[g] >= clock - window)
    BY DEF WindowExact
  <2>1. rows[g].state \in {"open", "die"} /\ RowTrue(g)
    BY DEF IInv, TypeOK, Rows, RowStates, RowInv
  <2>2. CASE rows[g].state = "open"
    BY <2>2 DEF OpenIsRunning, OpenIds, ConnectedInWindow
  <2>3. CASE rows[g].state = "die"
    BY <2>1, <2>3 DEF RowTrue, Exited, Running, ConnectedInWindow
  <2> QED
    BY <2>1, <2>2, <2>3
<1> QED
  BY <1>1, InvariantHolds, OpenIsRunningAlways, PTL

-----------------------------------------------------------------------------
(* The collector implements the ledger.                                    *)

(* The refinement: an empty table is an empty ledger ...                   *)
LEMMA LedgerInit == Init => Ledger!Init
BY DEF Init, Ledger!Init, session, Ledger!NoLine, NoRow, Running

(* ... and what a step does to the rows is a step of the ledger, or none.  *)
LEMMA LedgerStep == IInv /\ [Next]_vars => [Ledger!Next]_(Ledger!ledgerVars)
<1> SUFFICES ASSUME IInv, [Next]_vars,
                    ~ UNCHANGED <<session, leftAt, rows>>
             PROVE  Ledger!Next
  BY DEF Ledger!ledgerVars
<1>0. /\ TypeOK /\ clock \in Times \ {0}
      /\ \A g \in Guests : RowTrue(g) /\ rows[g] \in Rows
  BY DEF IInv, TypeOK, RowInv, Times
<1>1. CASE UNCHANGED <<guest, leftAt, rows>>
  BY <1>1 DEF session, Running
<1>2. ASSUME NEW g \in Guests, GuestStep(g) PROVE Ledger!Next
  <2>1. UNCHANGED rows
    BY <1>2 DEF GuestStep, Start, PublishStart, Exit, PublishDie
  <2>2. CASE Start(g)
    <3>1. guest[g] = "none" /\ guest' = [guest EXCEPT ![g] = "up"] /\ UNCHANGED leftAt
      BY <2>2 DEF Start
    <3>2. session[g] = "never" /\ session' = [session EXCEPT ![g] = "connected"]
      BY <1>0, <3>1 DEF session, Running, TypeOK
    <3> QED
      BY <2>1, <3>1, <3>2 DEF Ledger!Next, Ledger!Connect
  <2>3. CASE PublishStart(g)
    <3>1. session' = session /\ UNCHANGED leftAt
      BY <1>0, <2>3 DEF PublishStart, session, Running, TypeOK
    <3> QED
      BY <2>1, <3>1
  <2>4. CASE Exit(g)
    <3>1. guest[g] = "running" /\ guest' = [guest EXCEPT ![g] = "exiting"] /\ UNCHANGED leftAt
      BY <2>4 DEF Exit
    <3>2. session[g] = "connected" /\ session' = [session EXCEPT ![g] = "left"]
      BY <1>0, <3>1 DEF session, Running, TypeOK
    <3> QED
      BY <2>1, <3>1, <3>2 DEF Ledger!Next, Ledger!Leave
  <2>5. CASE PublishDie(g)
    <3>1. /\ guest[g] = "exiting" /\ guest' = [guest EXCEPT ![g] = "dead"]
          /\ leftAt' = [leftAt EXCEPT ![g] = clock]
      BY <2>5 DEF PublishDie
    <3>2. session[g] = "left" /\ session' = session
      BY <1>0, <3>1 DEF session, Running, TypeOK
    <3>3. leftAt[g] = 0
      BY <3>1 DEF IInv, LogInv, GuestTimes
    <3> QED
      BY <1>0, <2>1, <3>1, <3>2, <3>3 DEF Ledger!Next, Ledger!Announce
  <2> QED
    BY <1>2, <2>2, <2>3, <2>4, <2>5 DEF GuestStep
<1>3. ASSUME NEW g \in Guests, NEW t \in Times, UNCHANGED <<guest, leftAt>>,
             guest[g] # "none",
             rows' = [rows EXCEPT ![g] = OpenSession(rows[g], t)]
      PROVE  Ledger!Next
  <2>1. UNCHANGED session
    BY <1>3 DEF session, Running
  <2>2. rows[g].state = "absent"
    BY <1>0, <1>3, <2>1 DEF OpenSession, TypeOK
  <2>3. session[g] # "never"
    BY <1>3 DEF session
  <2>4. rows' = [rows EXCEPT ![g] = [state |-> "open", start |-> t, end |-> 0]]
    BY <1>3, <2>2 DEF OpenSession
  <2> QED
    BY <1>3, <2>1, <2>2, <2>3, <2>4 DEF Ledger!Next, Ledger!Record
<1>4. ASSUME NEW g \in Guests, OpenListed(g) PROVE Ledger!Next
  <2>1. guest[g] # "none"
    BY <1>4 DEF OpenListed, IInv, OpeningInv, Opening
  <2>2. Instant(Second(born[g])) \in Times
    <3>1. born[g] \in Nat /\ born[g] <= MaxTime
      BY <1>0, MaxTimeAssumption DEF TypeOK, Times
    <3>2. Instant(Second(born[g])) \in Nat /\ Instant(Second(born[g])) <= born[g]
      BY <3>1, SecondFloor
    <3> QED
      BY <3>1, <3>2, MaxTimeAssumption DEF Times
  <2> QED
    BY <1>3, <1>4, <2>1, <2>2 DEF OpenListed, Created, guestVars
<1>5. ASSUME NEW g \in Guests, CloseGone(g) PROVE Ledger!Next
  <2>1. /\ UNCHANGED <<guest, leftAt>> /\ pc = "closing" /\ g \in todo
        /\ rows' = [rows EXCEPT ![g] = CloseSession(rows[g], now, "reconcile")]
    BY <1>5 DEF CloseGone, guestVars
  <2>2. g \in Exited /\ rows[g].state = "open" /\ rows[g].start <= now /\ now \in Times \ {0}
    BY <1>0, <2>1 DEF IInv, ClosingInv, Closing, StreamInv, Streaming, TypeOK
  <2>3. UNCHANGED session /\ session[g] = "left"
    BY <2>1, <2>2 DEF session, Running, Exited
  <2>4. rows' = [rows EXCEPT ![g].state = "reconcile", ![g].end = now]
    BY <1>0, <2>1, <2>2 DEF CloseSession, TypeOK, Rows
  <2> QED
    BY <2>1, <2>2, <2>3, <2>4 DEF Ledger!Next, Ledger!Guess
<1>6. CASE HandleEvent
  <2> DEFINE e == events[cursor]
  <2>1. /\ e.id \in Guests /\ e.time \in Times /\ EventTrue(e)
        /\ e.action = "start" \/ e.action = "die"
        /\ rows' = [rows EXCEPT ![e.id] = IF e.action = "start"
                                         THEN OpenSession(rows[e.id], e.time)
                                         ELSE CloseSession(rows[e.id], e.time, "die")]
        /\ UNCHANGED <<guest, leftAt>>
    BY <1>6, Delivered
  <2> HIDE DEF e
  <2>2. CASE e.action = "start"
    BY <1>3, <2>1, <2>2 DEF EventTrue
  <2>3. CASE e.action = "die"
    <3>1. guest[e.id] = "dead" /\ e.time = leftAt[e.id] /\ leftAt[e.id] # 0
      BY <2>1, <2>3 DEF EventTrue, IInv, LogInv, GuestTimes
    <3>2. UNCHANGED session
      BY <2>1 DEF session, Running
    <3>3. rows' = [rows EXCEPT ![e.id] = CloseSession(rows[e.id], e.time, "die")]
      BY <2>1, <2>3
    <3>4. rows[e.id].state \in {"open", "reconcile"}
      BY <1>0, <2>1, <3>2, <3>3 DEF CloseSession, TypeOK
    <3>5. rows[e.id].start <= leftAt[e.id]
      BY <1>0, <2>1, <3>1, <3>4 DEF RowTrue
    <3>6. rows' = [rows EXCEPT ![e.id].state = "die", ![e.id].end = leftAt[e.id]]
      BY <1>0, <2>1, <3>1, <3>3, <3>4 DEF CloseSession, TypeOK, Rows
    <3> QED
      BY <2>1, <3>1, <3>2, <3>4, <3>5, <3>6 DEF Ledger!Next, Ledger!Observe
  <2> QED
    BY <2>1, <2>2, <2>3
<1>7. \/ UNCHANGED <<guest, leftAt, rows>>
      \/ \E g \in Guests : GuestStep(g) \/ OpenListed(g) \/ CloseGone(g)
      \/ HandleEvent
  BY NextCases DEF EnvStep, Tick, DaemonSubscribes, RequestEvents, ReadClock, ListRunning,
                   FindGone, Reconciled, Disconnected, Boot, StreamLost, Crash, vars, guestVars
<1> QED
  BY <1>1, <1>2, <1>4, <1>5, <1>6, <1>7

(* Nothing the collector does contradicts the ledger the statistics are     *)
(* documented to be.                                                        *)
THEOREM CollectorImplementsLedger == Spec => RefinesLedger
<1>1. Init => Ledger!Init
  BY LedgerInit
<1>2. IInv /\ [Next]_vars => [Ledger!Next]_(Ledger!ledgerVars)
  BY LedgerStep
<1> QED
  BY <1>1, <1>2, InvariantHolds, PTL DEF Spec, RefinesLedger, Ledger!Spec
=============================================================================
