---------------------------- MODULE StatsServerProofs ---------------------------
(***************************************************************************)
(* For any number of guests and windows, any length of the clock and any   *)
(* number of outages: the three numbers of an answer nest, and what it     *)
(* says of the collector fits the numbers it comes with.                   *)
(*                                                                         *)
(* The server takes no step the collector and its world could not take, so *)
(* what is proved of the collector holds beside it.  The numbers nest      *)
(* because the rows stand still under the lock; the collector's state is   *)
(* read without one, and the argument is about what it can go through      *)
(* between two reads: it comes to be connected only by a reconciliation,   *)
(* which dates it and puts the rows right.                                 *)
(***************************************************************************)
EXTENDS StatsServer, StatsCollectorProofs, FiniteSetTheorems

(* Guests there have been, and the sessions recorded, at any time. *)
Known == {g \in Guests : guest[g] # "none"}
Recorded == {g \in Guests : rows[g].state # "absent"}

(* However many guests there may be, there have been finitely many so far. *)
FiniteInv == IsFiniteSet(Known)

(* Connected is what a finished reconciliation made it, and no one else. *)
ShownInv ==
    connected => pc \in {"following", "ended"} /\ reconciledAt # 0

CollectorInv == IInv /\ FiniteInv /\ ShownInv

(* What has been read still fits the rows while the lock is held, and      *)
(* nests once it is released. *)
CountsInv ==
    /\ request = NoRequest => read = 0
    /\ read \in 1..2 => answer.current = Cardinality(OpenIds)
    /\ read = 2 => answer.inWindow = Cardinality(ConnectedInWindow(request.at, request.window))
    /\ read >= 3 => answer.current <= answer.inWindow /\ answer.inWindow <= answer.ever

(* What has been read of the collector, and what it may still become. *)
StateInv ==
    /\ read >= 4 /\ answer.connected => reconciledAt # 0
    /\ read >= 5 /\ answer.connected => answer.reconciledAt # 0
    /\ read >= 1 /\ behind /\ connected => torn
    /\ read >= 4 /\ behind /\ answer.connected => torn

ServerInv == ServerTypeOK /\ CountsInv /\ StateInv

-----------------------------------------------------------------------------
(* The collector beside the server. *)

(* A step of the server is one of the collector, or leaves the collector   *)
(* alone: what is proved of the collector carries over.                    *)
LEMMA ServerStepIsCollectorStep ==
    [ServerNext]_<<vars, serverVars>> => [Next]_vars
BY DEF ServerNext, Ask, ReadField, Respond, CollectorMoves

(* A server that answers requests leaves the collector what it is: all     *)
(* that is proved of the collector holds of it inside the server. *)
THEOREM ServerRunsCollector == ServerSpec => Spec
<1>1. ServerInit => Init
  BY DEF ServerInit
<1> QED
  BY <1>1, ServerStepIsCollectorStep, PTL DEF ServerSpec, Spec

(* A step adds at most one guest to those that are known.                  *)
LEMMA FiniteStep == IInv /\ FiniteInv /\ [Next]_vars => FiniteInv'
<1> SUFFICES ASSUME IInv, FiniteInv, [Next]_vars PROVE FiniteInv'
  OBVIOUS
<1>1. ASSUME NEW g \in Guests, GuestStep(g) PROVE FiniteInv'
  <2>1. Known' \subseteq Known \cup {g}
    BY <1>1 DEF GuestStep, Start, PublishStart, Exit, PublishDie, Known, IInv, TypeOK
  <2>2. IsFiniteSet(Known \cup {g})
    BY FS_AddElement DEF FiniteInv
  <2> QED
    BY <2>1, <2>2, FS_Subset DEF FiniteInv
<1>2. CASE UNCHANGED guest
  BY <1>2 DEF FiniteInv, Known
<1> QED
  BY <1>1, <1>2, WhoMovesGuests DEF Tick, guestVars

(* Only a reconciliation makes the collector connected.                    *)
LEMMA ShownStep == IInv /\ ShownInv /\ [Next]_vars => ShownInv'
<1> SUFFICES ASSUME IInv, ShownInv, [Next]_vars PROVE ShownInv'
  OBVIOUS
<1>1. CASE Tick \/ (\E g \in Guests : GuestStep(g)) \/ DaemonSubscribes
  BY <1>1 DEF Tick, GuestStep, Start, PublishStart, Exit, PublishDie, DaemonSubscribes,
              shownVars, ShownInv
<1>2. CASE RequestEvents \/ ReadClock \/ ListRunning \/ FindGone
  BY <1>2 DEF RequestEvents, ReadClock, ListRunning, FindGone, shownVars, ShownInv
<1>3. ASSUME NEW g \in Guests, OpenListed(g) \/ CloseGone(g) PROVE ShownInv'
  BY <1>3 DEF OpenListed, CloseGone, shownVars, ShownInv
<1>4. CASE Reconciled
  BY <1>4 DEF Reconciled, ShownInv, IInv, StreamInv, Streaming
<1>5. CASE HandleEvent
  BY <1>5 DEF HandleEvent, ShownInv
<1>6. CASE StreamLost \/ Disconnected \/ Crash \/ Boot \/ UNCHANGED vars
  BY <1>6 DEF StreamLost, Disconnected, Crash, Boot, vars, shownVars, ShownInv
<1> QED
  BY <1>1, <1>2, <1>3, <1>4, <1>5, <1>6 DEF Next, CollectorStep

(* The collector's invariant in the composition.                           *)
LEMMA CollectorInvHolds == ServerSpec => []CollectorInv
<1>1. Init => CollectorInv
  <2>1. ASSUME Init PROVE Known = {} /\ ~connected
    BY <2>1 DEF Init, Known
  <2> QED
    BY <2>1, InitInv, FS_EmptySet DEF CollectorInv, FiniteInv, ShownInv
<1>2. CollectorInv /\ [Next]_vars => CollectorInv'
  BY InvariantStep, FiniteStep, ShownStep DEF CollectorInv
<1> QED
  BY <1>1, <1>2, ServerRunsCollector, PTL DEF Spec
-----------------------------------------------------------------------------
(* The three counts. *)

(* At any moment and for any window: the open sessions are among those of  *)
(* the window, and these among all.                                        *)
LEMMA CountsNest ==
    ASSUME CollectorInv, NEW at, NEW window
    PROVE  /\ Cardinality(OpenIds) \in Nat
           /\ Cardinality(ConnectedInWindow(at, window)) \in Nat
           /\ Cardinality(Recorded) \in Nat
           /\ Cardinality(OpenIds) <= Cardinality(ConnectedInWindow(at, window))
           /\ Cardinality(ConnectedInWindow(at, window)) <= Cardinality(Recorded)
<1>1. Recorded \subseteq Known
  BY DEF Recorded, Known, CollectorInv, IInv, RowInv, RowTrue
<1>2. IsFiniteSet(Recorded)
  BY <1>1, FS_Subset DEF CollectorInv, FiniteInv
<1>3. /\ ConnectedInWindow(at, window) \subseteq Recorded
      /\ OpenIds \subseteq ConnectedInWindow(at, window)
  BY DEF ConnectedInWindow, OpenIds, Recorded
<1>4. /\ IsFiniteSet(ConnectedInWindow(at, window))
      /\ Cardinality(ConnectedInWindow(at, window)) <= Cardinality(Recorded)
  BY <1>2, <1>3, FS_Subset
<1>5. /\ IsFiniteSet(OpenIds)
      /\ Cardinality(OpenIds) <= Cardinality(ConnectedInWindow(at, window))
  BY <1>3, <1>4, FS_Subset
<1> QED
  BY <1>2, <1>4, <1>5, FS_CardinalityType

Answers == [current : Nat, inWindow : Nat, ever : Nat,
            connected : BOOLEAN, reconciledAt : Times, lastEventAt : Times]

(* A read changes one field of the answer, to what that field is of. *)
LEMMA ReadEffect ==
    ASSUME ServerTypeOK, ReadField
    PROVE  /\ read \in 0..5 /\ read' = read + 1
           /\ read = 0 => answer' = [answer EXCEPT !.current = Cardinality(OpenIds)]
           /\ read = 1 => answer' = [answer EXCEPT !.inWindow =
                                Cardinality(ConnectedInWindow(request.at, request.window))]
           /\ read = 2 => answer' = [answer EXCEPT !.ever = Cardinality(Recorded)]
           /\ read = 3 => answer' = [answer EXCEPT !.connected = connected]
           /\ read = 4 => answer' = [answer EXCEPT !.reconciledAt = reconciledAt]
           /\ read = 5 => answer' = [answer EXCEPT !.lastEventAt = lastEventAt]
<1>1. read \in 0..5 /\ read' = read + 1
  BY DEF ReadField, ServerTypeOK, Fields
<1>2. answer' = [answer EXCEPT ![Fields[read + 1]] = Value(Fields[read + 1])]
  BY DEF ReadField
<1>3. /\ Fields[1] = "current" /\ Fields[2] = "inWindow" /\ Fields[3] = "ever"
      /\ Fields[4] = "connected" /\ Fields[5] = "reconciledAt" /\ Fields[6] = "lastEventAt"
  BY DEF Fields
<1>4. /\ Value("current") = Cardinality(OpenIds)
      /\ Value("inWindow") = Cardinality(ConnectedInWindow(request.at, request.window))
      /\ Value("ever") = Cardinality(Recorded)
      /\ Value("connected") = connected
      /\ Value("reconciledAt") = reconciledAt
      /\ Value("lastEventAt") = lastEventAt
  BY DEF Value, Recorded
<1>5. ASSUME read = 0 PROVE answer' = [answer EXCEPT !.current = Cardinality(OpenIds)]
  <2>1. Fields[read + 1] = "current"
    BY <1>3, <1>5
  <2> QED
    BY <1>2, <1>4, <2>1
<1>6. ASSUME read = 1 PROVE answer' = [answer EXCEPT !.inWindow = Cardinality(ConnectedInWindow(request.at, request.window))]
  <2>1. Fields[read + 1] = "inWindow"
    BY <1>3, <1>6
  <2> QED
    BY <1>2, <1>4, <2>1
<1>7. ASSUME read = 2 PROVE answer' = [answer EXCEPT !.ever = Cardinality(Recorded)]
  <2>1. Fields[read + 1] = "ever"
    BY <1>3, <1>7
  <2> QED
    BY <1>2, <1>4, <2>1
<1>8. ASSUME read = 3 PROVE answer' = [answer EXCEPT !.connected = connected]
  <2>1. Fields[read + 1] = "connected"
    BY <1>3, <1>8
  <2> QED
    BY <1>2, <1>4, <2>1
<1>9. ASSUME read = 4 PROVE answer' = [answer EXCEPT !.reconciledAt = reconciledAt]
  <2>1. Fields[read + 1] = "reconciledAt"
    BY <1>3, <1>9
  <2> QED
    BY <1>2, <1>4, <2>1
<1>10. ASSUME read = 5 PROVE answer' = [answer EXCEPT !.lastEventAt = lastEventAt]
  <2>1. Fields[read + 1] = "lastEventAt"
    BY <1>3, <1>10
  <2> QED
    BY <1>2, <1>4, <2>1
<1> QED
  BY <1>1, <1>5, <1>6, <1>7, <1>8, <1>9, <1>10

(* A step keeps the types of the answer that is being made.                *)
LEMMA ServerTypeStep ==
    CollectorInv /\ ServerTypeOK /\ [ServerNext]_<<vars, serverVars>> => ServerTypeOK'
<1> SUFFICES ASSUME CollectorInv, ServerTypeOK, [ServerNext]_<<vars, serverVars>>
             PROVE  ServerTypeOK'
  OBVIOUS
<1>0. 0 \in Times /\ NoAnswer \in Answers /\ NoRequest \in [at : Times, window : Windows \cup {0}]
  BY MaxTimeAssumption DEF Times, NoAnswer, Answers, NoRequest
<1>1. CASE Ask
  <2>1. clock \in Times
    BY DEF CollectorInv, IInv, TypeOK, Times
  <2> QED
    BY <1>1, <2>1 DEF Ask, ServerTypeOK
<1>2. CASE ReadField
  <2>1. /\ Cardinality(OpenIds) \in Nat /\ Cardinality(Recorded) \in Nat
        /\ Cardinality(ConnectedInWindow(request.at, request.window)) \in Nat
        /\ connected \in BOOLEAN /\ reconciledAt \in Times /\ lastEventAt \in Times
    BY CountsNest DEF CollectorInv, IInv, TypeOK
  <2>2. answer' \in Answers
    <3>1. answer \in Answers /\ read \in 0..5
      BY <1>2, ReadEffect DEF ServerTypeOK, Answers
    <3>2. CASE read = 0
      BY <1>2, <2>1, <3>1, <3>2, ReadEffect DEF Answers
    <3>3. CASE read = 1
      BY <1>2, <2>1, <3>1, <3>3, ReadEffect DEF Answers
    <3>4. CASE read = 2
      BY <1>2, <2>1, <3>1, <3>4, ReadEffect DEF Answers
    <3>5. CASE read = 3
      BY <1>2, <2>1, <3>1, <3>5, ReadEffect DEF Answers
    <3>6. CASE read = 4
      BY <1>2, <2>1, <3>1, <3>6, ReadEffect DEF Answers
    <3>7. CASE read = 5
      BY <1>2, <2>1, <3>1, <3>7, ReadEffect DEF Answers
    <3> QED
      BY <3>1, <3>2, <3>3, <3>4, <3>5, <3>6, <3>7
  <2>3. behind' \in BOOLEAN /\ torn' \in BOOLEAN
    BY <1>2 DEF ReadField, ServerTypeOK, Behind
  <2>4. read' \in 0..Len(Fields) /\ request' = request
    BY <1>2 DEF ReadField, ServerTypeOK, Fields
  <2> QED
    BY <2>2, <2>3, <2>4 DEF ServerTypeOK, Answers
<1>3. CASE Forget
  <2>1. Len(Fields) = 6
    BY DEF Fields
  <2>2. answer' \in Answers /\ request' \in [at : Times, window : Windows \cup {0}]
    BY <1>0, <1>3 DEF Forget
  <2>3. read' \in 0..Len(Fields)
    BY <1>3, <2>1 DEF Forget
  <2>4. behind' \in BOOLEAN /\ torn' \in BOOLEAN
    BY <1>3, Zenon DEF Forget
  <2> QED
    BY <2>2, <2>3, <2>4 DEF ServerTypeOK, Answers
<1>4. CASE CollectorMoves /\ ~Forget
  BY <1>4 DEF CollectorMoves, ServerTypeOK
<1>5. CASE UNCHANGED <<vars, serverVars>>
  BY <1>5 DEF serverVars, ServerTypeOK
<1> QED
  BY <1>1, <1>2, <1>3, <1>4, <1>5 DEF ServerNext, Respond

(* What the answer has counted so far fits the rows under the lock, and    *)
(* nests.                                                                  *)
LEMMA CountsStep ==
    CollectorInv /\ ServerInv /\ [ServerNext]_<<vars, serverVars>> => CountsInv'
<1> SUFFICES ASSUME CollectorInv, ServerInv, [ServerNext]_<<vars, serverVars>>
             PROVE  CountsInv'
  OBVIOUS
<1>0. ServerTypeOK /\ CountsInv /\ answer \in Answers /\ read \in 0..6
  BY DEF ServerInv, ServerTypeOK, Answers, Fields
<1>1. CASE Ask
  <2>1. read = 0 /\ read' = 0
    BY <1>0, <1>1 DEF Ask, CountsInv
  <2> QED
    BY <2>1 DEF CountsInv
<1>2. CASE ReadField
  <2>1. UNCHANGED <<rows, request>>
    BY <1>2 DEF ReadField, vars
  <2>2. /\ OpenIds' = OpenIds
        /\ ConnectedInWindow(request.at, request.window)' =
              ConnectedInWindow(request.at, request.window)
    BY <2>1 DEF OpenIds, ConnectedInWindow
  <2> QED
    <3>1. read \in 0..5 /\ read' = read + 1 /\ request # NoRequest
      BY <1>0, <1>2, ReadEffect DEF ReadField
    <3>2. CASE read = 0
      <4>1. answer'.current = Cardinality(OpenIds)
        BY <1>0, <1>2, <3>2, ReadEffect DEF Answers
      <4> QED
        BY <2>1, <2>2, <3>1, <3>2, <4>1 DEF CountsInv
    <3>3. CASE read = 1
      <4>1. /\ answer'.inWindow = Cardinality(ConnectedInWindow(request.at, request.window))
            /\ answer'.current = answer.current
        BY <1>0, <1>2, <3>3, ReadEffect DEF Answers
      <4> QED
        BY <1>0, <2>1, <2>2, <3>1, <3>3, <4>1 DEF CountsInv
    <3>4. CASE read = 2
      <4>1. /\ answer'.ever = Cardinality(Recorded)
            /\ answer'.current = answer.current /\ answer'.inWindow = answer.inWindow
        BY <1>0, <1>2, <3>4, ReadEffect DEF Answers
      <4>2. /\ answer.current = Cardinality(OpenIds)
            /\ answer.inWindow = Cardinality(ConnectedInWindow(request.at, request.window))
        BY <1>0, <3>4 DEF CountsInv
      <4>3. answer'.current <= answer'.inWindow /\ answer'.inWindow <= answer'.ever
        BY <4>1, <4>2, CountsNest
      <4> QED
        BY <2>1, <3>1, <3>4, <4>3 DEF CountsInv
    <3>5. CASE read \in 3..5
      <4>1. UNCHANGED <<answer.current, answer.inWindow, answer.ever>>
        <5>1. CASE read = 3
          BY <1>0, <1>2, <5>1, ReadEffect DEF Answers
        <5>2. CASE read = 4
          BY <1>0, <1>2, <5>2, ReadEffect DEF Answers
        <5>3. CASE read = 5
          BY <1>0, <1>2, <5>3, ReadEffect DEF Answers
        <5> QED
          BY <3>5, <5>1, <5>2, <5>3
      <4> QED
        BY <1>0, <2>1, <3>1, <3>5, <4>1 DEF CountsInv
    <3> QED
      BY <3>1, <3>2, <3>3, <3>4, <3>5
<1>3. CASE Forget
  BY <1>3 DEF Forget, CountsInv
<1>4. CASE CollectorMoves /\ ~Forget
  <2>1. UNCHANGED <<request, read, answer>> /\ (read \in 1..2 => rows' = rows)
    BY <1>4 DEF CollectorMoves, StoreWaits
  <2> QED
    <3>1. CASE read \in 1..2
      BY <2>1, <3>1, <1>0 DEF CountsInv, OpenIds, ConnectedInWindow
    <3>2. CASE read \notin 1..2
      BY <2>1, <3>2, <1>0 DEF CountsInv
    <3> QED
      BY <3>1, <3>2
<1>5. CASE UNCHANGED <<vars, serverVars>>
  BY <1>0, <1>5 DEF vars, serverVars, CountsInv, OpenIds, ConnectedInWindow
<1> QED
  BY <1>1, <1>2, <1>3, <1>4, <1>5 DEF ServerNext, Respond
-----------------------------------------------------------------------------
(* The collector's state. *)

(* Who is behind for good is not shown by a collector that follows.  *)
LEMMA FollowingIsNotBehind ==
    ASSUME IInv, pc = "following"
    PROVE  ~Behind
<1> SUFFICES ASSUME NEW g \in Guests,
                    (rows[g].state = "open") # (g \in Running),
                    guest[g] \notin {"up", "exiting"},
                    \A i \in 1..Len(events) : events[i].id = g => ~StillDelivers(i)
             PROVE  FALSE
  BY DEF Behind, Streaming
<1>1. Closing(g) /\ todo = {} /\ RowTrue(g)
  BY DEF IInv, ClosingInv, RowInv
<1>2. ~WillSee("start", g) /\ ~WillSee("die", g)
  BY DEF WillSee, IsEvent, StillDelivers
<1>3. rows[g].state \in {"absent", "open", "reconcile", "die"}
  BY DEF IInv, TypeOK, Rows, RowStates
<1>4. CASE rows[g].state = "open"
  BY <1>1, <1>2, <1>4 DEF Closing
<1>5. CASE rows[g].state = "absent"
  BY <1>1, <1>2, <1>5 DEF Closing
<1>6. CASE rows[g].state \in {"reconcile", "die"}
  BY <1>1, <1>6 DEF RowTrue, Running, Exited
<1> QED
  BY <1>3, <1>4, <1>5, <1>6

(* While the server is up it comes to be connected only by a finished      *)
(* reconciliation, and stays dated. *)
LEMMA CollectorShows ==
    ASSUME CollectorInv, Next, pc' # "down"
    PROVE  /\ connected' => connected \/ (pc = "closing" /\ pc' = "following")
           /\ reconciledAt # 0 => reconciledAt' # 0
<1>1. CASE Tick \/ (\E g \in Guests : GuestStep(g)) \/ DaemonSubscribes
  BY <1>1 DEF Tick, GuestStep, Start, PublishStart, Exit, PublishDie, DaemonSubscribes, shownVars
<1>2. CASE RequestEvents \/ ReadClock \/ ListRunning \/ FindGone
  BY <1>2 DEF RequestEvents, ReadClock, ListRunning, FindGone, shownVars
<1>3. ASSUME NEW g \in Guests, OpenListed(g) \/ CloseGone(g)
      PROVE  connected' = connected /\ reconciledAt' = reconciledAt
  BY <1>3 DEF OpenListed, CloseGone, shownVars
<1>4. CASE Reconciled
  BY <1>4 DEF Reconciled, CollectorInv, IInv, StreamInv, Streaming
<1>5. CASE HandleEvent
  BY <1>5 DEF HandleEvent
<1>6. CASE StreamLost \/ Disconnected \/ Crash \/ Boot
  BY <1>6 DEF StreamLost, Disconnected, Crash, Boot, shownVars
<1> QED
  BY <1>1, <1>2, <1>3, <1>4, <1>5, <1>6 DEF Next, CollectorStep

(* What it has read of the collector fits what the collector may still     *)
(* become.                                                                 *)
LEMMA StateStep ==
    CollectorInv /\ ServerInv /\ [ServerNext]_<<vars, serverVars>> => StateInv'
<1> SUFFICES ASSUME CollectorInv, ServerInv, [ServerNext]_<<vars, serverVars>>
             PROVE  StateInv'
  OBVIOUS
<1>0. ServerTypeOK /\ CountsInv /\ StateInv /\ answer \in Answers /\ read \in 0..6
  BY DEF ServerInv, ServerTypeOK, Answers, Fields
<1>1. CASE Ask
  BY <1>1, <1>0 DEF Ask, StateInv, vars, shownVars
<1>2. CASE ReadField
  <2>1. UNCHANGED <<connected, reconciledAt>> /\ (read # 0 => UNCHANGED <<behind, torn>>)
    BY <1>2 DEF ReadField, vars, shownVars
  <2>2. read \in 0..5 /\ read' = read + 1
    BY <1>0, <1>2, ReadEffect
  <2>3. CASE read = 0
    <3>1. (behind' => Behind) /\ (pc = "ended" => torn')
      BY <1>2, <2>3, Zenon DEF ReadField
    <3>2. connected /\ Behind => pc = "ended"
      BY FollowingIsNotBehind DEF CollectorInv, ShownInv
    <3> QED
      BY <2>1, <2>2, <2>3, <3>1, <3>2 DEF StateInv
  <2>4. CASE read \in 1..2
    BY <1>0, <2>1, <2>2, <2>4 DEF StateInv
  <2>5. CASE read = 3
    <3>1. answer'.connected = connected
      BY <1>0, <1>2, <2>5, ReadEffect DEF Answers
    <3> QED
      BY <1>0, <2>1, <2>2, <2>5, <3>1 DEF StateInv, CollectorInv, ShownInv
  <2>6. CASE read = 4
    <3>1. answer'.connected = answer.connected /\ answer'.reconciledAt = reconciledAt
      BY <1>0, <1>2, <2>6, ReadEffect DEF Answers
    <3> QED
      BY <1>0, <2>1, <2>2, <2>6, <3>1 DEF StateInv
  <2>7. CASE read = 5
    <3>1. answer'.connected = answer.connected /\ answer'.reconciledAt = answer.reconciledAt
      BY <1>0, <1>2, <2>7, ReadEffect DEF Answers
    <3> QED
      BY <1>0, <2>1, <2>2, <2>7, <3>1 DEF StateInv
  <2> QED
    BY <2>2, <2>3, <2>4, <2>5, <2>6, <2>7
<1>3. CASE Forget
  BY <1>3 DEF Forget, StateInv
<1>4. CASE CollectorMoves /\ ~Forget
  <2>1. /\ UNCHANGED <<request, read, answer, behind>>
        /\ Next /\ pc' # "down"
    BY <1>4 DEF CollectorMoves
  <2>3. torn \/ (read > 0 /\ pc = "closing" /\ pc' = "following") => torn'
    BY <1>4, Zenon DEF CollectorMoves
  <2>2. /\ connected' => connected \/ (pc = "closing" /\ pc' = "following")
        /\ reconciledAt # 0 => reconciledAt' # 0
    BY <2>1, CollectorShows
  <2> QED
    BY <1>0, <2>1, <2>2, <2>3 DEF StateInv
<1>5. CASE UNCHANGED <<vars, serverVars>>
  BY <1>0, <1>5 DEF vars, shownVars, serverVars, StateInv
<1> QED
  BY <1>1, <1>2, <1>3, <1>4, <1>5 DEF ServerNext, Respond

-----------------------------------------------------------------------------
(* The server. *)

(* Both parts of the invariant, from Init and the lemmas above.            *)
LEMMA ServerInvHolds == ServerSpec => []ServerInv
<1>1. ServerInit => ServerInv
  <2> SUFFICES ASSUME ServerInit PROVE ServerInv
    OBVIOUS
  <2>1. 0 \in Times /\ Len(Fields) = 6
    BY MaxTimeAssumption DEF Times, Fields
  <2>2. NoAnswer \in Answers /\ NoRequest \in [at : Times, window : Windows \cup {0}]
    BY <2>1 DEF NoAnswer, Answers, NoRequest
  <2>3. ServerTypeOK
    <3>1. behind \in BOOLEAN /\ torn \in BOOLEAN
      BY Zenon DEF ServerInit
    <3>2. read \in 0..Len(Fields)
      BY <2>1 DEF ServerInit
    <3>3. answer \in Answers /\ request \in [at : Times, window : Windows \cup {0}]
      BY <2>2 DEF ServerInit
    <3> QED
      BY <3>1, <3>2, <3>3 DEF ServerTypeOK, Answers
  <2> QED
    BY <2>3 DEF ServerInit, ServerInv, CountsInv, StateInv
<1>2. CollectorInv /\ ServerInv /\ [ServerNext]_<<vars, serverVars>> => ServerInv'
  BY ServerTypeStep, CountsStep, StateStep DEF ServerInv
<1> QED
  BY <1>1, <1>2, CollectorInvHolds, PTL DEF ServerSpec

(* Every variable of the server keeps its type; the three numbers are      *)
(* numbers, however many guests there may be. *)
THEOREM ServerTypeCorrect == ServerSpec => []ServerTypeOK
<1>1. ServerInv => ServerTypeOK
  BY DEF ServerInv
<1> QED
  BY <1>1, ServerInvHolds, PTL

(* The three numbers nest: current, in the window, ever - whatever the     *)
(* collector opens, guesses and corrects while they are counted. *)
THEOREM NumbersAlwaysNest == ServerSpec => []NumbersNest
<1>1. ServerInv => NumbersNest
  BY DEF ServerInv, CountsInv, NumbersNest, Answered, Fields
<1> QED
  BY <1>1, ServerInvHolds, PTL

(* An answer that says connected says since when. *)
THEOREM ConnectedAlwaysDated == ServerSpec => []ConnectedIsDated
<1>1. ServerInv => ConnectedIsDated
  BY DEF ServerInv, StateInv, ConnectedIsDated, Answered, Fields
<1> QED
  BY <1>1, ServerInvHolds, PTL

(* Numbers that are behind for good are shown as connected only if a       *)
(* reconciliation ended, or the stream had just been lost, around them. *)
THEOREM StaleAlwaysSaysSo == ServerSpec => []StaleSaysSo
<1>1. ServerInv => StaleSaysSo
  BY DEF ServerInv, StateInv, StaleSaysSo, Answered, Fields
<1> QED
  BY <1>1, ServerInvHolds, PTL
=============================================================================
