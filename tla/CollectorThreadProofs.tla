-------------------------- MODULE CollectorThreadProofs -------------------------
(***************************************************************************)
(* For any number of streams: the collector thread ends only when it is    *)
(* told to and never while it says it is connected, and the stream it      *)
(* reads is always the one that stop would find.                           *)
(*                                                                         *)
(* The argument: the loop says that it is not connected on its one way     *)
(* back to the check, and the stream is handed over before the thread      *)
(* first blocks on it and taken back only after it last did.               *)
(***************************************************************************)
EXTENDS CollectorThread, TLAPS

(* Between the answer of docker and the finally clause there is a stream. *)
HasStream == pc \in {"answered", "reconciling", "reading", "finally"} => stream # 0

(* From handing it over to the finally clause it is the one stop finds,    *)
(* and at any other time there is none to find. *)
SharedInv ==
    IF pc \in {"reconciling", "reading", "finally"} THEN shared = stream ELSE shared = 0

(* It is connected from the end of reconcile until the loop notices. *)
ConnectedInv == connected => pc \in {"reading", "finally", "lost"}

DoneInv == pc = "done" => stopSet

IInv == TypeOK /\ HasStream /\ SharedInv /\ ConnectedInv /\ DoneInv

(* Nothing has been opened or told to stop yet.                            *)
LEMMA InitInv == Init => IInv
<1> SUFFICES ASSUME Init PROVE IInv
  OBVIOUS
<1>1. connected \in BOOLEAN /\ stopSet \in BOOLEAN /\ ~connected
  BY Zenon DEF Init
<1>2. 0 \in Streams
  BY MaxStreamsAssumption DEF Streams
<1>3. TypeOK
  BY <1>1, <1>2 DEF Init, TypeOK
<1> QED
  BY <1>1, <1>3 DEF Init, IInv, HasStream, SharedInv, ConnectedInv, DoneInv

(* A step keeps the types, given that whoever reads has a stream to read.  *)
LEMMA TypeStep == TypeOK /\ HasStream /\ [Next]_vars => TypeOK'
<1> SUFFICES ASSUME TypeOK, HasStream, [Next]_vars PROVE TypeOK'
  OBVIOUS
<1> USE MaxStreamsAssumption DEF TypeOK, Streams, Goto, threadVars, stopVars
<1>1. CASE CheckStop
  BY <1>1 DEF CheckStop
<1>2. CASE EventsAnswered
  BY <1>2 DEF EventsAnswered
<1>3. CASE EventsRaised \/ ReconcileReturns \/ ReconcileRaised \/ StreamEnds \/ HandlerRaised
  BY <1>3 DEF EventsRaised, ReconcileReturns, ReconcileRaised, StreamEnds, HandlerRaised
<1>4. CASE ShareStream
  BY <1>4 DEF ShareStream
<1>5. CASE ReleaseStream
  BY <1>5 DEF ReleaseStream, HasStream
<1>6. CASE MarkDisconnected \/ DelayOver
  BY <1>6 DEF MarkDisconnected, DelayOver
<1>7. CASE SetStop \/ ReadStream
  BY <1>7 DEF SetStop, ReadStream
<1>8. CASE Interrupt
  BY <1>8 DEF Interrupt, Interrupted
<1>9. CASE DaemonCloses
  BY <1>9 DEF DaemonCloses, HasStream
<1>10. CASE UNCHANGED vars
  BY <1>10 DEF vars
<1> QED
  BY <1>1, <1>2, <1>3, <1>4, <1>5, <1>6, <1>7, <1>8, <1>9, <1>10 DEF Next, ThreadStep

(* The stream that is read is the one stop would close, in every step of   *)
(* either thread.                                                          *)
LEMMA StreamStep == IInv /\ [Next]_vars => HasStream' /\ SharedInv'
<1> SUFFICES ASSUME IInv, [Next]_vars PROVE HasStream' /\ SharedInv'
  OBVIOUS
<1> USE DEF IInv, TypeOK, HasStream, SharedInv, Goto, threadVars, stopVars
<1>1. CASE CheckStop
  BY <1>1 DEF CheckStop
<1>2. CASE EventsAnswered
  BY <1>2 DEF EventsAnswered, Streams
<1>3. CASE EventsRaised \/ ReconcileReturns \/ ReconcileRaised \/ StreamEnds \/ HandlerRaised
  BY <1>3 DEF EventsRaised, ReconcileReturns, ReconcileRaised, StreamEnds, HandlerRaised
<1>4. CASE ShareStream
  BY <1>4 DEF ShareStream
<1>5. CASE ReleaseStream
  BY <1>5 DEF ReleaseStream
<1>6. CASE MarkDisconnected \/ DelayOver
  BY <1>6 DEF MarkDisconnected, DelayOver
<1>7. CASE SetStop \/ ReadStream \/ Interrupt \/ DaemonCloses
  BY <1>7 DEF SetStop, ReadStream, Interrupt, DaemonCloses
<1>8. CASE UNCHANGED vars
  BY <1>8 DEF vars
<1> QED
  BY <1>1, <1>2, <1>3, <1>4, <1>5, <1>6, <1>7, <1>8 DEF Next, ThreadStep

(* It is connected only while it reads, and done only when told to stop.   *)
LEMMA EndStep == IInv /\ [Next]_vars => ConnectedInv' /\ DoneInv'
<1> SUFFICES ASSUME IInv, [Next]_vars PROVE ConnectedInv' /\ DoneInv'
  OBVIOUS
<1> USE DEF IInv, TypeOK, ConnectedInv, DoneInv, Goto, threadVars, stopVars
<1>1. CASE CheckStop
  BY <1>1 DEF CheckStop
<1>2. CASE EventsAnswered \/ EventsRaised \/ ShareStream \/ ReconcileReturns \/ ReconcileRaised
  BY <1>2 DEF EventsAnswered, EventsRaised, ShareStream, ReconcileReturns, ReconcileRaised
<1>3. CASE StreamEnds \/ HandlerRaised \/ ReleaseStream
  BY <1>3 DEF StreamEnds, HandlerRaised, ReleaseStream
<1>4. CASE MarkDisconnected \/ DelayOver
  BY <1>4 DEF MarkDisconnected, DelayOver
<1>5. CASE SetStop \/ ReadStream \/ Interrupt \/ DaemonCloses
  BY <1>5 DEF SetStop, ReadStream, Interrupt, DaemonCloses
<1>6. CASE UNCHANGED vars
  BY <1>6 DEF vars
<1> QED
  BY <1>1, <1>2, <1>3, <1>4, <1>5, <1>6 DEF Next, ThreadStep

(* The invariant, from the three lemmas above.                             *)
LEMMA InvariantHolds == Spec => []IInv
<1>1. IInv /\ [Next]_vars => IInv'
  BY TypeStep, StreamStep, EndStep DEF IInv
<1> QED
  BY <1>1, InitInv, PTL DEF Spec

(* Every variable of the two threads keeps its type; no stream that never  *)
(* was is ended. *)
THEOREM TypeCorrect == Spec => []TypeOK
<1>1. IInv => TypeOK
  BY DEF IInv
<1> QED
  BY <1>1, InvariantHolds, PTL

(* The thread ends only when it is told to, and never leaves "connected"   *)
(* standing. *)
THEOREM NeverEverDiesQuietly == Spec => []NeverDiesQuietly
<1>1. IInv => NeverDiesQuietly
  BY DEF IInv, ConnectedInv, DoneInv, NeverDiesQuietly
<1> QED
  BY <1>1, InvariantHolds, PTL

(* The stream the thread is blocked on is the one that stop finds. *)
THEOREM ReadableAlwaysShared == Spec => []ReadableIsShared
<1>1. IInv => ReadableIsShared
  BY DEF IInv, SharedInv, ReadableIsShared
<1> QED
  BY <1>1, InvariantHolds, PTL
=============================================================================
