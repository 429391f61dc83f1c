--------------------------- MODULE CollectorThread ---------------------------
(***************************************************************************)
(* The life of the collector thread of stats_server.py: the retry loop of  *)
(* Collector.run, follow with its stream, and Collector.stop, which another *)
(* thread calls to wake it through EventStream.interrupt.  What reconcile   *)
(* and handle_event do to the store is StatsCollector's business; here a   *)
(* step is one access to state the two threads share.                      *)
(*                                                                         *)
(* A definition marked as a mutant is the one that follows it with one     *)
(* slip a change to the code could bring in; no mutant is part of the      *)
(* model.                                                                  *)
(***************************************************************************)
EXTENDS Naturals

CONSTANT MaxStreams     \* bound: how many event streams docker answers with

ASSUME MaxStreamsAssumption == MaxStreams \in Nat \ {0}

VARIABLES
    pc,         \* where the collector thread is
    stream,     \* follow's local: the number of the latest stream
    shared,     \* self._stream; 0 for None
    ended,      \* the streams a read returns from: closed by docker, or shut down
    connected,
    stopper,    \* where the thread that calls stop() is
    seen,       \* stop's local: the stream it found
    stopSet     \* the _stop event

vars == <<pc, stream, shared, ended, connected, stopper, seen, stopSet>>
threadVars == <<pc, stream, shared, connected>>
stopVars == <<stopper, seen, stopSet>>

Streams == 0..MaxStreams

-----------------------------------------------------------------------------
(* Collector.run and follow.                                               *)

Goto(from, to) == pc = from /\ pc' = to

(* while not self._stop.is_set() *)
CheckStop ==
    /\ Goto("check", IF stopSet THEN "done" ELSE "connecting")
    /\ UNCHANGED <<stream, shared, ended, connected, stopVars>>

(* self.docker.events(...) returns ... *)
EventsAnswered ==
    /\ stream < MaxStreams
    /\ Goto("connecting", "answered")
    /\ stream' = stream + 1
    /\ UNCHANGED <<shared, ended, connected, stopVars>>

(* ... or raises, which run's except clause catches *)
EventsRaised ==
    /\ Goto("connecting", "lost")
    /\ UNCHANGED <<stream, shared, ended, connected, stopVars>>

(* mutant: the stream stays a local of follow *)
KeepStream ==
    /\ Goto("answered", "reconciling")
    /\ UNCHANGED <<stream, shared, ended, connected, stopVars>>

ShareStream ==
    /\ Goto("answered", "reconciling")
    /\ shared' = stream
    /\ UNCHANGED <<stream, ended, connected, stopVars>>

(* The list call times out after 30 s: reconcile returns or raises.        *)
ReconcileReturns ==
    /\ Goto("reconciling", "reading")
    /\ connected' = TRUE
    /\ UNCHANGED <<stream, shared, ended, stopVars>>

ReconcileRaised ==
    /\ Goto("reconciling", "finally")
    /\ UNCHANGED <<stream, shared, ended, connected, stopVars>>

(* Between events the thread is blocked in readline, for as long as the    *)
(* stream lasts. *)
StreamEnds ==
    /\ stream \in ended
    /\ Goto("reading", "finally")
    /\ UNCHANGED <<stream, shared, ended, connected, stopVars>>

(* A line that does not decode, or a store that raises, ends it too.       *)
HandlerRaised ==
    /\ Goto("reading", "finally")
    /\ UNCHANGED <<stream, shared, ended, connected, stopVars>>

ReleaseStream ==
    /\ Goto("finally", "lost")
    /\ shared' = 0
    /\ ended' = ended \cup {stream}
    /\ UNCHANGED <<stream, connected, stopVars>>

(* mutant: only the except branch says so, and the stream just ended *)
LeaveConnected ==
    /\ Goto("lost", "waiting")
    /\ UNCHANGED <<stream, shared, ended, connected, stopVars>>

MarkDisconnected ==
    /\ Goto("lost", "waiting")
    /\ connected' = FALSE
    /\ UNCHANGED <<stream, shared, ended, stopVars>>

(* mutant: self._stop.wait() *)
WaitForStop ==
    /\ stopSet
    /\ Goto("waiting", "check")
    /\ UNCHANGED <<stream, shared, ended, connected, stopVars>>

(* self._stop.wait(reconnect_delay) *)
DelayOver ==
    /\ Goto("waiting", "check")
    /\ UNCHANGED <<stream, shared, ended, connected, stopVars>>

-----------------------------------------------------------------------------
(* Collector.stop, on another thread.                                      *)

SetStop ==
    /\ stopper = "idle"
    /\ stopper' = "reading"
    /\ stopSet' = TRUE
    /\ UNCHANGED <<threadVars, ended, seen>>

(* stream = self._stream *)
ReadStream ==
    /\ stopper = "reading"
    /\ stopper' = "interrupting"
    /\ seen' = shared
    /\ UNCHANGED <<threadVars, ended, stopSet>>

(* mutant: whatever was found is interrupted, None too *)
InterruptNone == {seen}

(* mutant: a socket that is closed, not shut down, wakes nobody *)
InterruptByClosing == {}

(* what stream.interrupt() shuts down, if there is a stream *)
Interrupted == {seen} \ {0}

Interrupt ==
    /\ stopper = "interrupting"
    /\ stopper' = "returned"
    /\ ended' = ended \cup Interrupted
    /\ UNCHANGED <<threadVars, seen, stopSet>>

(* The daemon goes away. *)
DaemonCloses ==
    /\ pc \in {"answered", "reconciling", "reading"}
    /\ stream \notin ended
    /\ ended' = ended \cup {stream}
    /\ UNCHANGED <<threadVars, stopVars>>

-----------------------------------------------------------------------------
Init ==
    /\ pc = "check"
    /\ stream = 0 /\ shared = 0 /\ ended = {}
    /\ connected = FALSE
    /\ stopper = "idle" /\ seen = 0 /\ stopSet = FALSE

ThreadStep ==
    \/ CheckStop \/ EventsAnswered \/ EventsRaised \/ ShareStream
    \/ ReconcileReturns \/ ReconcileRaised \/ StreamEnds
    \/ ReleaseStream \/ MarkDisconnected \/ DelayOver

Next ==
    \/ ThreadStep \/ HandlerRaised
    \/ SetStop \/ ReadStream \/ Interrupt
    \/ DaemonCloses

Spec == Init /\ [][Next]_vars

(* A thread that can go on does, every call with a timeout returns, and    *)
(* docker answers a request for events one way or the other.  Nothing      *)
(* makes a stream end, an event fail or somebody call stop.                *)
FairSpec == Spec /\ WF_vars(ThreadStep) /\ WF_vars(ReadStream \/ Interrupt)

-----------------------------------------------------------------------------
(* Every variable keeps its type. *)
TypeOK ==
    /\ pc \in {"check", "connecting", "answered", "reconciling", "reading", "finally",
               "lost", "waiting", "done"}
    /\ stream \in Streams /\ shared \in Streams /\ seen \in Streams
    /\ ended \subseteq Streams \ {0}
    /\ connected \in BOOLEAN
    /\ stopper \in {"idle", "reading", "interrupting", "returned"}
    /\ stopSet \in BOOLEAN

(* "A collector thread that died quietly while the numbers it stopped      *)
(* updating still look live" cannot be: it ends only when told to, and     *)
(* then says that it is not connected. *)
NeverDiesQuietly == pc = "done" => stopSet /\ ~connected

(* The reader closes the connection itself: no stream it is still reading  *)
(* is one stop could not find. *)
ReadableIsShared == pc = "reading" => shared = stream

(* Whatever ended a stream, the thread comes back to docker. *)
AlwaysReturns == pc = "lost" ~> pc \in {"connecting", "done"}

(* Once interrupt has been called on a stream the thread ends - even if it *)
(* was no longer the one being read. *)
InterruptEnds == (stopper = "returned" /\ seen # 0) ~> pc = "done"

(* stop() "has to wake a thread blocked in readline on the event stream":  *)
(* the collector stops. *)
StopEnds == stopSet ~> pc = "done"
=============================================================================
