----------------------------- MODULE StatsServer -----------------------------
(***************************************************************************)
(* StatsServer.stats on an http thread, beside the collector it reports    *)
(* on.  An answer is put together field by field: the three counts under   *)
(* the lock of the store, the collector's state after it, with no lock at  *)
(* all.  The collector, docker, the guests and the clock move in between;  *)
(* only a call that writes to the store has to wait for the lock.          *)
(*                                                                         *)
(* One request at a time: two of them share nothing but that lock.         *)
(***************************************************************************)
EXTENDS StatsCollector

CONSTANT Windows    \* the windows (in ticks) a request may name, or get by default

ASSUME WindowsAssumption == Windows \subseteq Nat \ {0}    \* parse_window sees to it

VARIABLES
    request,    \* stats' locals now and window; NoRequest between requests
    read,       \* how many fields of the answer have been read
    answer,
    (* history: no code has these *)
    behind,     \* whether the counts left out what no later event would bring
    torn        \* whether reconcile finished, or had just failed, around them

serverVars == <<request, read, answer, behind, torn>>

NoRequest == [at |-> 0, window |-> 0]
NoAnswer == [current |-> 0, inWindow |-> 0, ever |-> 0,
             connected |-> FALSE, reconciledAt |-> 0, lastEventAt |-> 0]

-----------------------------------------------------------------------------
(* The fields of an answer in the order they are read.  The lock is taken  *)
(* for the first and released after the third.                             *)

(* mutant: the collector's state read from the last to the first *)
FieldsBackwards == <<"current", "inWindow", "ever", "lastEventAt", "reconciledAt", "connected">>

Fields == <<"current", "inWindow", "ever", "connected", "reconciledAt", "lastEventAt">>

Value(field) ==
    CASE field = "current"      -> Cardinality(OpenIds)
      [] field = "inWindow"     -> Cardinality(ConnectedInWindow(request.at, request.window))
      [] field = "ever"         -> Cardinality({g \in Guests : rows[g].state # "absent"})
      [] field = "connected"    -> connected
      [] field = "reconciledAt" -> reconciledAt
      [] field = "lastEventAt"  -> lastEventAt

Answered == request # NoRequest /\ read = Len(Fields)

(* mutant: a lock for each of the three queries *)
StoreGoesOn == TRUE

(* A store call of the collector waits while counts() holds the lock. *)
StoreWaits == read \in 1..2 => rows' = rows

-----------------------------------------------------------------------------
(* Some guest's row is wrong although docker has said all it will say of    *)
(* it, and the stream that is open, if one is, has nothing more for it.    *)
StillDelivers(i) == IF cursor = 0 THEN Second(events[i].time) >= since ELSE i >= cursor
Behind ==
    \E g \in Guests :
        /\ (rows[g].state = "open") # (g \in Running)
        /\ guest[g] \notin {"up", "exiting"}
        /\ pc \in Streaming => \A i \in 1..Len(events) : events[i].id = g => ~StillDelivers(i)

(* mutant: int() for parse_window, so that a window may lie ahead *)
AskUnparsed ==
    /\ pc # "down"
    /\ request = NoRequest
    /\ \E window \in Windows \cup {-1} : request' = [at |-> clock, window |-> window]
    /\ UNCHANGED <<vars, read, answer, behind, torn>>

Ask ==
    /\ pc # "down"
    /\ request = NoRequest
    /\ \E window \in Windows : request' = [at |-> clock, window |-> window]
    /\ UNCHANGED <<vars, read, answer, behind, torn>>

ReadField ==
    /\ request # NoRequest
    /\ read < Len(Fields)
    /\ read' = read + 1
    /\ answer' = [answer EXCEPT ![Fields[read + 1]] = Value(Fields[read + 1])]
    /\ IF read = 0
       THEN behind' = Behind /\ torn' = (pc = "ended")
       ELSE UNCHANGED <<behind, torn>>
    /\ UNCHANGED <<vars, request>>

Forget ==
    /\ request' = NoRequest /\ read' = 0 /\ answer' = NoAnswer
    /\ behind' = FALSE /\ torn' = FALSE

Respond ==
    /\ Answered
    /\ Forget
    /\ UNCHANGED vars

(* Any step of the collector and its world; a server that dies takes its   *)
(* http threads with it. *)
CollectorMoves ==
    /\ Next
    /\ StoreWaits
    /\ IF pc' = "down"
       THEN Forget
       ELSE /\ torn' = (torn \/ (read > 0 /\ pc = "closing" /\ pc' = "following"))
            /\ UNCHANGED <<request, read, answer, behind>>

ServerInit ==
    /\ Init
    /\ request = NoRequest /\ read = 0 /\ answer = NoAnswer
    /\ behind = FALSE /\ torn = FALSE

ServerNext == Ask \/ ReadField \/ Respond \/ CollectorMoves

ServerSpec == ServerInit /\ [][ServerNext]_<<vars, serverVars>>

-----------------------------------------------------------------------------
(* Every variable of the server keeps its type. *)
ServerTypeOK ==
    /\ request \in [at : Times, window : Windows \cup {0}]
    /\ read \in 0..Len(Fields)
    /\ answer \in [current : Nat, inWindow : Nat, ever : Nat,
                   connected : BOOLEAN, reconciledAt : Times, lastEventAt : Times]
    /\ behind \in BOOLEAN /\ torn \in BOOLEAN

(* "The three numbers therefore nest" (attack_playground.md): also when    *)
(* the collector opens, guesses and corrects ends while they are counted,  *)
(* one query after the other. *)
NumbersNest ==
    Answered => answer.current <= answer.inWindow /\ answer.inWindow <= answer.ever

(* Numbers that are behind for good - a guest came or went while nobody    *)
(* followed - are shown as connected: true only if reconcile put them      *)
(* right while the answer was being read, or the stream had been lost the  *)
(* moment before.  At any other time such an answer says false. *)
StaleSaysSo == Answered /\ behind /\ answer.connected => torn

(* An answer that says it is being kept up to date also says since when:    *)
(* whatever connected and reconciled_at go through between the two reads,  *)
(* in a server that has just started as well. *)
ConnectedIsDated == Answered /\ answer.connected => answer.reconciledAt # 0
=============================================================================
