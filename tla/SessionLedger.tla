---------------------------- MODULE SessionLedger ----------------------------
(***************************************************************************)
(* What the connection statistics promise, with no mention of how docker   *)
(* is followed: a ledger with at most one line per ssh session.  A line is *)
(* only ever written for a session that really began, it is only ended     *)
(* once the session really is over, an end that was observed is the end    *)
(* docker announced and is final, and an end that was guessed can only be  *)
(* replaced by the observed one.  The header of stats_server.py and the    *)
(* sections "what is counted" and "where the numbers live" of              *)
(* attack_playground.md say this; StatsCollector implements it.            *)
(***************************************************************************)
EXTENDS Integers

CONSTANTS
    Guests,     \* one per ssh session: a guest container is never reused
    Time        \* the instants (naturals) a start or an end can be recorded at

VARIABLES
    session,    \* what really happens to each session
    leftAt,     \* when docker says a session ended; 0 until it has said so
    ledger      \* the recorded line of each session

ledgerVars == <<session, leftAt, ledger>>

Line == [state : {"absent", "open", "reconcile", "die"}, start : Time, end : Time]
NoLine == [state |-> "absent", start |-> 0, end |-> 0]

Init ==
    /\ session = [g \in Guests |-> "never"]
    /\ leftAt = [g \in Guests |-> 0]
    /\ ledger = [g \in Guests |-> NoLine]

-----------------------------------------------------------------------------
(* The sessions themselves: begin, end, and docker's word on when.         *)

Connect(g) ==
    /\ session[g] = "never"
    /\ session' = [session EXCEPT ![g] = "connected"]
    /\ UNCHANGED <<leftAt, ledger>>

Leave(g) ==
    /\ session[g] = "connected"
    /\ session' = [session EXCEPT ![g] = "left"]
    /\ UNCHANGED <<leftAt, ledger>>

Announce(g) ==
    /\ session[g] = "left"
    /\ leftAt[g] = 0
    /\ \E t \in Time \ {0} : leftAt' = [leftAt EXCEPT ![g] = t]
    /\ UNCHANGED <<session, ledger>>

-----------------------------------------------------------------------------
(* The ledger: a line is opened once, guessed closed at most once, and     *)
(* closed for good by the announced end.                                   *)

Record(g) ==
    /\ ledger[g].state = "absent"
    /\ session[g] # "never"
    /\ \E t \in Time :
          ledger' = [ledger EXCEPT ![g] = [state |-> "open", start |-> t, end |-> 0]]
    /\ UNCHANGED <<session, leftAt>>

Guess(g) ==
    /\ ledger[g].state = "open"
    /\ session[g] = "left"
    /\ \E t \in Time \ {0} :
          /\ ledger[g].start <= t
          /\ ledger' = [ledger EXCEPT ![g].state = "reconcile", ![g].end = t]
    /\ UNCHANGED <<session, leftAt>>

Observe(g) ==
    /\ ledger[g].state \in {"open", "reconcile"}
    /\ leftAt[g] # 0
    /\ ledger[g].start <= leftAt[g]
    /\ ledger' = [ledger EXCEPT ![g].state = "die", ![g].end = leftAt[g]]
    /\ UNCHANGED <<session, leftAt>>

Next ==
    \E g \in Guests :
        \/ Connect(g) \/ Leave(g) \/ Announce(g)
        \/ Record(g) \/ Guess(g) \/ Observe(g)

Spec == Init /\ [][Next]_ledgerVars
=============================================================================
