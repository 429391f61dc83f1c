---------------------------- MODULE LifecycleProofs ----------------------------
(***************************************************************************)
(* For any number of guests and gateways, and for any number of failed     *)
(* steps, killed scripts, reloads and reboots: guests that run are         *)
(* restricted, containerssh gives them the gateway of the network they are *)
(* on, a script starts it second and on this run's config, nothing but     *)
(* what docker rm left holds a cleanup up, and a stop after which nothing  *)
(* has failed leaves no session open or guessed.                           *)
(*                                                                         *)
(* The argument is the order of the scripts' steps.  Each part of the      *)
(* invariant says what the steps so far have made true and no one can undo *)
(* before the step that relies on it: containerssh is down from the step   *)
(* that stops it to the one that starts it, so no guest appears behind the *)
(* list; the network is there and restricted when containerssh starts, and *)
(* neither goes while it is up.                                            *)
(***************************************************************************)
EXTENDS Lifecycle, TLAPS

(* The next step of the script that runs. *)
Doing == IF script = "none" THEN "none" ELSE Steps(script)[step]

(* No guest appears while the guests are listed and removed, nor before    *)
(* the services are started again. *)
SshStopped ==
    Doing \in {"list", "remove", "down", "teardown", "rmNetwork", "rmConfig", "rmImage"} =>
        ssh = "down"

(* What the list holds is all there is to remove, and what is left of it   *)
(* docker rm has left. *)
Swept ==
    /\ Doing = "remove" => Containers \subseteq sweep
    /\ Doing \in {"down", "teardown", "rmNetwork", "rmConfig", "rmImage"} =>
          Containers \subseteq survivors

(* start.sh: network, then restrictions, then config. *)
Prepared ==
    /\ Doing \in {"setup", "truncate", "write", "up"} => net # None
    /\ Doing \in {"truncate", "write", "up"} => secured /\ fw \in {"applied", "flushed"}
    /\ Doing = "up" => config = net

(* A containerssh that is not the empty one docker brings up by hand has a *)
(* network and restrictions under it, and the config of that network (or,  *)
(* while a render is half way, an empty one). *)
SshFounded ==
    ssh # "down" /\ loaded # "directory" =>
        /\ net # None
        /\ fw # "none"
        /\ ssh = "starting" => loaded = None /\ config \in {net, "empty"}
        /\ ssh = "up" => loaded \in {net, "empty"}

OrderInv == SshStopped /\ Swept /\ Prepared /\ SshFounded /\ GuestsRestricted

(* As long as nothing has failed: what the collector has, or has still to  *)
(* apply, is what happened to each guest. *)
Pending(g) == <<"start", g>> \in news
Ending(g) == <<"die", g>> \in news

Recorded(g) ==
    /\ guest[g] = "none" => session[g] = "absent" /\ ~Pending(g) /\ ~Ending(g)
    /\ Pending(g) => session[g] = "absent"
    /\ guest[g] = "running" /\ stats = "following" =>
          ~Ending(g) /\ (Pending(g) \/ session[g] = "open")
    /\ guest[g] = "running" /\ stats # "following" => session[g] = "absent"
    /\ guest[g] # "running" /\ Ending(g) => Pending(g) \/ session[g] = "open"
    /\ guest[g] # "running" /\ ~Ending(g) =>
          ~Pending(g) /\ session[g] \in {"absent", "exact"}

(* Events wait for a collector that follows, and none is told to stop      *)
(* before the guests have gone. *)
Watched ==
    /\ stats # "following" => news = {}
    /\ stats = "down" => ssh = "down" /\ Running = {}

(* The playground is stopped, and stays so until a script starts it. *)
Quiet == Running = {} /\ news = {} /\ (ssh = "down" \/ loaded = "directory")

FaultlessInv ==
    faults = 0 =>
        /\ survivors = {}
        /\ Watched
        /\ Doing = "teardown" \/ (script = "none" /\ outcome = "stopped") => Quiet
        /\ \A g \in Guests : Recorded(g)

IInv == TypeOK /\ OrderInv /\ FaultlessInv
-----------------------------------------------------------------------------
(* The scripts' steps, one after the other. *)

Successors ==
    [preflight |-> {"network"}, network |-> {"setup"}, setup |-> {"truncate"},
     truncate |-> {"write"}, write |-> {"up"}, up |-> {"wait"}, wait |-> {"none"},
     stopSsh |-> {"list"}, list |-> {"remove"}, remove |-> {"down"}, down |-> {"teardown"},
     teardown |-> {"none", "preflight", "rmNetwork"},
     rmNetwork |-> {"rmConfig"}, rmConfig |-> {"rmImage"}, rmImage |-> {"none"}]

InOrder(names) ==
    /\ Len(names) \in Nat \ {0}
    /\ names[1] \in {"preflight", "stopSsh"}
    /\ \A i \in 1..Len(names) : names[i] \in DOMAIN Successors
    /\ \A i \in 1..Len(names) : i < Len(names) => names[i + 1] \in Successors[names[i]]
    /\ names[Len(names)] \in {"wait", "teardown", "rmImage"}

(* Every script begins and ends with a step it may begin and end with, and *)
(* each of its steps follows one it may follow.                            *)
LEMMA ScriptsInOrder == \A s \in Scripts : InOrder(Steps(s))
<1>1. InOrder(StartSteps)
  BY DEF StartSteps, InOrder, Successors
<1>2. InOrder(StopSteps)
  BY DEF StopSteps, InOrder, Successors
<1>3. InOrder(StopSteps \o StartSteps)
  BY DEF StopSteps, StartSteps, InOrder, Successors
<1>4. InOrder(StopSteps \o <<"rmNetwork", "rmConfig", "rmImage">>)
  BY DEF StopSteps, InOrder, Successors
<1> QED
  BY <1>1, <1>2, <1>3, <1>4 DEF Steps, Scripts

Outcomes == {"none", "up", "stopped", "cleaned", "aborted", "unrestricted", "notReady",
             "blocked", "killed"}

ScriptType ==
    /\ script \in Scripts \cup {"none"}
    /\ step \in 1..(IF script = "none" THEN 1 ELSE Len(Steps(script)))
    /\ outcome \in Outcomes

(* What a script does next follows what it did; stop.sh ends well only     *)
(* after its teardown. *)
LEMMA ProceedMoves ==
    ASSUME ScriptType, NEW name, At(name), Proceed
    PROVE  /\ ScriptType'
           /\ Doing = name
           /\ name \in DOMAIN Successors
           /\ Doing' \in Successors[name]
           /\ outcome' = "stopped" /\ script' = "none" => name = "teardown"
<1>1. script \in Scripts /\ InOrder(Steps(script)) /\ Doing = name
  BY ScriptsInOrder DEF ScriptType, At, Doing
<1>2. step \in 1..Len(Steps(script)) /\ Len(Steps(script)) \in Nat \ {0}
  BY <1>1 DEF ScriptType, At, InOrder
<1>3. name \in DOMAIN Successors
  BY <1>1, <1>2 DEF At, InOrder
<1>4. CASE step < Len(Steps(script))
  <2>1. step' = step + 1 /\ UNCHANGED <<script, outcome>>
    BY <1>4 DEF Proceed
  <2>2. step' \in 1..Len(Steps(script))
    BY <2>1, <1>2, <1>4
  <2>3. Doing' = Steps(script)[step + 1]
    BY <2>1, <1>1 DEF Doing, At, Scripts
  <2>4. Steps(script)[step + 1] \in Successors[name]
    BY <1>1, <1>2, <1>4 DEF At, InOrder
  <2> QED
    BY <1>1, <1>3, <2>1, <2>2, <2>3, <2>4 DEF ScriptType, At
<1>5. CASE ~(step < Len(Steps(script)))
  <2>1. script' = "none" /\ step' = 1 /\ outcome' = Ended(script)
    BY <1>5 DEF Proceed, Exit
  <2>2. step = Len(Steps(script)) /\ name \in {"wait", "teardown", "rmImage"}
    BY <1>1, <1>2, <1>5 DEF At, InOrder
  <2>3. Doing' = "none" /\ "none" \in Successors[name]
    BY <2>1, <2>2 DEF Doing, Successors
  <2>4. outcome' \in Outcomes
    BY <2>1, <1>1 DEF Ended, Scripts, Outcomes
  <2>5. outcome' = "stopped" => script = "stop"
    BY <2>1, <1>1 DEF Ended, Scripts
  <2>6. script = "stop" => name = "teardown"
    BY <2>2 DEF At, Steps, StopSteps
  <2> QED
    BY <1>1, <1>3, <2>1, <2>3, <2>4, <2>5, <2>6 DEF ScriptType
<1> QED
  BY <1>4, <1>5

(* Where a script is after it has exited, ...                              *)
LEMMA ExitMoves ==
    ASSUME NEW how \in Outcomes, Exit(how)
    PROVE  ScriptType' /\ script' = "none" /\ Doing' = "none" /\ outcome' = how
BY DEF Exit, ScriptType, Doing

(* ... was launched ...                                                    *)
LEMMA LaunchMoves ==
    ASSUME NEW s \in Scripts, Launch(s)
    PROVE  ScriptType' /\ Doing' \in {"preflight", "stopSsh"} /\ outcome' = "none"
<1>1. InOrder(Steps(s)) /\ s # "none"
  BY ScriptsInOrder DEF Scripts
<1> QED
  BY <1>1 DEF Launch, InOrder, ScriptType, Outcomes, Doing

-----------------------------------------------------------------------------
(* Types. *)

HostType ==
    /\ sweep \subseteq Guests
    /\ net \in Gateways \cup {None}
    /\ config \in Gateways \cup Broken
    /\ fw \in {"none", "applied", "broken", "flushed"}
    /\ secured \in BOOLEAN
    /\ ssh \in {"down", "starting", "up"}
    /\ stats \in {"down", "starting", "following"}
    /\ loaded \in Gateways \cup Broken \cup {None}
    /\ guest \in [Guests -> {"none", "running", "exited", "removed"}]
    /\ news \subseteq {"start", "die"} \X Guests
    /\ session \in [Guests -> {"absent", "open", "guessed", "exact"}]
    /\ survivors \subseteq Guests
    /\ faults \in 0..MaxFaults

(* The type invariant in the two parts the lemmas use.                     *)
LEMMA TypeParts == TypeOK <=> ScriptType /\ HostType
BY DEF TypeOK, ScriptType, HostType, Outcomes

(* Nothing has run yet.                                                    *)
LEMMA InitHolds == Init => IInv
<1> SUFFICES ASSUME Init PROVE IInv
  OBVIOUS
<1>1. TypeOK
  <2>1. ScriptType
    BY DEF Init, ScriptType, Outcomes
  <2>2. secured \in BOOLEAN /\ fw \in {"none", "applied", "broken", "flushed"}
    BY DEF Init
  <2>3. HostType
    BY <2>2, LifecycleAssumption DEF Init, HostType, Broken
  <2> QED
    BY <2>1, <2>3, TypeParts
<1>2. Doing = "none" /\ Running = {}
  BY DEF Init, Doing, Running
<1>3. OrderInv
  BY <1>2 DEF Init, OrderInv, SshStopped, Swept, Prepared, SshFounded, GuestsRestricted
<1>4. FaultlessInv
  BY <1>2 DEF Init, FaultlessInv, Watched, Quiet, Recorded, Pending, Ending
<1> QED
  BY <1>1, <1>3, <1>4 DEF IInv

(* A step that fails, or a script that is killed, moves nothing but itself. *)
LEMMA ScriptTypeStep == ScriptType /\ [Next]_vars => ScriptType'
<1> SUFFICES ASSUME ScriptType, [Next]_vars PROVE ScriptType'
  OBVIOUS
<1>1. CASE \E name \in DOMAIN Successors : At(name) /\ Proceed
  BY <1>1, ProceedMoves
<1>2. CASE \E how \in Outcomes : Exit(how)
  BY <1>2, ExitMoves
<1>3. CASE \E s \in Scripts : Launch(s)
  BY <1>3, LaunchMoves
<1>4. CASE UNCHANGED scriptVars
  BY <1>4 DEF scriptVars, ScriptType
<1>5. ScriptStep => \/ \E name \in DOMAIN Successors : At(name) /\ Proceed
                   \/ \E how \in Outcomes : Exit(how)
  BY DEF ScriptStep, Preflight, CreateNetwork, Setup, TruncateConfig, WriteConfig, ComposeUp,
         WaitForSsh, StopSsh, ListGuests, RemoveGuests, ComposeDown, Teardown,
         RemoveNetwork, RemoveConfig, RemoveImage, StepFails, Successors, Outcomes
<1>6. KillScript => \E how \in Outcomes : Exit(how)
  BY DEF KillScript, Outcomes
<1>7. HostGoesDown => UNCHANGED scriptVars \/ \E how \in Outcomes : Exit(how)
  BY DEF HostGoesDown, Outcomes
<1>8. \/ SshReadsConfig \/ Reconcile \/ ComposeUpByHand \/ ServiceDies \/ FirewallReloads
      \/ UNCHANGED vars
      \/ \E g \in Guests : Login(g) \/ Logout(g) \/ HandleEvent(g)
      => UNCHANGED scriptVars
  BY DEF SshReadsConfig, Reconcile, ComposeUpByHand, ServiceDies, FirewallReloads, Login,
         Logout, HandleEvent, vars
<1> QED
  BY <1>1, <1>2, <1>3, <1>4, <1>5, <1>6, <1>7, <1>8 DEF Next

(* What docker publishes is of a guest, and what it mounts is a config or none. *)
LEMMA PublishType ==
    ASSUME NEW what \in {"start", "die"}, NEW gs \in SUBSET Guests,
           news \subseteq {"start", "die"} \X Guests, Publish(what, gs)
    PROVE  news' \subseteq {"start", "die"} \X Guests
BY DEF Publish

(* Starting containerssh, and the directory docker may make of its config. *)
LEMMA StartSshType ==
    ASSUME HostType, StartSsh
    PROVE  /\ ssh' \in {"down", "starting", "up"}
           /\ config' \in Gateways \cup Broken
           /\ loaded' \in Gateways \cup Broken \cup {None}
BY DEF HostType, StartSsh, Broken

(* A setup or a teardown that is killed leaves something setup or teardown *)
(* makes, and only teardown leaves nothing where there was something. *)
LEMMA HalfDoneType ==
    ASSUME fw \in {"none", "applied", "broken", "flushed"}
    PROVE  /\ HalfDone \subseteq {"none", "applied", "broken", "flushed"}
           /\ "none" \in HalfDone => fw = "none" \/ Doing = "teardown"
BY DEF HalfDone, At, Doing

(* What the scripts bring up keeps its types; the config that is written   *)
(* is a gateway since the network exists by then.                          *)
LEMMA HostTypeStep ==
    ScriptType /\ HostType /\ Prepared /\ [Next]_vars => HostType'
<1> SUFFICES ASSUME ScriptType, HostType, Prepared, [Next]_vars PROVE HostType'
  OBVIOUS
<1>0. MaxFaults \in Nat
  BY LifecycleAssumption
<1> USE <1>0 DEF HostType, serviceVars, hostVars, guestVars, Fault
<1>1. CASE \E s \in Scripts : Launch(s)
  BY <1>1 DEF Launch
<1>2. CASE Preflight
  BY <1>2 DEF Preflight, scriptVars
<1>3. CASE CreateNetwork
  BY <1>3 DEF CreateNetwork, scriptVars
<1>4. CASE Setup
  <2>1. secured' = TRUE \/ secured' = secured
    BY <1>4, Zenon DEF Setup
  <2>2. secured' \in BOOLEAN
    BY <2>1
  <2>3. fw' \in {"none", "applied", "broken", "flushed"} /\ faults' \in 0..MaxFaults
    BY <1>4 DEF Setup
  <2> QED
    BY <1>4, <2>2, <2>3 DEF Setup, scriptVars
<1>5. CASE TruncateConfig
  BY <1>5 DEF TruncateConfig, Broken
<1>6. CASE WriteConfig
  <2>1. Doing = "write"
    BY <1>6 DEF WriteConfig, At, Doing
  <2> QED
    BY <1>6, <2>1 DEF WriteConfig, Rendered, Prepared
<1>7. CASE ComposeUp
  BY <1>7, StartSshType DEF ComposeUp, Up
<1>8. CASE WaitForSsh
  BY <1>8 DEF WaitForSsh, scriptVars
<1>9. CASE StopSsh
  BY <1>9 DEF StopSsh, scriptVars
<1>10. CASE ListGuests
  BY <1>10 DEF ListGuests, Containers
<1>11. CASE RemoveGuests
  <2>1. PICK kept \in SUBSET (sweep \cap Containers) :
          /\ kept # {} => faults < MaxFaults
          /\ faults' = IF kept = {} THEN faults ELSE faults + 1
          /\ guest' = [g \in Guests |-> IF g \in sweep \ kept THEN "removed" ELSE guest[g]]
          /\ Publish("die", (sweep \cap Running) \ kept)
          /\ survivors' = survivors \cup kept
    BY <1>11 DEF RemoveGuests
  <2>2. news' \subseteq {"start", "die"} \X Guests
    BY <2>1, PublishType
  <2>3. faults' \in 0..MaxFaults /\ survivors' \subseteq Guests
    BY <2>1
  <2> QED
    BY <1>11, <2>1, <2>2, <2>3 DEF RemoveGuests
<1>12. CASE ComposeDown
  BY <1>12 DEF ComposeDown, scriptVars
<1>13. CASE Teardown
  BY <1>13 DEF Teardown, scriptVars
<1>14. CASE RemoveNetwork
  BY <1>14 DEF RemoveNetwork, scriptVars
<1>15. CASE RemoveConfig
  BY <1>15 DEF RemoveConfig, Broken
<1>16. CASE RemoveImage
  BY <1>16 DEF RemoveImage, scriptVars
<1>17. CASE StepFails
  BY <1>17 DEF StepFails, scriptVars
<1>18. CASE SshReadsConfig
  BY <1>18 DEF SshReadsConfig, Broken
<1>19. CASE Reconcile
  BY <1>19 DEF Reconcile, scriptVars
<1>20. CASE ComposeUpByHand
  BY <1>20, StartSshType DEF ComposeUpByHand, Up
<1>21. ASSUME NEW g \in Guests, Login(g) PROVE HostType'
  <2>1. news' \subseteq {"start", "die"} \X Guests
    BY <1>21, PublishType DEF Login
  <2> QED
    BY <1>21, <2>1 DEF Login
<1>22. ASSUME NEW g \in Guests, Logout(g) PROVE HostType'
  <2>1. news' \subseteq {"start", "die"} \X Guests
    BY <1>22, PublishType DEF Logout
  <2> QED
    BY <1>22, <2>1 DEF Logout
<1>23. ASSUME NEW g \in Guests, HandleEvent(g) PROVE HostType'
  BY <1>23 DEF HandleEvent, scriptVars
<1>24. CASE KillScript
  BY <1>24, HalfDoneType DEF KillScript, scriptVars
<1>25. CASE ServiceDies
  BY <1>25 DEF ServiceDies, scriptVars
<1>26. CASE FirewallReloads
  BY <1>26 DEF FirewallReloads, scriptVars
<1>27. CASE HostGoesDown
  BY <1>27, HalfDoneType DEF HostGoesDown, scriptVars
<1>28. CASE UNCHANGED vars
  BY <1>28 DEF vars, scriptVars
<1> QED
  BY <1>1, <1>2, <1>3, <1>4, <1>5, <1>6, <1>7, <1>8, <1>9, <1>10, <1>11, <1>12, <1>13,
     <1>14, <1>15, <1>16, <1>17, <1>18, <1>19, <1>20, <1>21, <1>22, <1>23, <1>24, <1>25,
     <1>26, <1>27, <1>28 DEF Next, ScriptStep

-----------------------------------------------------------------------------
(* The order of the steps. *)

(* What each action does to the script. *)
LEMMA Moves ==
    ASSUME ScriptType
    PROVE  /\ Preflight => Doing = "preflight" /\ Doing' = "network"
           /\ CreateNetwork => Doing = "network" /\ Doing' = "setup"
           /\ Setup => Doing = "setup" /\ Doing' \in {"truncate", "none"}
           /\ TruncateConfig => Doing = "truncate" /\ Doing' = "write"
           /\ WriteConfig => Doing = "write" /\ Doing' = "up"
           /\ ComposeUp => Doing = "up" /\ Doing' \in {"wait", "none"}
           /\ WaitForSsh => Doing = "wait" /\ Doing' = "none"
           /\ StopSsh => Doing = "stopSsh" /\ Doing' = "list"
           /\ ListGuests => Doing = "list" /\ Doing' = "remove"
           /\ RemoveGuests => Doing = "remove" /\ Doing' = "down"
           /\ ComposeDown => Doing = "down" /\ Doing' \in {"teardown", "none"}
           /\ Teardown => Doing = "teardown" /\ Doing' \in {"none", "preflight", "rmNetwork"}
           /\ RemoveNetwork => Doing = "rmNetwork" /\ Doing' \in {"rmConfig", "none"}
           /\ RemoveConfig => Doing = "rmConfig" /\ Doing' = "rmImage"
           /\ RemoveImage => Doing = "rmImage" /\ Doing' = "none"
           /\ StepFails \/ KillScript => Doing' = "none" /\ script' = "none"
           /\ HostGoesDown => Doing' = "none"
           /\ UNCHANGED scriptVars => Doing' = Doing
<1>1. \A name \in DOMAIN Successors :
          At(name) => Doing = name /\ (Proceed => Doing' \in Successors[name])
  BY ProceedMoves DEF At, Doing
<1>2. \A how \in Outcomes : Exit(how) => Doing' = "none" /\ script' = "none"
  BY ExitMoves
<1>3. UNCHANGED scriptVars => Doing' = Doing
  BY DEF scriptVars, Doing
<1>4. Preflight => Doing = "preflight" /\ Doing' = "network"
  BY <1>1, <1>2 DEF Preflight, Successors, Outcomes
<1>5. CreateNetwork => Doing = "network" /\ Doing' = "setup"
  BY <1>1, <1>2 DEF CreateNetwork, Successors, Outcomes
<1>6. Setup => Doing = "setup" /\ Doing' \in {"truncate", "none"}
  BY <1>1, <1>2 DEF Setup, Successors, Outcomes
<1>7. TruncateConfig => Doing = "truncate" /\ Doing' = "write"
  BY <1>1, <1>2 DEF TruncateConfig, Successors, Outcomes
<1>8. WriteConfig => Doing = "write" /\ Doing' = "up"
  BY <1>1, <1>2 DEF WriteConfig, Successors, Outcomes
<1>9. ComposeUp => Doing = "up" /\ Doing' \in {"wait", "none"}
  BY <1>1, <1>2 DEF ComposeUp, Successors, Outcomes
<1>10. WaitForSsh => Doing = "wait" /\ Doing' = "none"
  BY <1>1, <1>2 DEF WaitForSsh, Successors, Outcomes
<1>11. StopSsh => Doing = "stopSsh" /\ Doing' = "list"
  BY <1>1, <1>2 DEF StopSsh, Successors, Outcomes
<1>12. ListGuests => Doing = "list" /\ Doing' = "remove"
  BY <1>1, <1>2 DEF ListGuests, Successors, Outcomes
<1>13. RemoveGuests => Doing = "remove" /\ Doing' = "down"
  BY <1>1, <1>2 DEF RemoveGuests, Successors, Outcomes
<1>14. ComposeDown => Doing = "down" /\ Doing' \in {"teardown", "none"}
  BY <1>1, <1>2 DEF ComposeDown, Successors, Outcomes
<1>15. Teardown => Doing = "teardown" /\ Doing' \in {"none", "preflight", "rmNetwork"}
  BY <1>1, <1>2 DEF Teardown, Successors, Outcomes
<1>16. RemoveNetwork => Doing = "rmNetwork" /\ Doing' \in {"rmConfig", "none"}
  BY <1>1, <1>2 DEF RemoveNetwork, Successors, Outcomes
<1>17. RemoveConfig => Doing = "rmConfig" /\ Doing' = "rmImage"
  BY <1>1, <1>2 DEF RemoveConfig, Successors, Outcomes
<1>18. RemoveImage => Doing = "rmImage" /\ Doing' = "none"
  BY <1>1, <1>2 DEF RemoveImage, Successors, Outcomes
<1>19. StepFails \/ KillScript => Doing' = "none" /\ script' = "none"
  BY <1>2 DEF StepFails, KillScript, Outcomes
<1>20. HostGoesDown => Doing' = "none"
  BY <1>2, <1>3 DEF HostGoesDown, Outcomes, Doing
<1> QED
  BY <1>1, <1>2, <1>3, <1>4, <1>5, <1>6, <1>7, <1>8, <1>9, <1>10, <1>11, <1>12, <1>13,
     <1>14, <1>15, <1>16, <1>17, <1>18, <1>19, <1>20

(* Between stopping containerssh and the end of the sweep nothing brings   *)
(* it up.                                                                  *)
LEMMA SshStoppedStep ==
    ScriptType /\ SshStopped /\ [Next]_vars => SshStopped'
<1> SUFFICES ASSUME ScriptType, SshStopped, [Next]_vars PROVE SshStopped'
  OBVIOUS
<1> USE Moves DEF SshStopped
<1>1. CASE \E s \in Scripts : Launch(s)
  BY <1>1, LaunchMoves
<1>2. CASE Preflight
  BY <1>2 DEF Preflight, serviceVars
<1>3. CASE CreateNetwork
  BY <1>3 DEF CreateNetwork, serviceVars
<1>4. CASE Setup
  BY <1>4 DEF Setup, serviceVars
<1>5. CASE TruncateConfig
  BY <1>5 DEF TruncateConfig, serviceVars
<1>6. CASE WriteConfig
  BY <1>6 DEF WriteConfig, serviceVars
<1>7. CASE ComposeUp
  BY <1>7 DEF ComposeUp, serviceVars
<1>8. CASE WaitForSsh
  BY <1>8 DEF WaitForSsh, serviceVars
<1>9. CASE StopSsh
  BY <1>9 DEF StopSsh, serviceVars
<1>10. CASE ListGuests
  BY <1>10 DEF ListGuests, serviceVars
<1>11. CASE RemoveGuests
  BY <1>11 DEF RemoveGuests, serviceVars
<1>12. CASE ComposeDown
  BY <1>12 DEF ComposeDown, serviceVars
<1>13. CASE Teardown
  BY <1>13 DEF Teardown, serviceVars
<1>14. CASE RemoveNetwork
  BY <1>14 DEF RemoveNetwork, serviceVars
<1>15. CASE RemoveConfig
  BY <1>15 DEF RemoveConfig, serviceVars
<1>16. CASE RemoveImage
  BY <1>16 DEF RemoveImage, serviceVars
<1>17. CASE StepFails
  BY <1>17 DEF StepFails, serviceVars
<1>18. CASE SshReadsConfig
  BY <1>18 DEF SshReadsConfig, serviceVars
<1>19. CASE Reconcile
  BY <1>19 DEF Reconcile, serviceVars
<1>20. CASE ComposeUpByHand
  BY <1>20 DEF ComposeUpByHand, scriptVars, Doing
<1>21. ASSUME NEW g \in Guests, Login(g) PROVE SshStopped'
  BY <1>21 DEF Login, serviceVars
<1>22. ASSUME NEW g \in Guests, Logout(g) PROVE SshStopped'
  BY <1>22 DEF Logout, serviceVars
<1>23. ASSUME NEW g \in Guests, HandleEvent(g) PROVE SshStopped'
  BY <1>23 DEF HandleEvent, serviceVars
<1>24. CASE KillScript
  BY <1>24 DEF KillScript, serviceVars
<1>25. CASE ServiceDies
  BY <1>25 DEF ServiceDies, serviceVars
<1>26. CASE FirewallReloads
  BY <1>26 DEF FirewallReloads, serviceVars
<1>27. CASE HostGoesDown
  BY <1>27 DEF HostGoesDown, serviceVars
<1>28. CASE UNCHANGED vars
  BY <1>28 DEF vars, serviceVars
<1> QED
  BY <1>1, <1>2, <1>3, <1>4, <1>5, <1>6, <1>7, <1>8, <1>9, <1>10, <1>11, <1>12, <1>13,
     <1>14, <1>15, <1>16, <1>17, <1>18, <1>19, <1>20, <1>21, <1>22, <1>23, <1>24, <1>25,
     <1>26, <1>27, <1>28 DEF Next, ScriptStep

(* What the steps of start.sh so far have made is there at the next.       *)
LEMMA PreparedStep ==
    ScriptType /\ HostType /\ Prepared /\ [Next]_vars => Prepared'
<1> SUFFICES ASSUME ScriptType, HostType, Prepared, [Next]_vars PROVE Prepared'
  OBVIOUS
<1> USE Moves DEF Prepared
<1>1. CASE \E s \in Scripts : Launch(s)
  BY <1>1, LaunchMoves
<1>2. CASE Preflight
  BY <1>2 DEF Preflight, hostVars
<1>3. CASE CreateNetwork
  BY <1>3, LifecycleAssumption DEF CreateNetwork, HostType
<1>4. CASE Setup
  BY <1>4, ExitMoves DEF Setup, Outcomes
<1>5. CASE TruncateConfig
  BY <1>5 DEF TruncateConfig, hostVars
<1>6. CASE WriteConfig
  BY <1>6 DEF WriteConfig, Rendered
<1>7. CASE ComposeUp
  BY <1>7 DEF ComposeUp, hostVars
<1>8. CASE WaitForSsh
  BY <1>8 DEF WaitForSsh, hostVars
<1>9. CASE StopSsh
  BY <1>9 DEF StopSsh, hostVars
<1>10. CASE ListGuests
  BY <1>10 DEF ListGuests, hostVars
<1>11. CASE RemoveGuests
  BY <1>11 DEF RemoveGuests, hostVars
<1>12. CASE ComposeDown
  BY <1>12 DEF ComposeDown, hostVars
<1>13. CASE Teardown
  BY <1>13 DEF Teardown, hostVars
<1>14. CASE RemoveNetwork
  BY <1>14 DEF RemoveNetwork, hostVars
<1>15. CASE RemoveConfig
  BY <1>15 DEF RemoveConfig, hostVars
<1>16. CASE RemoveImage
  BY <1>16 DEF RemoveImage, hostVars
<1>17. CASE StepFails
  BY <1>17 DEF StepFails, hostVars
<1>18. CASE SshReadsConfig
  BY <1>18 DEF SshReadsConfig, hostVars
<1>19. CASE Reconcile
  BY <1>19 DEF Reconcile, hostVars
<1>20. CASE ComposeUpByHand
  BY <1>20 DEF ComposeUpByHand, scriptVars, Doing
<1>21. ASSUME NEW g \in Guests, Login(g) PROVE Prepared'
  BY <1>21 DEF Login, hostVars
<1>22. ASSUME NEW g \in Guests, Logout(g) PROVE Prepared'
  BY <1>22 DEF Logout, hostVars
<1>23. ASSUME NEW g \in Guests, HandleEvent(g) PROVE Prepared'
  BY <1>23 DEF HandleEvent, hostVars
<1>24. CASE KillScript
  BY <1>24 DEF KillScript, hostVars
<1>25. CASE ServiceDies
  BY <1>25 DEF ServiceDies, hostVars
<1>26. CASE FirewallReloads
  BY <1>26 DEF FirewallReloads, hostVars
<1>27. CASE HostGoesDown
  BY <1>27 DEF HostGoesDown, hostVars
<1>28. CASE UNCHANGED vars
  BY <1>28 DEF vars, hostVars
<1> QED
  BY <1>1, <1>2, <1>3, <1>4, <1>5, <1>6, <1>7, <1>8, <1>9, <1>10, <1>11, <1>12, <1>13,
     <1>14, <1>15, <1>16, <1>17, <1>18, <1>19, <1>20, <1>21, <1>22, <1>23, <1>24, <1>25,
     <1>26, <1>27, <1>28 DEF Next, ScriptStep

(* After the sweep the only containers left are those that docker rm left. *)
LEMMA SweptStep ==
    ScriptType /\ HostType /\ SshStopped /\ Swept /\ [Next]_vars => Swept'
<1> SUFFICES ASSUME ScriptType, HostType, SshStopped, Swept, [Next]_vars PROVE Swept'
  OBVIOUS
<1> USE Moves DEF Swept, Containers
<1>1. CASE \E s \in Scripts : Launch(s)
  BY <1>1, LaunchMoves
<1>2. CASE Preflight
  BY <1>2 DEF Preflight, guestVars
<1>3. CASE CreateNetwork
  BY <1>3 DEF CreateNetwork, guestVars
<1>4. CASE Setup
  BY <1>4 DEF Setup, guestVars
<1>5. CASE TruncateConfig
  BY <1>5 DEF TruncateConfig, guestVars
<1>6. CASE WriteConfig
  BY <1>6 DEF WriteConfig, guestVars
<1>7. CASE ComposeUp
  BY <1>7 DEF ComposeUp, guestVars
<1>8. CASE WaitForSsh
  BY <1>8 DEF WaitForSsh, guestVars
<1>9. CASE StopSsh
  BY <1>9 DEF StopSsh, guestVars
<1>10. CASE ListGuests
  BY <1>10 DEF ListGuests, guestVars
<1>11. CASE RemoveGuests
  BY <1>11 DEF RemoveGuests, guestVars
<1>12. CASE ComposeDown
  BY <1>12 DEF ComposeDown, guestVars
<1>13. CASE Teardown
  BY <1>13 DEF Teardown, guestVars
<1>14. CASE RemoveNetwork
  BY <1>14 DEF RemoveNetwork, guestVars
<1>15. CASE RemoveConfig
  BY <1>15 DEF RemoveConfig, guestVars
<1>16. CASE RemoveImage
  BY <1>16 DEF RemoveImage, guestVars
<1>17. CASE StepFails
  BY <1>17 DEF StepFails, guestVars
<1>18. CASE SshReadsConfig
  BY <1>18 DEF SshReadsConfig, guestVars
<1>19. CASE Reconcile
  BY <1>19 DEF Reconcile, guestVars
<1>20. CASE ComposeUpByHand
  BY <1>20 DEF ComposeUpByHand, guestVars
<1>21. ASSUME NEW g \in Guests, Login(g) PROVE Swept'
  <2>1. Doing' = Doing
    BY <1>21 DEF Login
  <2>2. ~(Doing \in {"remove", "down", "teardown", "rmNetwork", "rmConfig", "rmImage"})
    BY <1>21 DEF Login, SshStopped
  <2> QED
    BY <2>1, <2>2
<1>22. ASSUME NEW g \in Guests, Logout(g) PROVE Swept'
  BY <1>22 DEF Logout, guestVars
<1>23. ASSUME NEW g \in Guests, HandleEvent(g) PROVE Swept'
  BY <1>23 DEF HandleEvent, guestVars
<1>24. CASE KillScript
  BY <1>24 DEF KillScript, guestVars
<1>25. CASE ServiceDies
  BY <1>25 DEF ServiceDies, guestVars
<1>26. CASE FirewallReloads
  BY <1>26 DEF FirewallReloads, guestVars
<1>27. CASE HostGoesDown
  BY <1>27 DEF HostGoesDown, guestVars
<1>28. CASE UNCHANGED vars
  BY <1>28 DEF vars, guestVars
<1> QED
  BY <1>1, <1>2, <1>3, <1>4, <1>5, <1>6, <1>7, <1>8, <1>9, <1>10, <1>11, <1>12, <1>13,
     <1>14, <1>15, <1>16, <1>17, <1>18, <1>19, <1>20, <1>21, <1>22, <1>23, <1>24, <1>25,
     <1>26, <1>27, <1>28 DEF Next, ScriptStep

(* A containerssh with a config keeps its network and its restrictions.    *)
LEMMA SshFoundedStep ==
    ScriptType /\ HostType /\ SshStopped /\ Prepared /\ SshFounded /\ [Next]_vars => SshFounded'
<1> SUFFICES ASSUME ScriptType, HostType, SshStopped, Prepared, SshFounded, [Next]_vars PROVE SshFounded'
  OBVIOUS
<1> USE Moves DEF SshFounded
<1>1. CASE \E s \in Scripts : Launch(s)
  BY <1>1, LaunchMoves DEF Launch, hostVars, serviceVars
<1>2. CASE Preflight
  BY <1>2 DEF Preflight, hostVars, serviceVars
<1>3. CASE CreateNetwork
  BY <1>3 DEF CreateNetwork, serviceVars
<1>4. CASE Setup
  BY <1>4 DEF Setup, serviceVars
<1>5. CASE TruncateConfig
  BY <1>5 DEF TruncateConfig, hostVars, serviceVars
<1>6. CASE WriteConfig
  BY <1>6 DEF WriteConfig, Rendered, serviceVars
<1>7. CASE ComposeUp
  BY <1>7, LifecycleAssumption DEF ComposeUp, StartSsh, Prepared, HostType, hostVars
<1>8. CASE WaitForSsh
  BY <1>8 DEF WaitForSsh, hostVars, serviceVars
<1>9. CASE StopSsh
  BY <1>9 DEF StopSsh, hostVars, serviceVars
<1>10. CASE ListGuests
  BY <1>10 DEF ListGuests, hostVars, serviceVars
<1>11. CASE RemoveGuests
  BY <1>11 DEF RemoveGuests, hostVars, serviceVars
<1>12. CASE ComposeDown
  BY <1>12 DEF ComposeDown, hostVars, serviceVars
<1>13. CASE Teardown
  BY <1>13 DEF Teardown, SshStopped, serviceVars
<1>14. CASE RemoveNetwork
  BY <1>14 DEF RemoveNetwork, SshStopped, serviceVars
<1>15. CASE RemoveConfig
  BY <1>15 DEF RemoveConfig, SshStopped, serviceVars
<1>16. CASE RemoveImage
  BY <1>16 DEF RemoveImage, hostVars, serviceVars
<1>17. CASE StepFails
  BY <1>17 DEF StepFails, hostVars, serviceVars
<1>18. CASE SshReadsConfig
  BY <1>18 DEF SshReadsConfig, hostVars, serviceVars
<1>19. CASE Reconcile
  BY <1>19 DEF Reconcile, hostVars, serviceVars
<1>20. CASE ComposeUpByHand
  BY <1>20 DEF ComposeUpByHand, StartSsh
<1>21. ASSUME NEW g \in Guests, Login(g) PROVE SshFounded'
  BY <1>21 DEF Login, hostVars, serviceVars
<1>22. ASSUME NEW g \in Guests, Logout(g) PROVE SshFounded'
  BY <1>22 DEF Logout, hostVars, serviceVars
<1>23. ASSUME NEW g \in Guests, HandleEvent(g) PROVE SshFounded'
  BY <1>23 DEF HandleEvent, hostVars, serviceVars
<1>24. CASE KillScript
  BY <1>24, HalfDoneType DEF KillScript, SshStopped, HostType, serviceVars
<1>25. CASE ServiceDies
  BY <1>25 DEF ServiceDies, hostVars, serviceVars
<1>26. CASE FirewallReloads
  BY <1>26 DEF FirewallReloads, hostVars, serviceVars
<1>27. CASE HostGoesDown
  BY <1>27 DEF HostGoesDown, hostVars, serviceVars
<1>28. CASE UNCHANGED vars
  BY <1>28 DEF vars, hostVars, serviceVars
<1> QED
  BY <1>1, <1>2, <1>3, <1>4, <1>5, <1>6, <1>7, <1>8, <1>9, <1>10, <1>11, <1>12, <1>13,
     <1>14, <1>15, <1>16, <1>17, <1>18, <1>19, <1>20, <1>21, <1>22, <1>23, <1>24, <1>25,
     <1>26, <1>27, <1>28 DEF Next, ScriptStep

(* A guest appears only with containerssh, and the restrictions go only    *)
(* after the sweep.                                                        *)
LEMMA GuestsRestrictedStep ==
    ScriptType /\ HostType /\ Swept /\ SshFounded /\ GuestsRestricted /\ [Next]_vars => GuestsRestricted'
<1> SUFFICES ASSUME ScriptType, HostType, Swept, SshFounded, GuestsRestricted, [Next]_vars PROVE GuestsRestricted'
  OBVIOUS
<1> USE Moves DEF GuestsRestricted, Running
<1>1. CASE \E s \in Scripts : Launch(s)
  BY <1>1, LaunchMoves DEF Launch, hostVars, guestVars
<1>2. CASE Preflight
  BY <1>2 DEF Preflight, hostVars, guestVars
<1>3. CASE CreateNetwork
  BY <1>3 DEF CreateNetwork, hostVars, guestVars
<1>4. CASE Setup
  BY <1>4 DEF Setup, guestVars
<1>5. CASE TruncateConfig
  BY <1>5 DEF TruncateConfig, hostVars, guestVars
<1>6. CASE WriteConfig
  BY <1>6 DEF WriteConfig, Rendered, guestVars
<1>7. CASE ComposeUp
  BY <1>7 DEF ComposeUp, hostVars, guestVars
<1>8. CASE WaitForSsh
  BY <1>8 DEF WaitForSsh, hostVars, guestVars
<1>9. CASE StopSsh
  BY <1>9 DEF StopSsh, hostVars, guestVars
<1>10. CASE ListGuests
  BY <1>10 DEF ListGuests, hostVars, guestVars
<1>11. CASE RemoveGuests
  <2>1. Running' \subseteq Running /\ survivors \subseteq survivors' /\ fw' = fw
    BY <1>11 DEF RemoveGuests, HostType, hostVars
  <2> QED
    BY <2>1
<1>12. CASE ComposeDown
  BY <1>12 DEF ComposeDown, hostVars, guestVars
<1>13. CASE Teardown
  BY <1>13 DEF Teardown, Swept, Containers, guestVars
<1>14. CASE RemoveNetwork
  BY <1>14 DEF RemoveNetwork, hostVars, guestVars
<1>15. CASE RemoveConfig
  BY <1>15 DEF RemoveConfig, hostVars, guestVars
<1>16. CASE RemoveImage
  BY <1>16 DEF RemoveImage, hostVars, guestVars
<1>17. CASE StepFails
  BY <1>17 DEF StepFails, hostVars, guestVars
<1>18. CASE SshReadsConfig
  BY <1>18 DEF SshReadsConfig, hostVars, guestVars
<1>19. CASE Reconcile
  BY <1>19 DEF Reconcile, hostVars, guestVars
<1>20. CASE ComposeUpByHand
  BY <1>20 DEF ComposeUpByHand, hostVars, guestVars
<1>21. ASSUME NEW g \in Guests, Login(g) PROVE GuestsRestricted'
  BY <1>21, LifecycleAssumption DEF Login, SshFounded, Broken, hostVars
<1>22. ASSUME NEW g \in Guests, Logout(g) PROVE GuestsRestricted'
  BY <1>22 DEF Logout, HostType, hostVars
<1>23. ASSUME NEW g \in Guests, HandleEvent(g) PROVE GuestsRestricted'
  BY <1>23 DEF HandleEvent, hostVars, guestVars
<1>24. CASE KillScript
  <2>1. fw' = "none" => fw = "none" \/ Doing = "teardown"
    BY <1>24, HalfDoneType DEF KillScript, HostType
  <2> QED
    BY <1>24, <2>1 DEF KillScript, Swept, Containers, guestVars
<1>25. CASE ServiceDies
  BY <1>25 DEF ServiceDies, hostVars, guestVars
<1>26. CASE FirewallReloads
  BY <1>26 DEF FirewallReloads, hostVars, guestVars
<1>27. CASE HostGoesDown
  BY <1>27 DEF HostGoesDown, hostVars, guestVars
<1>28. CASE UNCHANGED vars
  BY <1>28 DEF vars, hostVars, guestVars
<1> QED
  BY <1>1, <1>2, <1>3, <1>4, <1>5, <1>6, <1>7, <1>8, <1>9, <1>10, <1>11, <1>12, <1>13,
     <1>14, <1>15, <1>16, <1>17, <1>18, <1>19, <1>20, <1>21, <1>22, <1>23, <1>24, <1>25,
     <1>26, <1>27, <1>28 DEF Next, ScriptStep

-----------------------------------------------------------------------------
(* As long as nothing fails. *)

(* A fault is counted.                                                     *)
LEMMA FaultsCount == HostType /\ Fault => faults' # 0
BY DEF HostType, Fault

(* A step that ends without faults began without, and leaves no survivors. *)
LEMMA FaultlessBefore ==
    ASSUME HostType, [Next]_vars, faults' = 0
    PROVE  faults = 0 /\ (survivors = {} => survivors' = {})
<1> USE FaultsCount
<1>1. CASE \E s \in Scripts : Launch(s)
  BY <1>1, LaunchMoves DEF Launch, vars
<1>2. CASE Preflight
  BY <1>2 DEF Preflight, vars
<1>3. CASE CreateNetwork
  BY <1>3 DEF CreateNetwork, vars
<1>4. CASE Setup
  BY <1>4 DEF Setup, vars
<1>5. CASE TruncateConfig
  BY <1>5 DEF TruncateConfig, vars
<1>6. CASE WriteConfig
  BY <1>6 DEF WriteConfig, vars
<1>7. CASE ComposeUp
  BY <1>7 DEF ComposeUp, vars
<1>8. CASE WaitForSsh
  BY <1>8 DEF WaitForSsh, vars
<1>9. CASE StopSsh
  BY <1>9 DEF StopSsh, vars
<1>10. CASE ListGuests
  BY <1>10 DEF ListGuests, vars
<1>11. CASE RemoveGuests
  BY <1>11 DEF RemoveGuests, HostType
<1>12. CASE ComposeDown
  BY <1>12 DEF ComposeDown, vars
<1>13. CASE Teardown
  BY <1>13 DEF Teardown, vars
<1>14. CASE RemoveNetwork
  BY <1>14 DEF RemoveNetwork, vars
<1>15. CASE RemoveConfig
  BY <1>15 DEF RemoveConfig, vars
<1>16. CASE RemoveImage
  BY <1>16 DEF RemoveImage, vars
<1>17. CASE StepFails
  BY <1>17 DEF StepFails, vars
<1>18. CASE SshReadsConfig
  BY <1>18 DEF SshReadsConfig, vars
<1>19. CASE Reconcile
  BY <1>19 DEF Reconcile, vars
<1>20. CASE ComposeUpByHand
  BY <1>20 DEF ComposeUpByHand, vars
<1>21. ASSUME NEW g \in Guests, Login(g) PROVE faults = 0 /\ (survivors = {} => survivors' = {})
  BY <1>21 DEF Login, vars
<1>22. ASSUME NEW g \in Guests, Logout(g) PROVE faults = 0 /\ (survivors = {} => survivors' = {})
  BY <1>22 DEF Logout, vars
<1>23. ASSUME NEW g \in Guests, HandleEvent(g) PROVE faults = 0 /\ (survivors = {} => survivors' = {})
  BY <1>23 DEF HandleEvent, vars
<1>24. CASE KillScript
  BY <1>24 DEF KillScript, vars
<1>25. CASE ServiceDies
  BY <1>25 DEF ServiceDies, vars
<1>26. CASE FirewallReloads
  BY <1>26 DEF FirewallReloads, vars
<1>27. CASE HostGoesDown
  BY <1>27 DEF HostGoesDown, vars
<1>28. CASE UNCHANGED vars
  BY <1>28 DEF vars, vars
<1> QED
  BY <1>1, <1>2, <1>3, <1>4, <1>5, <1>6, <1>7, <1>8, <1>9, <1>10, <1>11, <1>12, <1>13,
     <1>14, <1>15, <1>16, <1>17, <1>18, <1>19, <1>20, <1>21, <1>22, <1>23, <1>24, <1>25,
     <1>26, <1>27, <1>28 DEF Next, ScriptStep

(* No other step of a script ends it as stop.sh ends. *)
LEMMA StoppedByTeardown ==
    ASSUME ScriptType, ScriptStep, script' = "none", outcome' = "stopped"
    PROVE  Doing = "teardown"
<1>1. \A name : At(name) /\ Proceed => Doing = "teardown"
  BY ProceedMoves
<1>2. \A how : Exit(how) => how = "stopped"
  BY DEF Exit
<1> QED
  BY <1>1, <1>2 DEF ScriptStep, Preflight, CreateNetwork, Setup, TruncateConfig, WriteConfig,
     ComposeUp, WaitForSsh, StopSsh, ListGuests, RemoveGuests, ComposeDown, Teardown,
     RemoveNetwork, RemoveConfig, RemoveImage, StepFails

(* Without faults the collector follows whenever there are guests that     *)
(* could end.                                                              *)
LEMMA WatchedStep ==
    ASSUME ScriptType, HostType, Swept, survivors = {}, Watched,
           [Next]_vars, faults' = 0
    PROVE  Watched'
<1> USE Moves, FaultsCount DEF Watched, Running
<1>1. CASE \E s \in Scripts : Launch(s)
  BY <1>1, LaunchMoves DEF Launch, serviceVars, guestVars
<1>2. CASE Preflight
  BY <1>2 DEF Preflight, serviceVars, guestVars
<1>3. CASE CreateNetwork
  BY <1>3 DEF CreateNetwork, serviceVars, guestVars
<1>4. CASE Setup
  BY <1>4 DEF Setup, serviceVars, guestVars
<1>5. CASE TruncateConfig
  BY <1>5 DEF TruncateConfig, serviceVars, guestVars
<1>6. CASE WriteConfig
  BY <1>6 DEF WriteConfig, serviceVars, guestVars
<1>7. CASE ComposeUp
  BY <1>7 DEF ComposeUp, Up, guestVars
<1>8. CASE WaitForSsh
  BY <1>8 DEF WaitForSsh, serviceVars, guestVars
<1>9. CASE StopSsh
  BY <1>9 DEF StopSsh, serviceVars, guestVars
<1>10. CASE ListGuests
  BY <1>10 DEF ListGuests, serviceVars, guestVars
<1>11. CASE RemoveGuests
  BY <1>11 DEF RemoveGuests, Publish, Follows, HostType, serviceVars
<1>12. CASE ComposeDown
  BY <1>12 DEF ComposeDown, Swept, Containers, guestVars, hostVars
<1>13. CASE Teardown
  BY <1>13 DEF Teardown, serviceVars, guestVars
<1>14. CASE RemoveNetwork
  BY <1>14 DEF RemoveNetwork, serviceVars, guestVars
<1>15. CASE RemoveConfig
  BY <1>15 DEF RemoveConfig, serviceVars, guestVars
<1>16. CASE RemoveImage
  BY <1>16 DEF RemoveImage, serviceVars, guestVars
<1>17. CASE StepFails
  BY <1>17 DEF StepFails, serviceVars, guestVars
<1>18. CASE SshReadsConfig
  BY <1>18 DEF SshReadsConfig, serviceVars, guestVars
<1>19. CASE Reconcile
  BY <1>19 DEF Reconcile, serviceVars, guestVars
<1>20. CASE ComposeUpByHand
  BY <1>20 DEF ComposeUpByHand, Up, guestVars
<1>21. ASSUME NEW g \in Guests, Login(g) PROVE Watched'
  BY <1>21 DEF Login, Publish, Follows, HostType, serviceVars
<1>22. ASSUME NEW g \in Guests, Logout(g) PROVE Watched'
  BY <1>22 DEF Logout, Publish, Follows, HostType, serviceVars
<1>23. ASSUME NEW g \in Guests, HandleEvent(g) PROVE Watched'
  BY <1>23 DEF HandleEvent, Follows, serviceVars
<1>24. CASE KillScript
  BY <1>24 DEF KillScript, serviceVars, guestVars
<1>25. CASE ServiceDies
  BY <1>25 DEF ServiceDies, serviceVars, guestVars
<1>26. CASE FirewallReloads
  BY <1>26 DEF FirewallReloads, serviceVars, guestVars
<1>27. CASE HostGoesDown
  BY <1>27 DEF HostGoesDown, serviceVars, guestVars
<1>28. CASE UNCHANGED vars
  BY <1>28 DEF vars, serviceVars, guestVars
<1> QED
  BY <1>1, <1>2, <1>3, <1>4, <1>5, <1>6, <1>7, <1>8, <1>9, <1>10, <1>11, <1>12, <1>13,
     <1>14, <1>15, <1>16, <1>17, <1>18, <1>19, <1>20, <1>21, <1>22, <1>23, <1>24, <1>25,
     <1>26, <1>27, <1>28 DEF Next, ScriptStep

(* Without faults stop.sh leaves nothing that could still change a         *)
(* session.                                                                *)
LEMMA QuietStep ==
    ASSUME ScriptType, HostType, Swept, survivors = {}, Doing = "teardown" \/ (script = "none" /\ outcome = "stopped") => Quiet,
           [Next]_vars, faults' = 0
    PROVE  (Doing = "teardown" \/ (script = "none" /\ outcome = "stopped") => Quiet)'
<1> USE Moves, FaultsCount DEF Running
<1>1. CASE \E s \in Scripts : Launch(s)
  BY <1>1, LaunchMoves
<1>2. CASE Preflight
  BY <1>2, StoppedByTeardown DEF ScriptStep
<1>3. CASE CreateNetwork
  BY <1>3, StoppedByTeardown DEF ScriptStep
<1>4. CASE Setup
  BY <1>4, StoppedByTeardown DEF ScriptStep
<1>5. CASE TruncateConfig
  BY <1>5, StoppedByTeardown DEF ScriptStep
<1>6. CASE WriteConfig
  BY <1>6, StoppedByTeardown DEF ScriptStep
<1>7. CASE ComposeUp
  BY <1>7, StoppedByTeardown DEF ScriptStep
<1>8. CASE WaitForSsh
  BY <1>8, StoppedByTeardown DEF ScriptStep
<1>9. CASE StopSsh
  BY <1>9, StoppedByTeardown DEF ScriptStep
<1>10. CASE ListGuests
  BY <1>10, StoppedByTeardown DEF ScriptStep
<1>11. CASE RemoveGuests
  BY <1>11, StoppedByTeardown DEF ScriptStep
<1>12. CASE ComposeDown
  BY <1>12, StoppedByTeardown DEF ScriptStep, ComposeDown, Quiet, Swept, Containers, guestVars
<1>13. CASE Teardown
  BY <1>13 DEF Teardown, Quiet, serviceVars, guestVars
<1>14. CASE RemoveNetwork
  BY <1>14, StoppedByTeardown DEF ScriptStep
<1>15. CASE RemoveConfig
  BY <1>15, StoppedByTeardown DEF ScriptStep
<1>16. CASE RemoveImage
  BY <1>16, StoppedByTeardown DEF ScriptStep
<1>17. CASE StepFails
  BY <1>17 DEF StepFails
<1>18. CASE SshReadsConfig
  BY <1>18 DEF SshReadsConfig, Quiet, scriptVars, serviceVars, guestVars
<1>19. CASE Reconcile
  BY <1>19 DEF Reconcile, Quiet, scriptVars, serviceVars, guestVars
<1>20. CASE ComposeUpByHand
  BY <1>20 DEF ComposeUpByHand, StartSsh, Quiet, scriptVars, guestVars
<1>21. ASSUME NEW g \in Guests, Login(g) PROVE (Doing = "teardown" \/ (script = "none" /\ outcome = "stopped") => Quiet)'
  BY <1>21, LifecycleAssumption DEF Login, Quiet, Broken, scriptVars, serviceVars
<1>22. ASSUME NEW g \in Guests, Logout(g) PROVE (Doing = "teardown" \/ (script = "none" /\ outcome = "stopped") => Quiet)'
  BY <1>22 DEF Logout, Quiet, scriptVars, serviceVars, guestVars
<1>23. ASSUME NEW g \in Guests, HandleEvent(g) PROVE (Doing = "teardown" \/ (script = "none" /\ outcome = "stopped") => Quiet)'
  BY <1>23 DEF HandleEvent, Quiet, scriptVars, serviceVars, guestVars
<1>24. CASE KillScript
  BY <1>24 DEF KillScript
<1>25. CASE ServiceDies
  BY <1>25 DEF ServiceDies
<1>26. CASE FirewallReloads
  BY <1>26 DEF FirewallReloads
<1>27. CASE HostGoesDown
  BY <1>27 DEF HostGoesDown
<1>28. CASE UNCHANGED vars
  BY <1>28 DEF vars, Quiet, scriptVars, serviceVars, guestVars
<1> QED
  BY <1>1, <1>2, <1>3, <1>4, <1>5, <1>6, <1>7, <1>8, <1>9, <1>10, <1>11, <1>12, <1>13,
     <1>14, <1>15, <1>16, <1>17, <1>18, <1>19, <1>20, <1>21, <1>22, <1>23, <1>24, <1>25,
     <1>26, <1>27, <1>28 DEF Next, ScriptStep

(* Without faults what a session lacks of a guest is on its way in the     *)
(* stream.                                                                 *)
LEMMA RecordedStep ==
    ASSUME ScriptType, HostType, Swept, survivors = {}, Watched, \A g \in Guests : Recorded(g), NEW h \in Guests,
           [Next]_vars, faults' = 0
    PROVE  Recorded(h)'
<1> USE Moves, FaultsCount DEF Recorded, Pending, Ending
<1>1. CASE \E s \in Scripts : Launch(s)
  BY <1>1 DEF Launch, guestVars, serviceVars
<1>2. CASE Preflight
  BY <1>2 DEF Preflight, serviceVars, guestVars
<1>3. CASE CreateNetwork
  BY <1>3 DEF CreateNetwork, serviceVars, guestVars
<1>4. CASE Setup
  BY <1>4 DEF Setup, serviceVars, guestVars
<1>5. CASE TruncateConfig
  BY <1>5 DEF TruncateConfig, serviceVars, guestVars
<1>6. CASE WriteConfig
  BY <1>6 DEF WriteConfig, serviceVars, guestVars
<1>7. CASE ComposeUp
  BY <1>7 DEF ComposeUp, Up, guestVars
<1>8. CASE WaitForSsh
  BY <1>8 DEF WaitForSsh, serviceVars, guestVars
<1>9. CASE StopSsh
  BY <1>9 DEF StopSsh, serviceVars, guestVars
<1>10. CASE ListGuests
  BY <1>10 DEF ListGuests, serviceVars, guestVars
<1>11. CASE RemoveGuests
  BY <1>11 DEF RemoveGuests, Publish, Follows, Watched, serviceVars, HostType, Running
<1>12. CASE ComposeDown
  BY <1>12 DEF ComposeDown, Swept, Containers, Running, guestVars
<1>13. CASE Teardown
  BY <1>13 DEF Teardown, serviceVars, guestVars
<1>14. CASE RemoveNetwork
  BY <1>14 DEF RemoveNetwork, serviceVars, guestVars
<1>15. CASE RemoveConfig
  BY <1>15 DEF RemoveConfig, serviceVars, guestVars
<1>16. CASE RemoveImage
  BY <1>16 DEF RemoveImage, serviceVars, guestVars
<1>17. CASE StepFails
  BY <1>17 DEF StepFails, serviceVars, guestVars
<1>18. CASE SshReadsConfig
  BY <1>18 DEF SshReadsConfig, serviceVars, guestVars
<1>19. CASE Reconcile
  BY <1>19 DEF Reconcile, Watched, Running, HostType
<1>20. CASE ComposeUpByHand
  BY <1>20 DEF ComposeUpByHand, Up, guestVars
<1>21. ASSUME NEW g \in Guests, Login(g) PROVE Recorded(h)'
  BY <1>21 DEF Login, Publish, Follows, Watched, serviceVars, HostType
<1>22. ASSUME NEW g \in Guests, Logout(g) PROVE Recorded(h)'
  BY <1>22 DEF Logout, Publish, Follows, Watched, serviceVars, HostType
<1>23. ASSUME NEW g \in Guests, HandleEvent(g) PROVE Recorded(h)'
  BY <1>23 DEF HandleEvent, Follows, Watched, serviceVars, HostType
<1>24. CASE KillScript
  BY <1>24 DEF KillScript, serviceVars, guestVars
<1>25. CASE ServiceDies
  BY <1>25 DEF ServiceDies, serviceVars, guestVars
<1>26. CASE FirewallReloads
  BY <1>26 DEF FirewallReloads, serviceVars, guestVars
<1>27. CASE HostGoesDown
  BY <1>27 DEF HostGoesDown, serviceVars, guestVars
<1>28. CASE UNCHANGED vars
  BY <1>28 DEF vars, serviceVars, guestVars
<1> QED
  BY <1>1, <1>2, <1>3, <1>4, <1>5, <1>6, <1>7, <1>8, <1>9, <1>10, <1>11, <1>12, <1>13,
     <1>14, <1>15, <1>16, <1>17, <1>18, <1>19, <1>20, <1>21, <1>22, <1>23, <1>24, <1>25,
     <1>26, <1>27, <1>28 DEF Next, ScriptStep

-----------------------------------------------------------------------------
(* The invariant. *)

(* Every part of the invariant, from its lemma.                            *)
LEMMA InvariantStep == IInv /\ [Next]_vars => IInv'
<1> SUFFICES ASSUME IInv, [Next]_vars PROVE IInv'
  OBVIOUS
<1>1. ScriptType /\ HostType /\ OrderInv /\ FaultlessInv
  BY TypeParts DEF IInv
<1>2. ScriptType' /\ HostType'
  BY <1>1, ScriptTypeStep, HostTypeStep DEF OrderInv
<1>3. TypeOK'
  BY <1>2, TypeParts, PTL
<1>4. OrderInv'
  BY <1>1, SshStoppedStep, SweptStep, PreparedStep, SshFoundedStep, GuestsRestrictedStep
     DEF OrderInv
<1>5. FaultlessInv'
  <2> SUFFICES ASSUME faults' = 0
               PROVE  /\ (survivors = {})' /\ Watched'
                      /\ (Doing = "teardown" \/ (script = "none" /\ outcome = "stopped")
                             => Quiet)'
                      /\ \A g \in Guests : Recorded(g)'
    BY DEF FaultlessInv
  <2>1. faults = 0 /\ survivors' = {}
    BY <1>1, FaultlessBefore DEF FaultlessInv
  <2>2. /\ survivors = {} /\ Watched
        /\ Doing = "teardown" \/ (script = "none" /\ outcome = "stopped") => Quiet
        /\ \A g \in Guests : Recorded(g)
    BY <1>1, <2>1 DEF FaultlessInv
  <2>3. Watched'
    BY <1>1, <2>2, WatchedStep DEF OrderInv
  <2>4. (Doing = "teardown" \/ (script = "none" /\ outcome = "stopped") => Quiet)'
    BY <1>1, <2>2, QuietStep DEF OrderInv
  <2>5. \A g \in Guests : Recorded(g)'
    BY <1>1, <2>2, RecordedStep DEF OrderInv
  <2> QED
    BY <2>1, <2>3, <2>4, <2>5
<1> QED
  BY <1>3, <1>4, <1>5 DEF IInv

(* What each step of a script has prepared for the next is there when it   *)
(* comes, in every run of the scripts, the services and the guests. *)
THEOREM InvariantHolds == Spec => []IInv
<1>1. Init => IInv
  BY InitHolds
<1>2. IInv /\ [Next]_vars => IInv'
  BY InvariantStep
<1> QED
  BY <1>1, <1>2, PTL DEF Spec

(* Every variable of the playground keeps its type.  In particular the     *)
(* config is never rendered without a network to render it for. *)
THEOREM TypeCorrect == Spec => []TypeOK
<1>1. IInv => TypeOK
  BY DEF IInv
<1> QED
  BY <1>1, InvariantHolds, PTL

(* No guest ever runs on a network without restrictions, other than one    *)
(* that docker rm left behind, whichever script is running, failed or was  *)
(* killed and whatever died or rebooted. *)
THEOREM GuestsAlwaysRestricted == Spec => []GuestsRestricted
<1>1. IInv => GuestsRestricted
  BY DEF IInv, OrderInv
<1> QED
  BY <1>1, InvariantHolds, PTL

(* The gateway containerssh gives its guests is that of the network they   *)
(* are on, however networks were removed and made again in between. *)
THEOREM GatewayAlwaysTheNetworks == Spec => []GatewayIsTheNetworks
<1>1. IInv => GatewayIsTheNetworks
  <2> SUFFICES ASSUME IInv, ssh = "up", loaded \in Gateways PROVE loaded = net
    BY DEF GatewayIsTheNetworks
  <2>1. loaded # "directory" /\ loaded # "empty"
    BY LifecycleAssumption DEF Broken
  <2> QED
    BY <2>1 DEF IInv, OrderInv, SshFounded
<1> QED
  BY <1>1, InvariantHolds, PTL

(* When cleanup.sh removes the network and the image, no guest container   *)
(* is there but those docker rm was told to remove and left. *)
THEOREM CleanupNeverBlocked == Spec => []CleanupNotBlocked
<1>1. IInv => CleanupNotBlocked
  <2>1. At("rmNetwork") => Doing = "rmNetwork"
    BY DEF At, Doing
  <2>2. At("rmImage") => Doing = "rmImage"
    BY DEF At, Doing
  <2> QED
    BY <2>1, <2>2 DEF IInv, OrderInv, Swept, CleanupNotBlocked
<1> QED
  BY <1>1, InvariantHolds, PTL

(* A stop before which nothing has failed leaves every session it knows of *)
(* ended, exactly. *)
THEOREM StopAlwaysRecordsEnds == Spec => []StopRecordsEnds
<1>1. IInv => StopRecordsEnds
  <2> SUFFICES ASSUME IInv, faults = 0, outcome = "stopped", script = "none", NEW g \in Guests
               PROVE  session[g] \in {"absent", "exact"}
    BY DEF StopRecordsEnds
  <2>1. Quiet /\ Recorded(g)
    BY DEF IInv, FaultlessInv
  <2>2. guest[g] # "running" /\ ~Ending(g)
    BY <2>1 DEF Quiet, Running, Ending
  <2> QED
    BY <2>1, <2>2 DEF Recorded
<1> QED
  BY <1>1, InvariantHolds, PTL

-----------------------------------------------------------------------------
(* The only step of a script that starts containerssh. *)
LEMMA StartedByComposeUp ==
    ASSUME IInv, [Next]_vars, script # "none", ssh = "down", ssh' = "starting"
    PROVE  Doing = "up"
<1>0. ScriptType
  BY TypeParts DEF IInv
<1> USE <1>0, Moves
<1>1. CASE \E s \in Scripts : Launch(s)
  BY <1>1, LaunchMoves DEF Launch, serviceVars
<1>2. CASE Preflight
  BY <1>2 DEF Preflight, serviceVars
<1>3. CASE CreateNetwork
  BY <1>3 DEF CreateNetwork, serviceVars
<1>4. CASE Setup
  BY <1>4 DEF Setup, serviceVars
<1>5. CASE TruncateConfig
  BY <1>5 DEF TruncateConfig, serviceVars
<1>6. CASE WriteConfig
  BY <1>6 DEF WriteConfig, serviceVars
<1>7. CASE ComposeUp
  BY <1>7 DEF ComposeUp, serviceVars
<1>8. CASE WaitForSsh
  BY <1>8 DEF WaitForSsh, serviceVars
<1>9. CASE StopSsh
  BY <1>9 DEF StopSsh, serviceVars
<1>10. CASE ListGuests
  BY <1>10 DEF ListGuests, serviceVars
<1>11. CASE RemoveGuests
  BY <1>11 DEF RemoveGuests, serviceVars
<1>12. CASE ComposeDown
  BY <1>12 DEF ComposeDown, serviceVars
<1>13. CASE Teardown
  BY <1>13 DEF Teardown, serviceVars
<1>14. CASE RemoveNetwork
  BY <1>14 DEF RemoveNetwork, serviceVars
<1>15. CASE RemoveConfig
  BY <1>15 DEF RemoveConfig, serviceVars
<1>16. CASE RemoveImage
  BY <1>16 DEF RemoveImage, serviceVars
<1>17. CASE StepFails
  BY <1>17 DEF StepFails, serviceVars
<1>18. CASE SshReadsConfig
  BY <1>18 DEF SshReadsConfig, serviceVars
<1>19. CASE Reconcile
  BY <1>19 DEF Reconcile, serviceVars
<1>20. CASE ComposeUpByHand
  BY <1>20 DEF ComposeUpByHand, serviceVars
<1>21. ASSUME NEW g \in Guests, Login(g) PROVE Doing = "up"
  BY <1>21 DEF Login, serviceVars
<1>22. ASSUME NEW g \in Guests, Logout(g) PROVE Doing = "up"
  BY <1>22 DEF Logout, serviceVars
<1>23. ASSUME NEW g \in Guests, HandleEvent(g) PROVE Doing = "up"
  BY <1>23 DEF HandleEvent, serviceVars
<1>24. CASE KillScript
  BY <1>24 DEF KillScript, serviceVars
<1>25. CASE ServiceDies
  BY <1>25 DEF ServiceDies, serviceVars
<1>26. CASE FirewallReloads
  BY <1>26 DEF FirewallReloads, serviceVars
<1>27. CASE HostGoesDown
  BY <1>27 DEF HostGoesDown, serviceVars
<1>28. CASE UNCHANGED vars
  BY <1>28 DEF vars, serviceVars
<1> QED
  BY <1>1, <1>2, <1>3, <1>4, <1>5, <1>6, <1>7, <1>8, <1>9, <1>10, <1>11, <1>12, <1>13,
     <1>14, <1>15, <1>16, <1>17, <1>18, <1>19, <1>20, <1>21, <1>22, <1>23, <1>24, <1>25,
     <1>26, <1>27, <1>28 DEF Next, ScriptStep

(* Whatever happened before, no script brings containerssh up over         *)
(* anything but restrictions that this very script has applied; the most   *)
(* that can have become of them since is that a reload flushed them. *)
THEOREM ServicesAlwaysSecond == Spec => ServicesComeSecond
<1>1. IInv /\ [Next]_vars =>
          (script # "none" /\ ssh = "down" /\ ssh' = "starting" =>
              secured /\ fw \in {"applied", "flushed"})
  BY StartedByComposeUp DEF IInv, OrderInv, Prepared
<1> QED
  BY <1>1, InvariantHolds, PTL DEF Spec, ServicesComeSecond

(* A script brings containerssh up on the config of the network that       *)
(* exists now. *)
THEOREM AlwaysThisRunsConfig == Spec => StartedOnThisRunsConfig
<1>1. IInv /\ [Next]_vars =>
          (script # "none" /\ ssh = "down" /\ ssh' = "starting" => config = net)
  BY StartedByComposeUp DEF IInv, OrderInv, Prepared
<1> QED
  BY <1>1, InvariantHolds, PTL DEF Spec, StartedOnThisRunsConfig
=============================================================================
