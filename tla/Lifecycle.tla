------------------------------ MODULE Lifecycle ------------------------------
(***************************************************************************)
(* start.sh, stop.sh, restart.sh and cleanup.sh over what they bring up    *)
(* and take down: the guest network, the guest restrictions, the rendered  *)
(* config of containerssh (render_config.py), the services and the guests. *)
(* A script is the sequence of its steps; containerssh, the guests and the *)
(* collector move between any two of them.                                 *)
(*                                                                         *)
(* The restrictions are known here by what GuestFirewall shows setup and   *)
(* teardown to make of them, and the collector by what StatsCollector      *)
(* shows it to record: an open session for every guest it finds running or *)
(* sees start, an exact end for every exit it sees, a guess for the rest.  *)
(***************************************************************************)
EXTENDS Integers, Sequences

CONSTANTS
    Guests,         \* one per ssh session
    Gateways,       \* the addresses docker may give the network's gateway
    MaxFaults       \* bound: failed steps, killed scripts, reloads, reboots

None == "none"
Broken == {"missing", "directory", "empty"}     \* a config file that is no config

ASSUME LifecycleAssumption ==
    MaxFaults \in Nat /\ Gateways \cap (Broken \cup {None}) = {}

VARIABLES
    script, step,   \* the script that is running, and which of its steps is next
    outcome,        \* how the last script ended
    sweep,          \* the containers stop.sh has listed
    net,            \* the gateway of attack_playground_net, None if there is no network
    config,         \* config.runtime.yaml: the gateway it was rendered for, or broken
    fw,             \* the restrictions
    secured,        \* history: whether the script that runs, or ran last, has applied them
    ssh, stats,     \* containerssh and the statistics service
    loaded,         \* the config containerssh has read, or the directory it has mounted
    guest,          \* the guest containers
    news,           \* start and die events the collector has yet to apply
    session,        \* what the sessions table says of each guest
    survivors,      \* history: the guests that docker rm left running
    faults

scriptVars == <<script, step, outcome>>
hostVars == <<net, config, fw, secured>>
serviceVars == <<ssh, stats, loaded>>
guestVars == <<guest, news, session>>
vars == <<scriptVars, sweep, hostVars, serviceVars, guestVars, survivors, faults>>

-----------------------------------------------------------------------------
(* The scripts.  The definitions called a mutant swap two steps of the     *)
(* script that follows them, and are no part of the model.                 *)

(* mutant: the services first, as their restrictions do not need them *)
StartServicesFirst == <<"preflight", "network", "truncate", "write", "up", "setup", "wait">>

(* mutant: what is written down is only needed by the guests *)
RenderLast == <<"preflight", "network", "setup", "up", "truncate", "write", "wait">>

StartSteps == <<"preflight", "network", "setup", "truncate", "write", "up", "wait">>

(* mutant: the guests are listed while containerssh still accepts logins *)
ListFirst == <<"list", "stopSsh", "remove", "down", "teardown">>

(* mutant: every service is stopped before the guests are *)
DownFirst == <<"down", "stopSsh", "list", "remove", "teardown">>

StopSteps == <<"stopSsh", "list", "remove", "down", "teardown">>

Scripts == {"start", "stop", "restart", "cleanup"}
Steps(s) ==
    CASE s = "start"   -> StartSteps
      [] s = "stop"    -> StopSteps
      [] s = "restart" -> StopSteps \o StartSteps
      [] s = "cleanup" -> StopSteps \o <<"rmNetwork", "rmConfig", "rmImage">>

At(name) == script # "none" /\ Steps(script)[step] = name

Ended(s) == CASE s \in {"start", "restart"} -> "up" [] s = "stop" -> "stopped" [] OTHER -> "cleaned"

Exit(how) == script' = "none" /\ step' = 1 /\ outcome' = how

ProceedPast ==      \* mutant: one step too many
    IF step <= Len(Steps(script))
    THEN step' = step + 1 /\ UNCHANGED <<script, outcome>>
    ELSE Exit(Ended(script))

Proceed ==
    IF step < Len(Steps(script))
    THEN step' = step + 1 /\ UNCHANGED <<script, outcome>>
    ELSE Exit(Ended(script))

Fault == faults < MaxFaults /\ faults' = faults + 1

Running == {g \in Guests : guest[g] = "running"}
Containers == {g \in Guests : guest[g] \in {"running", "exited"}}

Launch(s) ==
    /\ script = "none"
    /\ script' = s /\ step' = 1 /\ outcome' = "none"
    /\ secured' = FALSE
    /\ UNCHANGED <<sweep, net, config, fw, serviceVars, guestVars, survivors, faults>>

(* A command that fails ends the script: set -e, or an exit of its own.    *)
StepFails ==
    /\ \E name \in {"preflight", "network", "truncate", "write", "stopSsh", "list",
                   "rmNetwork", "rmConfig", "rmImage"} : At(name)
    /\ Fault
    /\ Exit("aborted")
    /\ UNCHANGED <<sweep, hostVars, serviceVars, guestVars, survivors>>

-----------------------------------------------------------------------------
(* start.sh                                                                *)

Preflight ==
    /\ At("preflight")
    /\ Proceed
    /\ UNCHANGED <<sweep, hostVars, serviceVars, guestVars, survivors, faults>>

CreateNetwork ==
    /\ At("network")
    /\ IF net = None THEN net' \in Gateways ELSE UNCHANGED net
    /\ Proceed
    /\ UNCHANGED <<sweep, config, fw, secured, serviceVars, guestVars, survivors, faults>>

(* mutant: restrictions that a reload has flushed are taken to be there *)
SetupOverFlushed ==
    /\ At("setup")
    /\ fw' = (IF fw = "flushed" THEN fw ELSE "applied")
    /\ secured' = (fw' = "applied")
    /\ Proceed
    /\ UNCHANGED <<sweep, net, config, serviceVars, guestVars, survivors, faults>>

(* setup_networking_linux.py.  Run over restrictions that are in place and *)
(* failing, it leaves a chain without its rules. *)
Setup ==
    /\ At("setup")
    /\ \/ fw' = "applied" /\ secured' = TRUE /\ Proceed /\ UNCHANGED faults
       \/ /\ Fault
          /\ fw' \in {fw, "broken"}
          /\ fw = "applied" => fw' = "broken"
          /\ Exit("unrestricted")
          /\ UNCHANGED secured
    /\ UNCHANGED <<sweep, net, config, serviceVars, guestVars, survivors>>

(* render_config.py: the gateway is read and the text made, a directory    *)
(* docker left is removed, and the file is opened - which empties it ...   *)
KeepConfig ==       \* mutant: rendered once is rendered for good, like the host key
    /\ At("truncate")
    /\ IF config \in Gateways
       THEN step' = step + 2 /\ UNCHANGED <<script, outcome, config>>
       ELSE config' = "empty" /\ Proceed
    /\ UNCHANGED <<sweep, net, fw, secured, serviceVars, guestVars, survivors, faults>>

TruncateConfig ==
    /\ At("truncate")
    /\ config' = "empty"
    /\ Proceed
    /\ UNCHANGED <<sweep, net, fw, secured, serviceVars, guestVars, survivors, faults>>

Rendered == net     \* the template for the gateway of the network

(* ... and written, in place *)
WriteConfig ==
    /\ At("write")
    /\ config' = Rendered
    /\ Proceed
    /\ UNCHANGED <<sweep, net, fw, secured, serviceVars, guestVars, survivors, faults>>

Up(service) == IF service = "down" THEN "starting" ELSE service

(* docker makes a directory of a file it is told to mount and does not find *)
StartSsh ==
    IF ssh = "down"
    THEN /\ ssh' = "starting"
         /\ config' = IF config = "missing" THEN "directory" ELSE config
         /\ loaded' = IF config' = "directory" THEN "directory" ELSE None
    ELSE UNCHANGED <<ssh, config, loaded>>

ComposeUp ==
    /\ At("up")
    /\ \/ StartSsh /\ stats' = Up(stats) /\ Proceed /\ UNCHANGED faults
       \/ /\ StartSsh \/ UNCHANGED <<ssh, config, loaded>>
          /\ stats' \in {stats, Up(stats)}
          /\ Fault /\ Exit("aborted")
    /\ UNCHANGED <<sweep, net, fw, secured, guestVars, survivors>>

(* wait_for_tcp: it gives up after a while, and containerssh may still come *)
WaitForSsh ==
    /\ At("wait")
    /\ \/ ssh = "up" /\ Proceed
       \/ ssh # "up" /\ Exit("notReady")
    /\ UNCHANGED <<sweep, hostVars, serviceVars, guestVars, survivors, faults>>

-----------------------------------------------------------------------------
(* stop.sh and cleanup.sh                                                  *)

StopSsh ==
    /\ At("stopSsh")
    /\ ssh' = "down" /\ loaded' = None
    /\ Proceed
    /\ UNCHANGED <<sweep, hostVars, stats, guestVars, survivors, faults>>

ListGuests ==
    /\ At("list")
    /\ sweep' = Containers
    /\ Proceed
    /\ UNCHANGED <<hostVars, serviceVars, guestVars, survivors, faults>>

Follows == stats = "following"
Publish(what, gs) == news' = IF Follows THEN news \cup ({what} \X gs) ELSE news

(* docker rm -f ... || true *)
RemoveGuests ==
    /\ At("remove")
    /\ \E kept \in SUBSET (sweep \cap Containers) :
          /\ kept # {} => faults < MaxFaults
          /\ faults' = IF kept = {} THEN faults ELSE faults + 1
          /\ guest' = [g \in Guests |-> IF g \in sweep \ kept THEN "removed" ELSE guest[g]]
          /\ Publish("die", (sweep \cap Running) \ kept)
          /\ survivors' = survivors \cup kept
    /\ sweep' = {}
    /\ Proceed
    /\ UNCHANGED <<hostVars, serviceVars, session>>

(* A service that is told to stop has ten seconds: a collector that follows *)
(* the stream has applied by then what docker has published. *)
ComposeDown ==
    /\ At("down")
    /\ \/ /\ news = {}
          /\ ssh' = "down" /\ stats' = "down" /\ loaded' = None
          /\ Proceed
          /\ UNCHANGED faults
       \/ Fault /\ Exit("aborted") /\ UNCHANGED serviceVars
    /\ UNCHANGED <<sweep, hostVars, guestVars, survivors>>

(* teardown_networking_linux.py; when it fails some chains are left *)
Teardown ==
    /\ At("teardown")
    /\ \/ fw' = "none" /\ Proceed /\ UNCHANGED faults
       \/ Fault /\ fw' = "broken" /\ Exit("aborted")
    /\ UNCHANGED <<sweep, net, config, secured, serviceVars, guestVars, survivors>>

(* Neither goes while a guest container refers to it. *)
RemoveNetwork ==
    /\ At("rmNetwork")
    /\ IF Containers = {} THEN net' = None /\ Proceed ELSE Exit("blocked") /\ UNCHANGED net
    /\ UNCHANGED <<sweep, config, fw, secured, serviceVars, guestVars, survivors, faults>>

(* [ -f config.runtime.yaml ]: a directory stays *)
RemoveConfig ==
    /\ At("rmConfig")
    /\ config' = IF config = "directory" THEN config ELSE "missing"
    /\ Proceed
    /\ UNCHANGED <<sweep, net, fw, secured, serviceVars, guestVars, survivors, faults>>

RemoveImage ==
    /\ At("rmImage")
    /\ IF Containers = {} THEN Proceed ELSE Exit("blocked")
    /\ UNCHANGED <<sweep, hostVars, serviceVars, guestVars, survivors, faults>>

-----------------------------------------------------------------------------
(* containerssh, the guests and the collector.                             *)

(* It reads its config once, from what it has mounted; without a config it *)
(* comes up all the same, or gives up. *)
SshReadsConfig ==
    /\ ssh = "starting"
    /\ LET read == IF loaded = "directory" THEN loaded ELSE config
       IN  \/ ssh' = "up" /\ loaded' = read
           \/ read \in Broken /\ ssh' = "down" /\ loaded' = None
    /\ UNCHANGED <<scriptVars, sweep, hostVars, stats, guestVars, survivors, faults>>

(* "docker compose up" outside start.sh, before there is a config          *)
ComposeUpByHand ==
    /\ script = "none"
    /\ config \in {"missing", "directory"}
    /\ StartSsh /\ stats' = Up(stats)
    /\ UNCHANGED <<scriptVars, sweep, net, fw, secured, guestVars, survivors, faults>>

(* Without a config there is no backend to make a guest. *)
Login(g) ==
    /\ ssh = "up" /\ loaded \in Gateways /\ net # None
    /\ guest[g] = "none"
    /\ guest' = [guest EXCEPT ![g] = "running"]
    /\ Publish("start", {g})
    /\ UNCHANGED <<scriptVars, sweep, hostVars, serviceVars, session, survivors, faults>>

(* The container of a guest that ends on its own may stay behind. *)
Logout(g) ==
    /\ guest[g] = "running"
    /\ \E left \in {"exited", "removed"} : guest' = [guest EXCEPT ![g] = left]
    /\ Publish("die", {g})
    /\ UNCHANGED <<scriptVars, sweep, hostVars, serviceVars, session, survivors, faults>>

(* Collector.reconcile on the first connection *)
Reconcile ==
    /\ stats = "starting"
    /\ stats' = "following"
    /\ session' = [g \in Guests |->
          IF g \in Running /\ session[g] = "absent" THEN "open"
          ELSE IF g \notin Running /\ session[g] = "open" THEN "guessed"
          ELSE session[g]]
    /\ UNCHANGED <<scriptVars, sweep, hostVars, ssh, loaded, guest, news, survivors, faults>>

(* Collector.handle_event; docker reports a start before its die *)
HandleEvent(g) ==
    /\ Follows
    /\ IF <<"start", g>> \in news
       THEN /\ news' = news \ {<<"start", g>>}
            /\ session' = [session EXCEPT ![g] = IF @ = "absent" THEN "open" ELSE @]
       ELSE /\ <<"die", g>> \in news
            /\ news' = news \ {<<"die", g>>}
            /\ session' = [session EXCEPT ![g] = IF @ = "absent" THEN @ ELSE "exact"]
    /\ UNCHANGED <<scriptVars, sweep, hostVars, serviceVars, guest, survivors, faults>>

-----------------------------------------------------------------------------
(* What happens to all of them.                                            *)

(* what setup and teardown leave of fw when they are killed half way       *)
HalfDone ==
    CASE At("setup")    -> {fw, "broken", "applied"}
      [] At("teardown") -> {fw, "broken", "none"}
      [] OTHER          -> {fw}

KillScript ==
    /\ script # "none"
    /\ Fault
    /\ fw' \in HalfDone
    /\ Exit("killed")
    /\ UNCHANGED <<sweep, net, config, secured, serviceVars, guestVars, survivors>>

(* restart: "no" - a service that dies stays down *)
ServiceDies ==
    /\ Fault
    /\ \/ ssh # "down" /\ ssh' = "down" /\ loaded' = None /\ UNCHANGED <<stats, news>>
       \/ stats # "down" /\ stats' = "down" /\ news' = {} /\ UNCHANGED <<ssh, loaded>>
    /\ UNCHANGED <<scriptVars, sweep, hostVars, guest, session, survivors>>

(* ufw or firewalld reloads *)
FirewallReloads ==
    /\ fw \in {"applied", "broken"}
    /\ Fault
    /\ fw' = "flushed"
    /\ UNCHANGED <<scriptVars, sweep, net, config, secured, serviceVars, guestVars, survivors>>

(* A reboot, or (the tables kept) a docker daemon that goes down.          *)
HostGoesDown ==
    /\ Fault
    /\ IF script = "none" THEN UNCHANGED scriptVars ELSE Exit("killed")
    /\ fw' \in HalfDone \cup {"none"}
    /\ ssh' = "down" /\ stats' = "down" /\ loaded' = None /\ news' = {}
    /\ guest' = [g \in Guests |-> IF guest[g] = "running" THEN "exited" ELSE guest[g]]
    /\ UNCHANGED <<sweep, net, config, secured, session, survivors>>

-----------------------------------------------------------------------------
Init ==
    /\ script = "none" /\ step = 1 /\ outcome = "none"
    /\ sweep = {} /\ net = None /\ config = "missing" /\ fw = "none"
    /\ secured = FALSE
    /\ ssh = "down" /\ stats = "down" /\ loaded = None
    /\ guest = [g \in Guests |-> "none"]
    /\ news = {}
    /\ session = [g \in Guests |-> "absent"]
    /\ survivors = {}
    /\ faults = 0

ScriptStep ==
    \/ Preflight \/ CreateNetwork \/ Setup \/ TruncateConfig \/ WriteConfig
    \/ ComposeUp \/ WaitForSsh
    \/ StopSsh \/ ListGuests \/ RemoveGuests \/ ComposeDown \/ Teardown
    \/ RemoveNetwork \/ RemoveConfig \/ RemoveImage
    \/ StepFails

Next ==
    \/ \E s \in Scripts : Launch(s)
    \/ ScriptStep
    \/ SshReadsConfig \/ Reconcile \/ ComposeUpByHand
    \/ \E g \in Guests : Login(g) \/ Logout(g) \/ HandleEvent(g)
    \/ KillScript \/ ServiceDies \/ FirewallReloads \/ HostGoesDown

Spec == Init /\ [][Next]_vars

-----------------------------------------------------------------------------
(* Every variable keeps its type. *)
TypeOK ==
    /\ script \in Scripts \cup {"none"}
    /\ step \in 1..(IF script = "none" THEN 1 ELSE Len(Steps(script)))
    /\ outcome \in {"none", "up", "stopped", "cleaned", "aborted", "unrestricted", "notReady",
                    "blocked", "killed"}
    /\ sweep \subseteq Guests
    /\ net \in Gateways \cup {None}
    /\ config \in Gateways \cup Broken
    /\ fw \in {"none", "applied", "broken", "flushed"}
    /\ secured \in BOOLEAN
    /\ ssh \in {"down", "starting", "up"}
    /\ stats \in {"down", "starting", "following"}
    /\ loaded \in Gateways \cup Broken \cup {None}
    /\ guest \in [Guests -> {"none", "running", "exited", "removed"}]
    /\ news \subseteq {"start", "die"} \X Guests
    /\ session \in [Guests -> {"absent", "open", "guessed", "exact"}]
    /\ survivors \subseteq Guests
    /\ faults \in 0..MaxFaults

(* No guest ever runs on a network without restrictions, whichever script  *)
(* is running, failed or was killed and whatever died or rebooted.  What   *)
(* can expose guests that run is a firewall reload ("flushed"), or a       *)
(* start.sh run again over a running playground whose setup then fails     *)
(* ("broken").  Guests that docker rm left are another matter: see         *)
(* StoppedMeansNoGuests. *)
GuestsRestricted == Running \ survivors # {} => fw # "none"

(* systemd unit, start.sh: "restrictions first" - after whatever happened  *)
(* before, no script brings containerssh up over anything but restrictions *)
(* that this very script has applied: not over what an earlier one left,   *)
(* applied or flushed.  A reload may have flushed this script's own since. *)
ServicesComeSecond ==
    [][script # "none" /\ ssh = "down" /\ ssh' = "starting" =>
          secured /\ fw \in {"applied", "flushed"}]_vars

(* start.sh: the config is rendered "for this run", "after the network     *)
(* exists and before the services come up".  What a script brings          *)
(* containerssh up with is the config of the network that exists now,      *)
(* never one that an earlier network, a killed render or docker's own      *)
(* directory left behind. *)
StartedOnThisRunsConfig ==
    [][script # "none" /\ ssh = "down" /\ ssh' = "starting" => config = net]_vars

(* render_config.py writes in place for a re-run over a running            *)
(* playground, cleanup.sh removes a config that is "stale from here on",   *)
(* and containerssh reads it once: the gateway containerssh gives its      *)
(* guests is the gateway of the network they are on, however networks were *)
(* removed and numbered again, and scripts killed, in between. *)
GatewayIsTheNetworks == ssh = "up" /\ loaded \in Gateways => loaded = net

(* "a normal stop records every session's end exactly" (attack_playground,  *)
(* where the numbers live): if nothing failed, however logins and exits    *)
(* fell between the steps of the scripts, no session is left open or       *)
(* guessed. *)
StopRecordsEnds ==
    faults = 0 /\ outcome = "stopped" /\ script = "none" =>
        \A g \in Guests : session[g] \in {"absent", "exact"}

(* When cleanup.sh comes to the network and the image, which a container  *)
(* of any guest would hold, the only ones there are those docker rm was    *)
(* told to remove and left: none has appeared since the list, and none is  *)
(* left by an earlier script that failed. *)
CleanupNotBlocked == At("rmNetwork") \/ At("rmImage") => Containers \subseteq survivors

(* stop.sh: "remove all guest containers, running or not" - the playground *)
(* is stopped when it says so. *)
StoppedMeansNoGuests == outcome \in {"stopped", "cleaned"} => Running = {}
=============================================================================
