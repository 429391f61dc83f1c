---------------------------- MODULE GuestFirewall ----------------------------
(***************************************************************************)
(* The guest restrictions: setup_networking_linux.py and                   *)
(* teardown_networking_linux.py over the chain helpers of                  *)
(* network_common_linux.py, one iptables command to a step.                *)
(*                                                                         *)
(* A script runs against tables it does not own: any command of it may     *)
(* fail, it may be killed between two of them, a firewall reload may flush *)
(* the tables under it, and the docker network - and with it the bridge    *)
(* the hooks name - may be recreated.  The next script meets whatever the  *)
(* last one left.                                                          *)
(***************************************************************************)
EXTENDS Integers, Sequences, FiniteSets

CONSTANTS
    Bridges,        \* names the network's bridge may get
    Endpoints,      \* attack endpoint port ranges the config may list
    Configs,        \* the lists of ranges an operator may configure
    MaxFaults       \* bound: failed commands, kills, whatever changes under a script

ASSUME ConfigsAssumption == Configs \subseteq Seq(Endpoints)
ASSUME FaultsAssumption == MaxFaults \in Nat

VARIABLES
    (* the kernel's tables, one set for each of iptables and ip6tables *)
    exists,     \* which of our chains exist
    rules,      \* what each chain holds, in order
    jumps,      \* how many copies of each hook are in its parent chain
    reach,      \* whether FORWARD reaches DOCKER-USER
    legacy,     \* whether flat rules of an older setup script are left
    bridgeNf,   \* whether bridged traffic is handed to the tables
    (* the docker network *)
    bridge,
    (* the script that is running, or ran last *)
    pc, fam, k, \* where it is: the step, the address family, the loop index
    target,     \* the bridge it was started for
    ranges,     \* the ranges it read from the config file
    warned,     \* what it warned about
    stuck,      \* the chains teardown could not remove
    disturbed,  \* whether tables or network changed under it, or since
    misread,    \* history: the queries that failed and were taken for an answer -
                \* "jump": a -C, at any time; of this teardown, "chain": a -L,
                \* "ip6": the one that asks whether there is an ip6tables
    faults

tables == <<exists, rules, jumps, reach, legacy, bridgeNf>>
job == <<fam, k, target, ranges>>
vars == <<tables, bridge, pc, job, warned, stuck, disturbed, misread, faults>>

-----------------------------------------------------------------------------
(* Chains, rules, hooks.                                                   *)

Families == {"ip", "ip6"}                           \* IPTABLES, IP6TABLES
CHAINS == <<"INPUT_CHAIN", "FORWARD_CHAIN", "FORWARD_IN_CHAIN">>
PolicyChains == {CHAINS[i] : i \in 1..3}

(* A mutant, as are the definitions that say so below: the definition that *)
(* follows with one slip a change to the code could bring in; teardown     *)
(* with the chain list of setup.  No mutant is part of the model.          *)
SetupChains == CHAINS

ALL_CHAINS == Append(CHAINS, "SSH_LIMIT_CHAIN")     \* what teardown removes
ChainNames == PolicyChains \cup {"SSH_LIMIT_CHAIN"}

None == "none"
ASSUME NoneAssumption == None \notin Endpoints

Drop == [match |-> "any", endpoint |-> None, verdict |-> "DROP"]
AcceptReplies == [match |-> "established", endpoint |-> None, verdict |-> "ACCEPT"]
AcceptEndpoint(e) == [match |-> "endpoint", endpoint |-> e, verdict |-> "ACCEPT"]
DropOverCap == [match |-> "connlimit", endpoint |-> None, verdict |-> "DROP"]

(* A jump to a policy chain names a bridge; the jump to the cap names the  *)
(* ssh port.  The chain it is in follows from the one it leads to and the  *)
(* family (Parent). *)
Hooks == [chain : PolicyChains, on : Bridges] \cup {[chain |-> "SSH_LIMIT_CHAIN", on |-> "ssh"]}
HookOf(chain, on) == [chain |-> chain, on |-> on]

Closed(f, c) ==
    /\ c \in exists[f]
    /\ rules[f][c] # <<>>
    /\ rules[f][c][Len(rules[f][c])] = Drop

Hooked(f, c) == bridge # None /\ jumps[f][HookOf(c, bridge)] > 0

(* The built-in or docker chain that a hook to chain c is inserted into.   *)
Parent(f, c) ==
    CASE c \in {"INPUT_CHAIN", "SSH_LIMIT_CHAIN"} -> "INPUT"
      [] c \in {"FORWARD_CHAIN", "FORWARD_IN_CHAIN"} ->
            IF f = "ip" THEN "DOCKER-USER" ELSE "FORWARD"

ParentReached(f, c) == Parent(f, c) = "DOCKER-USER" => reach

-----------------------------------------------------------------------------
(* What becomes of a guest's packet.                                       *)

Packets == [reply : BOOLEAN, dst : Endpoints \cup {None}]

Matches(rule, p) ==
    \/ rule.match = "any"
    \/ rule.match = "established" /\ p.reply
    \/ rule.match = "endpoint" /\ p.dst = rule.endpoint

(* The first rule that matches decides; past the last one the packet goes  *)
(* on in the parent chain, whose policy accepts it. *)
Verdict(f, c, p) ==
    LET hits == {i \in 1..Len(rules[f][c]) : Matches(rules[f][c][i], p)}
    IN  IF Hooked(f, c) /\ ParentReached(f, c) /\ hits # {}
        THEN rules[f][c][CHOOSE i \in hits : \A j \in hits : i <= j].verdict
        ELSE "ACCEPT"

Configured(p) == \E i \in 1..Len(ranges) : ranges[i] = p.dst
VerdictIf(accepted) == IF accepted THEN "ACCEPT" ELSE "DROP"

(* What the operator asked for: a guest reaches the endpoints of the       *)
(* config and nothing else, and nothing reaches a guest but replies.       *)
Enforced(f) ==
    \A p \in Packets :
        /\ Verdict(f, "INPUT_CHAIN", p) = VerdictIf(f = "ip" /\ (p.reply \/ Configured(p)))
        /\ Verdict(f, "FORWARD_CHAIN", p) = VerdictIf(f = "ip" /\ Configured(p))
        /\ Verdict(f, "FORWARD_IN_CHAIN", p) = VerdictIf(f = "ip" /\ p.reply)

Capped(f) ==
    /\ jumps[f][HookOf("SSH_LIMIT_CHAIN", "ssh")] > 0
    /\ rules[f]["SSH_LIMIT_CHAIN"] = <<DropOverCap>>

(* New connections to where the config does not say get nowhere. *)
Drops(f, c) ==
    \A p \in Packets : ~p.reply /\ p.dst = None => Verdict(f, c, p) = "DROP"

(* The chains of the filter table that a login from the lan to the         *)
(* published ssh port goes through: docker rewrites its destination to the *)
(* container, in nat and before routing, so it is forwarded.               *)
PathOfLogin == {"FORWARD"} \cup (IF reach THEN {"DOCKER-USER"} ELSE {})

-----------------------------------------------------------------------------
(* iptables commands on chain c of family f.                               *)

(* mutant: only -N, so that what the chain held stays *)
EnsureChainUnflushed(f, c) ==
    /\ exists' = [exists EXCEPT ![f] = @ \cup {c}]
    /\ UNCHANGED <<rules, jumps, reach, legacy, bridgeNf>>

(* -N, or -F when the chain is there *)
EnsureChain(f, c) ==
    /\ exists' = [exists EXCEPT ![f] = @ \cup {c}]
    /\ rules' = [rules EXCEPT ![f][c] = <<>>]
    /\ UNCHANGED <<jumps, reach, legacy, bridgeNf>>

(* -A *)
AppendRule(f, c, rule) ==
    /\ c \in exists[f]
    /\ rules' = [rules EXCEPT ![f][c] = Append(@, rule)]
    /\ UNCHANGED <<exists, jumps, reach, legacy, bridgeNf>>

(* mutant: counts rules from 0, and so inserts one place too low *)
InsertRuleBelow(f, c, rule, position) ==
    /\ c \in exists[f]
    /\ position <= Len(rules[f][c])
    /\ rules' = [rules EXCEPT ![f][c] =
                    SubSeq(@, 1, position) \o <<rule>> \o SubSeq(@, position + 1, Len(@))]
    /\ UNCHANGED <<exists, jumps, reach, legacy, bridgeNf>>

(* mutant: -R chain position *)
ReplaceRule(f, c, rule, position) ==
    /\ c \in exists[f]
    /\ position <= Len(rules[f][c])
    /\ rules' = [rules EXCEPT ![f][c][position] = rule]
    /\ UNCHANGED <<exists, jumps, reach, legacy, bridgeNf>>

(* -I chain position *)
InsertRule(f, c, rule, position) ==
    /\ c \in exists[f]
    /\ position <= Len(rules[f][c]) + 1
    /\ rules' = [rules EXCEPT ![f][c] =
                    SubSeq(@, 1, position - 1) \o <<rule>> \o SubSeq(@, position, Len(@))]
    /\ UNCHANGED <<exists, jumps, reach, legacy, bridgeNf>>

JumpPossible(f, hook) ==
    /\ hook.chain \in exists[f]
    /\ ParentReached(f, hook.chain)     \* the parent chain exists

(* mutant: -I without a -C before it *)
InsertJump(f, hook) ==
    /\ JumpPossible(f, hook)
    /\ jumps' = [jumps EXCEPT ![f][hook] = @ + 1]
    /\ UNCHANGED <<exists, rules, reach, legacy, bridgeNf, misread, faults>>

(* -C, and -I unless it is there; a -C that fails for any other reason     *)
(* also counts as not there. *)
EnsureJump(f, hook) ==
    /\ JumpPossible(f, hook)
    /\ \/ /\ jumps' = [jumps EXCEPT ![f][hook] = IF @ = 0 THEN 1 ELSE @]
          /\ UNCHANGED <<misread, faults>>
       \/ /\ jumps[f][hook] > 0 /\ faults < MaxFaults
          /\ faults' = faults + 1
          /\ misread' = misread \cup {"jump"}
          /\ jumps' = [jumps EXCEPT ![f][hook] = @ + 1]
    /\ UNCHANGED <<exists, rules, reach, legacy, bridgeNf>>

-----------------------------------------------------------------------------
(* setup_networking_linux.py: main and apply_restrictions.                 *)

Finished == {"idle", "applied", "failed", "refused", "killed", "cleaned", "left"}

StartSetup ==
    /\ pc \in Finished
    /\ bridge # None        \* else main exits at once
    /\ pc' = "netfilter"
    /\ fam' = "ip" /\ k' = 1
    /\ target' = bridge
    /\ ranges' \in Configs
    /\ warned' = {} /\ stuck' = {} /\ disturbed' = FALSE
    /\ UNCHANGED <<tables, bridge, misread, faults>>

(* ensure_bridge_netfilter: what does not read back as on is warned about *)
EnsureBridgeNetfilter ==
    /\ pc = "netfilter"
    /\ \E off \in SUBSET {f \in Families : ~bridgeNf[f]} :
          /\ off # {} => faults < MaxFaults
          /\ faults' = IF off = {} THEN faults ELSE faults + 1
          /\ bridgeNf' = [f \in Families |-> f \notin off]
          /\ warned' = IF off = {} THEN warned ELSE warned \cup {"netfilter"}
    /\ pc' = "legacy"
    /\ UNCHANGED <<exists, rules, jumps, reach, legacy, bridge, job, stuck, disturbed, misread>>

(* remove_legacy_rules: -D until it fails, so that any failure at all looks *)
(* like the end of the rules. *)
DeleteLegacy ==
    \/ legacy' = FALSE /\ UNCHANGED faults
    \/ legacy /\ faults < MaxFaults /\ faults' = faults + 1 /\ UNCHANGED legacy

RemoveLegacyRules ==
    /\ pc = "legacy"
    /\ DeleteLegacy
    /\ pc' = "create"
    /\ UNCHANGED <<exists, rules, jumps, reach, bridgeNf, bridge, job, warned, stuck, disturbed,
                   misread>>

(* ensure_chain_closed, for each of CHAINS: first the flush ... *)
CreateChain ==
    /\ pc = "create"
    /\ EnsureChain(fam, CHAINS[k])
    /\ pc' = "close"
    /\ UNCHANGED <<bridge, job, warned, stuck, disturbed, misread, faults>>

(* ... then the terminal DROP.  ipv6 allows nothing, so it hooks at once.  *)
CloseChain ==
    /\ pc = "close"
    /\ AppendRule(fam, CHAINS[k], Drop)
    /\ IF k < Len(CHAINS)
       THEN pc' = "create" /\ k' = k + 1
       ELSE pc' = (IF fam = "ip" THEN "allow" ELSE "hook") /\ k' = 1
    /\ UNCHANGED <<bridge, fam, target, ranges, warned, stuck, disturbed, misread, faults>>

(* The allow rules of build_input_chain and build_forward_chains in the    *)
(* order they are inserted, and the position each is inserted at. *)
Allow(chain, rule, position) == [chain |-> chain, rule |-> rule, position |-> position]
AllowRules ==
    <<Allow("INPUT_CHAIN", AcceptReplies, 1)>>
    \o [i \in 1..Len(ranges) |-> Allow("INPUT_CHAIN", AcceptEndpoint(ranges[i]), i + 1)]
    \o [i \in 1..Len(ranges) |-> Allow("FORWARD_CHAIN", AcceptEndpoint(ranges[i]), i)]
    \o <<Allow("FORWARD_IN_CHAIN", AcceptReplies, 1)>>

InsertAllow ==
    /\ pc = "allow"
    /\ LET allow == AllowRules[k] IN InsertRule("ip", allow.chain, allow.rule, allow.position)
    /\ IF k < Len(AllowRules)
       THEN k' = k + 1 /\ UNCHANGED pc
       ELSE k' = 1 /\ pc' = "dockerUser"
    /\ UNCHANGED <<bridge, fam, target, ranges, warned, stuck, disturbed, misread, faults>>

(* ensure_docker_user_chain: created and hooked if need be, then verified  *)
EnsureDockerUser ==
    /\ pc = "dockerUser"
    /\ \/ reach' = TRUE /\ pc' = "hook" /\ UNCHANGED faults
       \/ /\ faults < MaxFaults
          /\ faults' = faults + 1
          /\ pc' = "refused"
          /\ reach' \in {reach, TRUE}              \* only the last -C failed
    /\ UNCHANGED <<exists, rules, jumps, legacy, bridgeNf, bridge, job, warned, stuck,
                   disturbed, misread>>

(* ensure_hook for INPUT, then the two forward chains *)
EnsureHook ==
    /\ pc = "hook"
    /\ EnsureJump(fam, HookOf(CHAINS[k], target))
    /\ IF k < Len(CHAINS)
       THEN k' = k + 1 /\ UNCHANGED pc
       ELSE k' = 1 /\ pc' = "capChain"
    /\ UNCHANGED <<bridge, fam, target, ranges, warned, stuck, disturbed>>

(* apply_ssh_limit: the chain is built empty, and only then given its DROP *)
AfterCap == IF fam = "ip" THEN "ipv6" ELSE "applied"

CapChain ==
    /\ pc = "capChain"
    /\ EnsureChain(fam, "SSH_LIMIT_CHAIN")
    /\ pc' = "capRule"
    /\ UNCHANGED <<bridge, job, warned, stuck, disturbed, misread, faults>>

CapRule ==
    /\ pc = "capRule"
    /\ AppendRule(fam, "SSH_LIMIT_CHAIN", DropOverCap)
    /\ pc' = "capJump"
    /\ UNCHANGED <<bridge, job, warned, stuck, disturbed, misread, faults>>

CapJump ==
    /\ pc = "capJump"
    /\ EnsureJump(fam, HookOf("SSH_LIMIT_CHAIN", "ssh"))
    /\ pc' = AfterCap
    /\ UNCHANGED <<bridge, job, warned, stuck, disturbed>>

(* apply_ipv6_restrictions, from ip6tables_available() on *)
StartIpv6 ==
    /\ pc = "ipv6"
    /\ \/ /\ pc' = "create"
          /\ fam' = "ip6"
          /\ UNCHANGED <<warned, faults>>
       \/ /\ faults < MaxFaults
          /\ faults' = faults + 1
          /\ pc' = "applied"
          /\ warned' = warned \cup {"ip6"}
          /\ UNCHANGED fam
    /\ UNCHANGED <<tables, bridge, k, target, ranges, stuck, disturbed, misread>>

(* A command whose chain is gone, or whose parent chain is, cannot succeed. *)
Doomed ==
    \/ pc = "close" /\ CHAINS[k] \notin exists[fam]
    \/ pc = "allow" /\ LET allow == AllowRules[k] IN
                          \/ allow.chain \notin exists["ip"]
                          \/ allow.position > Len(rules["ip"][allow.chain]) + 1
    \/ pc = "hook" /\ ~JumpPossible(fam, HookOf(CHAINS[k], target))
    \/ pc \in {"capRule", "capJump"} /\ "SSH_LIMIT_CHAIN" \notin exists[fam]

(* A command that fails raises IptablesError.  The ipv4 policy lets it     *)
(* out to main, which exits; the cap and ipv6 turn it into a warning.      *)
CommandFails ==
    /\ Doomed \/ faults < MaxFaults
    /\ faults' = IF Doomed THEN faults ELSE faults + 1
    /\ \/ /\ pc \in {"create", "close", "allow", "hook"}
          /\ pc' = (IF fam = "ip" THEN "failed" ELSE "applied")
          /\ warned' = IF fam = "ip" THEN warned ELSE warned \cup {"ip6"}
       \/ /\ pc \in {"capChain", "capRule", "capJump"}
          /\ pc' = AfterCap
          /\ warned' = warned \cup {IF fam = "ip" THEN "cap" ELSE "cap6"}
    /\ UNCHANGED <<tables, bridge, job, stuck, disturbed, misread>>

-----------------------------------------------------------------------------
(* teardown_networking_linux.py: main and drop_chains.                     *)

StartTeardown ==
    /\ pc \in Finished
    /\ pc' = "unhook"
    /\ fam' = "ip" /\ k' = 1
    /\ target' = bridge /\ ranges' = <<>>
    /\ warned' = {} /\ stuck' = {} /\ disturbed' = FALSE
    /\ misread' = misread \ {"chain", "ip6"}
    /\ UNCHANGED <<tables, bridge, faults>>

(* mutant: only the hooks it can name, as remove_hook would *)
NamedJumpsTo(f, c) ==
    {h \in Hooks : h.chain = c /\ h.on \in {target, "ssh"} /\ jumps[f][h] > 0}

JumpsTo(f, c) == {h \in Hooks : h.chain = c /\ jumps[f][h] > 0}

(* remove_all_hooks: every jump to the chain, whatever it matches; a -D    *)
(* that fails leaves its jump behind. *)
RemoveAllHooks ==
    /\ pc = "unhook"
    /\ \E kept \in SUBSET JumpsTo(fam, ALL_CHAINS[k]) :
          /\ kept # {} => faults < MaxFaults
          /\ faults' = IF kept = {} THEN faults ELSE faults + 1
          /\ jumps' = [jumps EXCEPT ![fam] =
                [h \in Hooks |-> IF h \in JumpsTo(fam, ALL_CHAINS[k]) \ kept THEN 0 ELSE @[h]]]
    /\ pc' = "flush"
    /\ UNCHANGED <<exists, rules, reach, legacy, bridgeNf, bridge, job, warned, stuck,
                   disturbed, misread>>

(* delete_chain.  It starts and ends with chain_exists, which takes a -L   *)
(* that fails for any reason for a chain that is gone. *)
NextChainUnbounded ==      \* mutant: one chain too many
    IF k <= Len(ALL_CHAINS) THEN pc' = "unhook" /\ k' = k + 1
    ELSE pc' = (IF fam = "ip" THEN "ipv6Down" ELSE "legacyDown") /\ k' = 1

NextChain ==
    IF k < Len(ALL_CHAINS) THEN pc' = "unhook" /\ k' = k + 1
    ELSE pc' = (IF fam = "ip" THEN "ipv6Down" ELSE "legacyDown") /\ k' = 1

FlushChain ==
    LET c == ALL_CHAINS[k] IN
    /\ pc = "flush"
    /\ \/ /\ rules' = [rules EXCEPT ![fam][c] = <<>>]
          /\ pc' = "delete" /\ UNCHANGED <<k, misread, faults>>
       \/ /\ c \in exists[fam] /\ faults < MaxFaults     \* -F failed, and was ignored
          /\ faults' = faults + 1
          /\ pc' = "delete" /\ UNCHANGED <<k, rules, misread>>
       \/ /\ c \in exists[fam] /\ faults < MaxFaults
          /\ faults' = faults + 1
          /\ misread' = misread \cup {"chain"}
          /\ NextChain /\ UNCHANGED rules
    /\ UNCHANGED <<exists, jumps, reach, legacy, bridgeNf, bridge, fam, target, ranges, warned,
                   stuck, disturbed>>

(* -X only takes an empty chain that nothing jumps to. *)
Deletable(f, c) == rules[f][c] = <<>> /\ \A h \in Hooks : h.chain = c => jumps[f][h] = 0

DeleteChain ==
    LET c == ALL_CHAINS[k] IN
    /\ pc = "delete"
    /\ \/ /\ c \notin exists[fam] \/ Deletable(fam, c)
          /\ exists' = [exists EXCEPT ![fam] = @ \ {c}]
          /\ UNCHANGED <<stuck, misread, faults>>
       \/ /\ c \in exists[fam]
          /\ Deletable(fam, c) => faults < MaxFaults
          /\ faults' = IF Deletable(fam, c) THEN faults + 1 ELSE faults
          /\ stuck' = stuck \cup {c}
          /\ UNCHANGED <<exists, misread>>
       \/ /\ c \in exists[fam]
          /\ misread' = misread \cup {"chain"}
          /\ faults' = faults + (IF Deletable(fam, c) THEN 2 ELSE 1)
          /\ faults' <= MaxFaults
          /\ UNCHANGED <<exists, stuck>>
    /\ NextChain
    /\ UNCHANGED <<rules, jumps, reach, legacy, bridgeNf, bridge, fam, target, ranges, warned,
                   disturbed>>

(* ip6tables_available() again.  Without it the tables of ip6tables are    *)
(* left as they are, and nothing is said of it. *)
TeardownIpv6 ==
    /\ pc = "ipv6Down"
    /\ \/ /\ pc' = "unhook" /\ fam' = "ip6"
          /\ UNCHANGED <<misread, faults>>
       \/ /\ faults < MaxFaults
          /\ faults' = faults + 1
          /\ pc' = "legacyDown"
          /\ misread' = misread \cup {"ip6"}
          /\ UNCHANGED fam
    /\ UNCHANGED <<tables, bridge, k, target, ranges, warned, stuck, disturbed>>

FinishTeardown ==
    /\ pc = "legacyDown"
    /\ IF target = None THEN UNCHANGED <<legacy, faults>> ELSE DeleteLegacy
    /\ pc' = (IF stuck = {} THEN "cleaned" ELSE "left")
    /\ UNCHANGED <<exists, rules, jumps, reach, bridgeNf, bridge, job, warned, stuck, disturbed,
                   misread>>

-----------------------------------------------------------------------------
(* What happens to a script, and behind its back.                          *)

Fault == faults < MaxFaults /\ faults' = faults + 1

Killed ==
    /\ pc \notin Finished
    /\ Fault
    /\ pc' = "killed"
    /\ UNCHANGED <<tables, bridge, job, warned, stuck, disturbed, misread>>

(* A firewall reload flushes the tables; a reboot resets the sysctls too.  *)
TablesFlushed ==
    /\ Fault
    /\ exists' = [f \in Families |-> {}]
    /\ rules' = [f \in Families |-> [c \in ChainNames |-> <<>>]]
    /\ jumps' = [f \in Families |-> [h \in Hooks |-> 0]]
    /\ reach' = FALSE /\ legacy' = FALSE
    /\ bridgeNf' \in {bridgeNf, [f \in Families |-> FALSE]}
    /\ disturbed' = TRUE
    /\ UNCHANGED <<bridge, pc, job, warned, stuck, misread>>

(* docker creates DOCKER-USER and its jump when it (re)starts *)
DockerRestarts ==
    /\ ~reach
    /\ reach' = TRUE
    /\ UNCHANGED <<exists, rules, jumps, legacy, bridgeNf, bridge, pc, job, warned, stuck,
                   disturbed, misread, faults>>

(* cleanup.sh, an operator or compose removes the network; start.sh makes  *)
(* it again, with a bridge of another name.  That this happens under a     *)
(* script that runs counts as a fault. *)
NetworkChanges ==
    /\ bridge' \in (Bridges \cup {None}) \ {bridge}
    /\ IF pc \in Finished THEN UNCHANGED faults ELSE Fault
    /\ disturbed' = TRUE
    /\ UNCHANGED <<tables, pc, job, warned, stuck, misread>>

-----------------------------------------------------------------------------
Init ==
    /\ exists = [f \in Families |-> {}]
    /\ rules = [f \in Families |-> [c \in ChainNames |-> <<>>]]
    /\ jumps = [f \in Families |-> [h \in Hooks |-> 0]]
    /\ reach \in BOOLEAN
    /\ legacy \in BOOLEAN
    /\ bridgeNf = [f \in Families |-> f = "ip"]    \* docker turns the ipv4 one on
    /\ bridge \in Bridges
    /\ pc = "idle" /\ fam = "ip" /\ k = 1
    /\ target = bridge /\ ranges = <<>>
    /\ warned = {} /\ stuck = {} /\ disturbed = FALSE
    /\ misread = {}
    /\ faults = 0

SetupStep ==
    \/ EnsureBridgeNetfilter \/ RemoveLegacyRules \/ CreateChain \/ CloseChain \/ InsertAllow
    \/ EnsureDockerUser \/ EnsureHook \/ CapChain \/ CapRule \/ CapJump \/ StartIpv6
    \/ CommandFails

TeardownStep ==
    \/ RemoveAllHooks \/ FlushChain \/ DeleteChain \/ TeardownIpv6 \/ FinishTeardown

Next ==
    \/ StartSetup \/ SetupStep
    \/ StartTeardown \/ TeardownStep
    \/ Killed \/ TablesFlushed \/ DockerRestarts \/ NetworkChanges

Spec == Init /\ [][Next]_vars

-----------------------------------------------------------------------------
SetupSteps == {"netfilter", "legacy", "create", "close", "allow", "dockerUser", "hook",
               "capChain", "capRule", "capJump", "ipv6"}
TeardownSteps == {"unhook", "flush", "delete", "ipv6Down", "legacyDown"}

Rules == [match : {"any", "established", "endpoint", "connlimit"},
          endpoint : Endpoints \cup {None}, verdict : {"ACCEPT", "DROP"}]

(* Every variable keeps its type. *)
TypeOK ==
    /\ exists \in [Families -> SUBSET ChainNames]
    /\ \A f \in Families, c \in ChainNames :
          rules[f][c] \in Seq(Rules) /\ (c \notin exists[f] => rules[f][c] = <<>>)
    /\ jumps \in [Families -> [Hooks -> 0..(MaxFaults + 1)]]
    /\ reach \in BOOLEAN /\ legacy \in BOOLEAN
    /\ bridgeNf \in [Families -> BOOLEAN]
    /\ bridge \in Bridges \cup {None} /\ target \in Bridges \cup {None}
    /\ pc \in Finished \cup SetupSteps \cup TeardownSteps
    /\ fam \in Families /\ k \in 1..(2 * Len(ranges) + 4)
    /\ ranges \in Configs \cup {<<>>}
    /\ warned \subseteq {"netfilter", "cap", "cap6", "ip6"}
    /\ stuck \subseteq ChainNames
    /\ disturbed \in BOOLEAN
    /\ misread \subseteq {"jump", "chain", "ip6"}
    /\ faults \in 0..MaxFaults

(* What setup said it did, it did: once it has reported success, and until *)
(* tables or network change behind it, a guest reaches exactly what the    *)
(* config lists, over ipv4 and ipv6, whatever an earlier run had left -    *)
(* and each part that is not so has been warned about. *)
AppliedMeansEnforced ==
    pc = "applied" /\ ~disturbed =>
        /\ Enforced("ip")
        /\ "ip6" \in warned \/ Enforced("ip6")
        /\ "netfilter" \in warned \/ \A f \in Families : bridgeNf[f]
        /\ "cap" \in warned \/ Capped("ip")
        /\ {"ip6", "cap6"} \cap warned # {} \/ Capped("ip6")

(* The tables do not grow: a second run over a first leaves one copy of    *)
(* every hook of the current bridge. *)
HooksAreSingle ==
    "jump" \notin misread => \A f \in Families, h \in Hooks : jumps[f][h] <= 1

Exposed(f, c) == Hooked(f, c) /\ ~Closed(f, c)

(* Deny first: apart from the flush that starts a chain's rebuild, no step *)
(* of setup - not one that fails, not a kill between two of them - leaves  *)
(* the guests with a live hook into a chain that does not end in DROP.     *)
DenyFirst ==
    [][\A f \in Families, c \in PolicyChains :
          ~Exposed(f, c) /\ Exposed(f, c)' =>
              \/ pc = "create" /\ f = fam /\ c = CHAINS[k]
              \/ pc \in TeardownSteps
              \/ bridge' # bridge]_vars

NothingLeft(f) == exists[f] = {} /\ \A h \in Hooks : jumps[f][h] = 0

(* A teardown that ends with "cleanup complete." has left nothing of ours  *)
(* in the tables it could ask about, stale hooks of bridges that are gone  *)
(* included.  Its queries must have answered: chain_exists takes any       *)
(* failure of iptables -L for a chain that is not there, and when          *)
(* ip6tables_available() fails the ipv6 tables are skipped, which only     *)
(* excuses those. *)
CleanedMeansGone ==
    "chain" \notin misread /\ pc = "cleaned" =>
        /\ NothingLeft("ip")
        /\ "ip6" \in misread \/ NothingLeft("ip6")

(* teardown finds the hooks of a bridge that is gone: as long as no command *)
(* has failed, there is nothing it cannot remove. *)
StuckOnlyIfFailed == faults = 0 => pc # "left"

(* The docstring of ensure_chain_closed: the chain "denies by default at   *)
(* every instant - during the rebuild window, and after a rebuild that     *)
(* raised part way through". *)
ChainsNeverOpen == pc \in SetupSteps \cup {"failed"} => \A c \in PolicyChains : ~Exposed("ip", c)

(* setup's main, on an IptablesError: the guests "are locked out rather    *)
(* than wide open".  Where the hooks are in - they go in last, so this is  *)
(* a run over an earlier one - a failure opens no more than the chain      *)
(* whose rebuild failed: new connections pass as many chains as commands   *)
(* have failed and scripts been killed, whatever those had left. *)
OpenChainsCostFailures ==
    pc = "failed" /\ ~disturbed /\ reach /\ (\A c \in PolicyChains : Hooked("ip", c)) =>
        Cardinality({c \in PolicyChains : ~Drops("ip", c)}) <= faults

(* attack_playground.md, of SSH_LIMIT_CHAIN: "lan -> containerssh: drops   *)
(* new connections above the concurrency cap".  After a setup that has not *)
(* warned about the cap, its rule is in place and the chain its jump is in *)
(* is one that a login from the lan goes through. *)
CapSeesLogins ==
    pc = "applied" /\ ~disturbed /\ "cap" \notin warned =>
        Capped("ip") /\ Parent("ip", "SSH_LIMIT_CHAIN") \in PathOfLogin
=============================================================================
