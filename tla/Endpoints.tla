------------------------------ MODULE Endpoints ------------------------------
(***************************************************************************)
(* What is worked out from attack_network_endpoints.conf: the ranges it    *)
(* allows, the first ports of them, and which of them a container has      *)
(* taken over from a service of the host.  The code here keeps no state:   *)
(* the variables are what it reads, and the operators are its functions.   *)
(***************************************************************************)
EXTENDS Integers, FiniteSets, Sequences, SequencesExt

CONSTANTS
    MIN_PORT, MAX_PORT, \* the ports iptables accepts
    MaxLines,           \* bound: lines of the config
    MaxRules,           \* bound: rules in nat/DOCKER
    MaxListeners        \* bound: listening sockets

ASSUME EndpointsAssumption ==
    /\ MIN_PORT \in Nat \ {0} /\ MAX_PORT \in Nat /\ MIN_PORT <= MAX_PORT
    /\ MaxLines \in Nat /\ MaxRules \in Nat /\ MaxListeners \in Nat

VARIABLES
    config,     \* the lines of the file
    nat,        \* the DNAT rules in nat/DOCKER
    sockets,    \* the listening sockets of the host
    natRead,    \* whether iptables -t nat -S DOCKER can be run
    ssRead      \* whether ss -lntp can be run

vars == <<config, nat, sockets, natRead, ssRead>>

Port == MIN_PORT..MAX_PORT
Digits == 0..(MAX_PORT + 1)

(* A line is the numbers it holds: <<p>> a port, <<a, b>> a range, and     *)
(* <<>> a comment or anything else. *)
Line == {<<>>} \cup {<<p>> : p \in Digits} \cup (Digits \X Digits)

(* A published port: docker names the bind address in the rule, if any. *)
Rule == [port : Port, proto : {"tcp", "udp"}, bind : {"any", "loopback", "gateway", "other"}]

Listener == [port : Port,
             address : {"wildcard", "loopback", "gateway", "other"},
             process : {"docker-proxy", "service", "unnamed"}]

-----------------------------------------------------------------------------
(* The definitions called a mutant are the operator that follows them with *)
(* one mistake, and are no part of the model.                              *)

(* _valid_port *)
ValidPort(n) == MIN_PORT <= n /\ n <= MAX_PORT

(* mutant: whether a port exists is left to iptables *)
AcceptedAsWritten(line) ==
    \/ Len(line) = 1
    \/ Len(line) = 2 /\ line[1] <= line[2]

Accepted(line) ==
    \/ Len(line) = 1 /\ ValidPort(line[1])
    \/ Len(line) = 2 /\ ValidPort(line[1]) /\ ValidPort(line[2]) /\ line[1] <= line[2]

ParseConfig ==
    FoldLeft(LAMBDA ranges, line : IF Accepted(line) THEN Append(ranges, line) ELSE ranges,
             <<>>, config)

Start(rng) == rng[1]
End(rng) == rng[Len(rng)]

(* mutant: the end of the range taken as exclusive *)
SpanExclusive(rng, count) ==
    LET last == IF End(rng) <= Start(rng) + count THEN End(rng) ELSE Start(rng) + count
    IN  [i \in 1..(last - Start(rng)) |-> Start(rng) + i - 1]

Span(rng, count) ==
    LET last == IF End(rng) <= Start(rng) + count THEN End(rng) ELSE Start(rng) + count
    IN  [i \in 1..(last - Start(rng) + 1) |-> Start(rng) + i - 1]

AllowedPorts(ranges, count) ==
    LET ports == FoldLeft(LAMBDA sofar, rng :
                              IF Len(sofar) >= count THEN sofar ELSE sofar \o Span(rng, count),
                          <<>>, ranges)
    IN  IF Len(ports) > count THEN SubSeq(ports, 1, count) ELSE ports

(* endpoints.py ports N *)
PortsCommand(count) ==
    LET ports == AllowedPorts(ParseConfig, count)
    IN  IF ParseConfig = <<>> \/ Len(ports) < count
        THEN [exit |-> 1, out |-> <<>>]
        ELSE [exit |-> 0, out |-> ports]

PublishedPorts == {r \in nat : r.bind # "loopback"}

InRange(port) ==
    \E i \in DOMAIN ParseConfig :
        Start(ParseConfig[i]) <= port /\ port <= End(ParseConfig[i])

(* A chain that cannot be read is a chain without rules. *)
EndpointConflicts == IF natRead THEN {r \in PublishedPorts : InRange(r.port)} ELSE {}

(* mutant: only the gateway's own address *)
ReachableFromGateway(address) == address = "gateway"

Reachable(address) == address \in {"gateway", "wildcard"}

HostListenerPorts ==
    {l.port : l \in {k \in sockets : k.process # "docker-proxy" /\ Reachable(k.address)}}

FindShadowedEndpoints ==
    IF EndpointConflicts = {}
    THEN [shadowing |-> {}, containerised |-> {}, known |-> TRUE]
    ELSE IF ~ssRead
    THEN [shadowing |-> EndpointConflicts, containerised |-> {}, known |-> FALSE]
    ELSE [shadowing |-> {r \in EndpointConflicts : r.port \in HostListenerPorts},
          containerised |-> {r \in EndpointConflicts : r.port \notin HostListenerPorts},
          known |-> TRUE]

-----------------------------------------------------------------------------
(* What the operator and docker do to the inputs.                          *)

AddLine ==
    /\ Len(config) < MaxLines
    /\ \E line \in Line : config' = Append(config, line)
    /\ UNCHANGED <<nat, sockets, natRead, ssRead>>

PublishPort ==
    /\ Cardinality(nat) < MaxRules
    /\ \E r \in Rule : nat' = nat \cup {r}
    /\ UNCHANGED <<config, sockets, natRead, ssRead>>

Listen ==
    /\ Cardinality(sockets) < MaxListeners
    /\ \E l \in Listener : sockets' = sockets \cup {l}
    /\ UNCHANGED <<config, nat, natRead, ssRead>>

ToolBreaks ==
    /\ \/ natRead /\ natRead' = FALSE /\ UNCHANGED ssRead
       \/ ssRead /\ ssRead' = FALSE /\ UNCHANGED natRead
    /\ UNCHANGED <<config, nat, sockets>>

Init ==
    /\ config = <<>> /\ nat = {} /\ sockets = {}
    /\ natRead = TRUE /\ ssRead = TRUE

Next == AddLine \/ PublishPort \/ Listen \/ ToolBreaks

Spec == Init /\ [][Next]_vars

-----------------------------------------------------------------------------
(* What the answers should be, without the code's way to them.             *)

(* The ports a line allows, as a sequence. *)
PortsOf(line) ==
    IF line = <<>> THEN <<>>
    ELSE [i \in 1..(End(line) - Start(line) + 1) |-> Start(line) + i - 1]

AllPorts == FlattenSeq([i \in DOMAIN ParseConfig |-> PortsOf(ParseConfig[i])])

(* The ports a packet of a guest to the gateway may be for. *)
Allows(port) ==
    \E i \in DOMAIN config :
        \/ config[i] = <<port>>
        \/ \E a, b \in Port : config[i] = <<a, b>> /\ a <= port /\ port <= b

(* docker rewrites a tcp packet of a guest to that port of the gateway. *)
Rewritten(r) == r.proto = "tcp" /\ r.bind \in {"any", "gateway"}

(* A process of the host listens where the guest's packet would arrive.    *)
Served(port) ==
    \E l \in sockets :
        l.port = port /\ l.process # "docker-proxy" /\ l.address \notin {"loopback", "other"}

(* Every variable keeps its type, and every range that is parsed is one    *)
(* that iptables accepts. *)
TypeOK ==
    /\ config \in Seq(Line) /\ Len(config) <= MaxLines
    /\ nat \subseteq Rule /\ sockets \subseteq Listener
    /\ natRead \in BOOLEAN /\ ssRead \in BOOLEAN
    /\ \A i \in DOMAIN ParseConfig :
          LET rng == ParseConfig[i] IN Start(rng) \in Port /\ End(rng) \in Start(rng)..MAX_PORT

(* However many ports are asked for, and however the ranges repeat or      *)
(* overlap, the answer is the beginning of the ports the config lists: the *)
(* cut at count inside a range and the early end of the loop lose none and *)
(* add none.  (A port the config lists twice is in the answer twice.) *)
FirstPorts ==
    \A count \in 1..(MaxLines * MAX_PORT) :
        PortsCommand(count) =
            IF count <= Len(AllPorts)
            THEN [exit |-> 0, out |-> SubSeq(AllPorts, 1, count)]
            ELSE [exit |-> 1, out |-> <<>>]

(* A service of the host that a container has cut off from the guests is   *)
(* reported, whatever else is published and wherever it listens, also when *)
(* the sockets cannot be read.  (If the nat table cannot be read the code  *)
(* takes it for empty.) *)
NothingShadowedIsMissed ==
    \A r \in nat :
        natRead /\ Allows(r.port) /\ Rewritten(r) /\ Served(r.port) =>
            r \in FindShadowedEndpoints.shadowing
=============================================================================
