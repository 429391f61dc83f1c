-------------------------- MODULE GuestFirewallProofs --------------------------
(***************************************************************************)
(* For any set of endpoints and configs, any number of bridges, and any    *)
(* number of failed commands, kills and reloads: the tables keep their     *)
(* types and one copy of each hook; setup denies first, and when it says   *)
(* that the policy is in, it is; teardown leaves nothing in the tables it  *)
(* could ask about, or says so; and failures open no more chains than      *)
(* there were failures.                                                    *)
(*                                                                         *)
(* The argument follows the script through its loops: what the chains it   *)
(* has been through hold, which of them it has hooked, and what the step   *)
(* it is at still has to change.  A reload can only take chains away, and  *)
(* a command on a chain that is gone fails; so what a chain holds, if it   *)
(* is there, is known at every step, and only that it is there depends on  *)
(* nothing having changed under the script.                                *)
(***************************************************************************)
EXTENDS GuestFirewall, TLAPS, FiniteSetTheorems, SequenceTheorems, WellFoundedInduction

-----------------------------------------------------------------------------
(* The inductive invariant.                                                *)

Cap == "SSH_LIMIT_CHAIN"

CapSteps == {"capChain", "capRule", "capJump"}
LoopSteps == {"create", "close", "allow", "hook", "unhook", "flush", "delete"}

(* Where each loop is, and which family each step belongs to.              *)
PlaceInv ==
    /\ pc \in {"create", "close", "hook"} => k \in 1..3
    /\ pc = "allow" => k \in 1..(2 * Len(ranges) + 2)
    /\ pc \in {"unhook", "flush", "delete"} => k \in 1..4
    /\ pc \in (SetupSteps \cup TeardownSteps) \ LoopSteps => k = 1
    /\ pc \in {"netfilter", "legacy", "allow", "dockerUser", "ipv6", "ipv6Down"} => fam = "ip"
    /\ pc \in SetupSteps => target \in Bridges

(* What TypeOK leaves open: what the tables are functions of, that nothing *)
(* jumps to a chain that is not there, and that only a failed -C adds to a *)
(* jump. *)
PolicyRules == {AcceptReplies, Drop} \cup {AcceptEndpoint(e) : e \in Endpoints}

TablesInv ==
    /\ rules \in [Families -> [ChainNames -> Seq(Rules)]]
    /\ \A f \in Families, c \in PolicyChains :
          \A i \in 1..Len(rules[f][c]) : rules[f][c][i] \in PolicyRules
    /\ \A f \in Families, h \in Hooks :
          /\ jumps[f][h] <= faults + 1
          /\ h.chain \notin exists[f] => jumps[f][h] = 0

(* The rule a chain has at place i above its DROP, and how many of the     *)
(* first n steps of AllowRules have put one there. *)
Allowed(c, i) ==
    IF c = "FORWARD_CHAIN" THEN AcceptEndpoint(ranges[i])
    ELSE IF c = "INPUT_CHAIN" /\ i > 1 THEN AcceptEndpoint(ranges[i - 1])
    ELSE AcceptReplies

Placed(c, n) ==
    IF c = "INPUT_CHAIN" THEN IF n <= Len(ranges) + 1 THEN n ELSE Len(ranges) + 1
    ELSE IF c = "FORWARD_CHAIN"
         THEN IF n <= Len(ranges) + 1 THEN 0
              ELSE IF n <= 2 * Len(ranges) + 1 THEN n - Len(ranges) - 1 ELSE Len(ranges)
         ELSE IF n <= 2 * Len(ranges) + 1 THEN 0 ELSE 1

(* Chain c holds its first n allow rules and the terminal DROP. *)
Holds(f, c, n) ==
    /\ n \in Nat
    /\ Len(rules[f][c]) = n + 1
    /\ rules[f][c][n + 1] = Drop
    /\ \A i \in 1..n : rules[f][c][i] = Allowed(c, i)

(* Whether this run has rebuilt chain i of family f, and with how many     *)
(* allow rules in it; whether it has hooked it. *)
Applying == pc \in SetupSteps \cup {"applied"}

Ipv6Given == pc = "applied" /\ "ip6" \in warned

Built(f, i) ==
    /\ Applying
    /\ \/ f = fam /\ pc \in {"create", "close"} /\ i < k
       \/ f = fam /\ pc \in {"allow", "dockerUser", "hook", "ipv6", "applied"} \cup CapSteps
          /\ ~(f = "ip6" /\ Ipv6Given)
       \/ f = "ip" /\ fam = "ip6"

Allows(f, c) ==
    IF f = "ip6" \/ (fam = "ip" /\ pc \in {"create", "close"}) THEN 0
    ELSE IF pc = "allow" THEN Placed(c, k - 1) ELSE Placed(c, 2 * Len(ranges) + 2)

Hung(f, i) ==
    /\ Applying
    /\ \/ f = fam /\ pc = "hook" /\ i < k
       \/ f = fam /\ pc \in {"ipv6", "applied"} \cup CapSteps /\ ~(f = "ip6" /\ Ipv6Given)
       \/ f = "ip" /\ fam = "ip6"

(* A chain the run has rebuilt, if it is still there, holds what it should *)
(* by now; ... *)
ChainsInv ==
    \A f \in Families, i \in 1..3 :
        Built(f, i) /\ CHAINS[i] \in exists[f] => Holds(f, CHAINS[i], Allows(f, CHAINS[i]))

(* ... the one it has just flushed holds nothing. *)
FreshInv ==
    /\ pc = "close" => rules[fam][CHAINS[k]] = <<>>
    /\ pc = "capRule" => rules[fam][Cap] = <<>>
    /\ pc = "capJump" /\ Cap \in exists[fam] => rules[fam][Cap] = <<DropOverCap>>

(* Unless something has changed under the script, it is there, hooked to   *)
(* the bridge, and reached; and so is the cap, or it was warned about. *)
Undisturbed == Applying /\ ~disturbed

OnTarget == Undisturbed => bridge = target /\ bridge # None

AreThere == Undisturbed => \A f \in Families, i \in 1..3 : Built(f, i) => CHAINS[i] \in exists[f]

AreHooked ==
    Undisturbed => \A f \in Families, i \in 1..3 :
                       Hung(f, i) => jumps[f][HookOf(CHAINS[i], bridge)] > 0

IsReached ==
    Undisturbed => (fam = "ip6" \/ pc \in {"hook", "ipv6", "applied"} \cup CapSteps => reach)

IsBridged ==
    Undisturbed /\ pc # "netfilter" => "netfilter" \in warned \/ \A f \in Families : bridgeNf[f]

CapDone(f) ==
    IF f = "ip" THEN pc \in {"ipv6", "applied"} \/ fam = "ip6" ELSE pc = "applied"

CapWarnings(f) == IF f = "ip" THEN {"cap"} ELSE {"ip6", "cap6"}

IsCapped ==
    Undisturbed => \A f \in Families :
                       CapDone(f) => CapWarnings(f) \cap warned # {} \/ Capped(f)

Ipv6Done == Undisturbed /\ pc = "applied" => fam = "ip6" \/ "ip6" \in warned

UndisturbedInv ==
    OnTarget /\ AreThere /\ AreHooked /\ IsReached /\ IsBridged /\ IsCapped /\ Ipv6Done

(* Which chains teardown has been through; of those it has left none that  *)
(* it does not know of, if each -L of chain_exists that failed was for     *)
(* want of the chain. *)
Passed(f, i) ==
    \/ f = fam /\ pc \in {"unhook", "flush", "delete"} /\ i < k
    \/ f = "ip" /\ fam = "ip6" /\ pc \in {"unhook", "flush", "delete"}
    \/ f = "ip" /\ pc = "ipv6Down"
    \/ pc \in {"legacyDown", "cleaned"} /\ ~(f = "ip6" /\ "ip6" \in misread)

GoneInv ==
    "chain" \notin misread =>
        \A f \in Families, i \in 1..4 :
            Passed(f, i) /\ ALL_CHAINS[i] \notin stuck => ALL_CHAINS[i] \notin exists[f]

CleanedInv == pc = "cleaned" => stuck = {}

(* Before the first failure teardown leaves nothing. *)
FaultlessInv ==
    faults = 0 =>
        /\ pc \in TeardownSteps => stuck = {}
        /\ pc # "left"
        /\ pc \in {"flush", "delete"} =>
              \A h \in Hooks : h.chain = ALL_CHAINS[k] => jumps[fam][h] = 0
        /\ pc = "delete" => rules[fam][ALL_CHAINS[k]] = <<>>

(* The ipv4 chains that something jumps to and that let through what no    *)
(* rule allows: there are no more than there were failures, not counting   *)
(* the one that is being rebuilt, and counting the one teardown is about   *)
(* to flush although something still jumps to it. *)
Jumped(c) == \E h \in Hooks : h.chain = c /\ jumps["ip"][h] > 0
Open == {c \in PolicyChains : Jumped(c) /\ ~Closed("ip", c)}

Rebuilding(c) == fam = "ip" /\ pc = "close" /\ c = CHAINS[k]
Flushing(c) == fam = "ip" /\ pc = "flush" /\ c = ALL_CHAINS[k]

Charged == {c \in PolicyChains : \/ c \in Open /\ ~Rebuilding(c)
                                 \/ Flushing(c) /\ Jumped(c)}

CostInv == Cardinality(Charged) <= faults

IInv ==
    /\ TypeOK
    /\ PlaceInv
    /\ TablesInv
    /\ ChainsInv /\ FreshInv
    /\ UndisturbedInv
    /\ GoneInv /\ CleanedInv
    /\ FaultlessInv
    /\ HooksAreSingle
    /\ CostInv

-----------------------------------------------------------------------------
(* Chains, and what the iptables commands do to them.                      *)

(* The lists of chains, place by place.                                    *)
LEMMA ChainFacts ==
    /\ Len(CHAINS) = 3 /\ Len(ALL_CHAINS) = 4
    /\ CHAINS[1] = "INPUT_CHAIN" /\ CHAINS[2] = "FORWARD_CHAIN" /\ CHAINS[3] = "FORWARD_IN_CHAIN"
    /\ \A i \in 1..3 : ALL_CHAINS[i] = CHAINS[i]
    /\ ALL_CHAINS[4] = Cap
<1>1. /\ CHAINS[1] = "INPUT_CHAIN" /\ CHAINS[2] = "FORWARD_CHAIN"
      /\ CHAINS[3] = "FORWARD_IN_CHAIN"
  BY DEF CHAINS
<1>2. CHAINS \in Seq({"INPUT_CHAIN", "FORWARD_CHAIN", "FORWARD_IN_CHAIN"}) /\ Len(CHAINS) = 3
  BY DEF CHAINS
<1>3. PICK S : CHAINS \in Seq(S) /\ Cap \in S
  <2>1. CHAINS \in Seq(ChainNames)
    BY DEF CHAINS, ChainNames, PolicyChains
  <2> QED
    BY <2>1 DEF Cap, ChainNames
<1>4. ALL_CHAINS = Append(CHAINS, Cap)
  BY DEF ALL_CHAINS, Cap
<1>5. /\ Len(ALL_CHAINS) = 4 /\ ALL_CHAINS[4] = Cap
      /\ \A i \in 1..3 : ALL_CHAINS[i] = CHAINS[i]
  BY <1>2, <1>3, <1>4, AppendProperties
<1> QED
  BY <1>1, <1>2, <1>5

(* A chain has one number, in either list.                                 *)
LEMMA ChainNumbers ==
    /\ \A i \in 1..3 : CHAINS[i] \in PolicyChains /\ CHAINS[i] # Cap
    /\ \A i, j \in 1..3 : CHAINS[i] = CHAINS[j] => i = j
    /\ \A c \in PolicyChains : \E i \in 1..3 : c = CHAINS[i]
    /\ \A i \in 1..4 : ALL_CHAINS[i] \in ChainNames
    /\ \A c \in ChainNames : \E i \in 1..4 : c = ALL_CHAINS[i]
    /\ \A i, j \in 1..4 : ALL_CHAINS[i] = ALL_CHAINS[j] => i = j
    /\ PolicyChains \subseteq ChainNames /\ Cap \in ChainNames /\ Cap \notin PolicyChains
    /\ PolicyChains = {"INPUT_CHAIN", "FORWARD_CHAIN", "FORWARD_IN_CHAIN"}
<1>1. PolicyChains = {"INPUT_CHAIN", "FORWARD_CHAIN", "FORWARD_IN_CHAIN"}
  BY ChainFacts DEF PolicyChains
<1>2. ChainNames = {"INPUT_CHAIN", "FORWARD_CHAIN", "FORWARD_IN_CHAIN", "SSH_LIMIT_CHAIN"}
  BY <1>1 DEF ChainNames
<1>3. \A i \in 1..3 : i = 1 \/ i = 2 \/ i = 3
  OBVIOUS
<1>4. \A i \in 1..4 : i \in 1..3 \/ i = 4
  OBVIOUS
<1>5. 1 \in 1..3 /\ 2 \in 1..3 /\ 3 \in 1..3 /\ 1..3 \subseteq 1..4 /\ 4 \in 1..4
  OBVIOUS
<1>6. Cap \notin PolicyChains /\ Cap \in ChainNames /\ PolicyChains \subseteq ChainNames
  BY <1>1, <1>2 DEF Cap
<1>7. \A i \in 1..3 : CHAINS[i] \in PolicyChains /\ CHAINS[i] # Cap
  BY <1>1, <1>3, <1>6, ChainFacts
<1>8. \A i, j \in 1..3 : CHAINS[i] = CHAINS[j] => i = j
  BY <1>3, ChainFacts
<1>9. \A c \in PolicyChains : \E i \in 1..3 : c = CHAINS[i]
  BY <1>1, <1>5, ChainFacts
<1>10. \A i \in 1..4 : ALL_CHAINS[i] \in ChainNames
  BY <1>4, <1>6, <1>7, ChainFacts
<1>11. \A c \in ChainNames : \E i \in 1..4 : c = ALL_CHAINS[i]
  <2>1. \A c \in ChainNames : c = Cap \/ c \in PolicyChains
    BY DEF ChainNames, Cap
  <2> QED
    BY <2>1, <1>5, <1>9, ChainFacts
<1>12. \A i, j \in 1..4 : ALL_CHAINS[i] = ALL_CHAINS[j] => i = j
  BY <1>4, <1>6, <1>7, <1>8, ChainFacts
<1> QED
  BY <1>1, <1>6, <1>7, <1>8, <1>9, <1>10, <1>11, <1>12

(* Hooks and the chains they jump to.                                      *)
LEMMA HookFacts ==
    /\ \A h \in Hooks : h.chain \in ChainNames
    /\ \A c \in PolicyChains, b \in Bridges : HookOf(c, b) \in Hooks /\ HookOf(c, b).chain = c
    /\ HookOf(Cap, "ssh") \in Hooks /\ HookOf(Cap, "ssh").chain = Cap
<1> DEFINE named == [chain : PolicyChains, on : Bridges]
           capHook == [chain |-> "SSH_LIMIT_CHAIN", on |-> "ssh"]
<1>1. /\ \A h \in named : h.chain \in ChainNames
      /\ \A c \in PolicyChains, b \in Bridges :
            /\ HookOf(c, b) \in named
            /\ HookOf(c, b).chain = c
  BY ChainNumbers DEF HookOf
<1>2. HookOf(Cap, "ssh") = capHook
  BY DEF HookOf, Cap
<1>3. capHook.chain = Cap /\ Cap \in ChainNames
  BY ChainNumbers DEF Cap
<1> QED
  <2>1. Hooks = named \cup {capHook}
    BY DEF Hooks
  <2> HIDE DEF named, capHook
  <2> QED
    BY <1>1, <1>2, <1>3, <2>1

(* The tables are functions of family and of chain or hook.                *)
Tables ==
    /\ exists \in [Families -> SUBSET ChainNames]
    /\ rules \in [Families -> [ChainNames -> Seq(Rules)]]
    /\ jumps \in [Families -> [Hooks -> Nat]]

(* What setup appends and inserts are rules of ours.                       *)
LEMMA RuleTypes ==
    /\ PolicyRules \subseteq Rules
    /\ Drop \in PolicyRules /\ AcceptReplies \in PolicyRules
    /\ \A e \in Endpoints : AcceptEndpoint(e) \in PolicyRules
    /\ DropOverCap \in Rules
<1>1. Drop \in Rules /\ AcceptReplies \in Rules /\ DropOverCap \in Rules
  BY DEF Rules, Drop, AcceptReplies, DropOverCap
<1>2. \A e \in Endpoints : AcceptEndpoint(e) \in Rules
  BY DEF Rules, AcceptEndpoint
<1> QED
  BY <1>1, <1>2 DEF PolicyRules

(* Each command: what it does to the chain it names, and that nothing else *)
(* of the tables changes. -N or -F ...                                     *)
LEMMA EnsureChainEffect ==
    ASSUME Tables, NEW f \in Families, NEW c \in ChainNames, EnsureChain(f, c)
    PROVE  /\ Tables'
           /\ jumps' = jumps
           /\ exists'[f] = exists[f] \cup {c}
           /\ \A g \in Families : g # f => exists'[g] = exists[g]
           /\ rules'[f][c] = <<>>
           /\ \A g \in Families, d \in ChainNames :
                 g # f \/ d # c => rules'[g][d] = rules[g][d]
<1>1. rules' = [rules EXCEPT ![f][c] = <<>>] /\ <<>> \in Seq(Rules)
  BY DEF EnsureChain
<1>2. /\ rules' \in [Families -> [ChainNames -> Seq(Rules)]]
      /\ rules'[f][c] = <<>>
      /\ \A g \in Families, d \in ChainNames : g # f \/ d # c => rules'[g][d] = rules[g][d]
  BY <1>1 DEF Tables
<1>3. /\ exists' \in [Families -> SUBSET ChainNames]
      /\ exists'[f] = exists[f] \cup {c}
      /\ \A g \in Families : g # f => exists'[g] = exists[g]
  BY DEF EnsureChain, Tables
<1> QED
  BY <1>2, <1>3 DEF EnsureChain, Tables

(* ... -A ...                                                              *)
LEMMA AppendRuleEffect ==
    ASSUME Tables, NEW f \in Families, NEW c \in ChainNames, NEW r \in Rules, AppendRule(f, c, r)
    PROVE  /\ Tables'
           /\ jumps' = jumps /\ exists' = exists
           /\ c \in exists[f]
           /\ rules'[f][c] = Append(rules[f][c], r)
           /\ Len(rules'[f][c]) = Len(rules[f][c]) + 1
           /\ \A i \in 1..Len(rules[f][c]) : rules'[f][c][i] = rules[f][c][i]
           /\ rules'[f][c][Len(rules[f][c]) + 1] = r
           /\ \A g \in Families, d \in ChainNames :
                 g # f \/ d # c => rules'[g][d] = rules[g][d]
<1> DEFINE s == rules[f][c]
<1>1. s \in Seq(Rules)
  BY DEF Tables
<1>2. /\ Append(s, r) \in Seq(Rules)
      /\ Len(Append(s, r)) = Len(s) + 1
      /\ \A i \in 1..Len(s) : Append(s, r)[i] = s[i]
      /\ Append(s, r)[Len(s) + 1] = r
  BY <1>1, AppendProperties
<1>3. rules' = [rules EXCEPT ![f][c] = Append(s, r)]
  BY DEF AppendRule, Tables
<1>4. /\ rules' \in [Families -> [ChainNames -> Seq(Rules)]]
      /\ rules'[f][c] = Append(s, r)
      /\ \A g \in Families, d \in ChainNames : g # f \/ d # c => rules'[g][d] = rules[g][d]
  BY <1>2, <1>3 DEF Tables
<1>5. Tables' /\ jumps' = jumps /\ exists' = exists /\ c \in exists[f]
  BY <1>4 DEF AppendRule, Tables
<1> QED
  BY <1>2, <1>4, <1>5

(* -I moves what was at the position, and all below it, one place down.    *)
IsInserted(t, s, r, p) == t = SubSeq(s, 1, p - 1) \o <<r>> \o SubSeq(s, p, Len(s))

(* ... the places of a sequence after an insertion ...                     *)
LEMMA Inserted ==
    ASSUME NEW S, NEW s \in Seq(S), NEW r \in S, NEW p \in 1..(Len(s) + 1),
           NEW t, IsInserted(t, s, r, p)
    PROVE  /\ t \in Seq(S)
           /\ Len(t) = Len(s) + 1
           /\ \A i \in 1..(p - 1) : t[i] = s[i]
           /\ t[p] = r
           /\ \A i \in (p + 1)..(Len(s) + 1) : t[i] = s[i - 1]
<1>1. p \in Int /\ Len(s) \in Nat /\ p - 1 \in Int /\ 1 \in Int
  OBVIOUS
<1>2. PICK a : a = SubSeq(s, 1, p - 1)
  OBVIOUS
<1>3. PICK b : b = SubSeq(s, p, Len(s))
  OBVIOUS
<1>4. /\ a \in Seq(S) /\ Len(a) = p - 1
      /\ \A i \in 1..(p - 1) : a[i] = s[i]
  <2>1. \A i \in 1..(p - 1) : s[i] \in S
    BY ElementOfSeq
  <2>2. /\ a \in Seq(S)
        /\ Len(a) = IF 1 <= p - 1 THEN p - 1 - 1 + 1 ELSE 0
        /\ \A i \in 1..(p - 1 - 1 + 1) : a[i] = s[1 + i - 1]
    BY <1>1, <1>2, <2>1, SubSeqProperties
  <2> QED
    BY <1>1, <2>2
<1>5. /\ b \in Seq(S) /\ Len(b) = Len(s) - p + 1
      /\ \A i \in 1..(Len(s) - p + 1) : b[i] = s[p + i - 1]
  <2>1. \A i \in p..Len(s) : s[i] \in S
    BY ElementOfSeq
  <2>2. /\ b \in Seq(S)
        /\ Len(b) = IF p <= Len(s) THEN Len(s) - p + 1 ELSE 0
        /\ \A i \in 1..(Len(s) - p + 1) : b[i] = s[p + i - 1]
    BY <1>1, <1>3, <2>1, SubSeqProperties
  <2> QED
    BY <1>1, <2>2
<1>6. PICK m : m = a \o <<r>>
  OBVIOUS
<1>7. <<r>> \in Seq(S) /\ Len(<<r>>) = 1 /\ <<r>>[1] = r
  OBVIOUS
<1>8. /\ m \in Seq(S) /\ Len(m) = p
      /\ \A i \in 1..(p - 1) : m[i] = s[i]
      /\ m[p] = r
  <2>1. /\ m \in Seq(S) /\ Len(m) = Len(a) + Len(<<r>>)
        /\ \A i \in 1..(Len(a) + Len(<<r>>)) :
              m[i] = IF i <= Len(a) THEN a[i] ELSE <<r>>[i - Len(a)]
    BY <1>4, <1>6, <1>7, ConcatProperties
  <2> QED
    BY <1>1, <1>4, <1>7, <2>1
<1>9. /\ t \in Seq(S) /\ Len(t) = Len(m) + Len(b)
      /\ \A i \in 1..(Len(m) + Len(b)) : t[i] = IF i <= Len(m) THEN m[i] ELSE b[i - Len(m)]
  <2>1. t = m \o b
    BY <1>2, <1>3, <1>6 DEF IsInserted
  <2> QED
    BY <2>1, <1>5, <1>8, ConcatProperties
<1>10. Len(t) = Len(s) + 1
  BY <1>1, <1>5, <1>8, <1>9
<1>11. \A i \in 1..(p - 1) : t[i] = s[i]
  BY <1>1, <1>5, <1>8, <1>9
<1>12. t[p] = r
  BY <1>1, <1>5, <1>8, <1>9
<1>13. \A i \in (p + 1)..(Len(s) + 1) : t[i] = s[i - 1]
  BY <1>1, <1>5, <1>8, <1>9
<1> QED
  BY <1>9, <1>10, <1>11, <1>12, <1>13

(* ... -I with a position ...                                              *)
LEMMA InsertRuleEffect ==
    ASSUME Tables, NEW f \in Families, NEW c \in ChainNames, NEW r \in Rules,
           NEW p \in Nat \ {0}, InsertRule(f, c, r, p)
    PROVE  /\ Tables'
           /\ jumps' = jumps /\ exists' = exists
           /\ c \in exists[f]
           /\ Len(rules'[f][c]) = Len(rules[f][c]) + 1
           /\ \A i \in 1..(p - 1) : rules'[f][c][i] = rules[f][c][i]
           /\ rules'[f][c][p] = r
           /\ \A i \in (p + 1)..(Len(rules[f][c]) + 1) : rules'[f][c][i] = rules[f][c][i - 1]
           /\ \A g \in Families, d \in ChainNames :
                 g # f \/ d # c => rules'[g][d] = rules[g][d]
<1>1. PICK s : s = rules[f][c]
  OBVIOUS
<1>2. PICK t : IsInserted(t, s, r, p)
  BY DEF IsInserted
<1>3. s \in Seq(Rules) /\ p \in 1..(Len(s) + 1)
  BY <1>1 DEF Tables, InsertRule
<1>4. /\ t \in Seq(Rules)
      /\ Len(t) = Len(s) + 1
      /\ \A i \in 1..(p - 1) : t[i] = s[i]
      /\ t[p] = r
      /\ \A i \in (p + 1)..(Len(s) + 1) : t[i] = s[i - 1]
  BY <1>2, <1>3, Inserted
<1>5. rules' = [rules EXCEPT ![f][c] = t]
  BY <1>1, <1>2 DEF InsertRule, Tables, IsInserted
<1>6. /\ rules' \in [Families -> [ChainNames -> Seq(Rules)]]
      /\ rules'[f][c] = t
      /\ \A g \in Families, d \in ChainNames : g # f \/ d # c => rules'[g][d] = rules[g][d]
  <2>1. t \in Seq(Rules)
    BY <1>4
  <2> QED
    BY <1>5, <2>1 DEF Tables
<1>7. Tables' /\ jumps' = jumps /\ exists' = exists /\ c \in exists[f]
  BY <1>6 DEF InsertRule, Tables
<1> QED
  BY <1>1, <1>4, <1>6, <1>7

(* ... and the jump of a hook.                                             *)
LEMMA EnsureJumpEffect ==
    ASSUME Tables, faults \in Nat, MaxFaults \in Nat,
           NEW f \in Families, NEW h \in Hooks, EnsureJump(f, h)
    PROVE  /\ Tables'
           /\ rules' = rules /\ exists' = exists
           /\ h.chain \in exists[f]
           /\ jumps'[f][h] > 0
           /\ \/ faults' = faults /\ misread' = misread
                 /\ jumps'[f][h] = IF jumps[f][h] = 0 THEN 1 ELSE jumps[f][h]
              \/ faults' = faults + 1 /\ faults < MaxFaults /\ misread' = misread \cup {"jump"}
                 /\ jumps'[f][h] = jumps[f][h] + 1
           /\ \A g \in Families, i \in Hooks :
                 g # f \/ i # h => jumps'[g][i] = jumps[g][i]
<1>1. jumps[f][h] \in Nat
  BY DEF Tables
<1>2. rules' = rules /\ exists' = exists /\ h.chain \in exists[f]
  BY DEF EnsureJump, JumpPossible
<1>3. CASE /\ jumps' = [jumps EXCEPT ![f][h] = IF @ = 0 THEN 1 ELSE @]
           /\ UNCHANGED <<misread, faults>>
  BY <1>1, <1>2, <1>3 DEF Tables
<1>4. CASE /\ jumps[f][h] > 0 /\ faults < MaxFaults
           /\ faults' = faults + 1
           /\ misread' = misread \cup {"jump"}
           /\ jumps' = [jumps EXCEPT ![f][h] = @ + 1]
  BY <1>1, <1>2, <1>4 DEF Tables
<1> QED
  BY <1>3, <1>4 DEF EnsureJump

-----------------------------------------------------------------------------
(* The order of the allow rules: step n of AllowRules puts its chain's next *)
(* rule below the ones that are there. *)

AllowRecords == [chain : PolicyChains, rule : Rules, position : Nat]

IsJoined(u, s, t) == u = s \o t

(* The places of two sequences put together.                               *)
LEMMA Joined ==
    ASSUME NEW S, NEW s \in Seq(S), NEW t \in Seq(S), NEW u, IsJoined(u, s, t)
    PROVE  /\ u \in Seq(S)
           /\ Len(u) = Len(s) + Len(t)
           /\ \A i \in 1..Len(s) : u[i] = s[i]
           /\ \A i \in 1..Len(t) : u[i + Len(s)] = t[i]
<1>1. /\ u \in Seq(S)
      /\ Len(u) = Len(s) + Len(t)
      /\ \A i \in 1..(Len(s) + Len(t)) : u[i] = IF i <= Len(s) THEN s[i] ELSE t[i - Len(s)]
  BY ConcatProperties DEF IsJoined
<1>2. Len(s) \in Nat /\ Len(t) \in Nat
  OBVIOUS
<1>3. \A i \in 1..Len(s) : i \in 1..(Len(s) + Len(t)) /\ i <= Len(s)
  BY <1>2
<1>4. \A i \in 1..Len(t) : /\ i + Len(s) \in 1..(Len(s) + Len(t))
                           /\ ~(i + Len(s) <= Len(s))
                           /\ (i + Len(s)) - Len(s) = i
  BY <1>2
<1>5. \A i \in 1..Len(s) : u[i] = s[i]
  BY <1>1, <1>3
<1>6. \A i \in 1..Len(t) : u[i + Len(s)] = t[i]
  BY <1>1, <1>4
<1> QED
  BY <1>1, <1>5, <1>6

(* AllowRules, place by place: the replies, the endpoints of INPUT, those  *)
(* of FORWARD, the replies in.                                             *)
LEMMA AllowSteps ==
    ASSUME ranges \in Seq(Endpoints)
    PROVE  LET L == Len(ranges) IN
           /\ L \in Nat
           /\ AllowRules \in Seq(AllowRecords)
           /\ Len(AllowRules) = 2 * L + 2
           /\ AllowRules[1] = Allow("INPUT_CHAIN", AcceptReplies, 1)
           /\ \A i \in 1..L :
                 AllowRules[i + 1] = Allow("INPUT_CHAIN", AcceptEndpoint(ranges[i]), i + 1)
           /\ \A i \in 1..L :
                 AllowRules[i + L + 1] = Allow("FORWARD_CHAIN", AcceptEndpoint(ranges[i]), i)
           /\ AllowRules[2 * L + 2] = Allow("FORWARD_IN_CHAIN", AcceptReplies, 1)
<1> DEFINE L == Len(ranges)
<1>1. L \in Nat /\ ranges \in [1..L -> Endpoints]
  OBVIOUS
<1>2. /\ Allow("INPUT_CHAIN", AcceptReplies, 1) \in AllowRecords
      /\ Allow("FORWARD_IN_CHAIN", AcceptReplies, 1) \in AllowRecords
      /\ \A i \in 1..L : /\ Allow("INPUT_CHAIN", AcceptEndpoint(ranges[i]), i + 1) \in AllowRecords
                         /\ Allow("FORWARD_CHAIN", AcceptEndpoint(ranges[i]), i) \in AllowRecords
  <2>1. \A c \in PolicyChains, r \in PolicyRules, n \in Nat : Allow(c, r, n) \in AllowRecords
    BY RuleTypes DEF Allow, AllowRecords
  <2> QED
    BY <1>1, <2>1, RuleTypes, ChainNumbers
<1>3. PICK a : a = <<Allow("INPUT_CHAIN", AcceptReplies, 1)>>
  OBVIOUS
<1>4. PICK b : b = [i \in 1..L |-> Allow("INPUT_CHAIN", AcceptEndpoint(ranges[i]), i + 1)]
  OBVIOUS
<1>5. PICK c : c = [i \in 1..L |-> Allow("FORWARD_CHAIN", AcceptEndpoint(ranges[i]), i)]
  OBVIOUS
<1>6. PICK d : d = <<Allow("FORWARD_IN_CHAIN", AcceptReplies, 1)>>
  OBVIOUS
<1>7. AllowRules = a \o b \o c \o d
  BY <1>3, <1>4, <1>5, <1>6 DEF AllowRules
<1>8. a \in Seq(AllowRecords) /\ Len(a) = 1 /\ a[1] = Allow("INPUT_CHAIN", AcceptReplies, 1)
  BY <1>2, <1>3
<1>9. /\ b \in Seq(AllowRecords) /\ Len(b) = L
      /\ \A i \in 1..L : b[i] = Allow("INPUT_CHAIN", AcceptEndpoint(ranges[i]), i + 1)
  BY <1>1, <1>2, <1>4
<1>10. /\ c \in Seq(AllowRecords) /\ Len(c) = L
       /\ \A i \in 1..L : c[i] = Allow("FORWARD_CHAIN", AcceptEndpoint(ranges[i]), i)
  BY <1>1, <1>2, <1>5
<1>11. d \in Seq(AllowRecords) /\ Len(d) = 1 /\ d[1] = Allow("FORWARD_IN_CHAIN", AcceptReplies, 1)
  BY <1>2, <1>6
<1> HIDE DEF L
<1>12. PICK e : IsJoined(e, a, b)
  BY DEF IsJoined
<1>13. PICK g : IsJoined(g, e, c)
  BY DEF IsJoined
<1>14. IsJoined(AllowRules, g, d)
  BY <1>7, <1>12, <1>13 DEF IsJoined
<1>15. /\ e \in Seq(AllowRecords) /\ Len(e) = L + 1
       /\ e[1] = a[1]
       /\ \A i \in 1..L : e[i + 1] = b[i]
  <2>1. /\ e \in Seq(AllowRecords) /\ Len(e) = Len(a) + Len(b)
        /\ \A i \in 1..Len(a) : e[i] = a[i]
        /\ \A i \in 1..Len(b) : e[i + Len(a)] = b[i]
    <3>1. a \in Seq(AllowRecords) /\ b \in Seq(AllowRecords)
      BY <1>8, <1>9
    <3> QED
      BY <1>12, <3>1, Joined
  <2> QED
    BY <1>1, <1>8, <1>9, <2>1
<1>16. /\ g \in Seq(AllowRecords) /\ Len(g) = 2 * L + 1
       /\ g[1] = a[1]
       /\ \A i \in 1..L : g[i + 1] = b[i]
       /\ \A i \in 1..L : g[i + L + 1] = c[i]
  <2>1. /\ g \in Seq(AllowRecords) /\ Len(g) = Len(e) + Len(c)
        /\ \A i \in 1..Len(e) : g[i] = e[i]
        /\ \A i \in 1..Len(c) : g[i + Len(e)] = c[i]
    <3>1. e \in Seq(AllowRecords) /\ c \in Seq(AllowRecords)
      BY <1>10, <1>15
    <3> QED
      BY <1>13, <3>1, Joined
  <2>2. \A i \in 1..L : i + 1 \in 1..Len(e) /\ i + Len(e) = i + L + 1
    BY <1>1, <1>15
  <2>3. Len(g) = 2 * L + 1 /\ 1 \in 1..Len(e)
    BY <1>1, <1>10, <1>15, <2>1
  <2> QED
    BY <1>10, <1>15, <2>1, <2>2, <2>3
<1>17. /\ AllowRules \in Seq(AllowRecords) /\ Len(AllowRules) = 2 * L + 2
       /\ AllowRules[1] = a[1]
       /\ \A i \in 1..L : AllowRules[i + 1] = b[i]
       /\ \A i \in 1..L : AllowRules[i + L + 1] = c[i]
       /\ AllowRules[2 * L + 2] = d[1]
  <2>1. /\ AllowRules \in Seq(AllowRecords) /\ Len(AllowRules) = Len(g) + Len(d)
        /\ \A i \in 1..Len(g) : AllowRules[i] = g[i]
        /\ \A i \in 1..Len(d) : AllowRules[i + Len(g)] = d[i]
    <3>1. g \in Seq(AllowRecords) /\ d \in Seq(AllowRecords)
      BY <1>11, <1>16
    <3> QED
      BY <1>14, <3>1, Joined
  <2>2. \A i \in 1..L : i + 1 \in 1..Len(g) /\ i + L + 1 \in 1..Len(g)
    BY <1>1, <1>16
  <2>3. /\ Len(AllowRules) = 2 * L + 2 /\ 1 \in 1..Len(g)
        /\ 1 \in 1..Len(d) /\ 1 + Len(g) = 2 * L + 2
    BY <1>1, <1>11, <1>16, <2>1
  <2> QED
    BY <1>16, <2>1, <2>2, <2>3
<1> QED
  BY <1>1, <1>8, <1>9, <1>10, <1>11, <1>17 DEF L

(* Each allow rule goes in right below those its chain already has.        *)
LEMMA AllowInOrder ==
    ASSUME ranges \in Seq(Endpoints), NEW n \in 1..(2 * Len(ranges) + 2)
    PROVE  LET allow == AllowRules[n] IN
           /\ allow.chain \in PolicyChains
           /\ allow.rule \in PolicyRules
           /\ Placed(allow.chain, n - 1) \in Nat
           /\ allow.position = Placed(allow.chain, n - 1) + 1
           /\ allow.rule = Allowed(allow.chain, allow.position)
           /\ Placed(allow.chain, n) = allow.position
           /\ \A c \in PolicyChains \ {allow.chain} : Placed(c, n) = Placed(c, n - 1)
<1> DEFINE L == Len(ranges)
<1>1. L \in Nat /\ ranges \in [1..L -> Endpoints]
  OBVIOUS
<1>2. /\ AllowRules[1] = Allow("INPUT_CHAIN", AcceptReplies, 1)
      /\ \A i \in 1..L :
            AllowRules[i + 1] = Allow("INPUT_CHAIN", AcceptEndpoint(ranges[i]), i + 1)
      /\ \A i \in 1..L :
            AllowRules[i + L + 1] = Allow("FORWARD_CHAIN", AcceptEndpoint(ranges[i]), i)
      /\ AllowRules[2 * L + 2] = Allow("FORWARD_IN_CHAIN", AcceptReplies, 1)
  BY AllowSteps
<1>3. \A c, r, p : Allow(c, r, p).chain = c /\ Allow(c, r, p).rule = r /\ Allow(c, r, p).position = p
  BY DEF Allow
<1>4. \A c \in PolicyChains : c = "INPUT_CHAIN" \/ c = "FORWARD_CHAIN" \/ c = "FORWARD_IN_CHAIN"
  BY ChainNumbers
<1>5. \A m : /\ Placed("INPUT_CHAIN", m) = IF m <= L + 1 THEN m ELSE L + 1
             /\ Placed("FORWARD_CHAIN", m) =
                   IF m <= L + 1 THEN 0 ELSE IF m <= 2 * L + 1 THEN m - L - 1 ELSE L
             /\ Placed("FORWARD_IN_CHAIN", m) = IF m <= 2 * L + 1 THEN 0 ELSE 1
  BY DEF Placed
<1>6. \A i : /\ Allowed("INPUT_CHAIN", i) =
                   IF i > 1 THEN AcceptEndpoint(ranges[i - 1]) ELSE AcceptReplies
             /\ Allowed("FORWARD_CHAIN", i) = AcceptEndpoint(ranges[i])
             /\ Allowed("FORWARD_IN_CHAIN", i) = AcceptReplies
  BY DEF Allowed
<1>7. n \in Int
  OBVIOUS
<1> HIDE DEF L
<1>8. CASE n = 1
  <2>1. /\ AllowRules[n].chain = "INPUT_CHAIN" /\ AllowRules[n].rule = AcceptReplies
        /\ AllowRules[n].position = 1
    BY <1>2, <1>3, <1>8
  <2> QED
    BY <1>1, <1>4, <1>5, <1>6, <1>8, <2>1, RuleTypes, ChainNumbers
<1>9. CASE n \in 2..(L + 1)
  <2>1. n - 1 \in 1..L /\ (n - 1) + 1 = n
    BY <1>1, <1>9
  <2>2. /\ AllowRules[n].chain = "INPUT_CHAIN"
        /\ AllowRules[n].rule = AcceptEndpoint(ranges[n - 1])
        /\ AllowRules[n].position = n
    BY <1>2, <1>3, <2>1
  <2>3. AcceptEndpoint(ranges[n - 1]) \in PolicyRules
    BY <1>1, <2>1, RuleTypes
  <2> QED
    BY <1>1, <1>4, <1>5, <1>6, <1>9, <2>1, <2>2, <2>3, ChainNumbers
<1>10. CASE n \in (L + 2)..(2 * L + 1)
  <2>1. n - L - 1 \in 1..L /\ (n - L - 1) + L + 1 = n
    BY <1>1, <1>10
  <2>2. /\ AllowRules[n].chain = "FORWARD_CHAIN"
        /\ AllowRules[n].rule = AcceptEndpoint(ranges[n - L - 1])
        /\ AllowRules[n].position = n - L - 1
    BY <1>2, <1>3, <2>1
  <2>3. AcceptEndpoint(ranges[n - L - 1]) \in PolicyRules
    BY <1>1, <2>1, RuleTypes
  <2> QED
    BY <1>1, <1>4, <1>5, <1>6, <1>10, <2>1, <2>2, <2>3, ChainNumbers
<1>11. CASE n = 2 * L + 2
  <2>1. /\ AllowRules[n].chain = "FORWARD_IN_CHAIN" /\ AllowRules[n].rule = AcceptReplies
        /\ AllowRules[n].position = 1
    BY <1>2, <1>3, <1>11
  <2> QED
    BY <1>1, <1>4, <1>5, <1>6, <1>11, <2>1, RuleTypes, ChainNumbers
<1> QED
  <2>1. n \in 1..(2 * L + 2)
    BY DEF L
  <2> QED
    BY <1>1, <1>8, <1>9, <1>10, <1>11, <2>1

-----------------------------------------------------------------------------
(* Types, and the place of the script.                                     *)

(* What the step lemmas need of the types.                                 *)
LEMMA Basics ==
    ASSUME TypeOK, TablesInv
    PROVE  /\ Tables
           /\ faults \in Nat /\ faults <= MaxFaults /\ MaxFaults \in Nat
           /\ ranges \in Seq(Endpoints)
<1>1. jumps \in [Families -> [Hooks -> Nat]]
  <2>1. jumps \in [Families -> [Hooks -> 0..(MaxFaults + 1)]]
    BY DEF TypeOK
  <2>2. 0..(MaxFaults + 1) \subseteq Nat
    BY FaultsAssumption
  <2> QED
    BY <2>1, <2>2
<1>2. ranges \in Seq(Endpoints)
  <2>1. <<>> \in Seq(Endpoints)
    OBVIOUS
  <2>2. ranges \in Configs \cup {<<>>}
    BY DEF TypeOK
  <2> QED
    BY <2>1, <2>2, ConfigsAssumption
<1> QED
  BY <1>1, <1>2, FaultsAssumption DEF TypeOK, TablesInv, Tables

(* Every step leaves the loops within their bounds.                        *)
LEMMA PlaceStep ==
    ASSUME TypeOK, TablesInv, PlaceInv, [Next]_vars
    PROVE  PlaceInv'
<1> USE DEF PlaceInv, SetupSteps, TeardownSteps, LoopSteps, job, tables
<1>1. CASE StartSetup
  BY <1>1 DEF StartSetup, TypeOK
<1>2. CASE EnsureBridgeNetfilter
  BY <1>2 DEF EnsureBridgeNetfilter
<1>3. CASE RemoveLegacyRules
  BY <1>3 DEF RemoveLegacyRules
<1>4. CASE CreateChain
  BY <1>4 DEF CreateChain
<1>5. CASE CloseChain
  <2>1. PICK L : L = Len(ranges) /\ L \in Nat
    BY Basics
  <2> QED
    BY <1>5, <2>1, ChainFacts DEF CloseChain, TypeOK, Families
<1>6. CASE InsertAllow
  <2>1. Len(AllowRules) = 2 * Len(ranges) + 2 /\ Len(ranges) \in Nat
    BY Basics, AllowSteps
  <2> QED
    BY <1>6, <2>1 DEF InsertAllow, TypeOK
<1>7. CASE EnsureDockerUser
  BY <1>7 DEF EnsureDockerUser
<1>8. CASE EnsureHook
  BY <1>8, ChainFacts DEF EnsureHook, TypeOK
<1>9. CASE CapChain
  BY <1>9 DEF CapChain
<1>10. CASE CapRule
  BY <1>10 DEF CapRule
<1>11. CASE CapJump
  BY <1>11 DEF CapJump, AfterCap
<1>12. CASE StartIpv6
  BY <1>12 DEF StartIpv6
<1>13. CASE CommandFails
  BY <1>13 DEF CommandFails, AfterCap
<1>14. CASE StartTeardown
  BY <1>14 DEF StartTeardown
<1>15. CASE RemoveAllHooks
  BY <1>15 DEF RemoveAllHooks
<1>16. CASE FlushChain
  BY <1>16, ChainFacts DEF FlushChain, NextChain, TypeOK, Families
<1>17. CASE DeleteChain
  BY <1>17, ChainFacts DEF DeleteChain, NextChain, TypeOK, Families
<1>18. CASE TeardownIpv6
  BY <1>18 DEF TeardownIpv6
<1>19. CASE FinishTeardown
  BY <1>19 DEF FinishTeardown
<1>20. CASE Killed
  BY <1>20 DEF Killed
<1>21. CASE TablesFlushed
  BY <1>21 DEF TablesFlushed
<1>22. CASE DockerRestarts \/ NetworkChanges
  BY <1>22 DEF DockerRestarts, NetworkChanges
<1>23. CASE UNCHANGED vars
  BY <1>23 DEF vars
<1> QED
  BY <1>1, <1>2, <1>3, <1>4, <1>5, <1>6, <1>7, <1>8, <1>9, <1>10, <1>11, <1>12, <1>13, <1>14,
     <1>15, <1>16, <1>17, <1>18, <1>19, <1>20, <1>21, <1>22, <1>23
     DEF Next, SetupStep, TeardownStep

(* The variables that are true or false.                                   *)
LEMMA BooleansStep ==
    ASSUME TypeOK, [Next]_vars
    PROVE  /\ reach' \in BOOLEAN /\ legacy' \in BOOLEAN /\ disturbed' \in BOOLEAN
           /\ bridgeNf' \in [Families -> BOOLEAN]
<1>1. /\ reach \in BOOLEAN /\ legacy \in BOOLEAN /\ disturbed \in BOOLEAN
      /\ bridgeNf \in [Families -> BOOLEAN]
  BY DEF TypeOK
<1>2. CASE StartSetup
  BY <1>2, <1>1, Zenon DEF StartSetup, tables
<1>3. CASE EnsureBridgeNetfilter
  BY <1>3, <1>1, Zenon DEF EnsureBridgeNetfilter, tables
<1>4. CASE RemoveLegacyRules
  BY <1>4, <1>1, Zenon DEF RemoveLegacyRules, DeleteLegacy
<1>5. CASE CreateChain
  BY <1>5, <1>1, Zenon DEF CreateChain, EnsureChain
<1>6. CASE CloseChain
  BY <1>6, <1>1, Zenon DEF CloseChain, AppendRule
<1>7. CASE InsertAllow
  BY <1>7, <1>1, Zenon DEF InsertAllow, InsertRule
<1>8. CASE EnsureDockerUser
  BY <1>8, <1>1, Zenon DEF EnsureDockerUser, tables
<1>9. CASE EnsureHook
  BY <1>9, <1>1, Zenon DEF EnsureHook, EnsureJump
<1>10. CASE CapChain
  BY <1>10, <1>1, Zenon DEF CapChain, EnsureChain
<1>11. CASE CapRule
  BY <1>11, <1>1, Zenon DEF CapRule, AppendRule
<1>12. CASE CapJump
  BY <1>12, <1>1, Zenon DEF CapJump, EnsureJump
<1>13. CASE StartIpv6
  BY <1>13, <1>1, Zenon DEF StartIpv6, tables
<1>14. CASE CommandFails
  BY <1>14, <1>1, Zenon DEF CommandFails, tables
<1>15. CASE StartTeardown
  BY <1>15, <1>1, Zenon DEF StartTeardown, tables
<1>16. CASE RemoveAllHooks
  BY <1>16, <1>1, Zenon DEF RemoveAllHooks, tables
<1>17. CASE FlushChain
  BY <1>17, <1>1, Zenon DEF FlushChain, tables
<1>18. CASE DeleteChain
  BY <1>18, <1>1, Zenon DEF DeleteChain, tables
<1>19. CASE TeardownIpv6
  BY <1>19, <1>1, Zenon DEF TeardownIpv6, tables
<1>20. CASE FinishTeardown
  BY <1>20, <1>1, Zenon DEF FinishTeardown, DeleteLegacy
<1>21. CASE Killed
  BY <1>21, <1>1, Zenon DEF Killed, tables
<1>22. CASE TablesFlushed
  BY <1>22, <1>1, Zenon DEF TablesFlushed, tables
<1>23. CASE DockerRestarts
  BY <1>23, <1>1, Zenon DEF DockerRestarts, tables
<1>24. CASE NetworkChanges
  BY <1>24, <1>1, Zenon DEF NetworkChanges, tables
<1>25. CASE UNCHANGED vars
  BY <1>25, <1>1, Zenon DEF vars, tables
<1> QED
  BY <1>2, <1>3, <1>4, <1>5, <1>6, <1>7, <1>8, <1>9, <1>10, <1>11, <1>12, <1>13, <1>14,
     <1>15, <1>16, <1>17, <1>18, <1>19, <1>20, <1>21, <1>22, <1>23, <1>24, <1>25
     DEF Next, SetupStep, TeardownStep

(* Those that hold a name, a set of names or a count.                      *)
LEMMA ScalarsStep ==
    ASSUME TypeOK, PlaceInv, [Next]_vars
    PROVE  /\ bridge' \in Bridges \cup {None} /\ target' \in Bridges \cup {None}
           /\ pc' \in Finished \cup SetupSteps \cup TeardownSteps
           /\ fam' \in Families
           /\ ranges' \in Configs \cup {<<>>}
           /\ warned' \subseteq {"netfilter", "cap", "cap6", "ip6"}
           /\ stuck' \subseteq ChainNames
           /\ misread' \subseteq {"jump", "chain", "ip6"}
           /\ faults' \in 0..MaxFaults
<1>0. /\ bridge \in Bridges \cup {None} /\ target \in Bridges \cup {None}
      /\ pc \in Finished \cup SetupSteps \cup TeardownSteps
      /\ fam \in Families /\ "ip" \in Families /\ "ip6" \in Families
      /\ ranges \in Configs \cup {<<>>}
      /\ warned \subseteq {"netfilter", "cap", "cap6", "ip6"}
      /\ stuck \subseteq ChainNames
      /\ misread \subseteq {"jump", "chain", "ip6"}
      /\ faults \in 0..MaxFaults /\ MaxFaults \in Nat
  BY FaultsAssumption DEF TypeOK, Families
<1> USE DEF Finished, SetupSteps, TeardownSteps, job
<1>1. CASE StartSetup
  BY <1>0, <1>1 DEF StartSetup
<1>2. CASE EnsureBridgeNetfilter
  BY <1>0, <1>2 DEF EnsureBridgeNetfilter
<1>3. CASE RemoveLegacyRules
  BY <1>0, <1>3 DEF RemoveLegacyRules, DeleteLegacy
<1>4. CASE CreateChain
  BY <1>0, <1>4 DEF CreateChain
<1>5. CASE CloseChain
  BY <1>0, <1>5 DEF CloseChain
<1>6. CASE InsertAllow
  BY <1>0, <1>6 DEF InsertAllow
<1>7. CASE EnsureDockerUser
  <2>1. UNCHANGED <<bridge, target, fam, ranges, warned, stuck, misread>>
    BY <1>7 DEF EnsureDockerUser
  <2>2. pc' = "hook" \/ pc' = "refused"
    BY <1>7, Zenon DEF EnsureDockerUser
  <2>3. faults' = faults \/ (faults < MaxFaults /\ faults' = faults + 1)
    BY <1>7, Zenon DEF EnsureDockerUser
  <2> QED
    BY <1>0, <2>1, <2>2, <2>3
<1>8. CASE EnsureHook
  <2>1. UNCHANGED <<bridge, target, fam, ranges, warned, stuck>>
    BY <1>8 DEF EnsureHook
  <2>2. pc' = "hook" \/ pc' = "capChain"
    BY <1>8 DEF EnsureHook
  <2>3. faults' = faults \/ (faults < MaxFaults /\ faults' = faults + 1)
    BY <1>8, Zenon DEF EnsureHook, EnsureJump
  <2>4. misread' = misread \/ misread' = misread \cup {"jump"}
    BY <1>8, Zenon DEF EnsureHook, EnsureJump
  <2>5. faults' \in 0..MaxFaults
    BY <1>0, <2>3
  <2> QED
    BY <1>0, <2>1, <2>2, <2>4, <2>5
<1>9. CASE CapChain
  BY <1>0, <1>9 DEF CapChain
<1>10. CASE CapRule
  BY <1>0, <1>10 DEF CapRule
<1>11. CASE CapJump
  <2>1. UNCHANGED <<bridge, target, fam, ranges, warned, stuck>>
    BY <1>11 DEF CapJump
  <2>2. pc' = "ipv6" \/ pc' = "applied"
    BY <1>11 DEF CapJump, AfterCap
  <2>3. faults' = faults \/ (faults < MaxFaults /\ faults' = faults + 1)
    BY <1>11, Zenon DEF CapJump, EnsureJump
  <2>4. misread' = misread \/ misread' = misread \cup {"jump"}
    BY <1>11, Zenon DEF CapJump, EnsureJump
  <2>5. faults' \in 0..MaxFaults
    BY <1>0, <2>3
  <2> QED
    BY <1>0, <2>1, <2>2, <2>4, <2>5
<1>12. CASE StartIpv6
  <2>1. UNCHANGED <<bridge, target, ranges, stuck, misread>>
    BY <1>12 DEF StartIpv6
  <2>2. (pc' = "create" \/ pc' = "applied") /\ (fam' = fam \/ fam' = "ip6")
    BY <1>12 DEF StartIpv6
  <2>3. warned' = warned \/ warned' = warned \cup {"ip6"}
    BY <1>12 DEF StartIpv6
  <2>4. faults' \in 0..MaxFaults
    BY <1>0, <1>12 DEF StartIpv6
  <2> QED
    BY <1>0, <2>1, <2>2, <2>3, <2>4
<1>13. CASE CommandFails
  <2>1. UNCHANGED <<bridge, target, fam, ranges, stuck, misread>>
    BY <1>13 DEF CommandFails
  <2>2. pc' = "failed" \/ pc' = "applied" \/ pc' = "ipv6"
    BY <1>13 DEF CommandFails, AfterCap
  <2>3. warned' = warned \/ \E w \in {"ip6", "cap", "cap6"} : warned' = warned \cup {w}
    BY <1>13 DEF CommandFails
  <2>4. faults' = faults \/ (faults < MaxFaults /\ faults' = faults + 1)
    <3>1. (Doomed \/ faults < MaxFaults) /\ faults' = IF Doomed THEN faults ELSE faults + 1
      BY <1>13 DEF CommandFails
    <3> QED
      BY <3>1, Zenon
  <2>5. faults' \in 0..MaxFaults
    BY <1>0, <2>4
  <2> QED
    BY <1>0, <2>1, <2>2, <2>3, <2>5
<1>14. CASE StartTeardown
  BY <1>0, <1>14 DEF StartTeardown
<1>15. CASE RemoveAllHooks
  BY <1>0, <1>15 DEF RemoveAllHooks
<1>16. CASE FlushChain
  BY <1>0, <1>16 DEF FlushChain, NextChain
<1>17. CASE DeleteChain
  <2>1. ALL_CHAINS[k] \in ChainNames
    BY <1>17, ChainNumbers DEF DeleteChain, PlaceInv
  <2>2. UNCHANGED <<bridge, target, fam, ranges, warned>>
    BY <1>17 DEF DeleteChain
  <2>3. stuck' = stuck \/ stuck' = stuck \cup {ALL_CHAINS[k]}
    BY <1>17, Zenon DEF DeleteChain
  <2>4. misread' = misread \/ misread' = misread \cup {"chain"}
    BY <1>17, Zenon DEF DeleteChain
  <2>5. pc' = "unhook" \/ pc' = "ipv6Down" \/ pc' = "legacyDown"
    BY <1>17 DEF DeleteChain, NextChain
  <2>6. faults' \in 0..MaxFaults
    BY <1>0, <1>17 DEF DeleteChain
  <2> QED
    BY <1>0, <2>1, <2>2, <2>3, <2>4, <2>5, <2>6
<1>18. CASE TeardownIpv6
  <2>1. UNCHANGED <<bridge, target, ranges, warned, stuck>>
    BY <1>18 DEF TeardownIpv6
  <2>2. (pc' = "unhook" \/ pc' = "legacyDown") /\ (fam' = fam \/ fam' = "ip6")
    BY <1>18 DEF TeardownIpv6
  <2>3. misread' = misread \/ misread' = misread \cup {"ip6"}
    BY <1>18 DEF TeardownIpv6
  <2>4. faults' \in 0..MaxFaults
    BY <1>0, <1>18 DEF TeardownIpv6
  <2> QED
    BY <1>0, <2>1, <2>2, <2>3, <2>4
<1>19. CASE FinishTeardown
  BY <1>0, <1>19 DEF FinishTeardown, DeleteLegacy
<1>20. CASE Killed
  BY <1>0, <1>20 DEF Killed, Fault
<1>21. CASE TablesFlushed
  BY <1>0, <1>21 DEF TablesFlushed, Fault
<1>22. CASE DockerRestarts
  BY <1>0, <1>22 DEF DockerRestarts
<1>23. CASE NetworkChanges
  BY <1>0, <1>23 DEF NetworkChanges, Fault
<1>24. CASE UNCHANGED vars
  BY <1>0, <1>24 DEF vars
<1> QED
  BY <1>1, <1>2, <1>3, <1>4, <1>5, <1>6, <1>7, <1>8, <1>9, <1>10, <1>11, <1>12, <1>13,
     <1>14, <1>15, <1>16, <1>17, <1>18, <1>19, <1>20, <1>21, <1>22, <1>23, <1>24
     DEF Next, SetupStep, TeardownStep

(* So the index keeps its type.                                            *)
LEMMA IndexStep ==
    ASSUME TypeOK, TablesInv, PlaceInv, [Next]_vars
    PROVE  k' \in 1..(2 * Len(ranges') + 4)
<1>0. k \in 1..(2 * Len(ranges) + 4) /\ Len(ranges) \in Nat
  BY Basics DEF TypeOK
<1>1. CASE StartSetup \/ StartTeardown
  <2>1. ranges' \in Configs \cup {<<>>} /\ k' = 1
    BY <1>1 DEF StartSetup, StartTeardown
  <2>2. <<>> \in Seq(Endpoints)
    OBVIOUS
  <2>3. Len(ranges') \in Nat
    BY <2>1, <2>2, ConfigsAssumption, LenProperties
  <2> QED
    BY <2>1, <2>3
<1>2. CASE EnsureBridgeNetfilter \/ RemoveLegacyRules \/ CreateChain \/ EnsureDockerUser
  BY <1>0, <1>2 DEF EnsureBridgeNetfilter, RemoveLegacyRules, CreateChain, EnsureDockerUser, job
<1>3. CASE CloseChain
  BY <1>0, <1>3, ChainFacts DEF CloseChain, PlaceInv
<1>4. CASE InsertAllow
  BY <1>0, <1>4, Basics, AllowSteps DEF InsertAllow, PlaceInv
<1>5. CASE EnsureHook
  BY <1>0, <1>5, ChainFacts DEF EnsureHook, PlaceInv
<1>6. CASE CapChain \/ CapRule \/ CapJump \/ StartIpv6 \/ CommandFails
  BY <1>0, <1>6 DEF CapChain, CapRule, CapJump, StartIpv6, CommandFails, job
<1>7. CASE RemoveAllHooks \/ TeardownIpv6 \/ FinishTeardown \/ Killed
  BY <1>0, <1>7 DEF RemoveAllHooks, TeardownIpv6, FinishTeardown, Killed, job
<1>8. CASE FlushChain
  BY <1>0, <1>8, ChainFacts DEF FlushChain, NextChain, PlaceInv
<1>9. CASE DeleteChain
  BY <1>0, <1>9, ChainFacts DEF DeleteChain, NextChain, PlaceInv
<1>10. CASE TablesFlushed \/ DockerRestarts \/ NetworkChanges
  BY <1>0, <1>10 DEF TablesFlushed, DockerRestarts, NetworkChanges, job
<1>11. CASE UNCHANGED vars
  BY <1>0, <1>11 DEF vars, job
<1> QED
  BY <1>1, <1>2, <1>3, <1>4, <1>5, <1>6, <1>7, <1>8, <1>9, <1>10, <1>11
     DEF Next, SetupStep, TeardownStep

-----------------------------------------------------------------------------
(* What each action does to the tables, place by place.                    *)

Untouched == UNCHANGED <<exists, rules, jumps>>

(* The steps that leave chains, rules and jumps alone.                     *)
LEMMA UntouchedBy ==
    ASSUME \/ StartSetup \/ EnsureBridgeNetfilter \/ RemoveLegacyRules \/ EnsureDockerUser
           \/ StartIpv6 \/ CommandFails \/ StartTeardown \/ TeardownIpv6 \/ FinishTeardown
           \/ Killed \/ DockerRestarts \/ NetworkChanges \/ UNCHANGED vars
    PROVE  Untouched
<1> USE DEF Untouched, tables
<1>1. CASE StartSetup \/ EnsureBridgeNetfilter \/ RemoveLegacyRules
  BY <1>1 DEF StartSetup, EnsureBridgeNetfilter, RemoveLegacyRules
<1>2. CASE EnsureDockerUser \/ StartIpv6 \/ CommandFails
  BY <1>2 DEF EnsureDockerUser, StartIpv6, CommandFails
<1>3. CASE StartTeardown \/ TeardownIpv6 \/ FinishTeardown
  BY <1>3 DEF StartTeardown, TeardownIpv6, FinishTeardown
<1>4. CASE Killed \/ DockerRestarts \/ NetworkChanges \/ UNCHANGED vars
  BY <1>4 DEF Killed, DockerRestarts, NetworkChanges, vars
<1> QED
  BY <1>1, <1>2, <1>3, <1>4

Flushed(f, c) ==
    /\ c \in ChainNames /\ f \in Families
    /\ exists'[f] = exists[f] \cup {c}
    /\ \A g \in Families : g # f => exists'[g] = exists[g]
    /\ rules'[f][c] = <<>>
    /\ \A g \in Families, d \in ChainNames : g # f \/ d # c => rules'[g][d] = rules[g][d]
    /\ jumps' = jumps

Added(f, c, r) ==
    /\ c \in ChainNames /\ f \in Families /\ r \in Rules
    /\ c \in exists[f] /\ exists' = exists
    /\ rules'[f][c] = Append(rules[f][c], r)
    /\ Len(rules'[f][c]) = Len(rules[f][c]) + 1
    /\ \A i \in 1..Len(rules[f][c]) : rules'[f][c][i] = rules[f][c][i]
    /\ rules'[f][c][Len(rules[f][c]) + 1] = r
    /\ \A g \in Families, d \in ChainNames : g # f \/ d # c => rules'[g][d] = rules[g][d]
    /\ jumps' = jumps

InsertedAt(f, c, r, p) ==
    /\ c \in ChainNames /\ f \in Families /\ r \in Rules /\ p \in Nat \ {0}
    /\ c \in exists[f] /\ exists' = exists
    /\ p <= Len(rules[f][c]) + 1
    /\ Len(rules'[f][c]) = Len(rules[f][c]) + 1
    /\ \A i \in 1..(p - 1) : rules'[f][c][i] = rules[f][c][i]
    /\ rules'[f][c][p] = r
    /\ \A i \in (p + 1)..(Len(rules[f][c]) + 1) : rules'[f][c][i] = rules[f][c][i - 1]
    /\ \A g \in Families, d \in ChainNames : g # f \/ d # c => rules'[g][d] = rules[g][d]
    /\ jumps' = jumps

HookedTo(f, h) ==
    /\ f \in Families /\ h \in Hooks /\ h.chain \in exists[f]
    /\ exists' = exists /\ rules' = rules
    /\ jumps'[f][h] > 0
    /\ \/ /\ faults' = faults /\ misread' = misread
          /\ jumps'[f][h] = IF jumps[f][h] = 0 THEN 1 ELSE jumps[f][h]
       \/ /\ faults' = faults + 1 /\ misread' = misread \cup {"jump"}
          /\ jumps'[f][h] = jumps[f][h] + 1
    /\ \A g \in Families, i \in Hooks : g # f \/ i # h => jumps'[g][i] = jumps[g][i]

Unhooked(f, c) ==
    /\ f \in Families /\ c \in ChainNames
    /\ exists' = exists /\ rules' = rules
    /\ faults' = faults \/ faults' = faults + 1
    /\ \A h \in Hooks : \/ jumps'[f][h] = jumps[f][h]
                        \/ h.chain = c /\ jumps'[f][h] = 0
    /\ faults' = faults => \A h \in Hooks : h.chain = c => jumps'[f][h] = 0
    /\ \A g \in Families, h \in Hooks : g # f => jumps'[g][h] = jumps[g][h]

Emptied(f, c) ==
    /\ f \in Families /\ c \in ChainNames
    /\ exists' = exists /\ jumps' = jumps
    /\ \/ rules'[f][c] = <<>>
       \/ rules'[f][c] = rules[f][c] /\ faults' = faults + 1
    /\ \A g \in Families, d \in ChainNames : g # f \/ d # c => rules'[g][d] = rules[g][d]

Gone(f, c) ==
    /\ f \in Families /\ c \in ChainNames
    /\ rules' = rules /\ jumps' = jumps
    /\ \/ exists' = exists /\ c \in exists[f]
       \/ /\ exists'[f] = exists[f] \ {c}
          /\ c \in exists[f] => Deletable(f, c)
          /\ \A g \in Families : g # f => exists'[g] = exists[g]

AllGone ==
    \A f \in Families :
        /\ exists'[f] = {}
        /\ \A c \in ChainNames : rules'[f][c] = <<>>
        /\ \A h \in Hooks : jumps'[f][h] = 0

(* The steps that do not, by what they do to a chain: setup flushes it,    *)
(* ...                                                                     *)
LEMMA CreateChainEffect ==
    ASSUME TypeOK, TablesInv, PlaceInv, CreateChain
    PROVE  k \in 1..3 /\ CHAINS[k] \in PolicyChains /\ Tables' /\ Flushed(fam, CHAINS[k])
<1>1. k \in 1..3 /\ CHAINS[k] \in PolicyChains /\ CHAINS[k] \in ChainNames /\ fam \in Families
  BY ChainNumbers DEF CreateChain, PlaceInv, TypeOK
<1>2. EnsureChain(fam, CHAINS[k])
  BY DEF CreateChain
<1> QED
  BY <1>1, <1>2, Basics, EnsureChainEffect DEF Flushed

(* ... the cap's as well, ...                                              *)
LEMMA CapChainEffect ==
    ASSUME TypeOK, TablesInv, PlaceInv, CapChain
    PROVE  Tables' /\ Flushed(fam, Cap)
<1>1. Cap \in ChainNames /\ fam \in Families
  BY ChainNumbers DEF TypeOK
<1>2. EnsureChain(fam, Cap)
  BY DEF CapChain, Cap
<1> QED
  BY <1>1, <1>2, Basics, EnsureChainEffect DEF Flushed

(* ... ends it with a DROP, ...                                            *)
LEMMA CloseChainEffect ==
    ASSUME TypeOK, TablesInv, PlaceInv, CloseChain
    PROVE  k \in 1..3 /\ CHAINS[k] \in PolicyChains /\ Tables' /\ Added(fam, CHAINS[k], Drop)
<1>1. k \in 1..3 /\ CHAINS[k] \in PolicyChains /\ CHAINS[k] \in ChainNames /\ fam \in Families
  BY ChainNumbers DEF CloseChain, PlaceInv, TypeOK
<1>2. PICK c, r : c = CHAINS[k] /\ r = Drop
  OBVIOUS
<1>3. AppendRule(fam, c, r) /\ r \in Rules /\ c \in ChainNames
  BY <1>1, <1>2, RuleTypes DEF CloseChain
<1>4. Tables
  BY Basics
<1>5. Tables' /\ Added(fam, c, r)
  BY <1>1, <1>3, <1>4, AppendRuleEffect DEF Added
<1> QED
  BY <1>1, <1>2, <1>5

(* ... gives the cap its rule, ...                                         *)
LEMMA CapRuleEffect ==
    ASSUME TypeOK, TablesInv, PlaceInv, CapRule
    PROVE  Tables' /\ Added(fam, Cap, DropOverCap)
<1>1. Cap \in ChainNames /\ fam \in Families
  BY ChainNumbers DEF TypeOK
<1>2. AppendRule(fam, Cap, DropOverCap) /\ DropOverCap \in Rules
  BY RuleTypes DEF CapRule, Cap
<1> QED
  BY <1>1, <1>2, Basics, AppendRuleEffect DEF Added

(* ... inserts an allow rule in its place, ...                             *)
LEMMA InsertAllowEffect ==
    ASSUME TypeOK, TablesInv, PlaceInv, InsertAllow
    PROVE  /\ k \in 1..(2 * Len(ranges) + 2) /\ fam = "ip" /\ Tables'
           /\ LET allow == AllowRules[k] IN
              /\ allow.chain \in PolicyChains /\ allow.rule \in PolicyRules
              /\ InsertedAt("ip", allow.chain, allow.rule, allow.position)
<1>1. k \in 1..(2 * Len(ranges) + 2) /\ fam = "ip" /\ "ip" \in Families
  BY DEF InsertAllow, PlaceInv, Families
<1>2. PICK c, r, p : c = AllowRules[k].chain /\ r = AllowRules[k].rule /\ p = AllowRules[k].position
  OBVIOUS
<1>3. c \in PolicyChains /\ r \in PolicyRules /\ p \in Nat \ {0}
  BY <1>1, <1>2, Basics, AllowInOrder
<1>4. InsertRule("ip", c, r, p)
  BY <1>2 DEF InsertAllow
<1>5. c \in ChainNames /\ r \in Rules
  BY <1>3, ChainNumbers, RuleTypes
<1>6. p <= Len(rules["ip"][c]) + 1
  BY <1>4 DEF InsertRule
<1>7. Tables' /\ InsertedAt("ip", c, r, p)
  <2>1. Tables
    BY Basics
  <2>2. "ip" \in Families /\ p \in Nat \ {0}
    BY <1>1, <1>3
  <2>3. Tables' /\ jumps' = jumps /\ exists' = exists /\ c \in exists["ip"]
    BY <1>4, <1>5, <2>1, <2>2, InsertRuleEffect
  <2>4. /\ Len(rules'["ip"][c]) = Len(rules["ip"][c]) + 1
        /\ \A i \in 1..(p - 1) : rules'["ip"][c][i] = rules["ip"][c][i]
        /\ rules'["ip"][c][p] = r
        /\ \A i \in (p + 1)..(Len(rules["ip"][c]) + 1) :
              rules'["ip"][c][i] = rules["ip"][c][i - 1]
        /\ \A g \in Families, d \in ChainNames :
              g # "ip" \/ d # c => rules'[g][d] = rules[g][d]
    BY <1>4, <1>5, <2>1, <2>2, InsertRuleEffect
  <2> QED
    BY <1>5, <1>6, <2>2, <2>3, <2>4 DEF InsertedAt
<1> QED
  BY <1>1, <1>2, <1>3, <1>7

(* ... hooks a chain to the bridge it was started for, ...                 *)
LEMMA EnsureHookEffect ==
    ASSUME TypeOK, TablesInv, PlaceInv, EnsureHook
    PROVE  /\ k \in 1..3 /\ CHAINS[k] \in PolicyChains /\ target \in Bridges /\ Tables'
           /\ HookOf(CHAINS[k], target).chain = CHAINS[k]
           /\ HookedTo(fam, HookOf(CHAINS[k], target))
<1>1. /\ k \in 1..3 /\ CHAINS[k] \in PolicyChains /\ fam \in Families
      /\ target \in Bridges
  BY ChainNumbers DEF EnsureHook, PlaceInv, TypeOK, SetupSteps
<1>2. /\ HookOf(CHAINS[k], target) \in Hooks
      /\ HookOf(CHAINS[k], target).chain = CHAINS[k]
  BY <1>1, HookFacts
<1>3. EnsureJump(fam, HookOf(CHAINS[k], target))
  BY DEF EnsureHook
<1>4. PICK h : h = HookOf(CHAINS[k], target)
  OBVIOUS
<1>5. h \in Hooks /\ EnsureJump(fam, h)
  BY <1>2, <1>3, <1>4
<1>6. Tables' /\ HookedTo(fam, h)
  BY <1>1, <1>5, Basics, EnsureJumpEffect DEF HookedTo
<1> QED
  BY <1>1, <1>2, <1>4, <1>6

(* ... and hooks the cap; ...                                              *)
LEMMA CapJumpEffect ==
    ASSUME TypeOK, TablesInv, PlaceInv, CapJump
    PROVE  Tables' /\ HookedTo(fam, HookOf(Cap, "ssh"))
<1>1. PICK h : h = HookOf(Cap, "ssh")
  OBVIOUS
<1>2. h \in Hooks /\ EnsureJump(fam, h) /\ fam \in Families
  BY <1>1, HookFacts DEF CapJump, Cap, TypeOK
<1>3. Tables' /\ HookedTo(fam, h)
  BY <1>2, Basics, EnsureJumpEffect DEF HookedTo
<1> QED
  BY <1>1, <1>3

(* ... teardown unhooks a chain, ...                                       *)
LEMMA RemoveAllHooksEffect ==
    ASSUME TypeOK, TablesInv, PlaceInv, RemoveAllHooks
    PROVE  k \in 1..4 /\ Tables' /\ Unhooked(fam, ALL_CHAINS[k])
<1>1. k \in 1..4 /\ ALL_CHAINS[k] \in ChainNames /\ fam \in Families
  BY ChainNumbers DEF RemoveAllHooks, PlaceInv, TypeOK
<1>2. PICK c : c = ALL_CHAINS[k]
  OBVIOUS
<1>3. PICK kept \in SUBSET JumpsTo(fam, c) :
          /\ faults' = IF kept = {} THEN faults ELSE faults + 1
          /\ jumps' = [jumps EXCEPT ![fam] =
                [h \in Hooks |-> IF h \in JumpsTo(fam, c) \ kept THEN 0 ELSE @[h]]]
  BY <1>2 DEF RemoveAllHooks
<1>4. jumps \in [Families -> [Hooks -> Nat]] /\ faults \in Nat
  BY Basics DEF Tables
<1>5. /\ \A h \in Hooks : jumps'[fam][h] =
                              IF h \in JumpsTo(fam, c) \ kept THEN 0 ELSE jumps[fam][h]
      /\ \A g \in Families, h \in Hooks : g # fam => jumps'[g][h] = jumps[g][h]
      /\ jumps' \in [Families -> [Hooks -> Nat]]
  BY <1>1, <1>3, <1>4
<1>6. \A h \in Hooks : h \in JumpsTo(fam, c) <=> h.chain = c /\ jumps[fam][h] > 0
  BY DEF JumpsTo
<1>7. faults' = faults => kept = {}
  BY <1>3, <1>4
<1>8. \A h \in Hooks : jumps'[fam][h] = jumps[fam][h] \/ (h.chain = c /\ jumps'[fam][h] = 0)
  BY <1>5, <1>6
<1>9. faults' = faults => \A h \in Hooks : h.chain = c => jumps'[fam][h] = 0
  BY <1>1, <1>4, <1>5, <1>6, <1>7
<1>10. exists' = exists /\ rules' = rules
  BY DEF RemoveAllHooks
<1>11. Tables'
  BY <1>5, <1>10, Basics DEF Tables
<1>12. Unhooked(fam, c)
  BY <1>1, <1>2, <1>3, <1>5, <1>8, <1>9, <1>10 DEF Unhooked
<1> QED
  BY <1>1, <1>2, <1>11, <1>12

(* ... empties it, ...                                                     *)
LEMMA FlushChainEffect ==
    ASSUME TypeOK, TablesInv, PlaceInv, FlushChain
    PROVE  k \in 1..4 /\ Tables' /\ Emptied(fam, ALL_CHAINS[k])
<1>1. k \in 1..4 /\ ALL_CHAINS[k] \in ChainNames /\ fam \in Families
  BY ChainNumbers DEF FlushChain, PlaceInv, TypeOK
<1>2. PICK c : c = ALL_CHAINS[k]
  OBVIOUS
<1>3. exists' = exists /\ jumps' = jumps
  BY DEF FlushChain
<1>4. \/ rules' = [rules EXCEPT ![fam][c] = <<>>]
      \/ rules' = rules /\ faults' = faults + 1
  BY <1>2 DEF FlushChain
<1>5. CASE rules' = [rules EXCEPT ![fam][c] = <<>>]
  <2>1. <<>> \in Seq(Rules) /\ c \in ChainNames
    BY <1>1, <1>2
  <2>2. /\ rules' \in [Families -> [ChainNames -> Seq(Rules)]]
        /\ rules'[fam][c] = <<>>
        /\ \A g \in Families, d \in ChainNames : g # fam \/ d # c => rules'[g][d] = rules[g][d]
    BY <1>1, <1>5, <2>1, Basics DEF Tables
  <2>3. Tables' /\ Emptied(fam, c)
    BY <1>1, <1>3, <2>1, <2>2, Basics DEF Tables, Emptied
  <2> QED
    BY <1>1, <1>2, <2>3
<1>6. CASE rules' = rules /\ faults' = faults + 1
  BY <1>1, <1>3, <1>6, Basics DEF Tables, Emptied
<1> QED
  BY <1>4, <1>5, <1>6

(* ... and deletes it if it can; ...                                       *)
LEMMA DeleteChainEffect ==
    ASSUME TypeOK, TablesInv, PlaceInv, DeleteChain
    PROVE  k \in 1..4 /\ Tables' /\ Gone(fam, ALL_CHAINS[k])
<1>1. k \in 1..4 /\ ALL_CHAINS[k] \in ChainNames /\ fam \in Families
  BY ChainNumbers DEF DeleteChain, PlaceInv, TypeOK
<1>2. PICK c : c = ALL_CHAINS[k]
  OBVIOUS
<1>3. rules' = rules /\ jumps' = jumps
  BY DEF DeleteChain
<1>4. \/ /\ c \notin exists[fam] \/ Deletable(fam, c)
         /\ exists' = [exists EXCEPT ![fam] = @ \ {c}]
      \/ exists' = exists /\ c \in exists[fam]
  BY <1>2 DEF DeleteChain
<1>5. exists \in [Families -> SUBSET ChainNames]
  BY Basics DEF Tables
<1>6. CASE /\ c \notin exists[fam] \/ Deletable(fam, c)
           /\ exists' = [exists EXCEPT ![fam] = @ \ {c}]
  <2>1. /\ exists' \in [Families -> SUBSET ChainNames]
        /\ exists'[fam] = exists[fam] \ {c}
        /\ \A g \in Families : g # fam => exists'[g] = exists[g]
    BY <1>1, <1>5, <1>6
  <2>2. Tables' /\ Gone(fam, c)
    BY <1>1, <1>2, <1>3, <1>6, <2>1, Basics DEF Tables, Gone
  <2> QED
    BY <1>1, <1>2, <2>2
<1>7. CASE exists' = exists /\ c \in exists[fam]
  BY <1>1, <1>2, <1>3, <1>7, Basics DEF Tables, Gone
<1> QED
  BY <1>4, <1>6, <1>7

(* ... and a reload takes everything.                                      *)
LEMMA TablesFlushedEffect ==
    ASSUME TablesFlushed
    PROVE  Tables' /\ AllGone
<1>1. <<>> \in Seq(Rules) /\ 0 \in Nat
  OBVIOUS
<1>2. /\ exists' = [f \in Families |-> {}]
      /\ rules' = [f \in Families |-> [c \in ChainNames |-> <<>>]]
      /\ jumps' = [f \in Families |-> [h \in Hooks |-> 0]]
  BY DEF TablesFlushed
<1> QED
  BY <1>1, <1>2 DEF Tables, AllGone

(* Failures are only ever added. *)
LEMMA FaultsGrow ==
    ASSUME TypeOK, [Next]_vars
    PROVE  faults' \in Nat /\ faults <= faults'
<1>0. faults \in Nat
  BY FaultsAssumption DEF TypeOK
<1>1. ASSUME faults' \in {faults, faults + 1, faults + 2}
      PROVE  faults' \in Nat /\ faults <= faults'
  BY <1>0, <1>1
<1>2. CASE StartSetup
  <2>1. faults' = faults \/ faults' = faults + 1
    BY <1>2, Zenon DEF StartSetup
  <2> QED
    BY <1>1, <2>1
<1>3. CASE EnsureBridgeNetfilter
  <2>1. faults' = faults \/ faults' = faults + 1
    BY <1>3, Zenon DEF EnsureBridgeNetfilter
  <2> QED
    BY <1>1, <2>1
<1>4. CASE RemoveLegacyRules
  <2>1. faults' = faults \/ faults' = faults + 1
    BY <1>4, Zenon DEF RemoveLegacyRules, DeleteLegacy
  <2> QED
    BY <1>1, <2>1
<1>5. CASE CreateChain
  <2>1. faults' = faults \/ faults' = faults + 1
    BY <1>5, Zenon DEF CreateChain
  <2> QED
    BY <1>1, <2>1
<1>6. CASE CloseChain
  <2>1. faults' = faults \/ faults' = faults + 1
    BY <1>6, Zenon DEF CloseChain
  <2> QED
    BY <1>1, <2>1
<1>7. CASE InsertAllow
  <2>1. faults' = faults \/ faults' = faults + 1
    BY <1>7, Zenon DEF InsertAllow
  <2> QED
    BY <1>1, <2>1
<1>8. CASE EnsureDockerUser
  <2>1. faults' = faults \/ faults' = faults + 1
    BY <1>8, Zenon DEF EnsureDockerUser
  <2> QED
    BY <1>1, <2>1
<1>9. CASE EnsureHook
  <2>1. faults' = faults \/ faults' = faults + 1
    BY <1>9, Zenon DEF EnsureHook, EnsureJump
  <2> QED
    BY <1>1, <2>1
<1>10. CASE CapChain
  <2>1. faults' = faults \/ faults' = faults + 1
    BY <1>10, Zenon DEF CapChain
  <2> QED
    BY <1>1, <2>1
<1>11. CASE CapRule
  <2>1. faults' = faults \/ faults' = faults + 1
    BY <1>11, Zenon DEF CapRule
  <2> QED
    BY <1>1, <2>1
<1>12. CASE CapJump
  <2>1. faults' = faults \/ faults' = faults + 1
    BY <1>12, Zenon DEF CapJump, EnsureJump
  <2> QED
    BY <1>1, <2>1
<1>13. CASE StartIpv6
  <2>1. faults' = faults \/ faults' = faults + 1
    BY <1>13, Zenon DEF StartIpv6
  <2> QED
    BY <1>1, <2>1
<1>14. CASE CommandFails
  <2>1. faults' = faults \/ faults' = faults + 1
    BY <1>14, Zenon DEF CommandFails
  <2> QED
    BY <1>1, <2>1
<1>15. CASE StartTeardown
  <2>1. faults' = faults \/ faults' = faults + 1
    BY <1>15, Zenon DEF StartTeardown
  <2> QED
    BY <1>1, <2>1
<1>16. CASE RemoveAllHooks
  <2>1. faults' = faults \/ faults' = faults + 1
    BY <1>16, Zenon DEF RemoveAllHooks
  <2> QED
    BY <1>1, <2>1
<1>17. CASE FlushChain
  <2>1. faults' = faults \/ faults' = faults + 1
    BY <1>17, Zenon DEF FlushChain
  <2> QED
    BY <1>1, <2>1
<1>18. CASE DeleteChain
  BY <1>0, <1>18 DEF DeleteChain
<1>19. CASE TeardownIpv6
  <2>1. faults' = faults \/ faults' = faults + 1
    BY <1>19, Zenon DEF TeardownIpv6
  <2> QED
    BY <1>1, <2>1
<1>20. CASE FinishTeardown
  <2>1. faults' = faults \/ faults' = faults + 1
    BY <1>20, Zenon DEF FinishTeardown, DeleteLegacy
  <2> QED
    BY <1>1, <2>1
<1>21. CASE Killed
  <2>1. faults' = faults \/ faults' = faults + 1
    BY <1>21, Zenon DEF Killed, Fault
  <2> QED
    BY <1>1, <2>1
<1>22. CASE TablesFlushed
  <2>1. faults' = faults \/ faults' = faults + 1
    BY <1>22, Zenon DEF TablesFlushed, Fault
  <2> QED
    BY <1>1, <2>1
<1>23. CASE DockerRestarts
  <2>1. faults' = faults \/ faults' = faults + 1
    BY <1>23, Zenon DEF DockerRestarts
  <2> QED
    BY <1>1, <2>1
<1>24. CASE NetworkChanges
  <2>1. faults' = faults \/ faults' = faults + 1
    BY <1>24, Zenon DEF NetworkChanges, Fault
  <2> QED
    BY <1>1, <2>1
<1>25. CASE UNCHANGED vars
  BY <1>1, <1>25 DEF vars
<1> QED
  BY <1>2, <1>3, <1>4, <1>5, <1>6, <1>7, <1>8, <1>9, <1>10, <1>11, <1>12, <1>13, <1>14,
     <1>15, <1>16, <1>17, <1>18, <1>19, <1>20, <1>21, <1>22, <1>23, <1>24, <1>25
     DEF Next, SetupStep, TeardownStep

(* Whatever happens does one thing to one chain or hook, or takes them all *)
(* away, or leaves them alone. *)
LEMMA Effects ==
    ASSUME TypeOK, TablesInv, PlaceInv, [Next]_vars
    PROVE  /\ Tables'
           /\ \/ Untouched
              \/ AllGone
              \/ \E f \in Families, c \in ChainNames :
                    \/ Flushed(f, c) \/ Unhooked(f, c) \/ Emptied(f, c) \/ Gone(f, c)
                    \/ c \in PolicyChains /\ Added(f, c, Drop)
                    \/ c = Cap /\ Added(f, c, DropOverCap)
                    \/ c \in PolicyChains /\ \E r \in PolicyRules, p \in Nat \ {0} :
                                                InsertedAt(f, c, r, p)
              \/ \E f \in Families, h \in Hooks : HookedTo(f, h)
<1>1. ASSUME Untouched PROVE Tables'
  <2>1. Tables
    BY Basics
  <2> QED
    BY <1>1, <2>1 DEF Untouched, Tables
<1>2. CASE CreateChain
  BY <1>2, CreateChainEffect, ChainNumbers DEF Flushed
<1>3. CASE CapChain
  BY <1>3, CapChainEffect DEF Flushed
<1>4. CASE CloseChain
  BY <1>4, CloseChainEffect DEF Added
<1>5. CASE CapRule
  BY <1>5, CapRuleEffect DEF Added
<1>6. CASE InsertAllow
  BY <1>6, InsertAllowEffect DEF InsertedAt
<1>7. CASE EnsureHook
  BY <1>7, EnsureHookEffect DEF HookedTo
<1>8. CASE CapJump
  BY <1>8, CapJumpEffect DEF HookedTo
<1>9. CASE RemoveAllHooks
  BY <1>9, RemoveAllHooksEffect DEF Unhooked
<1>10. CASE FlushChain
  BY <1>10, FlushChainEffect DEF Emptied
<1>11. CASE DeleteChain
  BY <1>11, DeleteChainEffect DEF Gone
<1>12. CASE TablesFlushed
  BY <1>12, TablesFlushedEffect
<1> QED
  BY <1>1, <1>2, <1>3, <1>4, <1>5, <1>6, <1>7, <1>8, <1>9, <1>10, <1>11, <1>12, UntouchedBy
     DEF Next, SetupStep, TeardownStep

RuleGoal ==
    /\ \A f \in Families, c \in ChainNames : c \notin exists'[f] => rules'[f][c] = <<>>
    /\ \A f \in Families, c \in PolicyChains :
          \A i \in 1..Len(rules'[f][c]) : rules'[f][c][i] \in PolicyRules

(* Rules keep their types, and a chain that is gone holds none.            *)
LEMMA RulesStep ==
    ASSUME TypeOK, TablesInv, PlaceInv, [Next]_vars
    PROVE  RuleGoal
<1> USE DEF RuleGoal
<1>1. \A f \in Families, c \in ChainNames :
         /\ c \notin exists[f] => rules[f][c] = <<>>
         /\ rules[f][c] \in Seq(Rules) /\ Len(rules[f][c]) \in Nat
  BY DEF TypeOK
<1>2. \A f \in Families, c \in PolicyChains :
         \A i \in 1..Len(rules[f][c]) : rules[f][c][i] \in PolicyRules
  BY DEF TablesInv
<1>3. Len(<<>>) = 0 /\ \A i \in 1..0 : FALSE
  OBVIOUS
<1>4. PolicyChains \subseteq ChainNames /\ Cap \notin PolicyChains /\ Drop \in PolicyRules
  BY ChainNumbers, RuleTypes
<1>5. CASE Untouched
  BY <1>1, <1>2, <1>5 DEF Untouched
<1>6. CASE AllGone
  BY <1>3, <1>4, <1>6 DEF AllGone
<1>7. ASSUME NEW f \in Families, NEW c \in ChainNames, Flushed(f, c)
      PROVE  RuleGoal
  BY <1>1, <1>2, <1>3, <1>4, <1>7 DEF Flushed
<1>8. ASSUME NEW f \in Families, NEW c \in ChainNames, Unhooked(f, c) \/ Gone(f, c)
      PROVE  RuleGoal
  BY <1>1, <1>2, <1>3, <1>4, <1>8 DEF Unhooked, Gone, Deletable
<1>9. ASSUME NEW f \in Families, NEW c \in ChainNames, Emptied(f, c)
      PROVE  RuleGoal
  BY <1>1, <1>2, <1>3, <1>4, <1>9 DEF Emptied
<1>10. ASSUME NEW f \in Families, NEW c \in PolicyChains, Added(f, c, Drop)
       PROVE  RuleGoal
  <2>1. \A i \in 1..Len(rules'[f][c]) : rules'[f][c][i] \in PolicyRules
    BY <1>1, <1>2, <1>4, <1>10 DEF Added
  <2>2. /\ exists' = exists /\ c \in exists[f]
        /\ \A g \in Families, d \in ChainNames :
              rules'[g][d] = rules[g][d] \/ (g = f /\ d = c)
    BY <1>10 DEF Added
  <2> QED
    BY <1>1, <1>2, <1>4, <2>1, <2>2
<1>11. ASSUME NEW f \in Families, NEW c, c = Cap, Added(f, c, DropOverCap)
       PROVE  RuleGoal
  BY <1>1, <1>2, <1>4, <1>11, SMTT(30) DEF Added
<1>12. ASSUME NEW f \in Families, NEW c \in PolicyChains, NEW r \in PolicyRules,
              NEW p \in Nat \ {0}, InsertedAt(f, c, r, p)
       PROVE  RuleGoal
  <2>1. \A i \in 1..Len(rules'[f][c]) : rules'[f][c][i] \in PolicyRules
    <3> SUFFICES ASSUME NEW i \in 1..Len(rules'[f][c]) PROVE rules'[f][c][i] \in PolicyRules
      OBVIOUS
    <3>1. /\ Len(rules[f][c]) \in Nat /\ Len(rules'[f][c]) = Len(rules[f][c]) + 1
          /\ p <= Len(rules[f][c]) + 1
      BY <1>1, <1>4, <1>12 DEF InsertedAt
    <3>2. i \in 1..(p - 1) \/ i = p \/ i \in (p + 1)..(Len(rules[f][c]) + 1)
      BY <3>1
    <3>3. CASE i \in 1..(p - 1)
      <4>1. i \in 1..Len(rules[f][c])
        BY <3>1, <3>3
      <4>2. rules'[f][c][i] = rules[f][c][i]
        BY <1>12, <3>3, Zenon DEF InsertedAt
      <4> QED
        BY <1>2, <4>1, <4>2, Zenon
    <3>4. CASE i = p
      BY <1>12, <3>4 DEF InsertedAt
    <3>5. CASE i \in (p + 1)..(Len(rules[f][c]) + 1)
      <4>1. i - 1 \in 1..Len(rules[f][c])
        BY <3>1, <3>5
      <4>2. rules[f][c][i - 1] \in PolicyRules
        BY <1>2, <4>1
      <4>3. rules'[f][c][i] = rules[f][c][i - 1]
        BY <1>12, <3>5 DEF InsertedAt
      <4> QED
        BY <4>2, <4>3
    <3> QED
      BY <3>2, <3>3, <3>4, <3>5
  <2>2. /\ exists' = exists /\ c \in exists[f]
        /\ \A g \in Families, d \in ChainNames :
              rules'[g][d] = rules[g][d] \/ (g = f /\ d = c)
    BY <1>12 DEF InsertedAt
  <2> QED
    BY <1>1, <1>2, <1>4, <2>1, <2>2
<1>13. ASSUME NEW f \in Families, NEW h \in Hooks, HookedTo(f, h)
       PROVE  RuleGoal
  BY <1>1, <1>2, <1>13 DEF HookedTo
<1> QED
  BY <1>5, <1>6, <1>7, <1>8, <1>9, <1>10, <1>11, <1>12, <1>13, Effects

JumpGoal ==
    \A f \in Families, h \in Hooks :
        /\ jumps'[f][h] \in Nat /\ jumps'[f][h] <= faults' + 1
        /\ h.chain \notin exists'[f] => jumps'[f][h] = 0

(* Jumps go to chains that are there; there is at most one more than there *)
(* were failures.                                                          *)
LEMMA JumpsStep ==
    ASSUME TypeOK, TablesInv, PlaceInv, [Next]_vars
    PROVE  JumpGoal
<1> USE DEF JumpGoal
<1>1. \A f \in Families, h \in Hooks :
         /\ jumps[f][h] \in Nat /\ jumps[f][h] <= faults + 1
         /\ h.chain \notin exists[f] => jumps[f][h] = 0
         /\ h.chain \in ChainNames
  BY Basics, HookFacts DEF TablesInv, Tables
<1>2. faults \in Nat /\ faults' \in Nat /\ faults <= faults'
  BY Basics, FaultsGrow
<1>3. CASE Untouched
  BY <1>1, <1>2, <1>3 DEF Untouched
<1>4. CASE AllGone
  BY <1>2, <1>4 DEF AllGone
<1>5. ASSUME NEW f \in Families, NEW c \in ChainNames, Flushed(f, c)
      PROVE  JumpGoal
  BY <1>1, <1>2, <1>5 DEF Flushed
<1>6. ASSUME NEW f \in Families, NEW c \in ChainNames, Unhooked(f, c)
      PROVE  JumpGoal
  BY <1>1, <1>2, <1>6 DEF Unhooked
<1>7. ASSUME NEW f \in Families, NEW c \in ChainNames, Gone(f, c)
      PROVE  JumpGoal
  BY <1>1, <1>2, <1>7 DEF Gone, Deletable
<1>8. ASSUME NEW f \in Families, NEW c, NEW r, NEW p,
             Emptied(f, c) \/ Added(f, c, r) \/ InsertedAt(f, c, r, p)
      PROVE  JumpGoal
  BY <1>1, <1>2, <1>8 DEF Emptied, Added, InsertedAt
<1>9. ASSUME NEW f \in Families, NEW h \in Hooks, HookedTo(f, h)
      PROVE  JumpGoal
  BY <1>1, <1>2, <1>9 DEF HookedTo
<1> QED
  BY <1>3, <1>4, <1>5, <1>6, <1>7, <1>8, <1>9, Effects

(* The types are kept.                                                     *)
LEMMA TypeStep ==
    ASSUME TypeOK, TablesInv, PlaceInv, [Next]_vars
    PROVE  TypeOK' /\ TablesInv'
<1>1. /\ exists' \in [Families -> SUBSET ChainNames]
      /\ rules' \in [Families -> [ChainNames -> Seq(Rules)]]
      /\ jumps' \in [Families -> [Hooks -> Nat]]
  BY Effects DEF Tables
<1>2. jumps' \in [Families -> [Hooks -> 0..(MaxFaults + 1)]]
  <2>1. faults' \in Nat /\ faults' <= MaxFaults /\ MaxFaults \in Nat
    BY FaultsAssumption, ScalarsStep
  <2>2. \A f \in Families, h \in Hooks : jumps'[f][h] \in 0..(MaxFaults + 1)
    BY <2>1, <1>1, JumpsStep DEF JumpGoal
  <2> QED
    BY <1>1, <2>2
<1>3. TablesInv'
  BY <1>1, RulesStep, JumpsStep DEF TablesInv, RuleGoal, JumpGoal
<1>4. \A f \in Families, c \in ChainNames :
         rules'[f][c] \in Seq(Rules) /\ (c \notin exists'[f] => rules'[f][c] = <<>>)
  BY <1>1, RulesStep DEF RuleGoal
<1>5. k' \in 1..(2 * Len(ranges') + 4)
  BY IndexStep
<1> QED
  BY <1>1, <1>2, <1>3, <1>4, <1>5, BooleansStep, ScalarsStep DEF TypeOK

-----------------------------------------------------------------------------
(* What the chains of the run hold.                                        *)

(* The chain whose rebuild has begun holds only what this run put there.   *)
LEMMA FreshStep ==
    ASSUME TypeOK, TablesInv, PlaceInv, FreshInv, [Next]_vars
    PROVE  FreshInv'
<1> USE DEF FreshInv
<1>1. CASE CreateChain
  BY <1>1, CreateChainEffect DEF CreateChain, Flushed, job
<1>2. CASE CapChain
  BY <1>2, CapChainEffect DEF CapChain, Flushed, job
<1>3. CASE CapRule
  <2>1. pc = "capRule" /\ pc' = "capJump" /\ fam' = fam
    BY <1>3 DEF CapRule, job
  <2>2. rules[fam][Cap] = <<>> /\ DropOverCap \in Rules /\ <<>> \in Seq(Rules)
    BY <2>1, RuleTypes
  <2>3. rules'[fam][Cap] = Append(<<>>, DropOverCap)
    BY <1>3, <2>2, CapRuleEffect DEF Added
  <2>4. Append(<<>>, DropOverCap) = <<DropOverCap>>
    BY <2>2
  <2> QED
    BY <2>1, <2>3, <2>4
<1>4. CASE StartSetup \/ EnsureBridgeNetfilter \/ RemoveLegacyRules \/ EnsureDockerUser
  BY <1>4 DEF StartSetup, EnsureBridgeNetfilter, RemoveLegacyRules, EnsureDockerUser
<1>5. CASE CloseChain \/ InsertAllow \/ EnsureHook \/ CapJump
  <2>1. pc' \notin {"close", "capRule", "capJump"}
    BY <1>5 DEF CloseChain, InsertAllow, EnsureHook, CapJump, AfterCap
  <2> QED
    BY <2>1
<1>6. CASE StartIpv6 \/ CommandFails
  BY <1>6 DEF StartIpv6, CommandFails, AfterCap
<1>7. CASE StartTeardown \/ RemoveAllHooks \/ FlushChain \/ DeleteChain
  <2>1. pc' \notin {"close", "capRule", "capJump"}
    BY <1>7 DEF StartTeardown, RemoveAllHooks, FlushChain, DeleteChain, NextChain
  <2> QED
    BY <2>1
<1>8. CASE TeardownIpv6 \/ FinishTeardown \/ Killed
  <2>1. pc' \notin {"close", "capRule", "capJump"}
    BY <1>8 DEF TeardownIpv6, FinishTeardown, Killed
  <2> QED
    BY <2>1
<1>9. CASE TablesFlushed
  <2>1. pc' = pc /\ fam' = fam /\ k' = k /\ fam \in Families
    BY <1>9 DEF TablesFlushed, job, TypeOK
  <2>2. AllGone
    BY <1>9, TablesFlushedEffect
  <2>3. pc = "close" => CHAINS[k] \in ChainNames
    BY ChainNumbers DEF PlaceInv
  <2>4. Cap \in ChainNames
    BY ChainNumbers
  <2> QED
    BY <2>1, <2>2, <2>3, <2>4 DEF AllGone
<1>10. CASE DockerRestarts \/ NetworkChanges \/ UNCHANGED vars
  <2>1. UNCHANGED <<pc, fam, k>>
    BY <1>10 DEF DockerRestarts, NetworkChanges, vars, job
  <2>2. Untouched
    BY <1>10, UntouchedBy
  <2> QED
    BY <2>1, <2>2 DEF Untouched
<1> QED
  BY <1>1, <1>2, <1>3, <1>4, <1>5, <1>6, <1>7, <1>8, <1>9, <1>10
     DEF Next, SetupStep, TeardownStep

(* A chain that a step leaves alone holds what it held.                    *)
LEMMA HoldsKept ==
    ASSUME NEW f, NEW c, NEW n, Holds(f, c, n),
           ranges' = ranges, rules'[f][c] = rules[f][c]
    PROVE  Holds(f, c, n)'
  BY DEF Holds, Allowed

(* What the rebuilt chains hold stays what it should be by now, whatever   *)
(* step is next.                                                           *)
LEMMA ChainsStep ==
    ASSUME TypeOK, TablesInv, PlaceInv, FreshInv, ChainsInv, [Next]_vars
    PROVE  ChainsInv'
<1> SUFFICES ASSUME NEW f \in Families, NEW i \in 1..3, Built(f, i)', CHAINS[i] \in exists'[f]
             PROVE  Holds(f, CHAINS[i], Allows(f, CHAINS[i]))'
  BY DEF ChainsInv
<1> DEFINE c == CHAINS[i]
<1>a. c \in PolicyChains /\ c \in ChainNames /\ c # Cap
  BY ChainNumbers
<1>b. f = "ip" \/ f = "ip6"
  BY DEF Families
<1>c. ASSUME Built(f, i), c \in exists[f], ranges' = ranges, rules'[f][c] = rules[f][c],
             Allows(f, c)' = Allows(f, c)
      PROVE  Holds(f, CHAINS[i], Allows(f, CHAINS[i]))'
  <2>1. Holds(f, c, Allows(f, c))
    BY <1>c DEF ChainsInv
  <2>2. PICK n : n = Allows(f, c)
    OBVIOUS
  <2>3. Holds(f, c, n)'
    BY <1>c, <2>1, <2>2, HoldsKept
  <2>4. Allows(f, c)' = n
    BY <1>c, <2>2
  <2> QED
    BY <2>3, <2>4
<1>d. ASSUME Built(f, i), ranges' = ranges, Allows(f, c)' = Allows(f, c),
             rules' = rules, exists' = exists
      PROVE  Holds(f, CHAINS[i], Allows(f, CHAINS[i]))'
  BY <1>c, <1>d
<1>e. ASSUME fam' = "ip", pc' \in {"netfilter", "legacy"} \/ (pc' = "create" /\ k' = 1)
      PROVE  FALSE
  BY <1>b, <1>e DEF Built, Applying, CapSteps
<1>f. ASSUME pc' \in TeardownSteps \cup {"cleaned", "left", "failed", "refused", "killed"}
      PROVE  FALSE
  BY <1>f DEF Built, Applying, SetupSteps, TeardownSteps
<1>1. CASE StartSetup \/ EnsureBridgeNetfilter \/ RemoveLegacyRules
  BY <1>1, <1>e DEF StartSetup, EnsureBridgeNetfilter, RemoveLegacyRules, PlaceInv, LoopSteps,
     SetupSteps, job
<1>2. CASE CreateChain
  <2>1. pc = "create" /\ pc' = "close" /\ UNCHANGED <<fam, k, ranges, warned>>
    BY <1>2 DEF CreateChain, job
  <2>2. k \in 1..3 /\ Flushed(fam, CHAINS[k])
    BY <1>2, CreateChainEffect
  <2>3. (f = fam /\ i < k) \/ (f = "ip" /\ fam = "ip6")
    BY <2>1 DEF Built, CapSteps
  <2>4. CHAINS[i] # CHAINS[k] \/ f # fam
    BY <2>2, <2>3, ChainNumbers
  <2>5. rules'[f][c] = rules[f][c] /\ c \in exists[f]
    BY <1>a, <2>2, <2>4 DEF Flushed
  <2>6. Built(f, i) /\ Allows(f, c)' = Allows(f, c)
    BY <2>1, <2>3 DEF Built, Allows, Applying, SetupSteps, Placed
  <2> QED
    BY <1>c, <2>1, <2>5, <2>6
<1>3. CASE CloseChain
  <2>1. /\ pc = "close" /\ UNCHANGED <<fam, ranges, warned>>
        /\ IF k < 3 THEN pc' = "create" /\ k' = k + 1
           ELSE pc' = (IF fam = "ip" THEN "allow" ELSE "hook") /\ k' = 1
    BY <1>3, ChainFacts DEF CloseChain
  <2>2. k \in 1..3 /\ Added(fam, CHAINS[k], Drop)
    BY <1>3, CloseChainEffect
  <2>3. f = fam \/ (f = "ip" /\ fam = "ip6")
    BY <2>1, <1>b DEF Built, CapSteps
  <2>4. CASE f # fam
    <3>1. rules'[f][c] = rules[f][c] /\ exists' = exists
      BY <1>a, <2>2, <2>4 DEF Added
    <3>2. f = "ip" /\ fam = "ip6"
      BY <2>3, <2>4
    <3>3. Built(f, i) /\ Allows(f, c)' = Allows(f, c)
      BY <2>1, <3>2 DEF Built, Allows, Applying, SetupSteps, Placed
    <3> QED
      BY <1>c, <2>1, <3>1, <3>3
  <2>5. CASE f = fam
    <3>1. k < 3 => i < k + 1
      BY <2>1, <2>2, <2>5 DEF Built, CapSteps
    <3>2. i < k \/ i = k
      BY <2>2, <3>1
    <3>3. Allows(f, c)' = 0
      <4>1. Len(ranges) \in Nat
        BY Basics
      <4>2. CASE pc' = "create" \/ f = "ip6"
        BY <2>1, <2>5, <4>2, <1>b DEF Allows
      <4>3. CASE pc' = "allow" /\ f = "ip"
        <5>1. k' = 1 /\ ranges' = ranges /\ fam' = "ip"
          BY <2>1, <2>2, <2>5, <4>3
        <5> QED
          BY <4>1, <4>3, <5>1 DEF Allows, Placed
      <4> QED
        BY <1>b, <2>1, <2>5, <4>2, <4>3
    <3>4. CASE i < k
      <4>1. Built(f, i) /\ Allows(f, c) = 0
        BY <1>b, <2>1, <2>5, <3>4 DEF Built, Allows, Applying, SetupSteps
      <4>2. CHAINS[i] # CHAINS[k]
        BY <2>2, <3>4, ChainNumbers
      <4>3. rules'[f][c] = rules[f][c] /\ exists' = exists
        BY <1>a, <2>2, <4>2 DEF Added
      <4> QED
        BY <1>c, <2>1, <3>3, <4>1, <4>3
    <3>5. CASE i = k
      <4>1. rules[fam][c] = <<>>
        BY <2>1, <3>5 DEF FreshInv
      <4>2. Len(rules'[f][c]) = 1 /\ rules'[f][c][1] = Drop
        BY <2>2, <2>5, <3>5, <4>1 DEF Added
      <4>3. Holds(f, c, 0)'
        BY <4>2 DEF Holds
      <4> QED
        BY <3>3, <4>3
    <3> QED
      BY <3>2, <3>4, <3>5
  <2> QED
    BY <2>4, <2>5
<1>4. CASE InsertAllow
  <2> DEFINE a == AllowRules[k]
             L == Len(ranges)
  <2>1. /\ pc = "allow" /\ UNCHANGED <<fam, ranges, warned>>
        /\ IF k < Len(AllowRules) THEN k' = k + 1 /\ pc' = "allow" ELSE pc' = "dockerUser"
    BY <1>4 DEF InsertAllow
  <2>2. /\ k \in 1..(2 * L + 2) /\ fam = "ip"
        /\ a.chain \in PolicyChains
        /\ InsertedAt("ip", a.chain, a.rule, a.position)
    BY <1>4, InsertAllowEffect
  <2>3. Len(AllowRules) = 2 * L + 2 /\ L \in Nat
    BY Basics, AllowSteps
  <2>4. f = "ip"
    BY <2>1, <2>2, <1>b DEF Built
  <2>5. Built(f, i) /\ Allows(f, c) = Placed(c, k - 1)
    BY <2>1, <2>2, <2>4 DEF Built, Allows, Applying, SetupSteps, Ipv6Given
  <2>6. c \in exists[f]
    BY <2>2 DEF InsertedAt
  <2>7. Holds(f, c, Placed(c, k - 1))
    BY <2>5, <2>6 DEF ChainsInv
  <2>8. /\ Placed(a.chain, k - 1) \in Nat
        /\ a.position = Placed(a.chain, k - 1) + 1
        /\ a.rule = Allowed(a.chain, a.position)
        /\ Placed(a.chain, k) = a.position
        /\ \A d \in PolicyChains \ {a.chain} : Placed(d, k) = Placed(d, k - 1)
    BY <2>2, Basics, AllowInOrder
  <2>9. Allows(f, c)' = Placed(c, k)
    <3>1. \A n : Placed(c, n)' = Placed(c, n)
      BY <2>1 DEF Placed
    <3>2. CASE k < 2 * L + 2
      <4>1. pc' = "allow" /\ k' - 1 = k /\ fam' = "ip"
        BY <2>1, <2>2, <2>3, <3>2
      <4> QED
        BY <2>4, <3>1, <4>1 DEF Allows, Placed
    <3>3. CASE k = 2 * L + 2
      <4>1. pc' = "dockerUser" /\ fam' = "ip" /\ 2 * Len(ranges') + 2 = k
        BY <2>1, <2>2, <2>3, <3>3
      <4> QED
        BY <2>4, <3>1, <4>1 DEF Allows, Placed
    <3> QED
      BY <2>2, <2>3, <3>2, <3>3
  <2>10. CASE c # a.chain
    <3>1. rules'[f][c] = rules[f][c]
      BY <1>a, <2>2, <2>10 DEF InsertedAt
    <3>2. Placed(c, k) = Placed(c, k - 1)
      BY <1>a, <2>8, <2>10
    <3>3. Allows(f, c)' = Allows(f, c)
      BY <2>5, <2>9, <3>2
    <3> QED
      BY <1>c, <2>1, <2>5, <2>6, <3>1, <3>3
  <2>11. CASE c = a.chain
    <3>1. PICK n : n = Placed(c, k - 1)
      OBVIOUS
    <3>2. /\ n \in Nat /\ Len(rules[f][c]) = n + 1 /\ rules[f][c][n + 1] = Drop
          /\ \A j \in 1..n : rules[f][c][j] = Allowed(c, j)
      BY <2>7, <3>1 DEF Holds
    <3>3. a.position = n + 1 /\ a.rule = Allowed(c, n + 1) /\ Placed(c, k) = n + 1
      BY <2>8, <2>11, <3>1
    <3>4. /\ Len(rules'[f][c]) = n + 2
          /\ \A j \in 1..n : rules'[f][c][j] = rules[f][c][j]
          /\ rules'[f][c][n + 1] = Allowed(c, n + 1)
          /\ rules'[f][c][n + 2] = rules[f][c][n + 1]
      <4>1. InsertedAt(f, c, Allowed(c, n + 1), n + 1)
        BY <2>2, <2>4, <2>11, <3>3
      <4>2. PICK r, p : r = Allowed(c, n + 1) /\ p = n + 1
        OBVIOUS
      <4>3. InsertedAt(f, c, r, p)
        BY <4>1, <4>2
      <4>4. Len(rules'[f][c]) = Len(rules[f][c]) + 1 /\ rules'[f][c][p] = r
        BY <4>3 DEF InsertedAt
      <4>5. \A j \in 1..(p - 1) : rules'[f][c][j] = rules[f][c][j]
        BY <4>3 DEF InsertedAt
      <4>6. \A j \in (p + 1)..(Len(rules[f][c]) + 1) : rules'[f][c][j] = rules[f][c][j - 1]
        BY <4>3 DEF InsertedAt
      <4>7. n + 2 \in (p + 1)..(Len(rules[f][c]) + 1) /\ (n + 2) - 1 = n + 1 /\ p - 1 = n
        BY <3>2, <4>2, SMTT(30)
      <4> QED
        BY <3>2, <4>2, <4>4, <4>5, <4>6, <4>7
    <3>5. \A j : Allowed(c, j)' = Allowed(c, j)
      BY <2>1 DEF Allowed
    <3>6. /\ n + 1 \in Nat /\ Len(rules'[f][c]) = (n + 1) + 1
          /\ rules'[f][c][(n + 1) + 1] = Drop
          /\ \A j \in 1..(n + 1) : rules'[f][c][j] = Allowed(c, j)
      BY <3>2, <3>4
    <3>7. Holds(f, c, n + 1)'
      BY <3>5, <3>6 DEF Holds, Allowed
    <3> QED
      BY <2>9, <3>3, <3>7
  <2> QED
    BY <2>10, <2>11
<1>5. CASE EnsureDockerUser
  <2>1. pc = "dockerUser" /\ UNCHANGED <<fam, k, ranges, warned>>
    BY <1>5 DEF EnsureDockerUser, job
  <2>2. pc' = "hook" \/ pc' = "refused"
    BY <1>5, Zenon DEF EnsureDockerUser
  <2>3. pc' = "hook"
    BY <2>2, <1>f
  <2>4. Built(f, i) /\ Allows(f, c)' = Allows(f, c)
    BY <2>1, <2>3, <1>b DEF Built, Allows, Applying, SetupSteps, Placed, Ipv6Given, PlaceInv
  <2> QED
    BY <1>5, <1>d, <2>1, <2>4, UntouchedBy DEF Untouched
<1>6. CASE EnsureHook
  <2>1. /\ pc = "hook" /\ UNCHANGED <<fam, ranges, warned>>
        /\ pc' = "hook" \/ pc' = "capChain"
    BY <1>6 DEF EnsureHook
  <2>2. rules' = rules /\ exists' = exists
    BY <1>6, EnsureHookEffect DEF HookedTo
  <2>3. Built(f, i) /\ Allows(f, c)' = Allows(f, c)
    BY <2>1, <1>b DEF Built, Allows, Applying, SetupSteps, Placed, Ipv6Given, CapSteps
  <2> QED
    BY <1>d, <2>1, <2>2, <2>3
<1>7. CASE CapChain
  <2>1. pc = "capChain" /\ pc' = "capRule" /\ UNCHANGED <<fam, k, ranges, warned>>
    BY <1>7 DEF CapChain, job
  <2>2. rules'[f][c] = rules[f][c] /\ c \in exists[f]
    BY <1>7, <1>a, CapChainEffect DEF Flushed
  <2>3. Built(f, i) /\ Allows(f, c)' = Allows(f, c)
    BY <2>1, <1>b DEF Built, Allows, Applying, SetupSteps, Placed, Ipv6Given, CapSteps
  <2> QED
    BY <1>c, <2>1, <2>2, <2>3
<1>8. CASE CapRule
  <2>1. pc = "capRule" /\ pc' = "capJump" /\ UNCHANGED <<fam, k, ranges, warned>>
    BY <1>8 DEF CapRule, job
  <2>2. rules'[f][c] = rules[f][c] /\ exists' = exists
    BY <1>8, <1>a, CapRuleEffect DEF Added
  <2>3. Built(f, i) /\ Allows(f, c)' = Allows(f, c)
    BY <2>1, <1>b DEF Built, Allows, Applying, SetupSteps, Placed, Ipv6Given, CapSteps
  <2> QED
    BY <1>c, <2>1, <2>2, <2>3
<1>9. CASE CapJump
  <2>1. /\ pc = "capJump" /\ UNCHANGED <<fam, k, ranges, warned>>
        /\ pc' = IF fam = "ip" THEN "ipv6" ELSE "applied"
    BY <1>9 DEF CapJump, AfterCap, job
  <2>2. rules' = rules /\ exists' = exists
    BY <1>9, CapJumpEffect DEF HookedTo
  <2>3. Built(f, i) /\ Allows(f, c)' = Allows(f, c)
    BY <2>1, <1>b DEF Built, Allows, Applying, SetupSteps, Placed, Ipv6Given, CapSteps
  <2> QED
    BY <1>d, <2>1, <2>2, <2>3
<1>10. CASE StartIpv6
  <2>1. /\ pc = "ipv6" /\ fam = "ip" /\ UNCHANGED <<k, ranges>> /\ k = 1
        /\ \/ pc' = "create" /\ fam' = "ip6" /\ warned' = warned
           \/ pc' = "applied" /\ fam' = fam
    BY <1>10 DEF StartIpv6, PlaceInv, LoopSteps, SetupSteps
  <2>2. Built(f, i) /\ Allows(f, c)' = Allows(f, c)
    BY <2>1, <1>b DEF Built, Allows, Applying, SetupSteps, Placed, Ipv6Given, CapSteps
  <2> QED
    BY <1>10, <1>d, <2>1, <2>2, UntouchedBy DEF Untouched
<1>11. CASE CommandFails
  <2>1. /\ UNCHANGED <<fam, k, ranges>>
        /\ \/ pc \in {"create", "close", "allow", "hook"} /\ fam = "ip" /\ pc' = "failed"
           \/ /\ pc \in {"create", "close", "allow", "hook"} /\ fam # "ip" /\ pc' = "applied"
              /\ "ip6" \in warned'
           \/ pc \in CapSteps /\ fam = "ip" /\ pc' = "ipv6"
           \/ /\ pc \in CapSteps /\ fam # "ip" /\ pc' = "applied"
              /\ warned \subseteq warned'
    BY <1>11 DEF CommandFails, AfterCap, job, CapSteps
  <2>2. CASE fam = "ip"
    <3>1. pc \in CapSteps /\ pc' = "ipv6"
      BY <1>f, <2>1, <2>2
    <3>2. Built(f, i) /\ Allows(f, c)' = Allows(f, c)
      BY <1>b, <2>1, <2>2, <3>1 DEF Built, Allows, Applying, SetupSteps, Placed, Ipv6Given, CapSteps
    <3> QED
      BY <1>11, <1>d, <2>1, <3>2, UntouchedBy DEF Untouched
  <2>3. CASE fam = "ip6" /\ pc \in CapSteps
    <3>1. pc' = "applied"
      BY <2>1, <2>3 DEF CapSteps
    <3>2. Built(f, i) /\ Allows(f, c)' = Allows(f, c)
      BY <1>b, <2>1, <2>3, <3>1 DEF Built, Allows, Applying, SetupSteps, Placed, Ipv6Given, CapSteps
    <3> QED
      BY <1>11, <1>d, <2>1, <3>2, UntouchedBy DEF Untouched
  <2>4. CASE fam = "ip6" /\ pc \in {"create", "close", "allow", "hook"}
    <3>1. pc' = "applied" /\ "ip6" \in warned' /\ fam' = "ip6"
      BY <2>1, <2>4 DEF CapSteps
    <3>2. f = "ip"
      BY <1>b, <3>1 DEF Built, Ipv6Given
    <3>3. Built(f, i) /\ Allows(f, c)' = Allows(f, c)
      BY <2>1, <2>4, <3>1, <3>2 DEF Built, Allows, Applying, SetupSteps, Placed, PlaceInv
    <3> QED
      BY <1>11, <1>d, <2>1, <3>3, UntouchedBy DEF Untouched
  <2> QED
    BY <2>1, <2>2, <2>3, <2>4 DEF TypeOK, Families
<1>12. CASE StartTeardown \/ RemoveAllHooks \/ FlushChain \/ DeleteChain
  BY <1>12, <1>f DEF StartTeardown, RemoveAllHooks, FlushChain, DeleteChain, NextChain,
     TeardownSteps
<1>13. CASE TeardownIpv6 \/ FinishTeardown \/ Killed
  BY <1>13, <1>f DEF TeardownIpv6, FinishTeardown, Killed, TeardownSteps
<1>14. CASE TablesFlushed
  BY <1>14, TablesFlushedEffect DEF AllGone
<1>15. CASE DockerRestarts \/ NetworkChanges \/ UNCHANGED vars
  <2>1. UNCHANGED <<pc, fam, k, ranges, warned>>
    BY <1>15 DEF DockerRestarts, NetworkChanges, vars, job
  <2>2. Built(f, i) /\ Allows(f, c)' = Allows(f, c)
    BY <2>1 DEF Built, Allows, Applying, Placed, Ipv6Given
  <2> QED
    BY <1>15, <1>d, <2>1, <2>2, UntouchedBy DEF Untouched
<1> QED
  BY <1>1, <1>2, <1>3, <1>4, <1>5, <1>6, <1>7, <1>8, <1>9, <1>10, <1>11, <1>12, <1>13, <1>14,
     <1>15 DEF Next, SetupStep, TeardownStep

-----------------------------------------------------------------------------
(* Deny first.                                                             *)

(* A chain that holds what it should ends in its DROP.                     *)
LEMMA HoldsCloses ==
    ASSUME NEW f, NEW c, NEW n, c \in exists[f], Holds(f, c, n)
    PROVE  Closed(f, c)
<1>1. /\ n \in Nat /\ Len(rules[f][c]) = n + 1 /\ rules[f][c][n + 1] = Drop
  BY DEF Holds
<1>2. rules[f][c] # <<>>
  <2>1. Len(<<>>) = 0
    OBVIOUS
  <2> QED
    BY <1>1, <2>1
<1> QED
  BY <1>1, <1>2 DEF Closed

(* No step but a rebuild's flush, teardown or a new bridge exposes a       *)
(* chain.                                                                  *)
LEMMA DenyStep ==
    ASSUME TypeOK, TablesInv, PlaceInv, FreshInv, ChainsInv, [Next]_vars,
           NEW f \in Families, NEW c \in PolicyChains, ~Exposed(f, c), Exposed(f, c)'
    PROVE  \/ pc = "create" /\ f = fam /\ c = CHAINS[k]
           \/ pc \in TeardownSteps
           \/ bridge' # bridge
<1> SUFFICES ASSUME bridge' = bridge, pc \notin TeardownSteps,
                    ~(pc = "create" /\ f = fam /\ c = CHAINS[k])
             PROVE  FALSE
  OBVIOUS
<1> DEFINE h == HookOf(c, bridge)
<1>1. /\ bridge # None /\ jumps'[f][h] > 0 /\ ~Closed(f, c)'
      /\ jumps[f][h] > 0 => Closed(f, c)
  BY DEF Exposed, Hooked
<1>2. /\ h \in Hooks /\ h.chain = c /\ c \in ChainNames /\ c # Cap
      /\ jumps[f][h] \in Nat
  <2>1. bridge \in Bridges
    BY <1>1 DEF TypeOK
  <2>2. h \in Hooks /\ h.chain = c /\ c \in ChainNames /\ c # Cap
    BY <2>1, HookFacts, ChainNumbers
  <2>3. jumps \in [Families -> [Hooks -> Nat]]
    BY Basics DEF Tables
  <2> QED
    BY <2>2, <2>3
<1>3. ASSUME jumps'[f][h] = jumps[f][h], rules'[f][c] = rules[f][c], exists'[f] = exists[f]
      PROVE  FALSE
  BY <1>1, <1>3 DEF Closed
<1>4. ASSUME Untouched PROVE FALSE
  BY <1>3, <1>4 DEF Untouched
<1>5. ChainsInv'
  BY ChainsStep
<1>6. PICK i \in 1..3 : c = CHAINS[i]
  BY ChainNumbers
<1>7. ASSUME Built(f, i)', c \in exists'[f] PROVE FALSE
  <2>1. PICK n : n = Allows(f, CHAINS[i])'
    OBVIOUS
  <2>2. Holds(f, c, n)'
    BY <1>5, <1>6, <1>7, <2>1 DEF ChainsInv
  <2>3. Closed(f, c)'
    BY <1>7, <2>2, HoldsCloses DEF Holds, Closed
  <2> QED
    BY <1>1, <2>3
<1>8. CASE CreateChain
  <2>1. Flushed(fam, CHAINS[k]) /\ pc = "create"
    BY <1>8, CreateChainEffect DEF CreateChain
  <2>2. f # fam \/ c # CHAINS[k]
    BY <2>1
  <2>3. rules'[f][c] = rules[f][c] /\ jumps' = jumps /\ (c \in exists'[f] <=> c \in exists[f])
    BY <1>2, <2>1, <2>2 DEF Flushed
  <2> QED
    BY <1>1, <2>3 DEF Closed
<1>9. CASE CapChain
  <2>1. rules'[f][c] = rules[f][c] /\ jumps' = jumps /\ (c \in exists'[f] <=> c \in exists[f])
    BY <1>2, <1>9, CapChainEffect DEF Flushed
  <2> QED
    BY <1>1, <2>1 DEF Closed
<1>10. CASE CapRule
  BY <1>2, <1>3, <1>10, CapRuleEffect DEF Added
<1>11. CASE CloseChain
  <2>1. Added(fam, CHAINS[k], Drop)
    BY <1>11, CloseChainEffect
  <2>2. CASE f = fam /\ c = CHAINS[k]
    <3>1. /\ c \in exists'[f] /\ rules[f][c] \in Seq(Rules) /\ Len(rules[f][c]) \in Nat
          /\ Len(rules'[f][c]) = Len(rules[f][c]) + 1
          /\ rules'[f][c][Len(rules[f][c]) + 1] = Drop
      <4>1. rules[f][c] \in Seq(Rules)
        BY <1>2 DEF TypeOK
      <4>2. Added(f, c, Drop)
        BY <2>1, <2>2
      <4> QED
        BY <4>1, <4>2 DEF Added
    <3>2. rules'[f][c] # <<>>
      <4>1. Len(<<>>) = 0
        OBVIOUS
      <4> QED
        BY <3>1, <4>1
    <3> QED
      BY <1>1, <3>1, <3>2 DEF Closed
  <2>3. CASE ~(f = fam /\ c = CHAINS[k])
    BY <1>2, <1>3, <2>1, <2>3 DEF Added
  <2> QED
    BY <2>2, <2>3
<1>12. CASE InsertAllow
  <2>1. InsertedAt("ip", AllowRules[k].chain, AllowRules[k].rule, AllowRules[k].position)
    BY <1>12, InsertAllowEffect
  <2>2. pc' \in {"allow", "dockerUser"} /\ fam' = fam /\ fam = "ip"
    BY <1>12 DEF InsertAllow, PlaceInv
  <2>3. CASE f = "ip" /\ c = AllowRules[k].chain
    <3>1. c \in exists'[f]
      BY <2>1, <2>3 DEF InsertedAt
    <3>2. Built(f, i)'
      BY <2>2, <2>3 DEF Built, Applying, SetupSteps
    <3> QED
      BY <1>7, <3>1, <3>2
  <2>4. CASE ~(f = "ip" /\ c = AllowRules[k].chain)
    BY <1>2, <1>3, <2>1, <2>4 DEF InsertedAt
  <2> QED
    BY <2>3, <2>4
<1>13. CASE EnsureHook
  <2>1. /\ HookedTo(fam, HookOf(CHAINS[k], target))
        /\ HookOf(CHAINS[k], target).chain = CHAINS[k]
    BY <1>13, EnsureHookEffect
  <2>2. pc' \in {"hook", "capChain"} /\ fam' = fam
    BY <1>13 DEF EnsureHook
  <2>3. CASE f = fam /\ c = CHAINS[k]
    <3>1. c \in exists'[f]
      BY <2>1, <2>3 DEF HookedTo
    <3>2. Built(f, i)'
      BY <2>2, <2>3 DEF Built, Applying, SetupSteps, CapSteps, Ipv6Given
    <3> QED
      BY <1>7, <3>1, <3>2
  <2>4. CASE ~(f = fam /\ c = CHAINS[k])
    <3>1. f # fam \/ h # HookOf(CHAINS[k], target)
      BY <1>2, <2>1, <2>4
    <3>2. jumps'[f][h] = jumps[f][h] /\ rules' = rules /\ exists' = exists
      BY <1>2, <2>1, <3>1 DEF HookedTo
    <3> QED
      BY <1>3, <3>2
  <2> QED
    BY <2>3, <2>4
<1>14. CASE CapJump
  <2>1. HookedTo(fam, HookOf(Cap, "ssh")) /\ h # HookOf(Cap, "ssh")
    BY <1>2, <1>14, CapJumpEffect, HookFacts
  <2>2. jumps'[f][h] = jumps[f][h] /\ rules' = rules /\ exists' = exists
    BY <1>2, <2>1 DEF HookedTo
  <2> QED
    BY <1>3, <2>2
<1>15. CASE TablesFlushed
  BY <1>1, <1>2, <1>15, TablesFlushedEffect DEF AllGone
<1>16. CASE RemoveAllHooks \/ FlushChain \/ DeleteChain
  BY <1>16 DEF RemoveAllHooks, FlushChain, DeleteChain, TeardownSteps
<1> QED
  BY <1>4, <1>8, <1>9, <1>10, <1>11, <1>12, <1>13, <1>14, <1>15, <1>16, UntouchedBy
     DEF Next, SetupStep, TeardownStep

-----------------------------------------------------------------------------
(* A run of setup that nothing disturbs.                                   *)

(* A step of setup starts at one of its places, ...                        *)
LEMMA SetupStepFrom ==
    ASSUME SetupStep
    PROVE  pc \in SetupSteps
<1> USE DEF SetupSteps
<1>1. CASE EnsureBridgeNetfilter \/ RemoveLegacyRules \/ CreateChain \/ CloseChain \/ InsertAllow
  BY <1>1 DEF EnsureBridgeNetfilter, RemoveLegacyRules, CreateChain, CloseChain, InsertAllow
<1>2. CASE EnsureDockerUser \/ EnsureHook \/ CapChain \/ CapRule \/ CapJump \/ StartIpv6
  BY <1>2 DEF EnsureDockerUser, EnsureHook, CapChain, CapRule, CapJump, StartIpv6
<1>3. CASE CommandFails
  BY <1>3 DEF CommandFails
<1> QED
  BY <1>1, <1>2, <1>3 DEF SetupStep

(* ... and leaves alone what only others change.                           *)
LEMMA SetupStepKeeps ==
    ASSUME SetupStep
    PROVE  UNCHANGED <<bridge, target, ranges, disturbed>>
<1> USE DEF job
<1>1. CASE EnsureBridgeNetfilter \/ RemoveLegacyRules \/ CreateChain \/ CloseChain \/ InsertAllow
  BY <1>1 DEF EnsureBridgeNetfilter, RemoveLegacyRules, CreateChain, CloseChain, InsertAllow
<1>2. CASE EnsureDockerUser \/ EnsureHook \/ CapChain \/ CapRule \/ CapJump \/ StartIpv6
  BY <1>2 DEF EnsureDockerUser, EnsureHook, CapChain, CapRule, CapJump, StartIpv6
<1>3. CASE CommandFails
  BY <1>3 DEF CommandFails
<1> QED
  BY <1>1, <1>2, <1>3 DEF SetupStep

(* It goes on undisturbed by a step of its own, or one that does not       *)
(* matter to it. *)
LEMMA UndisturbedMoves ==
    ASSUME [Next]_vars, Undisturbed'
    PROVE  \/ StartSetup
           \/ /\ Undisturbed
              /\ UNCHANGED <<bridge, target, ranges, disturbed>>
              /\ SetupStep \/ DockerRestarts \/ UNCHANGED vars
<1>1. ~disturbed' /\ pc' \in SetupSteps \cup {"applied"}
  BY DEF Undisturbed, Applying
<1>2. CASE SetupStep
  <2>1. UNCHANGED <<bridge, target, ranges, disturbed>>
    BY <1>2, SetupStepKeeps
  <2>2. ~disturbed
    BY <1>1, <2>1, Zenon
  <2>3. pc \in SetupSteps
    BY <1>2, SetupStepFrom
  <2> QED
    BY <1>2, <2>1, <2>2, <2>3 DEF Undisturbed, Applying
<1>3. CASE DockerRestarts \/ UNCHANGED vars
  <2>1. UNCHANGED <<bridge, target, ranges, disturbed, pc>>
    BY <1>3 DEF DockerRestarts, vars, job
  <2>2. ~disturbed
    BY <1>1, <2>1, Zenon
  <2> QED
    BY <1>1, <1>3, <2>1, <2>2 DEF Undisturbed, Applying
<1>4. CASE TablesFlushed \/ NetworkChanges
  BY <1>1, <1>4, Zenon DEF TablesFlushed, NetworkChanges
<1>5. CASE StartTeardown \/ Killed
  BY <1>1, <1>5 DEF StartTeardown, Killed, SetupSteps
<1>6. CASE TeardownStep
  <2>1. pc' \in {"flush", "delete", "unhook", "ipv6Down", "legacyDown", "cleaned", "left"}
    <3>1. CASE RemoveAllHooks \/ TeardownIpv6 \/ FinishTeardown
      BY <3>1 DEF RemoveAllHooks, TeardownIpv6, FinishTeardown
    <3>2. CASE FlushChain \/ DeleteChain
      BY <3>2 DEF FlushChain, DeleteChain, NextChain
    <3> QED
      BY <1>6, <3>1, <3>2 DEF TeardownStep
  <2> QED
    BY <1>1, <2>1 DEF SetupSteps
<1> QED
  BY <1>2, <1>3, <1>4, <1>5, <1>6 DEF Next

(* The parts of UndisturbedInv, one by one: the bridge is the one setup    *)
(* was started for, ...                                                    *)
LEMMA OnTargetStep ==
    ASSUME OnTarget, [Next]_vars
    PROVE  OnTarget'
<1> SUFFICES ASSUME Undisturbed' PROVE bridge' = target' /\ bridge' # None
  BY DEF OnTarget
<1>1. CASE StartSetup
  BY <1>1 DEF StartSetup
<1>2. CASE Undisturbed /\ UNCHANGED <<bridge, target, ranges, disturbed>>
  BY <1>2 DEF OnTarget
<1> QED
  BY <1>1, <1>2, UndisturbedMoves

(* A step of setup takes no chain away, no hook, and no warning.           *)
LEMMA SetupAdds ==
    ASSUME TypeOK, TablesInv, PlaceInv, SetupStep \/ DockerRestarts \/ UNCHANGED vars
    PROVE  /\ \A f \in Families : exists[f] \subseteq exists'[f]
           /\ \A f \in Families, h \in Hooks : jumps[f][h] > 0 => jumps'[f][h] > 0
           /\ warned \subseteq warned'
<1>1. warned \subseteq warned'
  <2>1. CASE CreateChain \/ CloseChain \/ InsertAllow \/ RemoveLegacyRules \/ EnsureDockerUser
    BY <2>1 DEF CreateChain, CloseChain, InsertAllow, RemoveLegacyRules, EnsureDockerUser
  <2>2. CASE EnsureHook \/ CapChain \/ CapRule \/ CapJump \/ DockerRestarts \/ UNCHANGED vars
    BY <2>2 DEF EnsureHook, CapChain, CapRule, CapJump, DockerRestarts, vars
  <2>3. CASE EnsureBridgeNetfilter
    <3>1. warned' = warned \/ warned' = warned \cup {"netfilter"}
      BY <2>3, Zenon DEF EnsureBridgeNetfilter
    <3> QED
      BY <3>1
  <2>4. CASE StartIpv6 \/ CommandFails
    BY <2>4 DEF StartIpv6, CommandFails
  <2> QED
    BY <2>1, <2>2, <2>3, <2>4 DEF SetupStep
<1>2. CASE CreateChain
  BY <1>1, <1>2, CreateChainEffect DEF Flushed
<1>3. CASE CapChain
  BY <1>1, <1>3, CapChainEffect DEF Flushed
<1>4. CASE CloseChain
  BY <1>1, <1>4, CloseChainEffect DEF Added
<1>5. CASE CapRule
  BY <1>1, <1>5, CapRuleEffect DEF Added
<1>6. CASE InsertAllow
  BY <1>1, <1>6, InsertAllowEffect DEF InsertedAt
<1>7. CASE EnsureHook
  BY <1>1, <1>7, EnsureHookEffect DEF HookedTo
<1>8. CASE CapJump
  BY <1>1, <1>8, CapJumpEffect DEF HookedTo
<1>9. CASE Untouched
  BY <1>1, <1>9 DEF Untouched
<1> QED
  BY <1>2, <1>3, <1>4, <1>5, <1>6, <1>7, <1>8, <1>9, UntouchedBy DEF SetupStep

(* Only the append of its DROP makes a chain one that the run has built,   *)
(* and only ensure_hook one that it has hooked. *)
LEMMA BuiltMoves ==
    ASSUME TypeOK, TablesInv, PlaceInv, SetupStep \/ DockerRestarts \/ UNCHANGED vars,
           NEW f \in Families, NEW i \in 1..3, Built(f, i)'
    PROVE  Built(f, i) \/ (CloseChain /\ f = fam /\ i = k)
<1> USE DEF Built, Applying, SetupSteps, CapSteps, Ipv6Given
<1>0. f = "ip" \/ f = "ip6"
  BY DEF Families
<1>1. CASE EnsureBridgeNetfilter \/ RemoveLegacyRules
  BY <1>0, <1>1 DEF EnsureBridgeNetfilter, RemoveLegacyRules, PlaceInv, LoopSteps, job
<1>2. CASE CreateChain
  BY <1>0, <1>2 DEF CreateChain, job
<1>3. CASE CloseChain
  <2>1. /\ pc = "close" /\ UNCHANGED <<fam, ranges, warned>> /\ k \in 1..3
        /\ IF k < 3 THEN pc' = "create" /\ k' = k + 1
           ELSE pc' = (IF fam = "ip" THEN "allow" ELSE "hook") /\ k' = 1
    BY <1>3, ChainFacts DEF CloseChain, PlaceInv
  <2>2. CASE f = fam
    <3>1. i <= k
      BY <2>1, <2>2
    <3> QED
      BY <1>3, <2>1, <2>2, <3>1
  <2>3. CASE f # fam
    BY <2>1, <2>3
  <2> QED
    BY <2>2, <2>3
<1>4. CASE InsertAllow
  BY <1>0, <1>4 DEF InsertAllow, PlaceInv
<1>5. CASE EnsureDockerUser
  <2>1. pc = "dockerUser" /\ UNCHANGED <<fam, k, ranges, warned>> /\ fam = "ip"
    BY <1>5 DEF EnsureDockerUser, job, PlaceInv
  <2> QED
    BY <1>0, <2>1
<1>6. CASE EnsureHook
  BY <1>0, <1>6 DEF EnsureHook
<1>7. CASE CapChain \/ CapRule
  BY <1>0, <1>7 DEF CapChain, CapRule, job
<1>8. CASE CapJump
  BY <1>0, <1>8 DEF CapJump, AfterCap, job
<1>9. CASE StartIpv6
  BY <1>0, <1>9 DEF StartIpv6, PlaceInv, LoopSteps
<1>10. CASE CommandFails
  <2>1. /\ UNCHANGED <<fam, k, ranges>>
        /\ \/ pc \in {"create", "close", "allow", "hook"} /\ fam = "ip" /\ pc' = "failed"
           \/ /\ pc \in {"create", "close", "allow", "hook"} /\ fam # "ip" /\ pc' = "applied"
              /\ "ip6" \in warned'
           \/ pc \in CapSteps /\ fam = "ip" /\ pc' = "ipv6"
           \/ /\ pc \in CapSteps /\ fam # "ip" /\ pc' = "applied"
              /\ warned \subseteq warned'
    BY <1>10 DEF CommandFails, AfterCap, job
  <2> QED
    BY <1>0, <2>1 DEF TypeOK, Families
<1>11. CASE DockerRestarts \/ UNCHANGED vars
  BY <1>11 DEF DockerRestarts, vars, job
<1> QED
  BY <1>1, <1>2, <1>3, <1>4, <1>5, <1>6, <1>7, <1>8, <1>9, <1>10, <1>11 DEF SetupStep

(* A chain becomes hooked only in the step that hooks it.                  *)
LEMMA HungMoves ==
    ASSUME TypeOK, TablesInv, PlaceInv, SetupStep \/ DockerRestarts \/ UNCHANGED vars,
           NEW f \in Families, NEW i \in 1..3, Hung(f, i)'
    PROVE  Hung(f, i) \/ (EnsureHook /\ f = fam /\ i = k)
<1> USE DEF Hung, Applying, SetupSteps, CapSteps, Ipv6Given
<1>0. f = "ip" \/ f = "ip6"
  BY DEF Families
<1>1. CASE EnsureBridgeNetfilter \/ RemoveLegacyRules
  BY <1>0, <1>1 DEF EnsureBridgeNetfilter, RemoveLegacyRules, PlaceInv, LoopSteps, job
<1>2. CASE CreateChain
  BY <1>0, <1>2 DEF CreateChain, job
<1>3. CASE CloseChain
  BY <1>0, <1>3 DEF CloseChain
<1>4. CASE InsertAllow
  BY <1>0, <1>4 DEF InsertAllow, PlaceInv
<1>5. CASE EnsureDockerUser
  <2>1. pc = "dockerUser" /\ UNCHANGED <<fam, k, ranges, warned>> /\ fam = "ip" /\ k = 1
    BY <1>5 DEF EnsureDockerUser, job, PlaceInv, LoopSteps
  <2>2. pc' = "hook" \/ pc' = "refused"
    BY <1>5, Zenon DEF EnsureDockerUser
  <2> QED
    BY <1>0, <2>1, <2>2
<1>6. CASE EnsureHook
  <2>1. /\ pc = "hook" /\ UNCHANGED <<fam, ranges, warned>> /\ k \in 1..3
        /\ IF k < 3 THEN pc' = "hook" /\ k' = k + 1 ELSE pc' = "capChain" /\ k' = 1
    BY <1>6, ChainFacts DEF EnsureHook, PlaceInv
  <2>2. CASE f = fam
    <3>1. i <= k
      BY <2>1, <2>2
    <3> QED
      BY <1>6, <2>1, <2>2, <3>1
  <2>3. CASE f # fam
    BY <2>1, <2>3
  <2> QED
    BY <2>2, <2>3
<1>7. CASE CapChain \/ CapRule
  BY <1>0, <1>7 DEF CapChain, CapRule, job
<1>8. CASE CapJump
  BY <1>0, <1>8 DEF CapJump, AfterCap, job
<1>9. CASE StartIpv6
  BY <1>0, <1>9 DEF StartIpv6, PlaceInv, LoopSteps
<1>10. CASE CommandFails
  <2>1. /\ UNCHANGED <<fam, k, ranges>>
        /\ \/ pc \in {"create", "close", "allow", "hook"} /\ fam = "ip" /\ pc' = "failed"
           \/ /\ pc \in {"create", "close", "allow", "hook"} /\ fam # "ip" /\ pc' = "applied"
              /\ "ip6" \in warned'
           \/ pc \in CapSteps /\ fam = "ip" /\ pc' = "ipv6"
           \/ /\ pc \in CapSteps /\ fam # "ip" /\ pc' = "applied"
              /\ warned \subseteq warned'
    BY <1>10 DEF CommandFails, AfterCap, job
  <2> QED
    BY <1>0, <2>1 DEF TypeOK, Families
<1>11. CASE DockerRestarts \/ UNCHANGED vars
  BY <1>11 DEF DockerRestarts, vars, job
<1> QED
  BY <1>1, <1>2, <1>3, <1>4, <1>5, <1>6, <1>7, <1>8, <1>9, <1>10, <1>11 DEF SetupStep

(* ... the chains it has rebuilt are there, ...                            *)
LEMMA AreThereStep ==
    ASSUME TypeOK, TablesInv, PlaceInv, AreThere, [Next]_vars
    PROVE  AreThere'
<1> SUFFICES ASSUME Undisturbed', NEW f \in Families, NEW i \in 1..3, Built(f, i)'
             PROVE  CHAINS[i] \in exists'[f]
  BY DEF AreThere
<1>1. CASE StartSetup
  <2>1. pc' = "netfilter" /\ fam' = "ip"
    BY <1>1 DEF StartSetup
  <2> QED
    BY <2>1 DEF Built, CapSteps
<1>2. CASE Undisturbed /\ (SetupStep \/ DockerRestarts \/ UNCHANGED vars)
  <2>1. CASE Built(f, i)
    BY <1>2, <2>1, SetupAdds DEF AreThere
  <2>2. CASE CloseChain /\ f = fam /\ i = k
    BY <2>2, CloseChainEffect DEF Added
  <2> QED
    BY <1>2, <2>1, <2>2, BuiltMoves
<1> QED
  BY <1>1, <1>2, UndisturbedMoves

(* ... those it has been through are hooked, ...                           *)
LEMMA AreHookedStep ==
    ASSUME TypeOK, TablesInv, PlaceInv, OnTarget, AreHooked, [Next]_vars
    PROVE  AreHooked'
<1> SUFFICES ASSUME Undisturbed', NEW f \in Families, NEW i \in 1..3, Hung(f, i)'
             PROVE  jumps'[f][HookOf(CHAINS[i], bridge')] > 0
  BY DEF AreHooked
<1>1. CASE StartSetup
  <2>1. pc' = "netfilter" /\ fam' = "ip"
    BY <1>1 DEF StartSetup
  <2> QED
    BY <2>1 DEF Hung, CapSteps
<1>2. CASE Undisturbed /\ bridge' = bridge /\ (SetupStep \/ DockerRestarts \/ UNCHANGED vars)
  <2>0. bridge = target /\ bridge \in Bridges
    BY <1>2 DEF OnTarget, TypeOK
  <2>1. CASE Hung(f, i)
    <3>1. HookOf(CHAINS[i], bridge) \in Hooks
      BY <2>0, HookFacts, ChainNumbers
    <3>2. jumps[f][HookOf(CHAINS[i], bridge)] > 0
      BY <1>2, <2>1 DEF AreHooked
    <3> QED
      BY <1>2, <3>1, <3>2, SetupAdds
  <2>2. CASE EnsureHook /\ f = fam /\ i = k
    BY <1>2, <2>0, <2>2, EnsureHookEffect DEF HookedTo
  <2> QED
    BY <1>2, <2>1, <2>2, HungMoves
<1> QED
  BY <1>1, <1>2, UndisturbedMoves

(* ... FORWARD reaches them, ...                                           *)
LEMMA IsReachedStep ==
    ASSUME TypeOK, PlaceInv, IsReached, [Next]_vars
    PROVE  IsReached'
<1> DEFINE ReachedSteps == {"hook", "ipv6", "applied"} \cup CapSteps
<1>0. fam = "ip" \/ fam = "ip6"
  BY DEF TypeOK, Families
<1> SUFFICES ASSUME Undisturbed', fam' = "ip6" \/ pc' \in ReachedSteps
             PROVE  reach'
  BY DEF IsReached
<1>1. CASE StartSetup
  <2>1. pc' = "netfilter" /\ fam' = "ip"
    BY <1>1 DEF StartSetup
  <2> QED
    BY <2>1 DEF CapSteps
<1>2. CASE Undisturbed /\ EnsureDockerUser
  <2>1. pc' # "refused" /\ fam' = fam /\ fam = "ip"
    BY <1>2 DEF EnsureDockerUser, Undisturbed, Applying, SetupSteps, PlaceInv, job
  <2> QED
    BY <1>2, <2>1, Zenon DEF EnsureDockerUser
<1>3. CASE Undisturbed /\ DockerRestarts
  BY <1>3, Zenon DEF DockerRestarts
<1>4. ASSUME Undisturbed, reach' = reach, fam = "ip6" \/ pc \in ReachedSteps
      PROVE  reach'
  BY <1>4, Zenon DEF IsReached
<1>5. CASE Undisturbed /\ UNCHANGED vars
  <2>1. UNCHANGED <<pc, fam, reach>>
    BY <1>5 DEF vars, tables, job
  <2> QED
    BY <1>4, <1>5, <2>1
<1>6. CASE Undisturbed /\ (EnsureBridgeNetfilter \/ RemoveLegacyRules)
  <2>1. /\ reach' = reach /\ fam' = fam /\ fam = "ip"
        /\ pc' \in {"legacy", "create"}
    BY <1>6 DEF EnsureBridgeNetfilter, RemoveLegacyRules, PlaceInv, job
  <2> QED
    BY <2>1 DEF CapSteps
<1>7. CASE Undisturbed /\ (CreateChain \/ CloseChain)
  <2>1. reach' = reach /\ fam' = fam
    BY <1>7 DEF CreateChain, CloseChain, EnsureChain, AppendRule, job
  <2>2. fam = "ip" => pc' \in {"create", "close", "allow"}
    BY <1>7 DEF CreateChain, CloseChain
  <2>3. fam' = "ip6" \/ fam # "ip6"
    BY <2>1
  <2>4. CASE fam = "ip6"
    BY <1>4, <1>7, <2>1, <2>4
  <2>5. CASE fam # "ip6"
    <3>1. pc' \in {"close", "create", "allow", "hook"}
      BY <1>7 DEF CreateChain, CloseChain
    <3>2. pc' = "hook" => fam # "ip"
      BY <2>2
    <3> QED
      BY <1>0, <2>1, <2>2, <2>5, <3>1 DEF CapSteps
  <2> QED
    BY <2>4, <2>5
<1>8. CASE Undisturbed /\ InsertAllow
  <2>1. reach' = reach /\ fam' = fam /\ fam = "ip" /\ pc' \in {"allow", "dockerUser"}
    BY <1>8 DEF InsertAllow, InsertRule, PlaceInv
  <2> QED
    BY <2>1 DEF CapSteps
<1>9. CASE Undisturbed /\ (EnsureHook \/ CapChain \/ CapRule \/ CapJump)
  <2>1. reach' = reach /\ pc \in ReachedSteps
    BY <1>9 DEF EnsureHook, CapChain, CapRule, CapJump, EnsureJump, EnsureChain, AppendRule, CapSteps
  <2> QED
    BY <1>4, <1>9, <2>1
<1>10. CASE Undisturbed /\ StartIpv6
  <2>1. reach' = reach /\ pc \in ReachedSteps
    BY <1>10 DEF StartIpv6, tables
  <2> QED
    BY <1>4, <1>10, <2>1
<1>11. CASE Undisturbed /\ CommandFails
  <2>1. reach' = reach /\ fam' = fam
    BY <1>11 DEF CommandFails, tables, job
  <2>2. fam = "ip" => pc \in CapSteps \/ pc' = "failed"
    BY <1>11 DEF CommandFails, CapSteps
  <2>3. pc' # "failed"
    BY DEF Undisturbed, Applying, SetupSteps
  <2>4. pc' \in ReachedSteps => pc \in CapSteps \/ fam # "ip"
    BY <2>2, <2>3
  <2>5. CASE fam = "ip6" \/ pc \in CapSteps
    BY <1>4, <1>11, <2>1, <2>5
  <2> QED
    BY <1>0, <2>1, <2>2, <2>3, <2>5
<1> QED
  BY <1>1, <1>2, <1>3, <1>5, <1>6, <1>7, <1>8, <1>9, <1>10, <1>11, UndisturbedMoves DEF SetupStep

(* ... bridged traffic is handed to them, ...                              *)
LEMMA IsBridgedStep ==
    ASSUME TypeOK, IsBridged, [Next]_vars
    PROVE  IsBridged'
<1> SUFFICES ASSUME Undisturbed', pc' # "netfilter"
             PROVE  ("netfilter" \in warned \/ \A f \in Families : bridgeNf[f])'
  BY DEF IsBridged
<1>1. ASSUME Undisturbed, pc # "netfilter", bridgeNf' = bridgeNf, warned \subseteq warned'
      PROVE  ("netfilter" \in warned \/ \A f \in Families : bridgeNf[f])'
  <2>1. CASE "netfilter" \in warned
    BY <1>1, <2>1
  <2>2. CASE \A f \in Families : bridgeNf[f]
    BY <1>1, <2>2, Zenon
  <2> QED
    BY <1>1, <2>1, <2>2, Zenon DEF IsBridged
<1>2. CASE StartSetup
  BY <1>2 DEF StartSetup
<1>3. CASE EnsureBridgeNetfilter
  <2>1. PICK off \in SUBSET {f \in Families : ~bridgeNf[f]} :
            /\ bridgeNf' = [f \in Families |-> f \notin off]
            /\ warned' = IF off = {} THEN warned ELSE warned \cup {"netfilter"}
    BY <1>3, Zenon DEF EnsureBridgeNetfilter
  <2>2. CASE off = {}
    <3>1. \A f \in Families : f \notin off
      BY <2>2
    <3>2. \A f \in Families : bridgeNf'[f]
      BY <2>1, <3>1, Zenon
    <3> QED
      BY <3>2, Zenon
  <2>3. CASE off # {}
    BY <2>1, <2>3
  <2> QED
    BY <2>2, <2>3
<1>4. CASE Undisturbed /\ (RemoveLegacyRules \/ CreateChain \/ CloseChain \/ InsertAllow)
  <2>1. pc # "netfilter" /\ bridgeNf' = bridgeNf /\ warned' = warned
    BY <1>4, Zenon DEF RemoveLegacyRules, CreateChain, CloseChain, InsertAllow, EnsureChain,
       AppendRule, InsertRule
  <2> QED
    BY <1>1, <1>4, <2>1
<1>5. CASE Undisturbed /\ (EnsureDockerUser \/ EnsureHook \/ CapChain \/ CapRule \/ CapJump)
  <2>1. pc # "netfilter" /\ bridgeNf' = bridgeNf /\ warned' = warned
    BY <1>5, Zenon DEF EnsureDockerUser, EnsureHook, CapChain, CapRule, CapJump, EnsureJump,
       EnsureChain, AppendRule
  <2> QED
    BY <1>1, <1>5, <2>1
<1>6. CASE Undisturbed /\ (StartIpv6 \/ CommandFails)
  <2>1. pc # "netfilter" /\ bridgeNf' = bridgeNf /\ warned \subseteq warned'
    BY <1>6 DEF StartIpv6, CommandFails, tables
  <2> QED
    BY <1>1, <1>6, <2>1
<1>7. CASE Undisturbed /\ (DockerRestarts \/ UNCHANGED vars)
  <2>1. pc' = pc /\ bridgeNf' = bridgeNf /\ warned' = warned
    BY <1>7 DEF DockerRestarts, vars, tables
  <2> QED
    BY <1>1, <1>7, <2>1
<1> QED
  BY <1>2, <1>3, <1>4, <1>5, <1>6, <1>7, UndisturbedMoves DEF SetupStep

(* ... ipv6 was done or warned about, ...                                  *)
LEMMA Ipv6DoneStep ==
    ASSUME TypeOK, PlaceInv, Ipv6Done, [Next]_vars
    PROVE  Ipv6Done'
<1> SUFFICES ASSUME Undisturbed', pc' = "applied"
             PROVE  fam' = "ip6" \/ "ip6" \in warned'
  BY DEF Ipv6Done
<1>1. CASE StartSetup
  BY <1>1 DEF StartSetup
<1>2. CASE SetupStep
  <2>1. CASE CapJump \/ StartIpv6 \/ CommandFails
    BY <2>1 DEF CapJump, StartIpv6, CommandFails, AfterCap, TypeOK, Families, job
  <2>2. CASE EnsureBridgeNetfilter \/ RemoveLegacyRules \/ CreateChain \/ CloseChain
    BY <2>2 DEF EnsureBridgeNetfilter, RemoveLegacyRules, CreateChain, CloseChain
  <2>3. CASE InsertAllow \/ EnsureHook \/ CapChain \/ CapRule
    BY <2>3 DEF InsertAllow, EnsureHook, CapChain, CapRule
  <2>4. CASE EnsureDockerUser
    <3>1. pc' = "hook" \/ pc' = "refused"
      BY <2>4, Zenon DEF EnsureDockerUser
    <3> QED
      BY <3>1
  <2> QED
    BY <1>2, <2>1, <2>2, <2>3, <2>4 DEF SetupStep
<1>3. CASE Undisturbed /\ (DockerRestarts \/ UNCHANGED vars)
  BY <1>3 DEF DockerRestarts, Ipv6Done, vars, job
<1> QED
  BY <1>1, <1>2, <1>3, UndisturbedMoves

(* The jump into the cap is the last of it: a failure up to then is warned *)
(* about, and nothing of setup touches it after. *)
LEMMA CappedKept ==
    ASSUME NEW f, Capped(f), jumps[f][HookOf(Cap, "ssh")] > 0 =>
                                 jumps'[f][HookOf(Cap, "ssh")] > 0,
           rules'[f][Cap] = rules[f][Cap]
    PROVE  Capped(f)'
  BY DEF Capped, Cap

(* ... and so was the cap.                                                 *)
LEMMA IsCappedStep ==
    ASSUME TypeOK, TablesInv, PlaceInv, FreshInv, IsCapped, [Next]_vars
    PROVE  IsCapped'
<1> SUFFICES ASSUME Undisturbed', NEW f \in Families, CapDone(f)',
                    CapWarnings(f) \cap warned' = {}
             PROVE  Capped(f)'
  BY DEF IsCapped, CapWarnings
<1> DEFINE h == HookOf(Cap, "ssh")
<1>0. /\ f = "ip" \/ f = "ip6"
      /\ fam = "ip" \/ fam = "ip6"
      /\ h \in Hooks /\ h.chain = Cap /\ Cap \in ChainNames /\ Cap \notin PolicyChains
  BY HookFacts, ChainNumbers DEF TypeOK, Families
<1>1. CASE StartSetup
  <2>1. pc' = "netfilter" /\ fam' = "ip"
    BY <1>1 DEF StartSetup
  <2> QED
    BY <1>0, <2>1 DEF CapDone
<1>2. ASSUME Undisturbed, CapDone(f), warned \subseteq warned',
             SetupStep \/ DockerRestarts \/ UNCHANGED vars, rules'[f][Cap] = rules[f][Cap]
      PROVE  Capped(f)'
  <2>1. CapWarnings(f) \cap warned = {}
    BY <1>2
  <2>2. Capped(f)
    BY <1>2, <2>1 DEF IsCapped
  <2>3. jumps[f][h] > 0 => jumps'[f][h] > 0
    BY <1>0, <1>2, SetupAdds
  <2> QED
    BY <1>2, <2>2, <2>3, CappedKept
<1>3. ASSUME Undisturbed, SetupStep \/ DockerRestarts \/ UNCHANGED vars, CapDone(f),
             rules'[f][Cap] = rules[f][Cap]
      PROVE  Capped(f)'
  BY <1>2, <1>3, SetupAdds
<1>4. CASE Undisturbed /\ (EnsureBridgeNetfilter \/ RemoveLegacyRules \/ EnsureDockerUser)
  <2>1. fam' = "ip" /\ pc' \in {"legacy", "create", "hook", "refused"}
    <3>1. fam' = "ip"
      BY <1>4 DEF EnsureBridgeNetfilter, RemoveLegacyRules, EnsureDockerUser, PlaceInv, job
    <3>2. pc' \in {"legacy", "create", "hook", "refused"}
      BY <1>4, Zenon DEF EnsureBridgeNetfilter, RemoveLegacyRules, EnsureDockerUser
    <3> QED
      BY <3>1, <3>2
  <2> QED
    BY <1>0, <2>1 DEF CapDone
<1>5. CASE Undisturbed /\ (CreateChain \/ CloseChain \/ InsertAllow \/ EnsureHook)
  <2>1. fam' = fam /\ pc' \in {"create", "close", "allow", "hook", "dockerUser", "capChain"}
    BY <1>5 DEF CreateChain, CloseChain, InsertAllow, EnsureHook, job
  <2>2. CapDone(f)
    BY <1>0, <2>1 DEF CapDone
  <2>3. rules'[f][Cap] = rules[f][Cap]
    <3>1. CASE CreateChain
      BY <1>0, <3>1, CreateChainEffect DEF Flushed
    <3>2. CASE CloseChain
      BY <1>0, <3>2, CloseChainEffect DEF Added
    <3>3. CASE InsertAllow
      BY <1>0, <3>3, InsertAllowEffect DEF InsertedAt
    <3>4. CASE EnsureHook
      BY <3>4, EnsureHookEffect DEF HookedTo
    <3> QED
      BY <1>5, <3>1, <3>2, <3>3, <3>4
  <2> QED
    BY <1>3, <1>5, <2>2, <2>3 DEF SetupStep
<1>6. CASE Undisturbed /\ (CapChain \/ CapRule)
  <2>1. fam' = fam /\ pc' \in {"capRule", "capJump"}
    BY <1>6 DEF CapChain, CapRule, job
  <2>2. CapDone(f) /\ f # fam
    BY <1>0, <2>1 DEF CapDone
  <2>3. rules'[f][Cap] = rules[f][Cap]
    <3>1. CASE CapChain
      BY <1>0, <2>2, <3>1, CapChainEffect DEF Flushed
    <3>2. CASE CapRule
      BY <1>0, <2>2, <3>2, CapRuleEffect DEF Added
    <3> QED
      BY <1>6, <3>1, <3>2
  <2> QED
    BY <1>3, <1>6, <2>2, <2>3 DEF SetupStep
<1>7. CASE Undisturbed /\ CapJump
  <2>1. /\ pc = "capJump" /\ fam' = fam /\ pc' = (IF fam = "ip" THEN "ipv6" ELSE "applied")
    BY <1>7 DEF CapJump, AfterCap, job
  <2>2. HookedTo(fam, h)
    BY <1>7, CapJumpEffect
  <2>3. rules' = rules
    BY <2>2 DEF HookedTo
  <2>4. CASE f = fam
    <3>1. Cap \in exists[fam] /\ jumps'[fam][h] > 0
      BY <1>0, <2>2 DEF HookedTo
    <3>2. rules[fam][Cap] = <<DropOverCap>>
      BY <2>1, <3>1 DEF FreshInv
    <3> QED
      BY <2>3, <2>4, <3>1, <3>2 DEF Capped, Cap
  <2>5. CASE f # fam
    <3>1. CapDone(f)
      BY <1>0, <2>1, <2>5 DEF CapDone
    <3> QED
      BY <1>3, <1>7, <2>3, <3>1 DEF SetupStep
  <2> QED
    BY <2>4, <2>5
<1>8. CASE Undisturbed /\ StartIpv6
  <2>1. /\ pc = "ipv6" /\ fam = "ip" /\ rules' = rules
        /\ \/ pc' = "create" /\ fam' = "ip6"
           \/ pc' = "applied" /\ fam' = "ip" /\ "ip6" \in warned'
    BY <1>8 DEF StartIpv6, PlaceInv, tables
  <2>2. f = "ip"
    BY <1>0, <2>1 DEF CapDone, CapWarnings
  <2>3. CapDone(f)
    BY <2>1, <2>2 DEF CapDone
  <2> QED
    BY <1>3, <1>8, <2>1, <2>3 DEF SetupStep
<1>9. CASE Undisturbed /\ CommandFails
  <2>1. /\ fam' = fam /\ rules' = rules
        /\ \/ pc' = "failed"
           \/ fam = "ip6" /\ pc' = "applied" /\ "ip6" \in warned'
           \/ fam = "ip6" /\ pc' = "applied" /\ "cap6" \in warned'
           \/ fam = "ip" /\ pc' = "ipv6" /\ "cap" \in warned'
    BY <1>0, <1>9 DEF CommandFails, AfterCap, tables, job
  <2>2. pc' # "failed"
    BY DEF Undisturbed, Applying, SetupSteps
  <2>3. fam = "ip6" /\ f = "ip"
    BY <1>0, <2>1, <2>2 DEF CapDone, CapWarnings
  <2>4. CapDone(f)
    BY <2>3 DEF CapDone
  <2> QED
    BY <1>3, <1>9, <2>1, <2>4 DEF SetupStep
<1>10. CASE Undisturbed /\ (DockerRestarts \/ UNCHANGED vars)
  <2>1. UNCHANGED <<pc, fam, rules>>
    BY <1>10 DEF DockerRestarts, vars, tables, job
  <2> QED
    BY <1>3, <1>10, <2>1 DEF CapDone
<1> QED
  BY <1>1, <1>4, <1>5, <1>6, <1>7, <1>8, <1>9, <1>10, UndisturbedMoves DEF SetupStep

(* All of them.                                                            *)
LEMMA UndisturbedStep ==
    ASSUME TypeOK, TablesInv, PlaceInv, FreshInv, UndisturbedInv, [Next]_vars
    PROVE  UndisturbedInv'
<1> USE DEF UndisturbedInv
<1>1. OnTarget' /\ AreThere' /\ AreHooked'
  BY OnTargetStep, AreThereStep, AreHookedStep
<1>2. IsReached' /\ IsBridged'
  BY IsReachedStep, IsBridgedStep
<1>3. IsCapped' /\ Ipv6Done'
  BY IsCappedStep, Ipv6DoneStep
<1> QED
  BY <1>1, <1>2, <1>3

-----------------------------------------------------------------------------
(* What setup said it did, it did.                                         *)

Less == {pair \in Nat \X Nat : pair[1] < pair[2]}

(* The rule that decides is the first of those that match.                 *)
LEMMA LeastHit ==
    ASSUME NEW n \in Nat, NEW H \in SUBSET (1..n), H # {}
    PROVE  LET m == CHOOSE i \in H : \A j \in H : i <= j IN
           m \in H /\ \A j \in H : m <= j
<1>1. H \subseteq Nat
  OBVIOUS
<1>2. IsWellFoundedOn(Less, Nat)
  BY NatLessThanWellFounded DEF OpToRel, Less
<1>3. PICK i \in H : \A j \in H : ~(<<j, i>> \in Less)
  BY <1>1, <1>2, WFMin
<1>4. \A j \in H : i <= j
  <2> TAKE j \in H
  <2>1. i \in Nat /\ j \in Nat
    BY <1>1
  <2>2. j < i => <<j, i>> \in Less
    BY <2>1 DEF Less
  <2> QED
    BY <1>3, <2>1, <2>2
<1> QED
  BY <1>4

(* The n allow rules of a hooked chain decide for what they match, and its *)
(* DROP for the rest. *)
LEMMA ChainDecides ==
    ASSUME NEW f, NEW c, NEW n, NEW p, Holds(f, c, n), Hooked(f, c), ParentReached(f, c),
           NEW accepted, accepted <=> \E i \in 1..n : Matches(Allowed(c, i), p)
    PROVE  Verdict(f, c, p) = IF accepted THEN "ACCEPT" ELSE "DROP"
<1> DEFINE hits == {i \in 1..Len(rules[f][c]) : Matches(rules[f][c][i], p)}
           m == CHOOSE i \in hits : \A j \in hits : i <= j
<1>1. /\ n \in Nat /\ Len(rules[f][c]) = n + 1
      /\ rules[f][c][n + 1] = Drop
      /\ \A i \in 1..n : rules[f][c][i] = Allowed(c, i)
  BY DEF Holds
<1>2. n + 1 \in hits
  <2>1. Matches(Drop, p)
    BY DEF Matches, Drop
  <2> QED
    BY <1>1, <2>1
<1>3. m \in hits /\ \A j \in hits : m <= j
  <2>1. n + 1 \in Nat /\ hits \in SUBSET (1..(n + 1)) /\ hits # {}
    BY <1>1, <1>2
  <2> HIDE DEF hits
  <2> QED
    BY <2>1, LeastHit
<1>4. Verdict(f, c, p) = rules[f][c][m].verdict
  BY <1>2 DEF Verdict
<1> HIDE DEF m
<1>5. CASE accepted
  <2>1. PICK i \in 1..n : Matches(Allowed(c, i), p)
    BY <1>5
  <2>2. i \in hits
    BY <1>1, <2>1
  <2>3. m \in 1..n
    <3>1. m <= i /\ m \in 1..(n + 1)
      BY <1>1, <1>3, <2>2
    <3> QED
      BY <1>1, <3>1
  <2>4. rules[f][c][m] = Allowed(c, m)
    BY <1>1, <2>3
  <2>5. Allowed(c, m).verdict = "ACCEPT"
    BY DEF Allowed, AcceptEndpoint, AcceptReplies
  <2> QED
    BY <1>4, <1>5, <2>4, <2>5
<1>6. CASE ~accepted
  <2>1. m \notin 1..n
    BY <1>1, <1>3, <1>6
  <2>2. m = n + 1
    BY <1>1, <1>3, <2>1
  <2>3. rules[f][c][m].verdict = "DROP"
    BY <1>1, <2>2 DEF Drop
  <2> QED
    BY <1>4, <1>6, <2>3
<1> QED
  BY <1>5, <1>6

(* What the allow rules of each chain match.                               *)
LEMMA AllowedMatches ==
    ASSUME ranges \in Seq(Endpoints), NEW p \in Packets
    PROVE  LET L == Len(ranges) IN
           /\ p.reply \/ Configured(p) <=>
                 \E i \in 1..(L + 1) : Matches(Allowed("INPUT_CHAIN", i), p)
           /\ Configured(p) <=> \E i \in 1..L : Matches(Allowed("FORWARD_CHAIN", i), p)
           /\ p.reply <=> \E i \in 1..1 : Matches(Allowed("FORWARD_IN_CHAIN", i), p)
<1> DEFINE L == Len(ranges)
<1>0. L \in Nat
  OBVIOUS
<1>1. Matches(AcceptReplies, p) <=> p.reply
  BY DEF Matches, AcceptReplies
<1>2. \A e : Matches(AcceptEndpoint(e), p) <=> p.dst = e
  BY DEF Matches, AcceptEndpoint
<1>3. Configured(p) <=> \E i \in 1..L : Matches(Allowed("FORWARD_CHAIN", i), p)
  BY <1>2 DEF Configured, Allowed
<1>4. p.reply <=> \E i \in 1..1 : Matches(Allowed("FORWARD_IN_CHAIN", i), p)
  <2>1. Allowed("FORWARD_IN_CHAIN", 1) = AcceptReplies /\ 1 \in 1..1
    BY DEF Allowed
  <2>2. \A i \in 1..1 : i = 1
    OBVIOUS
  <2> QED
    BY <1>1, <2>1, <2>2, Zenon
<1>5. ASSUME p.reply \/ Configured(p)
      PROVE  \E i \in 1..(L + 1) : Matches(Allowed("INPUT_CHAIN", i), p)
  <2>1. CASE p.reply
    <3>1. 1 \in 1..(L + 1) /\ Allowed("INPUT_CHAIN", 1) = AcceptReplies
      BY <1>0 DEF Allowed
    <3> QED
      BY <1>1, <2>1, <3>1, Zenon
  <2>2. CASE Configured(p)
    <3>1. PICK i \in 1..L : ranges[i] = p.dst
      BY <2>2 DEF Configured
    <3>2. /\ i + 1 \in 1..(L + 1) /\ (i + 1) - 1 = i /\ i + 1 > 1
      BY <1>0
    <3>3. Allowed("INPUT_CHAIN", i + 1) = AcceptEndpoint(ranges[i])
      BY <3>2 DEF Allowed
    <3> QED
      BY <1>2, <3>1, <3>2, <3>3
  <2> QED
    BY <1>5, <2>1, <2>2, Zenon
<1>6. ASSUME NEW i \in 1..(L + 1), Matches(Allowed("INPUT_CHAIN", i), p)
      PROVE  p.reply \/ Configured(p)
  <2>1. CASE i > 1
    <3>1. i - 1 \in 1..L /\ Allowed("INPUT_CHAIN", i) = AcceptEndpoint(ranges[i - 1])
      BY <1>0, <2>1 DEF Allowed
    <3>2. p.dst = ranges[i - 1]
      BY <1>2, <1>6, <3>1
    <3> QED
      BY <3>1, <3>2 DEF Configured
  <2>2. CASE ~(i > 1)
    <3>1. Allowed("INPUT_CHAIN", i) = AcceptReplies
      BY <2>2 DEF Allowed
    <3> QED
      BY <1>1, <1>6, <3>1, Zenon
  <2> QED
    BY <2>1, <2>2
<1> QED
  BY <1>3, <1>4, <1>5, <1>6, Zenon

(* A guest's packet of either family gets the verdict of the config, once  *)
(* setup is through.                                                       *)
LEMMA AppliedEnforced ==
    ASSUME TypeOK, TablesInv, ChainsInv, UndisturbedInv, pc = "applied", ~disturbed,
           NEW f \in Families, f = "ip" \/ "ip6" \notin warned
    PROVE  Enforced(f)
<1> DEFINE L == Len(ranges)
<1>0. /\ Undisturbed /\ L \in Nat /\ ranges \in Seq(Endpoints)
      /\ f = "ip" \/ f = "ip6"
      /\ fam = "ip" \/ fam = "ip6"
  BY Basics DEF Undisturbed, Applying, TypeOK, Families
<1>1. f = fam \/ (f = "ip" /\ fam = "ip6")
  BY <1>0 DEF UndisturbedInv, Ipv6Done
<1>2. \A i \in 1..3 : Built(f, i) /\ Hung(f, i)
  BY <1>0, <1>1 DEF Built, Hung, Ipv6Given, Undisturbed
<1>3. \A c : ParentReached(f, c)
  <2>1. reach
    BY <1>0 DEF UndisturbedInv, IsReached
  <2> QED
    BY <2>1, Zenon DEF ParentReached
<1>4. \A c \in PolicyChains : Hooked(f, c) /\ Holds(f, c, Allows(f, c))
  <2> TAKE c \in PolicyChains
  <2>1. PICK i \in 1..3 : c = CHAINS[i]
    BY ChainNumbers
  <2>2. bridge # None /\ jumps[f][HookOf(c, bridge)] > 0
    BY <1>0, <1>2, <2>1 DEF UndisturbedInv, OnTarget, AreHooked
  <2>3. c \in exists[f]
    BY <1>0, <1>2, <2>1 DEF UndisturbedInv, AreThere
  <2>4. Holds(f, c, Allows(f, c))
    BY <1>2, <2>1, <2>3 DEF ChainsInv
  <2> QED
    BY <2>2, <2>4 DEF Hooked
<1>5. /\ "INPUT_CHAIN" \in PolicyChains /\ "FORWARD_CHAIN" \in PolicyChains
      /\ "FORWARD_IN_CHAIN" \in PolicyChains
  BY ChainNumbers
<1>6. ASSUME NEW c \in PolicyChains, NEW n, n = Allows(f, c), NEW p, NEW accepted,
             accepted <=> \E i \in 1..n : Matches(Allowed(c, i), p)
      PROVE  Verdict(f, c, p) = IF accepted THEN "ACCEPT" ELSE "DROP"
  <2>1. Holds(f, c, n) /\ Hooked(f, c) /\ ParentReached(f, c)
    BY <1>3, <1>4, <1>6
  <2> QED
    BY <1>6, <2>1, ChainDecides
<1> SUFFICES ASSUME NEW p \in Packets
             PROVE  /\ Verdict(f, "INPUT_CHAIN", p) =
                           VerdictIf(f = "ip" /\ (p.reply \/ Configured(p)))
                    /\ Verdict(f, "FORWARD_CHAIN", p) = VerdictIf(f = "ip" /\ Configured(p))
                    /\ Verdict(f, "FORWARD_IN_CHAIN", p) = VerdictIf(f = "ip" /\ p.reply)
  BY DEF Enforced
<1>7. CASE f = "ip"
  <2>1. /\ Allows(f, "INPUT_CHAIN") = L + 1 /\ Allows(f, "FORWARD_CHAIN") = L
        /\ Allows(f, "FORWARD_IN_CHAIN") = 1
    <3>1. \A c : Allows(f, c) = Placed(c, 2 * L + 2)
      BY <1>7 DEF Allows
    <3> QED
      BY <1>0, <3>1 DEF Placed
  <2>2. /\ p.reply \/ Configured(p) <=>
              \E i \in 1..(L + 1) : Matches(Allowed("INPUT_CHAIN", i), p)
        /\ Configured(p) <=> \E i \in 1..L : Matches(Allowed("FORWARD_CHAIN", i), p)
        /\ p.reply <=> \E i \in 1..1 : Matches(Allowed("FORWARD_IN_CHAIN", i), p)
    BY <1>0, AllowedMatches
  <2>3. Verdict(f, "INPUT_CHAIN", p) = IF p.reply \/ Configured(p) THEN "ACCEPT" ELSE "DROP"
    <3>1. PICK a : a = (p.reply \/ Configured(p))
      OBVIOUS
    <3>2. a <=> \E i \in 1..(L + 1) : Matches(Allowed("INPUT_CHAIN", i), p)
      BY <2>2, <3>1, Zenon
    <3>3. Verdict(f, "INPUT_CHAIN", p) = IF a THEN "ACCEPT" ELSE "DROP"
      BY <1>5, <1>6, <2>1, <3>2
    <3> QED
      BY <3>1, <3>3, Zenon
  <2>4. Verdict(f, "FORWARD_CHAIN", p) = IF Configured(p) THEN "ACCEPT" ELSE "DROP"
    <3>1. PICK a : a = Configured(p)
      OBVIOUS
    <3>2. a <=> \E i \in 1..L : Matches(Allowed("FORWARD_CHAIN", i), p)
      BY <2>2, <3>1, Zenon
    <3>3. Verdict(f, "FORWARD_CHAIN", p) = IF a THEN "ACCEPT" ELSE "DROP"
      BY <1>5, <1>6, <2>1, <3>2
    <3> QED
      BY <3>1, <3>3, Zenon
  <2>5. Verdict(f, "FORWARD_IN_CHAIN", p) = IF p.reply THEN "ACCEPT" ELSE "DROP"
    <3>1. PICK a : a = p.reply
      OBVIOUS
    <3>2. a <=> \E i \in 1..1 : Matches(Allowed("FORWARD_IN_CHAIN", i), p)
      BY <2>2, <3>1, Zenon
    <3>3. Verdict(f, "FORWARD_IN_CHAIN", p) = IF a THEN "ACCEPT" ELSE "DROP"
      BY <1>5, <1>6, <2>1, <3>2
    <3> QED
      BY <3>1, <3>3, Zenon
  <2> QED
    BY <1>7, <2>3, <2>4, <2>5, Zenon DEF VerdictIf
<1>8. CASE f = "ip6"
  <2>1. \A c \in PolicyChains : Verdict(f, c, p) = "DROP"
    <3> TAKE c \in PolicyChains
    <3>1. Allows(f, c) = 0
      BY <1>8 DEF Allows
    <3>2. FALSE <=> \E i \in 1..0 : Matches(Allowed(c, i), p)
      OBVIOUS
    <3>3. Verdict(f, c, p) = IF FALSE THEN "ACCEPT" ELSE "DROP"
      BY <1>6, <3>1, <3>2
    <3> QED
      BY <3>3
  <2>2. f # "ip"
    BY <1>8
  <2> QED
    BY <1>5, <2>1, <2>2 DEF VerdictIf
<1> QED
  BY <1>0, <1>7, <1>8

(* With the cap and the sysctls, this is AppliedMeansEnforced.             *)
LEMMA AppliedIsEnforced ==
    ASSUME TypeOK, TablesInv, ChainsInv, UndisturbedInv
    PROVE  AppliedMeansEnforced
<1> SUFFICES ASSUME pc = "applied", ~disturbed
             PROVE  /\ Enforced("ip")
                    /\ "ip6" \in warned \/ Enforced("ip6")
                    /\ "netfilter" \in warned \/ \A f \in Families : bridgeNf[f]
                    /\ "cap" \in warned \/ Capped("ip")
                    /\ {"ip6", "cap6"} \cap warned # {} \/ Capped("ip6")
  BY DEF AppliedMeansEnforced
<1>0. Undisturbed /\ "ip" \in Families /\ "ip6" \in Families
  BY DEF Undisturbed, Applying, Families
<1>1. Enforced("ip") /\ ("ip6" \in warned \/ Enforced("ip6"))
  BY <1>0, AppliedEnforced
<1>2. "netfilter" \in warned \/ \A f \in Families : bridgeNf[f]
  BY <1>0, Zenon DEF UndisturbedInv, IsBridged
<1>3. /\ "cap" \in warned \/ Capped("ip")
      /\ {"ip6", "cap6"} \cap warned # {} \/ Capped("ip6")
  <2>1. CapDone("ip") /\ CapDone("ip6")
    BY DEF CapDone
  <2>2. /\ CapWarnings("ip") \cap warned # {} \/ Capped("ip")
        /\ CapWarnings("ip6") \cap warned # {} \/ Capped("ip6")
    BY <1>0, <2>1 DEF UndisturbedInv, IsCapped
  <2>3. CapWarnings("ip") = {"cap"} /\ CapWarnings("ip6") = {"ip6", "cap6"}
    BY DEF CapWarnings
  <2> QED
    BY <2>2, <2>3
<1> QED
  BY <1>1, <1>2, <1>3, Zenon

-----------------------------------------------------------------------------
(* What teardown has left.                                                 *)

(* Teardown says cleaned only if nothing was stuck.                        *)
LEMMA CleanedStep ==
    ASSUME CleanedInv, [Next]_vars
    PROVE  CleanedInv'
<1> USE DEF CleanedInv
<1>1. CASE FinishTeardown
  BY <1>1 DEF FinishTeardown
<1>2. CASE TablesFlushed \/ DockerRestarts \/ NetworkChanges \/ UNCHANGED vars
  BY <1>2 DEF TablesFlushed, DockerRestarts, NetworkChanges, vars
<1>3. CASE StartSetup \/ StartTeardown \/ Killed
  BY <1>3 DEF StartSetup, StartTeardown, Killed
<1>4. CASE RemoveAllHooks \/ FlushChain \/ DeleteChain \/ TeardownIpv6
  <2>1. pc' \in {"unhook", "flush", "delete", "ipv6Down", "legacyDown"}
    BY <1>4 DEF RemoveAllHooks, FlushChain, DeleteChain, TeardownIpv6, NextChain
  <2> QED
    BY <2>1
<1>5. CASE SetupStep
  <2>1. CASE EnsureBridgeNetfilter \/ RemoveLegacyRules \/ CreateChain \/ CloseChain
    BY <2>1 DEF EnsureBridgeNetfilter, RemoveLegacyRules, CreateChain, CloseChain
  <2>2. CASE InsertAllow \/ EnsureDockerUser \/ EnsureHook
    BY <2>2 DEF InsertAllow, EnsureDockerUser, EnsureHook
  <2>3. CASE CapChain \/ CapRule \/ CapJump \/ StartIpv6 \/ CommandFails
    BY <2>3 DEF CapChain, CapRule, CapJump, StartIpv6, CommandFails, AfterCap
  <2> QED
    BY <1>5, <2>1, <2>2, <2>3 DEF SetupStep
<1> QED
  BY <1>1, <1>2, <1>3, <1>4, <1>5 DEF Next, TeardownStep

(* Setup is in none of the steps of teardown, nor does it end where        *)
(* teardown does. *)
LEMMA SetupLeadsTo ==
    ASSUME SetupStep
    PROVE  pc' \in SetupSteps \cup {"applied", "failed", "refused"}
<1> USE DEF SetupSteps
<1>1. CASE EnsureBridgeNetfilter \/ RemoveLegacyRules \/ CreateChain \/ CloseChain
  BY <1>1 DEF EnsureBridgeNetfilter, RemoveLegacyRules, CreateChain, CloseChain
<1>2. CASE InsertAllow \/ EnsureHook
  BY <1>2 DEF InsertAllow, EnsureHook
<1>3. CASE EnsureDockerUser
  <2>1. pc' = "hook" \/ pc' = "refused"
    BY <1>3, Zenon DEF EnsureDockerUser
  <2> QED
    BY <2>1
<1>4. CASE CapChain \/ CapRule \/ CapJump \/ StartIpv6 \/ CommandFails
  BY <1>4 DEF CapChain, CapRule, CapJump, StartIpv6, CommandFails, AfterCap
<1> QED
  BY <1>1, <1>2, <1>3, <1>4 DEF SetupStep

(* A chain teardown has passed is gone, unless it says that it is stuck.   *)
LEMMA GoneStep ==
    ASSUME TypeOK, TablesInv, PlaceInv, GoneInv, [Next]_vars
    PROVE  GoneInv'
<1> SUFFICES ASSUME "chain" \notin misread', NEW f \in Families, NEW i \in 1..4,
                    Passed(f, i)', ALL_CHAINS[i] \notin stuck'
             PROVE  ALL_CHAINS[i] \notin exists'[f]
  BY DEF GoneInv
<1>0. /\ f = "ip" \/ f = "ip6"
      /\ fam = "ip" \/ fam = "ip6"
      /\ pc' \in {"unhook", "flush", "delete", "ipv6Down", "legacyDown", "cleaned"}
  BY DEF Passed, TypeOK, Families
<1>1. ASSUME "chain" \notin misread, Passed(f, i), ALL_CHAINS[i] \notin stuck, exists' = exists
      PROVE  ALL_CHAINS[i] \notin exists'[f]
  BY <1>1 DEF GoneInv
<1>2. CASE StartSetup \/ SetupStep \/ Killed
  <2>1. pc' \in SetupSteps \cup {"applied", "failed", "refused", "killed"}
    BY <1>2, SetupLeadsTo DEF StartSetup, Killed, SetupSteps
  <2> QED
    BY <1>0, <2>1 DEF SetupSteps
<1>3. CASE StartTeardown
  BY <1>0, <1>3 DEF StartTeardown, Passed
<1>4. CASE RemoveAllHooks
  <2>1. /\ pc = "unhook" /\ pc' = "flush" /\ exists' = exists
        /\ UNCHANGED <<fam, k, stuck, misread>>
    BY <1>4 DEF RemoveAllHooks, job
  <2>2. Passed(f, i)
    BY <2>1 DEF Passed
  <2> QED
    BY <1>1, <2>1, <2>2
<1>5. CASE FlushChain
  <2>1. /\ pc = "flush" /\ pc' = "delete" /\ exists' = exists
        /\ UNCHANGED <<fam, k, stuck, misread>>
    BY <1>5 DEF FlushChain
  <2>2. Passed(f, i)
    BY <2>1 DEF Passed
  <2> QED
    BY <1>1, <2>1, <2>2
<1>6. CASE DeleteChain
  <2>1. /\ pc = "delete" /\ k \in 1..4 /\ UNCHANGED <<fam, misread>>
        /\ IF k < 4 THEN pc' = "unhook" /\ k' = k + 1
           ELSE pc' = (IF fam = "ip" THEN "ipv6Down" ELSE "legacyDown") /\ k' = 1
    BY <1>6, ChainFacts DEF DeleteChain, NextChain, PlaceInv
  <2>2. Gone(fam, ALL_CHAINS[k]) /\ stuck \subseteq stuck'
    <3>1. stuck \subseteq stuck'
      BY <1>6 DEF DeleteChain
    <3> QED
      BY <1>6, <3>1, DeleteChainEffect
  <2>3. Passed(f, i) \/ (f = fam /\ i = k)
    <3>1. CASE f = fam
      <4>1. i <= k
        <5>1. CASE k < 4
          BY <1>0, <2>1, <3>1, <5>1 DEF Passed
        <5>2. CASE k = 4
          BY <5>2
        <5> QED
          BY <2>1, <5>1, <5>2
      <4> QED
        BY <2>1, <3>1, <4>1 DEF Passed
    <3>2. CASE f # fam
      <4>1. f = "ip" /\ fam = "ip6"
        BY <1>0, <2>1, <3>2 DEF Passed
      <4> QED
        BY <2>1, <4>1 DEF Passed
    <3> QED
      BY <3>1, <3>2
  <2>4. CASE Passed(f, i)
    <3>1. ALL_CHAINS[i] \notin exists[f]
      BY <2>1, <2>2, <2>4 DEF GoneInv
    <3>2. exists'[f] \subseteq exists[f]
      BY <2>2 DEF Gone
    <3> QED
      BY <3>1, <3>2
  <2>5. CASE f = fam /\ i = k
    <3>1. \/ exists' = [exists EXCEPT ![fam] = @ \ {ALL_CHAINS[k]}]
          \/ stuck' = stuck \cup {ALL_CHAINS[k]}
      BY <1>6, <2>1 DEF DeleteChain
    <3>2. exists \in [Families -> SUBSET ChainNames]
      BY Basics DEF Tables
    <3> QED
      BY <2>5, <3>1, <3>2
  <2> QED
    BY <2>3, <2>4, <2>5
<1>7. CASE TeardownIpv6
  <2>1. /\ pc = "ipv6Down" /\ exists' = exists /\ stuck' = stuck /\ k' = k /\ k = 1
        /\ "chain" \notin misread
        /\ \/ pc' = "unhook" /\ fam' = "ip6"
           \/ pc' = "legacyDown" /\ "ip6" \in misread'
    BY <1>7 DEF TeardownIpv6, PlaceInv, TeardownSteps, LoopSteps, tables
  <2>2. f = "ip"
    BY <1>0, <2>1 DEF Passed
  <2>3. Passed(f, i)
    BY <2>1, <2>2 DEF Passed
  <2> QED
    BY <1>1, <2>1, <2>3
<1>8. CASE FinishTeardown
  <2>1. pc = "legacyDown" /\ pc' = "cleaned" /\ exists' = exists /\ UNCHANGED <<stuck, misread>>
    BY <1>0, <1>8 DEF FinishTeardown
  <2>2. Passed(f, i)
    BY <2>1 DEF Passed
  <2> QED
    BY <1>1, <2>1, <2>2
<1>9. CASE TablesFlushed
  BY <1>9, TablesFlushedEffect DEF AllGone
<1>10. CASE DockerRestarts \/ NetworkChanges \/ UNCHANGED vars
  <2>1. UNCHANGED <<exists, pc, fam, k, stuck, misread>>
    BY <1>10 DEF DockerRestarts, NetworkChanges, vars, tables, job
  <2>2. Passed(f, i)
    BY <2>1 DEF Passed
  <2> QED
    BY <1>1, <2>1, <2>2
<1> QED
  BY <1>2, <1>3, <1>4, <1>5, <1>6, <1>7, <1>8, <1>9, <1>10 DEF Next, TeardownStep

(* Nothing jumps to a chain that is gone, so the hooks are gone as well.   *)
LEMMA CleanedIsGone ==
    ASSUME TypeOK, TablesInv, GoneInv, CleanedInv
    PROVE  CleanedMeansGone
<1> SUFFICES ASSUME "chain" \notin misread, pc = "cleaned", NEW f \in Families,
                    ~(f = "ip6" /\ "ip6" \in misread)
             PROVE  NothingLeft(f)
  BY DEF CleanedMeansGone, Families
<1>1. \A i \in 1..4 : ALL_CHAINS[i] \notin exists[f]
  BY DEF GoneInv, CleanedInv, Passed
<1>2. \A c \in ChainNames : c \notin exists[f]
  BY <1>1, ChainNumbers
<1>3. exists[f] = {}
  BY <1>2 DEF TypeOK
<1>4. \A h \in Hooks : jumps[f][h] = 0
  BY <1>2, HookFacts DEF TablesInv
<1> QED
  BY <1>3, <1>4 DEF NothingLeft

(* Before the first failure teardown leaves no jump, no rule and so no     *)
(* chain.                                                                  *)
LEMMA FaultlessStep ==
    ASSUME TypeOK, TablesInv, PlaceInv, FaultlessInv, [Next]_vars
    PROVE  FaultlessInv'
<1> DEFINE NoJumps == \A h \in Hooks : h.chain = ALL_CHAINS[k] => jumps[fam][h] = 0
<1> SUFFICES ASSUME faults' = 0
             PROVE  /\ pc' \in TeardownSteps => stuck' = {}
                    /\ pc' # "left"
                    /\ pc' \in {"flush", "delete"} => NoJumps'
                    /\ pc' = "delete" => rules'[fam'][ALL_CHAINS[k']] = <<>>
  BY DEF FaultlessInv
<1>0. /\ faults = 0 /\ faults' = faults
      /\ pc \in TeardownSteps => stuck = {}
      /\ pc # "left"
      /\ pc \in {"flush", "delete"} => NoJumps
      /\ pc = "delete" => rules[fam][ALL_CHAINS[k]] = <<>>
  <2>1. faults = 0
    BY FaultsGrow, FaultsAssumption DEF TypeOK
  <2> QED
    BY <2>1 DEF FaultlessInv
<1>1. CASE StartSetup \/ SetupStep \/ Killed
  <2>1. pc' \in SetupSteps \cup {"applied", "failed", "refused", "killed"}
    BY <1>1, SetupLeadsTo DEF StartSetup, Killed, SetupSteps
  <2> QED
    BY <2>1 DEF SetupSteps, TeardownSteps
<1>2. CASE StartTeardown
  BY <1>2 DEF StartTeardown
<1>3. CASE RemoveAllHooks
  <2>1. pc = "unhook" /\ pc' = "flush" /\ UNCHANGED <<fam, k, stuck>>
    BY <1>3 DEF RemoveAllHooks, job
  <2>2. \A h \in Hooks : h.chain = ALL_CHAINS[k] => jumps'[fam][h] = 0
    BY <1>0, <1>3, RemoveAllHooksEffect DEF Unhooked
  <2>3. stuck' = {}
    BY <1>0, <2>1 DEF TeardownSteps
  <2> QED
    BY <2>1, <2>2, <2>3
<1>4. CASE FlushChain
  <2>1. /\ pc = "flush" /\ UNCHANGED <<fam, stuck>>
        /\ faults' # faults + 1
    BY <1>0, <1>4 DEF FlushChain
  <2>2. pc' = "delete" /\ k' = k
    BY <1>4, <2>1 DEF FlushChain
  <2>3. Emptied(fam, ALL_CHAINS[k])
    BY <1>4, FlushChainEffect
  <2>4. rules'[fam][ALL_CHAINS[k]] = <<>> /\ jumps' = jumps
    BY <2>1, <2>3 DEF Emptied
  <2>5. NoJumps
    BY <1>0, <2>1
  <2>6. stuck' = {}
    BY <1>0, <2>1 DEF TeardownSteps
  <2> QED
    BY <2>1, <2>2, <2>4, <2>5, <2>6
<1>5. CASE DeleteChain
  <2>1. pc = "delete"
    BY <1>5 DEF DeleteChain
  <2>2. Deletable(fam, ALL_CHAINS[k])
    BY <1>0, <2>1 DEF Deletable
  <2>3. stuck' = stuck
    BY <1>0, <1>5, <2>2 DEF DeleteChain
  <2>4. pc' \in {"unhook", "ipv6Down", "legacyDown"}
    BY <1>5 DEF DeleteChain, NextChain
  <2>5. stuck' = {}
    BY <1>0, <2>1, <2>3 DEF TeardownSteps
  <2> QED
    BY <2>4, <2>5
<1>6. CASE TeardownIpv6
  <2>1. pc = "ipv6Down" /\ pc' \in {"unhook", "legacyDown"} /\ stuck' = stuck
    BY <1>6 DEF TeardownIpv6
  <2> QED
    BY <1>0, <2>1 DEF TeardownSteps
<1>7. CASE FinishTeardown
  <2>1. pc = "legacyDown" /\ stuck' = stuck /\ pc' = IF stuck = {} THEN "cleaned" ELSE "left"
    BY <1>7 DEF FinishTeardown
  <2>2. pc' = "cleaned"
    BY <1>0, <2>1 DEF TeardownSteps
  <2> QED
    BY <2>2 DEF TeardownSteps
<1>8. CASE TablesFlushed
  BY <1>0, <1>8 DEF TablesFlushed, Fault
<1>9. CASE DockerRestarts \/ NetworkChanges \/ UNCHANGED vars
  <2>1. UNCHANGED <<pc, fam, k, stuck>>
    BY <1>9 DEF DockerRestarts, NetworkChanges, vars, job
  <2>2. jumps' = jumps /\ rules' = rules
    BY <1>9, UntouchedBy DEF Untouched
  <2> QED
    BY <1>0, <2>1, <2>2
<1> QED
  BY <1>1, <1>2, <1>3, <1>4, <1>5, <1>6, <1>7, <1>8, <1>9 DEF Next, TeardownStep

(* So nothing is stuck.                                                    *)
LEMMA FaultlessNotStuck ==
    ASSUME FaultlessInv
    PROVE  StuckOnlyIfFailed
  BY DEF FaultlessInv, StuckOnlyIfFailed

-----------------------------------------------------------------------------
(* One copy of each hook.                                                  *)

(* What was taken for a -C that found nothing is not forgotten.            *)
LEMMA JumpsMisread ==
    ASSUME [Next]_vars, "jump" \in misread
    PROVE  "jump" \in misread'
<1>1. CASE StartSetup \/ EnsureBridgeNetfilter \/ RemoveLegacyRules \/ CreateChain \/ CloseChain
  BY <1>1 DEF StartSetup, EnsureBridgeNetfilter, RemoveLegacyRules, CreateChain, CloseChain
<1>2. CASE InsertAllow \/ EnsureDockerUser \/ CapChain \/ CapRule \/ StartIpv6 \/ CommandFails
  BY <1>2 DEF InsertAllow, EnsureDockerUser, CapChain, CapRule, StartIpv6, CommandFails
<1>3. CASE EnsureHook \/ CapJump
  BY <1>3 DEF EnsureHook, CapJump, EnsureJump
<1>4. CASE StartTeardown
  BY <1>4 DEF StartTeardown
<1>5. CASE TeardownStep
  BY <1>5 DEF TeardownStep, RemoveAllHooks, FlushChain, DeleteChain, TeardownIpv6, FinishTeardown
<1>6. CASE Killed \/ TablesFlushed \/ DockerRestarts \/ NetworkChanges \/ UNCHANGED vars
  BY <1>6 DEF Killed, TablesFlushed, DockerRestarts, NetworkChanges, vars
<1> QED
  BY <1>1, <1>2, <1>3, <1>4, <1>5, <1>6 DEF Next, SetupStep

(* Only a failed -C makes a second copy of a hook.                         *)
LEMMA SingleStep ==
    ASSUME TypeOK, TablesInv, PlaceInv, HooksAreSingle, [Next]_vars
    PROVE  HooksAreSingle'
<1> SUFFICES ASSUME "jump" \notin misread', NEW g \in Families, NEW h \in Hooks
             PROVE  jumps'[g][h] <= 1
  BY DEF HooksAreSingle
<1>1. jumps[g][h] <= 1 /\ jumps[g][h] \in Nat
  <2>1. "jump" \notin misread
    BY JumpsMisread
  <2>2. jumps \in [Families -> [Hooks -> Nat]]
    BY Basics DEF Tables
  <2> QED
    BY <2>1, <2>2 DEF HooksAreSingle
<1>2. ASSUME jumps' = jumps PROVE jumps'[g][h] <= 1
  BY <1>1, <1>2
<1>3. CASE Untouched
  BY <1>2, <1>3 DEF Untouched
<1>4. CASE AllGone
  BY <1>4 DEF AllGone
<1>5. ASSUME NEW f \in Families, NEW c \in ChainNames,
             \/ Flushed(f, c) \/ Emptied(f, c) \/ Gone(f, c)
             \/ c \in PolicyChains /\ Added(f, c, Drop)
             \/ c = Cap /\ Added(f, c, DropOverCap)
             \/ c \in PolicyChains /\ \E r \in PolicyRules, p \in Nat \ {0} :
                                         InsertedAt(f, c, r, p)
      PROVE  jumps'[g][h] <= 1
  <2>1. jumps' = jumps
    BY <1>5 DEF Flushed, Emptied, Gone, Added, InsertedAt
  <2> QED
    BY <1>2, <2>1
<1>6. ASSUME NEW f \in Families, NEW c \in ChainNames, Unhooked(f, c)
      PROVE  jumps'[g][h] <= 1
  <2>1. jumps'[g][h] = jumps[g][h] \/ jumps'[g][h] = 0
    BY <1>6 DEF Unhooked
  <2> QED
    BY <1>1, <2>1
<1>7. ASSUME NEW f \in Families, NEW i \in Hooks, HookedTo(f, i)
      PROVE  jumps'[g][h] <= 1
  <2>1. misread' # misread \cup {"jump"}
    OBVIOUS
  <2>2. jumps'[f][i] = IF jumps[f][i] = 0 THEN 1 ELSE jumps[f][i]
    BY <1>7, <2>1 DEF HookedTo
  <2>3. CASE g = f /\ h = i
    BY <1>1, <2>2, <2>3
  <2>4. CASE ~(g = f /\ h = i)
    BY <1>1, <1>7, <2>4 DEF HookedTo
  <2> QED
    BY <2>3, <2>4
<1> QED
  BY <1>3, <1>4, <1>5, <1>6, <1>7, Effects

-----------------------------------------------------------------------------
(* What an open chain costs.                                               *)

(* Three chains.                                                           *)
LEMMA PolicyChainsFinite == IsFiniteSet(PolicyChains)
<1>1. IsFiniteSet({"INPUT_CHAIN"})
  BY FS_Singleton
<1>2. IsFiniteSet({"INPUT_CHAIN"} \cup {"FORWARD_CHAIN"})
  BY <1>1, FS_AddElement
<1>3. IsFiniteSet(({"INPUT_CHAIN"} \cup {"FORWARD_CHAIN"}) \cup {"FORWARD_IN_CHAIN"})
  BY <1>2, FS_AddElement
<1>4. PolicyChains = ({"INPUT_CHAIN"} \cup {"FORWARD_CHAIN"}) \cup {"FORWARD_IN_CHAIN"}
  BY ChainNumbers
<1> QED
  BY <1>3, <1>4

(* A set that grows by at most one chain a failure.                        *)
LEMMA OneEach ==
    ASSUME NEW S \in SUBSET PolicyChains, NEW T \in SUBSET PolicyChains,
           NEW n \in Nat, NEW m \in Nat, Cardinality(S) <= n,
           \/ T \subseteq S /\ n <= m
           \/ n + 1 <= m /\ \E c : T \subseteq S \cup {c}
    PROVE  Cardinality(T) <= m
<1>1. IsFiniteSet(S)
  BY PolicyChainsFinite, FS_Subset
<1>2. Cardinality(S) \in Nat
  BY <1>1, FS_CardinalityType
<1>3. CASE T \subseteq S /\ n <= m
  <2>1. IsFiniteSet(T) /\ Cardinality(T) <= Cardinality(S)
    BY <1>1, <1>3, FS_Subset
  <2>2. Cardinality(T) \in Nat
    BY <2>1, FS_CardinalityType
  <2> QED
    BY <1>2, <1>3, <2>1, <2>2
<1>4. CASE n + 1 <= m /\ \E c : T \subseteq S \cup {c}
  <2>1. PICK c : T \subseteq S \cup {c}
    BY <1>4
  <2>2. /\ IsFiniteSet(S \cup {c})
        /\ Cardinality(S \cup {c}) = IF c \in S THEN Cardinality(S) ELSE Cardinality(S) + 1
    BY <1>1, FS_AddElement
  <2>3. IsFiniteSet(T) /\ Cardinality(T) <= Cardinality(S \cup {c})
    BY <2>1, <2>2, FS_Subset
  <2>4. Cardinality(T) \in Nat
    BY <2>3, FS_CardinalityType
  <2> QED
    BY <1>2, <1>4, <2>2, <2>3, <2>4
<1> QED
  BY <1>3, <1>4

(* A step that adds no jump to a chain, leaves its rules and does not      *)
(* remove it opens nothing.                                                *)
LEMMA OpenKept ==
    ASSUME NEW c \in PolicyChains, c \in Open',
           \A h \in Hooks : h.chain = c /\ jumps'["ip"][h] > 0 => jumps["ip"][h] > 0,
           rules'["ip"][c] = rules["ip"][c], c \in exists["ip"] => c \in exists'["ip"]
    PROVE  c \in Open
  BY DEF Open, Jumped, Closed

(* The steps that open a chain, and the one that closes one.               *)
LEMMA OpenMoves ==
    ASSUME TypeOK, TablesInv, PlaceInv, FreshInv, ChainsInv, [Next]_vars,
           NEW c \in PolicyChains, c \in Open'
    PROVE  \/ c \in Open /\ ~(CloseChain /\ fam = "ip" /\ c = CHAINS[k])
           \/ CreateChain /\ fam = "ip" /\ c = CHAINS[k]
           \/ FlushChain /\ fam = "ip" /\ c = ALL_CHAINS[k] /\ Jumped(c)
<1> DEFINE Goal == \/ c \in Open /\ ~(CloseChain /\ fam = "ip" /\ c = CHAINS[k])
                   \/ CreateChain /\ fam = "ip" /\ c = CHAINS[k]
                   \/ FlushChain /\ fam = "ip" /\ c = ALL_CHAINS[k] /\ Jumped(c)
<1>0. /\ "ip" \in Families /\ fam \in Families /\ c \in ChainNames /\ c # Cap
      /\ Jumped(c)' /\ ~Closed("ip", c)'
  BY ChainNumbers DEF Open, TypeOK, Families
<1>a. ASSUME pc # "close",
             \A h \in Hooks : h.chain = c /\ jumps'["ip"][h] > 0 => jumps["ip"][h] > 0,
             rules'["ip"][c] = rules["ip"][c], c \in exists["ip"] => c \in exists'["ip"]
      PROVE  Goal
  BY <1>a, OpenKept DEF CloseChain
<1>b. ASSUME Untouched, ~CloseChain PROVE Goal
  BY <1>b, OpenKept DEF Untouched
<1>c. PICK i \in 1..3 : c = CHAINS[i]
  BY ChainNumbers
<1>d. ASSUME Built("ip", i)', c \in exists'["ip"] PROVE FALSE
  <2>1. ChainsInv'
    BY ChainsStep
  <2>2. PICK n : n = Allows("ip", CHAINS[i])'
    OBVIOUS
  <2>3. Holds("ip", c, n)'
    BY <1>0, <1>c, <1>d, <2>1, <2>2 DEF ChainsInv
  <2>4. Closed("ip", c)'
    BY <1>d, <2>3, HoldsCloses DEF Holds, Closed
  <2> QED
    BY <1>0, <2>4
<1>1. CASE CreateChain
  <2>1. pc = "create" /\ Flushed(fam, CHAINS[k])
    BY <1>1, CreateChainEffect DEF CreateChain
  <2>2. CASE fam = "ip" /\ c = CHAINS[k]
    BY <1>1, <2>2
  <2>3. CASE ~(fam = "ip" /\ c = CHAINS[k])
    <3>1. jumps' = jumps /\ rules'["ip"][c] = rules["ip"][c] /\ exists["ip"] \subseteq exists'["ip"]
      BY <1>0, <2>1, <2>3 DEF Flushed
    <3> QED
      BY <1>a, <2>1, <3>1
  <2> QED
    BY <2>2, <2>3
<1>2. CASE CloseChain
  <2>1. Added(fam, CHAINS[k], Drop)
    BY <1>2, CloseChainEffect
  <2>2. CASE fam = "ip" /\ c = CHAINS[k]
    <3>1. Added("ip", c, Drop)
      BY <2>1, <2>2
    <3>2. rules["ip"][c] \in Seq(Rules)
      BY <1>0 DEF TypeOK
    <3>3. /\ c \in exists'["ip"] /\ Len(rules["ip"][c]) \in Nat
          /\ Len(rules'["ip"][c]) = Len(rules["ip"][c]) + 1
          /\ rules'["ip"][c][Len(rules["ip"][c]) + 1] = Drop
      BY <3>1, <3>2 DEF Added
    <3>4. rules'["ip"][c] # <<>>
      <4>1. Len(<<>>) = 0
        OBVIOUS
      <4> QED
        BY <3>3, <4>1
    <3> QED
      BY <1>0, <3>3, <3>4 DEF Closed
  <2>3. CASE ~(fam = "ip" /\ c = CHAINS[k])
    <3>1. jumps' = jumps /\ rules'["ip"][c] = rules["ip"][c] /\ exists' = exists
      BY <1>0, <2>1, <2>3 DEF Added
    <3>2. c \in Open
      BY <3>1, OpenKept
    <3> QED
      BY <2>3, <3>2
  <2> QED
    BY <2>2, <2>3
<1>3. CASE InsertAllow
  <2>1. /\ InsertedAt("ip", AllowRules[k].chain, AllowRules[k].rule, AllowRules[k].position)
        /\ pc = "allow" /\ pc' \in {"allow", "dockerUser"} /\ fam' = fam /\ fam = "ip"
    BY <1>3, InsertAllowEffect DEF InsertAllow, PlaceInv
  <2>2. CASE c = AllowRules[k].chain
    <3>1. c \in exists'["ip"]
      BY <2>1, <2>2 DEF InsertedAt
    <3>2. Built("ip", i)'
      BY <2>1 DEF Built, Applying, SetupSteps
    <3> QED
      BY <1>d, <3>1, <3>2
  <2>3. CASE c # AllowRules[k].chain
    <3>1. jumps' = jumps /\ rules'["ip"][c] = rules["ip"][c] /\ exists' = exists
      BY <1>0, <2>1, <2>3 DEF InsertedAt
    <3> QED
      BY <1>a, <2>1, <3>1
  <2> QED
    BY <2>2, <2>3
<1>4. CASE EnsureHook
  <2>1. /\ HookedTo(fam, HookOf(CHAINS[k], target))
        /\ HookOf(CHAINS[k], target).chain = CHAINS[k]
        /\ pc = "hook" /\ pc' \in {"hook", "capChain"} /\ fam' = fam
    BY <1>4, EnsureHookEffect DEF EnsureHook
  <2>2. CASE fam = "ip" /\ c = CHAINS[k]
    <3>1. c \in exists'["ip"]
      BY <2>1, <2>2 DEF HookedTo
    <3>2. Built("ip", i)'
      BY <2>1, <2>2 DEF Built, Applying, SetupSteps, CapSteps
    <3> QED
      BY <1>d, <3>1, <3>2
  <2>3. CASE ~(fam = "ip" /\ c = CHAINS[k])
    <3>1. rules' = rules /\ exists' = exists
      BY <2>1 DEF HookedTo
    <3>2. \A h \in Hooks : h.chain = c => jumps'["ip"][h] = jumps["ip"][h]
      BY <1>0, <2>1, <2>3 DEF HookedTo
    <3> QED
      BY <1>a, <2>1, <3>1, <3>2
  <2> QED
    BY <2>2, <2>3
<1>5. CASE CapChain
  <2>1. pc = "capChain" /\ Flushed(fam, Cap)
    BY <1>5, CapChainEffect DEF CapChain
  <2>2. jumps' = jumps /\ rules'["ip"][c] = rules["ip"][c] /\ exists["ip"] \subseteq exists'["ip"]
    BY <1>0, <2>1 DEF Flushed
  <2> QED
    BY <1>a, <2>1, <2>2
<1>6. CASE CapRule
  <2>1. pc = "capRule" /\ Added(fam, Cap, DropOverCap)
    BY <1>6, CapRuleEffect DEF CapRule
  <2>2. jumps' = jumps /\ rules'["ip"][c] = rules["ip"][c] /\ exists' = exists
    BY <1>0, <2>1 DEF Added
  <2> QED
    BY <1>a, <2>1, <2>2
<1>7. CASE CapJump
  <2>1. pc = "capJump" /\ HookedTo(fam, HookOf(Cap, "ssh")) /\ HookOf(Cap, "ssh").chain = Cap
    BY <1>7, CapJumpEffect, HookFacts DEF CapJump
  <2>2. rules' = rules /\ exists' = exists
    BY <2>1 DEF HookedTo
  <2>3. \A h \in Hooks : h.chain = c => jumps'["ip"][h] = jumps["ip"][h]
    BY <1>0, <2>1 DEF HookedTo
  <2> QED
    BY <1>a, <2>1, <2>2, <2>3
<1>8. CASE RemoveAllHooks
  <2>1. pc = "unhook" /\ Unhooked(fam, ALL_CHAINS[k])
    BY <1>8, RemoveAllHooksEffect DEF RemoveAllHooks
  <2>2. rules' = rules /\ exists' = exists
    BY <2>1 DEF Unhooked
  <2>3. \A h \in Hooks : jumps'["ip"][h] > 0 => jumps["ip"][h] > 0
    <3>1. \A h \in Hooks : jumps'["ip"][h] = jumps["ip"][h] \/ jumps'["ip"][h] = 0
      BY <1>0, <2>1 DEF Unhooked
    <3> QED
      BY <3>1
  <2> QED
    BY <1>a, <2>1, <2>2, <2>3
<1>9. CASE FlushChain
  <2>1. pc = "flush" /\ Emptied(fam, ALL_CHAINS[k])
    BY <1>9, FlushChainEffect DEF FlushChain
  <2>2. jumps' = jumps /\ exists' = exists
    BY <2>1 DEF Emptied
  <2>3. CASE fam = "ip" /\ c = ALL_CHAINS[k]
    BY <1>0, <1>9, <2>2, <2>3 DEF Jumped
  <2>4. CASE ~(fam = "ip" /\ c = ALL_CHAINS[k])
    <3>1. rules'["ip"][c] = rules["ip"][c]
      BY <1>0, <2>1, <2>4 DEF Emptied
    <3> QED
      BY <1>a, <2>1, <2>2, <3>1
  <2> QED
    BY <2>3, <2>4
<1>10. CASE DeleteChain
  <2>1. pc = "delete" /\ Gone(fam, ALL_CHAINS[k])
    BY <1>10, DeleteChainEffect DEF DeleteChain
  <2>2. jumps' = jumps /\ rules' = rules
    BY <2>1 DEF Gone
  <2>3. CASE c \in exists["ip"] => c \in exists'["ip"]
    BY <1>a, <2>1, <2>2, <2>3
  <2>4. CASE ~(c \in exists["ip"] => c \in exists'["ip"])
    <3>1. fam = "ip" /\ c = ALL_CHAINS[k] /\ Deletable(fam, c)
      BY <1>0, <2>1, <2>4 DEF Gone
    <3>2. \A h \in Hooks : h.chain = c => jumps'["ip"][h] = 0
      BY <2>2, <3>1 DEF Deletable
    <3> QED
      BY <1>0, <3>2 DEF Jumped
  <2> QED
    BY <2>3, <2>4
<1>11. CASE TablesFlushed
  BY <1>0, <1>11, TablesFlushedEffect DEF AllGone, Jumped
<1>12. CASE \/ StartSetup \/ EnsureBridgeNetfilter \/ RemoveLegacyRules \/ EnsureDockerUser
            \/ StartIpv6 \/ StartTeardown \/ TeardownIpv6 \/ FinishTeardown
  <2>1. pc # "close"
    BY <1>12 DEF StartSetup, EnsureBridgeNetfilter, RemoveLegacyRules, EnsureDockerUser,
       StartIpv6, StartTeardown, TeardownIpv6, FinishTeardown, Finished
  <2> QED
    BY <1>b, <1>12, <2>1, UntouchedBy DEF CloseChain
<1>13. CASE CommandFails \/ Killed \/ DockerRestarts \/ NetworkChanges \/ UNCHANGED vars
  <2>1. Untouched
    BY <1>13, UntouchedBy
  <2>2. c \in Open
    BY <2>1, OpenKept DEF Untouched
  <2> QED
    BY <1>2, <2>2
<1> QED
  BY <1>1, <1>2, <1>3, <1>4, <1>5, <1>6, <1>7, <1>8, <1>9, <1>10, <1>11, <1>12, <1>13
     DEF Next, SetupStep, TeardownStep

(* The charged chains are never more than the failures: a step that        *)
(* charges one more is a failure.                                          *)
LEMMA CostStep ==
    ASSUME TypeOK, TablesInv, PlaceInv, FreshInv, ChainsInv, CostInv, [Next]_vars
    PROVE  CostInv'
<1>0. /\ faults \in Nat /\ faults' \in Nat /\ faults <= faults'
      /\ Charged \in SUBSET PolicyChains /\ Charged' \in SUBSET PolicyChains
      /\ Cardinality(Charged) <= faults
  BY Basics, FaultsGrow DEF Charged, CostInv
<1>1. ASSUME Charged' \subseteq Charged PROVE CostInv'
  <2>1. Cardinality(Charged') <= faults'
    BY <1>0, <1>1, OneEach
  <2> QED
    BY <2>1 DEF CostInv
<1>2. ASSUME faults + 1 <= faults', NEW x, Charged' \subseteq Charged \cup {x}
      PROVE  CostInv'
  <2>1. Cardinality(Charged') <= faults'
    BY <1>0, <1>2, OneEach
  <2> QED
    BY <2>1 DEF CostInv
<1>3. ASSUME pc # "close", pc' \notin {"close", "flush"}, ~CreateChain, ~FlushChain
      PROVE  CostInv'
  <2> SUFFICES ASSUME NEW c \in Charged' PROVE c \in Charged
    BY <1>1
  <2>1. c \in PolicyChains /\ c \in Open'
    BY <1>3 DEF Charged, Flushing
  <2>2. c \in Open
    BY <1>3, <2>1, OpenMoves
  <2> QED
    BY <1>3, <2>1, <2>2 DEF Charged, Rebuilding
<1>4. CASE CreateChain
  <2> SUFFICES ASSUME NEW c \in Charged' PROVE c \in Charged
    BY <1>1
  <2>1. pc = "create" /\ pc' = "close" /\ fam' = fam /\ k' = k
    BY <1>4 DEF CreateChain, job
  <2>2. c \in PolicyChains /\ c \in Open' /\ ~(fam = "ip" /\ c = CHAINS[k])
    BY <2>1 DEF Charged, Flushing, Rebuilding
  <2>3. c \in Open
    BY <2>1, <2>2, OpenMoves DEF FlushChain
  <2> QED
    BY <2>1, <2>2, <2>3 DEF Charged, Rebuilding
<1>5. CASE CloseChain
  <2> SUFFICES ASSUME NEW c \in Charged' PROVE c \in Charged
    BY <1>1
  <2>1. pc = "close" /\ pc' \in {"create", "allow", "hook"}
    BY <1>5 DEF CloseChain
  <2>2. c \in PolicyChains /\ c \in Open'
    BY <2>1 DEF Charged, Flushing
  <2>3. c \in Open /\ ~(fam = "ip" /\ c = CHAINS[k])
    BY <1>5, <2>1, <2>2, OpenMoves DEF FlushChain, CreateChain
  <2> QED
    BY <2>2, <2>3 DEF Charged, Rebuilding
<1>6. CASE RemoveAllHooks
  <2>1. pc = "unhook" /\ pc' = "flush" /\ fam' = fam /\ k' = k
    BY <1>6 DEF RemoveAllHooks, job
  <2>2. \A c \in PolicyChains : c \in Open' => c \in Open
    BY <2>1, OpenMoves DEF FlushChain, CreateChain
  <2>3. \A c \in Charged' : c \in Charged \/ (Flushing(c)' /\ Jumped(c)')
    BY <2>1, <2>2 DEF Charged, Rebuilding
  <2>4. \A c \in Charged' : c \in Charged \/ c = ALL_CHAINS[k]
    BY <2>1, <2>3 DEF Flushing
  <2>5. Unhooked(fam, ALL_CHAINS[k])
    BY <1>6, RemoveAllHooksEffect
  <2>6. CASE faults' = faults
    <3>1. \A c \in Charged' : ~(Flushing(c)' /\ Jumped(c)')
      BY <2>1, <2>5, <2>6 DEF Flushing, Jumped, Unhooked
    <3> QED
      BY <1>1, <2>3, <3>1
  <2>7. CASE faults' = faults + 1
    BY <1>0, <1>2, <2>4, <2>7
  <2> QED
    BY <2>5, <2>6, <2>7 DEF Unhooked
<1>7. CASE FlushChain
  <2> SUFFICES ASSUME NEW c \in Charged' PROVE c \in Charged
    BY <1>1
  <2>1. pc = "flush" /\ pc' \in {"delete", "unhook", "ipv6Down", "legacyDown"}
    BY <1>7 DEF FlushChain, NextChain
  <2>2. c \in PolicyChains /\ c \in Open'
    BY <2>1 DEF Charged, Flushing
  <2>3. c \in Open \/ (fam = "ip" /\ c = ALL_CHAINS[k] /\ Jumped(c))
    BY <2>1, <2>2, OpenMoves DEF CreateChain
  <2> QED
    BY <2>1, <2>2, <2>3 DEF Charged, Rebuilding, Flushing
<1>8. CASE CommandFails \/ Killed
  <2>1. pc' \notin {"close", "flush"}
    BY <1>8 DEF CommandFails, Killed, AfterCap
  <2>2. \A c \in Charged' : c \in PolicyChains /\ c \in Open'
    BY <2>1 DEF Charged, Flushing
  <2>3. Open' = Open
    BY <1>8, UntouchedBy DEF Untouched, Open, Jumped, Closed
  <2>4. \A c \in Charged' : c \in Charged \/ c = CHAINS[k]
    BY <2>2, <2>3 DEF Charged, Rebuilding
  <2>5. CASE faults' = faults + 1
    BY <1>0, <1>2, <2>4, <2>5
  <2>6. CASE faults' # faults + 1
    <3>1. CommandFails /\ Doomed
      BY <1>8, <2>6 DEF CommandFails, Killed, Fault
    <3>2. pc = "close" => CHAINS[k] \notin exists[fam] /\ CHAINS[k] \in PolicyChains
      BY <3>1, ChainNumbers DEF Doomed, PlaceInv
    <3>3. fam = "ip" /\ pc = "close" => CHAINS[k] \notin Open
      <4> SUFFICES ASSUME fam = "ip", pc = "close" PROVE ~Jumped(CHAINS[k])
        BY DEF Open
      <4>1. \A h \in Hooks : h.chain = CHAINS[k] => jumps["ip"][h] = 0
        BY <3>2 DEF TablesInv, TypeOK
      <4> QED
        BY <4>1 DEF Jumped
    <3>4. \A c \in Charged' : c \in Charged
      BY <2>2, <2>3, <3>3 DEF Charged, Rebuilding
    <3> QED
      BY <1>1, <3>4
  <2> QED
    BY <2>5, <2>6
<1>9. CASE TablesFlushed
  <2>1. \A c \in PolicyChains : ~Jumped(c)'
    BY <1>9, TablesFlushedEffect DEF AllGone, Jumped, Families
  <2>2. \A c : c \notin Charged'
    BY <2>1 DEF Charged, Open
  <2> QED
    BY <1>1, <2>2
<1>10. CASE DockerRestarts \/ NetworkChanges \/ UNCHANGED vars
  <2>1. UNCHANGED <<pc, fam, k>>
    BY <1>10 DEF DockerRestarts, NetworkChanges, vars, job
  <2>2. Open' = Open /\ \A c : Jumped(c)' <=> Jumped(c)
    BY <1>10, UntouchedBy DEF Untouched, Open, Jumped, Closed
  <2>3. \A c \in Charged' : c \in Charged
    BY <2>1, <2>2 DEF Charged, Rebuilding, Flushing
  <2> QED
    BY <1>1, <2>3
<1>11. CASE StartSetup \/ StartTeardown
  BY <1>3, <1>11 DEF StartSetup, StartTeardown, Finished, CreateChain, FlushChain
<1>12. CASE EnsureBridgeNetfilter \/ RemoveLegacyRules \/ InsertAllow \/ EnsureDockerUser
  <2>1. pc \in {"netfilter", "legacy", "allow", "dockerUser"}
    BY <1>12 DEF EnsureBridgeNetfilter, RemoveLegacyRules, InsertAllow, EnsureDockerUser
  <2>2. pc' \in {"legacy", "create", "allow", "dockerUser", "hook", "refused"}
    BY <1>12, Zenon DEF EnsureBridgeNetfilter, RemoveLegacyRules, InsertAllow, EnsureDockerUser
  <2> QED
    BY <1>3, <2>1, <2>2 DEF CreateChain, FlushChain
<1>13. CASE EnsureHook \/ CapChain \/ CapRule \/ CapJump \/ StartIpv6
  <2>1. pc \in {"hook", "ipv6"} \cup CapSteps
    BY <1>13 DEF EnsureHook, CapChain, CapRule, CapJump, StartIpv6, CapSteps
  <2>2. pc' \notin {"close", "flush"}
    BY <1>13 DEF EnsureHook, CapChain, CapRule, CapJump, StartIpv6, AfterCap
  <2> QED
    BY <1>3, <2>1, <2>2 DEF CreateChain, FlushChain, CapSteps
<1>14. CASE DeleteChain \/ TeardownIpv6 \/ FinishTeardown
  <2>1. pc \in {"delete", "ipv6Down", "legacyDown"}
    BY <1>14 DEF DeleteChain, TeardownIpv6, FinishTeardown
  <2>2. pc' \notin {"close", "flush"}
    BY <1>14 DEF DeleteChain, NextChain, TeardownIpv6, FinishTeardown
  <2> QED
    BY <1>3, <2>1, <2>2 DEF CreateChain, FlushChain
<1> QED
  BY <1>4, <1>5, <1>6, <1>7, <1>8, <1>9, <1>10, <1>11, <1>12, <1>13, <1>14
     DEF Next, SetupStep, TeardownStep

(* A hooked chain that ends in DROP accepts nothing but replies and        *)
(* endpoints. *)
LEMMA ClosedDrops ==
    ASSUME TablesInv, TypeOK, reach, NEW c \in PolicyChains, Hooked("ip", c), Closed("ip", c)
    PROVE  Drops("ip", c)
<1> SUFFICES ASSUME NEW p \in Packets, ~p.reply, p.dst = None
             PROVE  Verdict("ip", c, p) = "DROP"
  BY DEF Drops
<1> DEFINE hits == {i \in 1..Len(rules["ip"][c]) : Matches(rules["ip"][c][i], p)}
           m == CHOOSE i \in hits : \A j \in hits : i <= j
<1>1. /\ rules["ip"][c] # <<>>
      /\ rules["ip"][c][Len(rules["ip"][c])] = Drop
      /\ rules["ip"][c] \in Seq(Rules)
  BY ChainNumbers DEF Closed, TypeOK, Families
<1>2. Len(rules["ip"][c]) \in Nat /\ Len(rules["ip"][c]) # 0
  BY <1>1, EmptySeq
<1>3. Len(rules["ip"][c]) \in hits
  <2>1. Matches(Drop, p)
    BY DEF Matches, Drop
  <2> QED
    BY <1>1, <1>2, <2>1
<1>4. m \in hits
  <2>1. hits \in SUBSET (1..Len(rules["ip"][c])) /\ hits # {}
    BY <1>3
  <2> HIDE DEF hits
  <2> QED
    BY <1>2, <2>1, LeastHit
<1>5. Verdict("ip", c, p) = rules["ip"][c][m].verdict
  <2>1. ParentReached("ip", c)
    BY Zenon DEF ParentReached
  <2> QED
    BY <1>3, <2>1 DEF Verdict
<1> HIDE DEF m
<1>6. rules["ip"][c][m] \in PolicyRules /\ Matches(rules["ip"][c][m], p)
  BY <1>4 DEF TablesInv, Families
<1>7. ~Matches(AcceptReplies, p)
  BY DEF Matches, AcceptReplies
<1>8. \A e \in Endpoints : ~Matches(AcceptEndpoint(e), p)
  BY NoneAssumption DEF Matches, AcceptEndpoint
<1>9. rules["ip"][c][m] = Drop
  BY <1>6, <1>7, <1>8 DEF PolicyRules
<1> QED
  BY <1>5, <1>9 DEF Drop

(* The chains that let new connections pass are charged ones.              *)
LEMMA CostIsPaid ==
    ASSUME TypeOK, TablesInv, CostInv
    PROVE  OpenChainsCostFailures
<1> SUFFICES ASSUME pc = "failed", reach, \A c \in PolicyChains : Hooked("ip", c)
             PROVE  Cardinality({c \in PolicyChains : ~Drops("ip", c)}) <= faults
  BY DEF OpenChainsCostFailures
<1>1. \A c \in PolicyChains : Jumped(c)
  <2> TAKE c \in PolicyChains
  <2>1. bridge \in Bridges /\ jumps["ip"][HookOf(c, bridge)] > 0
    BY DEF Hooked, TypeOK
  <2> QED
    BY <2>1, HookFacts DEF Jumped
<1>2. \A c \in PolicyChains : ~Drops("ip", c) => c \in Charged
  BY <1>1, ClosedDrops DEF Charged, Open, Rebuilding
<1>3. {c \in PolicyChains : ~Drops("ip", c)} \subseteq Charged
  BY <1>2
<1>4. Charged \in SUBSET PolicyChains /\ faults \in Nat /\ Cardinality(Charged) <= faults
  BY Basics DEF Charged, CostInv
<1> QED
  BY <1>3, <1>4, OneEach

-----------------------------------------------------------------------------
(* The theorems.                                                           *)

(* No chains, no jumps, no failures.                                       *)
LEMMA InitHolds ==
    ASSUME Init
    PROVE  IInv
<1>1. /\ exists = [f \in Families |-> {}]
      /\ rules = [f \in Families |-> [c \in ChainNames |-> <<>>]]
      /\ jumps = [f \in Families |-> [h \in Hooks |-> 0]]
      /\ bridge \in Bridges /\ target = bridge /\ ranges = <<>>
      /\ pc = "idle" /\ fam = "ip" /\ k = 1
      /\ warned = {} /\ stuck = {} /\ misread = {} /\ faults = 0
  BY DEF Init
<1>2. reach \in BOOLEAN /\ legacy \in BOOLEAN /\ disturbed \in BOOLEAN
  BY Zenon DEF Init
<1>3. bridgeNf \in [Families -> BOOLEAN]
  <2>1. bridgeNf = [f \in Families |-> f = "ip"]
    BY DEF Init
  <2>2. \A f \in Families : (f = "ip") \in BOOLEAN
    OBVIOUS
  <2> QED
    BY <2>1, <2>2, Zenon
<1>4. Len(ranges) = 0
  BY <1>1
<1>5. TypeOK
  <2>1. exists \in [Families -> SUBSET ChainNames]
    BY <1>1
  <2>2. \A f \in Families, c \in ChainNames :
           rules[f][c] \in Seq(Rules) /\ (c \notin exists[f] => rules[f][c] = <<>>)
    BY <1>1
  <2>3. jumps \in [Families -> [Hooks -> 0..(MaxFaults + 1)]]
    BY <1>1, FaultsAssumption
  <2>4. /\ bridge \in Bridges \cup {None} /\ target \in Bridges \cup {None}
        /\ pc \in Finished \cup SetupSteps \cup TeardownSteps
        /\ fam \in Families /\ ranges \in Configs \cup {<<>>}
    BY <1>1 DEF Finished, Families
  <2>5. /\ k \in 1..(2 * Len(ranges) + 4)
        /\ warned \subseteq {"netfilter", "cap", "cap6", "ip6"}
        /\ stuck \subseteq ChainNames /\ misread \subseteq {"jump", "chain", "ip6"}
        /\ faults \in 0..MaxFaults
    BY <1>1, <1>4, FaultsAssumption
  <2> QED
    BY <1>2, <1>3, <2>1, <2>2, <2>3, <2>4, <2>5 DEF TypeOK
<1>6. PlaceInv
  BY <1>1 DEF PlaceInv, SetupSteps, TeardownSteps
<1>7. TablesInv
  <2>1. rules \in [Families -> [ChainNames -> Seq(Rules)]]
    BY <1>1
  <2>2. \A f \in Families, c \in PolicyChains : 1..Len(rules[f][c]) = {}
    BY <1>1, ChainNumbers
  <2>3. \A f \in Families, h \in Hooks : jumps[f][h] = 0
    BY <1>1
  <2> QED
    BY <1>1, <2>1, <2>2, <2>3 DEF TablesInv
<1>8. ChainsInv /\ FreshInv /\ GoneInv /\ CleanedInv /\ FaultlessInv
  BY <1>1 DEF ChainsInv, Built, Applying, SetupSteps, FreshInv, GoneInv, CleanedInv,
     FaultlessInv, Passed, TeardownSteps
<1>9. UndisturbedInv
  <2>1. ~Undisturbed
    BY <1>1 DEF Undisturbed, Applying, SetupSteps
  <2> QED
    BY <2>1 DEF UndisturbedInv, OnTarget, AreThere, AreHooked, IsReached, IsBridged, IsCapped,
       Ipv6Done
<1>10. HooksAreSingle
  BY <1>1 DEF HooksAreSingle
<1>11. CostInv
  <2>1. Charged = {}
    BY <1>1, HookFacts DEF Charged, Open, Jumped, Flushing, Families
  <2> QED
    BY <1>1, <2>1, FS_EmptySet DEF CostInv
<1> QED
  BY <1>5, <1>6, <1>7, <1>8, <1>9, <1>10, <1>11 DEF IInv

(* Every part of the invariant, from its lemma.                            *)
LEMMA StepKeeps ==
    ASSUME IInv, [Next]_vars
    PROVE  IInv'
<1> USE DEF IInv
<1>1. TypeOK' /\ TablesInv' /\ PlaceInv'
  BY TypeStep, PlaceStep
<1>2. ChainsInv' /\ FreshInv'
  BY ChainsStep, FreshStep
<1>3. UndisturbedInv'
  BY UndisturbedStep
<1>4. GoneInv' /\ CleanedInv' /\ FaultlessInv'
  BY GoneStep, CleanedStep, FaultlessStep
<1>5. HooksAreSingle' /\ CostInv'
  BY SingleStep, CostStep
<1> QED
  BY <1>1, <1>2, <1>3, <1>4, <1>5

(* The inductive invariant holds in every state.                           *)
THEOREM InvariantHolds == Spec => []IInv
  BY InitHolds, StepKeeps, PTL DEF Spec

(* Every variable keeps its type: no command of setup or teardown leaves   *)
(* the tables in a shape the next script does not know. *)
THEOREM TypeCorrect == Spec => []TypeOK
<1>1. IInv => TypeOK
  BY DEF IInv
<1> QED
  BY <1>1, InvariantHolds, PTL

(* A step of setup exposes no chain but the one it flushes to rebuild:     *)
(* ensure_chain_closed and the order of apply_restrictions deny first.     *)
THEOREM DenyAlwaysFirst == Spec => DenyFirst
<1> DEFINE Step ==
       \A f \in Families, c \in PolicyChains :
          ~Exposed(f, c) /\ Exposed(f, c)' =>
              \/ pc = "create" /\ f = fam /\ c = CHAINS[k]
              \/ pc \in TeardownSteps
              \/ bridge' # bridge
<1>1. IInv /\ [Next]_vars => [Step]_vars
  BY DenyStep DEF IInv
<1>2. (Spec => [][Step]_vars) => (Spec => DenyFirst)
  BY DEF DenyFirst
<1> HIDE DEF Step
<1>3. Spec => [][Step]_vars
  BY <1>1, InvariantHolds, PTL DEF Spec
<1> QED
  BY <1>2, <1>3

(* When setup reports success the policy is in, in both families, whatever *)
(* an earlier run or its failures had left: the rules that AllowRules      *)
(* inserts, one by one and by position, decide every packet as the config  *)
(* does. *)
THEOREM AppliedAlwaysEnforced == Spec => []AppliedMeansEnforced
<1>1. IInv => AppliedMeansEnforced
  BY AppliedIsEnforced DEF IInv
<1> QED
  BY <1>1, InvariantHolds, PTL

(* Any number of runs of setup leaves one copy of each hook, as long as    *)
(* ensure_hook's -C answers. *)
THEOREM HooksAlwaysSingle == Spec => []HooksAreSingle
<1>1. IInv => HooksAreSingle
  BY DEF IInv
<1> QED
  BY <1>1, InvariantHolds, PTL

(* When teardown reports that all is clean, nothing of ours is left in the *)
(* tables it could ask about: none of ipv4's or ipv6's if every -L of      *)
(* chain_exists has answered, except that all of ipv6's may be left if     *)
(* ip6tables_available() failed, which teardown passes over in silence. *)
THEOREM CleanedAlwaysGone == Spec => []CleanedMeansGone
<1>1. IInv => CleanedMeansGone
  BY CleanedIsGone DEF IInv
<1> QED
  BY <1>1, InvariantHolds, PTL

(* teardown can always remove what it finds if no command has ever failed. *)
THEOREM StuckOnlyAfterFailure == Spec => []StuckOnlyIfFailed
<1>1. IInv => StuckOnlyIfFailed
  BY FaultlessNotStuck DEF IInv
<1> QED
  BY <1>1, InvariantHolds, PTL

(* After a setup that failed, the hooked chains that let a new connection  *)
(* through are no more than the commands that failed and scripts killed.   *)
THEOREM OpenChainsAlwaysPaidFor == Spec => []OpenChainsCostFailures
<1>1. IInv => OpenChainsCostFailures
  BY CostIsPaid DEF IInv
<1> QED
  BY <1>1, InvariantHolds, PTL
=============================================================================
