---------------------------- MODULE RoutingRules ----------------------------
(***************************************************************************)
(* The rules that decide which traffic goes through the tunnel: the store  *)
(* that keeps them (dnetd/src/domain.rs, configure.rs), the built-in rules *)
(* and the block of encrypted DNS (dnet-core/src/builtin_rules.rs,         *)
(* doh_block.rs), the evaluator (rule_eval.rs), what a saved configuration *)
(* keeps of them (dnet-config/src/persist.rs) and what the core of a       *)
(* tunnel is told (builtin_rules.rs, dnet-config/src/primary.rs).          *)
(*                                                                         *)
(* A name is the sequence of its labels from the top, an address the       *)
(* sequence of its family and its bits, a range a prefix of an address, a  *)
(* port a sequence of one.                                                 *)
(* Rules by program are refused by this build and are left out.            *)
(***************************************************************************)
EXTENDS Naturals, Sequences, SequencesExt, FiniteSets

CONSTANTS
    Spelled,        \* what a person can write for a name: the name, or <<>> if it is none
    Hosts,          \* names that are looked up and connected to
    Addresses,      \* addresses that are connected to
    Ranges,         \* ranges a person can write
    Pool,           \* the ranges FakeIP answers come from
    Servers,        \* the endpoints, each as the <<on, of>> of the rule that matches it
    Origins,        \* TUNNEL_ORIGIN_HOSTS
    Local,          \* LOCAL_BYPASS_CIDRS
    Portals,        \* CAPTIVE_PORTAL_PROBE_SUFFIXES
    Resolvers,      \* ENCRYPTED_RESOLVER_SUFFIXES
    BlockStart,     \* FIRST_PRECEDENCE
    UserStart,      \* USER_RULES_START
    MaxPrecedence,  \* u32::MAX
    MaxUserRules    \* MAX_USER_RULES

VARIABLES
    rules,      \* DomainState::rules
    policy,     \* ConsentState::policy
    disclosed   \* ConsentState::disclosed is the version there is

ruleVars == <<rules, policy, disclosed>>

-----------------------------------------------------------------------------
(* Rules.                                                                  *)

Rule(on, of, action, at, builtin) ==
    [on |-> on, of |-> of, action |-> action, at |-> at, builtin |-> builtin]

\* A sequence of <<on, of, action>> as built-in rules numbered from `first'.
Numbered(list, first) ==
    {Rule(list[i][1], list[i][2], list[i][3], first + i - 1, TRUE) : i \in 1 .. Len(list)}

Each(list, on, action) == [i \in 1 .. Len(list) |-> <<on, list[i], action>>]

builtin_rules ==
    Numbered(<<<<"port", <<"53">>, "Capture">>>> \o Each(Origins, "range", "Tunnel")
                \o Each(Local, "range", "Bypass") \o Each(Portals, "suffix", "Bypass"), 0)

blocking_rules(choice) ==
    IF choice = "Allow" THEN {}
    ELSE Numbered(Each(Resolvers, "suffix", "Reject") \o <<<<"port", <<"853">>, "Reject">>>>, BlockStart)

\* normalize_domain, of a built-in pattern too.
Normal(pattern) == IF pattern \in DOMAIN Spelled THEN Spelled[pattern] ELSE pattern

Overlaps(r, s) == IsPrefix(r, s) \/ IsPrefix(s, r)

\* RoutingRule::build: a name must be one, a range may not lie in the pool.
Valid(r) ==
    /\ r.on \in {"name", "suffix"} => Normal(r.of) # <<>>
    /\ r.on = "range" /\ ~r.builtin => \A p \in Pool : ~IsPrefix(p, r.of)

\* The constants of the code: the built-in rules fit below the block, with room
\* for the endpoint's own, and the block below the person's; the built-in names
\* are names; an endpoint is a name or one address, which no built-in range is.
ASSUME RulesAssumption ==
    /\ \A list \in {Origins, Local, Portals, Resolvers} : list \in Seq(ToSet(list))
    /\ {BlockStart, UserStart, MaxPrecedence, MaxUserRules} \subseteq Nat
    /\ Len(Origins) + Len(Local) + Len(Portals) + 1 < BlockStart
    /\ BlockStart + Len(Resolvers) < UserStart /\ UserStart <= MaxPrecedence
    /\ \A name \in ToSet(Portals) \cup ToSet(Resolvers) : Normal(name) # <<>>
    /\ \A server \in Servers :
          server[1] \in {"name", "range"} /\ (server[1] = "range" => server[2] \notin ToSet(Local))

-----------------------------------------------------------------------------
(* The evaluator.                                                          *)

Ports == {"53", "853", "443"}

\* A flow goes to a name or to an address, on a port.
Flows == [to: {"name"}, dest: Hosts, port: Ports]
    \cup [to: {"address"}, dest: Addresses, port: Ports]

\* An IPv4 address written as an IPv6 one is the IPv4 address.
Canonical(address) == IF address[1] = "mapped" THEN <<"v4">> \o Tail(address) ELSE address

Matches(r, flow) ==
    CASE r.on = "port"   -> <<flow.port>> = r.of
      [] r.on = "name"   -> flow.to = "name" /\ flow.dest = Normal(r.of)
      [] r.on = "suffix" -> flow.to = "name" /\ IsPrefix(Normal(r.of), flow.dest)
      [] r.on = "range"  -> flow.to = "address" /\ Overlaps(r.of, Canonical(flow.dest))

FirstOf(rs) == CHOOSE r \in rs : \A s \in rs : r.at <= s.at

\* The first rule that matches decides; what no rule names is tunnelled.
Evaluate(rs, flow) ==
    LET hits == {r \in rs : Matches(r, flow)}
    IN  IF hits = {} THEN "Tunnel" ELSE FirstOf(hits).action

-----------------------------------------------------------------------------
(* The store.                                                              *)

Has(rs, r) == \E s \in rs : s.builtin /\ s.on = r.on /\ s.of = r.of /\ s.action = r.action

\* check_rules: every change of the rules goes through all of this.
Acceptable(rs, choice) ==
    /\ \A r \in builtin_rules : Has(rs, r)
    /\ IF choice = "Block" THEN \A r \in blocking_rules("Block") : Has(rs, r)
                           ELSE \A r \in rs : r.action # "Reject"
    /\ \A r, s \in rs : r # s => r.at # s.at
    /\ FirstOf(rs).action = "Capture"
    /\ \A r \in rs : ~r.builtin =>
          r.at >= UserStart /\ \A s \in rs : s.builtin => s.at < r.at

\* next_user_precedence: after every rule there is.
NextPrecedence(rs) ==
    LET top == CHOOSE n \in {r.at : r \in rs} : \A r \in rs : r.at <= n
    IN  IF top + 1 > UserStart THEN top + 1 ELSE UserStart

Personal(rs) == {r \in rs : ~r.builtin}

\* A save that fails puts the store back, which is no step.
AddRule(on, of, action) ==
    LET r == Rule(on, of, action, NextPrecedence(rules), FALSE)
    IN  /\ Cardinality(Personal(rules)) < MaxUserRules
        /\ r.at <= MaxPrecedence
        /\ Valid(r) /\ Acceptable(rules \cup {r}, policy)
        /\ rules' = rules \cup {r}
        /\ UNCHANGED <<policy, disclosed>>

RemoveRule ==
    \E r \in Personal(rules) :
        /\ Acceptable(rules \ {r}, policy)
        /\ rules' = rules \ {r}
        /\ UNCHANGED <<policy, disclosed>>

WithBlock(rs, choice) == {r \in rs : r.action # "Reject"} \cup blocking_rules(choice)

\* Opting out and choosing the block; either is next to the disclosure.
Choose(choice) ==
    /\ Acceptable(WithBlock(rules, choice), choice)
    /\ rules' = WithBlock(rules, choice)
    /\ policy' = choice /\ disclosed' = TRUE

-----------------------------------------------------------------------------
(* The file.                                                               *)

\* Slip: the choice counts as made only when it is not the default.
SavedOnceOptedOut ==
    [rules |-> Personal(rules),
     consent |-> IF policy = "Block" THEN <<>> ELSE <<[policy |-> policy, disclosed |-> disclosed]>>]

\* to_config_bytes: the person's rules, and the choice once there is one.
SavedRules ==
    [rules |-> Personal(rules),
     consent |-> IF policy = "Block" /\ ~disclosed THEN <<>>
                 ELSE <<[policy |-> policy, disclosed |-> disclosed]>>]

SeededRules == [rules |-> builtin_rules \cup blocking_rules("Block"), policy |-> "Block", disclosed |-> FALSE]

\* decode_rules and from_loaded: the choice, then the rules, each as checked as
\* when it was made.  A file that does not pass is refused whole.
RestoredFrom(file) ==
    LET chosen == IF file.consent = <<>> THEN SeededRules
                  ELSE [rules |-> WithBlock(SeededRules.rules, file.consent[1].policy),
                        policy |-> file.consent[1].policy, disclosed |-> file.consent[1].disclosed]
        all == chosen.rules \cup file.rules
        accepted == /\ Cardinality(file.rules) <= MaxUserRules
                    /\ \A r \in file.rules :
                          Valid(r) /\ r.action \in {"Tunnel", "Bypass"} /\ r.at >= UserStart
                    /\ Acceptable(chosen.rules, chosen.policy)
                    /\ Acceptable(all, chosen.policy)
    IN  IF accepted THEN [chosen EXCEPT !.rules = all] ELSE SeededRules

RestartRules ==
    LET store == RestoredFrom(SavedRules)
    IN  rules' = store.rules /\ policy' = store.policy /\ disclosed' = store.disclosed

-----------------------------------------------------------------------------
(* What the core of a tunnel is told.                                      *)

\* Slip: the endpoint's bypass takes its number and nobody makes room.
WithEndpointCrowded(rs, server) ==
    LET all == rs \cup {Rule(server[1], server[2], "Bypass", 1, TRUE)}
    IN  IF \E r, s \in all : r # s /\ r.at = s.at THEN {} ELSE all

\* with_active_endpoint: the bypass of the endpoint comes right after the
\* capture of DNS and the other built-in rules make room.  {} is a refusal.
WithEndpoint(rs, server) ==
    LET own == Rule(server[1], server[2], "Bypass", 1, TRUE)
        moved == {IF r.builtin /\ r.action # "Capture" /\ r.at \in 1 .. BlockStart - 1
                  THEN [r EXCEPT !.at = @ + 1] ELSE r : r \in rs}
        all == moved \cup {own}
        fits == /\ \A r \in moved : r.builtin /\ r.action = "Bypass" => r.at < BlockStart
                /\ \A r, s \in all : r # s => r.at # s.at
                /\ FirstOf(all).action = "Capture"
    IN  IF Has(rs, own) THEN rs ELSE IF fits THEN all ELSE {}

\* dns_rules: refused names get no answer, bypassed ones are answered by the
\* local resolver, any other by FakeIP for an address and otherwise by the
\* tunnel or not at all.  The core compares names as they are written.
DnsChain(rs) == {[r EXCEPT !.of = Normal(r.of)] :
                    r \in {r \in rs : r.action \in {"Bypass", "Reject"} /\ r.on \in {"name", "suffix"}}}

AnsweredBy(chain, host) ==
    LET hits == {r \in chain : IF r.on = "name" THEN r.of = host ELSE IsPrefix(r.of, host)}
    IN  IF hits = {} THEN "tunnel"
        ELSE IF FirstOf(hits).action = "Reject" THEN "nobody" ELSE "local"

-----------------------------------------------------------------------------
RuleTypeOK ==
    /\ policy \in {"Block", "Allow"} /\ disclosed \in BOOLEAN
    /\ Cardinality(Personal(rules)) <= MaxUserRules
    /\ \A r \in rules : Valid(r) /\ r.at \in 0 .. MaxPrecedence

RulesInit == rules = SeededRules.rules /\ policy = "Block" /\ disclosed = FALSE

RulesNext ==
    \/ \E action \in {"Tunnel", "Bypass"} :
          \/ \E on \in {"name", "suffix"}, of \in DOMAIN Spelled : AddRule(on, of, action)
          \/ \E of \in Ranges : AddRule("range", of, action)
    \/ RemoveRule \/ RestartRules
    \/ \E choice \in {"Block", "Allow"} : Choose(choice)

RulesSpec == RulesInit /\ [][RulesNext]_ruleVars

\* A person's Tunnel rule that comes before a bypass the name is also under.
TunnelAhead(rs, host) ==
    \E r, s \in rs : /\ r.action = "Tunnel" /\ s.action = "Bypass" /\ r.at < s.at
                     /\ \A x \in {r, s} : Matches(x, [to |-> "name", dest |-> host, port |-> "443"])

\* After any changes and restarts a tunnel can be had to every endpoint, and
\* under its rules no rule of the person's changes what a built-in rule
\* decides: lookups are captured, the tunnel's own packets go direct and what
\* is refused stays refused, and the choice about encrypted DNS can always be
\* made (rule.rs:270, builtin_rules.rs:100, doh_consent.rs:16).  A name is
\* looked up where it is routed: refused when it is refused, locally when it is
\* bypassed, and otherwise in the tunnel, but for a name with a Tunnel rule
\* ahead of a bypass (primary.rs:426).
RoutedAsRuled ==
    /\ \A choice \in {"Block", "Allow"} : Acceptable(WithBlock(rules, choice), choice)
    /\ \A server \in Servers :
          LET told == WithEndpoint(rules, server)
              ours == {r \in told : r.builtin}
          IN  /\ told # {}
              /\ \A flow \in Flows :
                    /\ (\E r \in ours : Matches(r, flow)) => Evaluate(told, flow) = Evaluate(ours, flow)
                    /\ flow.port = "53" => Evaluate(told, flow) = "Capture"
                    /\ flow.port # "53" /\ Matches(Rule(server[1], server[2], "Bypass", 1, TRUE), flow)
                          => Evaluate(told, flow) = "Bypass"
              /\ \A host \in Hosts :
                    LET does == Evaluate(told, [to |-> "name", dest |-> host, port |-> "443"])
                    IN  CASE AnsweredBy(DnsChain(told), host) = "nobody" -> does = "Reject"
                          [] AnsweredBy(DnsChain(told), host) = "local"  ->
                                does = "Bypass" \/ TunnelAhead(told, host)
                          [] OTHER -> does = "Tunnel"

\* What is saved is accepted at the next start and means the same: the rules
\* with their numbers and what was chosen and disclosed about encrypted DNS,
\* in whatever order they were made (domain.rs:77; a refused file keeps the
\* service from changing anything).
ReadBackTheSame ==
    RestoredFrom(SavedRules) = [rules |-> rules, policy |-> policy, disclosed |-> disclosed]
=============================================================================
