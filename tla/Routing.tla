------------------------------- MODULE Routing -------------------------------
(* What becomes of one destination: the rules that iran-split-mihomo writes  *)
(* into the generated config, which Mihomo reads from the first to the last, *)
(* and RuleSet::decide of iran-split-rules, which answers the same question  *)
(* for the operator without Mihomo.                                          *)
(*                                                                           *)
(* A name is the number of its labels: all names are suffixes of one another *)
(* and the shorter covers the longer.  An address is of one class.  Process  *)
(* rules, DNS and the QUIC reject are left out: they look at neither.        *)
EXTENDS Naturals, Sequences, FiniteSetsExt

CONSTANTS
    Proxies, Tunnels,  \* configured clients, by EgressKind
    Registry,          \* the clients in the order of the config
    Labels,            \* names have 1..Labels labels
    IranLabels,        \* the bundled Iranian domain
    Loopback, Private, Iran, Public  \* one address of each class

Clients == Proxies \union Tunnels
ASSUME RegistryAssumption ==
    /\ Proxies \intersect Tunnels = {} /\ Registry \in Seq(Clients)
    /\ \A c \in Clients : \E i \in 1..Len(Registry) : Registry[i] = c
ASSUME LabelsAssumption == Labels \in Nat /\ IranLabels \in 1..Labels

Direct == "DIRECT"
Reject == "REJECT"
NoPin == "unpinned"
Names == 1..Labels
Addresses == {Loopback, Private, Iran, Public}
Destinations == Names \union Addresses
ASSUME DestinationsAssumption ==
    /\ Names \intersect Addresses = {} /\ Loopback \notin {Private, Iran, Public}
    /\ Private \notin {Iran, Public} /\ Iran # Public
    /\ Clients \intersect {Direct, Reject, NoPin} = {}

VARIABLES
    app,           \* AppConfig and the pins document
    readyClients,  \* clients with a ready egress handle
    config         \* the generated config, or NotGenerated

routingVars == <<app, readyClients, config>>
NotGenerated == [match |-> NoPin, groups |-> {}, rules |-> <<>>]

\* reject_pin_address: a proxy takes no private address, a tunnel no loopback.
PinnableTo(d) ==
    Clients \ ((IF d \in {Loopback, Private} THEN Proxies ELSE {}) \union
               (IF d = Loopback THEN Tunnels ELSE {}))

\* A host is in one list only; names are pinned or addresses are (bound).
PinMaps ==
    {p \in [Destinations -> Clients \union {Direct, NoPin}] :
        /\ \A d \in Addresses : p[d] \in PinnableTo(d) \union {Direct, NoPin}
        /\ (\A d \in Names : p[d] = NoPin) \/ (\A d \in Addresses : p[d] = NoPin)}

RoutingInit ==
    /\ app \in [enabled : SUBSET Clients, default : Clients \union {Direct},
                failClosed : BOOLEAN, allowDirect : SUBSET Clients, pins : PinMaps]
    /\ readyClients \in SUBSET Clients
    /\ config = NotGenerated

-----------------------------------------------------------------------------
(* Generation.  A group is named after its client.                          *)

\* Without any handle every enabled client gets a synthesized one.
Live == IF readyClients = {} THEN app.enabled ELSE readyClients
Routed == Live \union app.enabled

FailsClosed(c) == app.failClosed /\ c \notin app.allowDirect

\* Mutation of ClientRuleTarget: a down client is bypassed.
BypassedTarget(c) == IF c \in Live THEN c ELSE Direct

ClientRuleTarget(c) == IF c \in Live \/ FailsClosed(c) THEN c ELSE Direct

MatchGroup(live) ==
    IF app.default = Direct \/ app.default \in live THEN app.default
    ELSE IF FailsClosed(app.default) THEN Reject ELSE Direct

Rule(covered, target) == [covers |-> covered, target |-> target]
Covered(name) == {n \in Names : n >= name}

NotWritten == Rule({}, Direct)   \* the place of a rule that is left out

\* The most specific pin comes first; those of a disabled client are skipped.
PinTarget(n) == IF app.pins[n] = Direct THEN Direct ELSE ClientRuleTarget(app.pins[n])
DomainPinRules ==
    LET PinRule(n) == IF app.pins[n] \in app.enabled \union {Direct}
                      THEN Rule(Covered(n), PinTarget(n)) ELSE NotWritten
    IN [i \in 1..Labels |-> PinRule(Labels + 1 - i)]

ClientIpRules(kind) ==
    LET IpRule(c) == IF c \in app.enabled \intersect kind
                     THEN Rule({a \in Addresses : app.pins[a] = c}, ClientRuleTarget(c))
                     ELSE NotWritten
    IN [i \in 1..Len(Registry) |-> IpRule(Registry[i])]

\* Mutation of GeneratedRules: the bundled lists go before the pins.
BundledListsFirst ==
    <<Rule({Loopback}, Direct), Rule(Covered(IranLabels), Direct), Rule({Private}, Direct),
      Rule({Iran}, Direct)>>
    \o DomainPinRules \o ClientIpRules(Clients)
    \o <<Rule({a \in Addresses : app.pins[a] = Direct}, Direct), Rule(Destinations, MatchGroup(Live))>>

GeneratedRules ==
    <<Rule({Loopback}, Direct)>> \o DomainPinRules \o ClientIpRules(Tunnels)
    \o <<Rule({Loopback, Private}, Direct)>> \o ClientIpRules(Proxies)
    \o <<Rule({a \in Addresses : app.pins[a] = Direct}, Direct),
         Rule(Covered(IranLabels), Direct), Rule({Iran}, Direct),
         Rule(Destinations, MatchGroup(Live))>>

\* Mutation of Generate: only live clients get their group.
GenerateLiveGroups ==
    /\ config = NotGenerated /\ UNCHANGED <<app, readyClients>>
    /\ config' = [match |-> MatchGroup(Live), groups |-> Live, rules |-> GeneratedRules]

Generate ==
    /\ config = NotGenerated /\ UNCHANGED <<app, readyClients>>
    /\ config' = [match |-> MatchGroup(Live), groups |-> Routed, rules |-> GeneratedRules]

RoutingNext == Generate
RoutingSpec == RoutingInit /\ [][RoutingNext]_routingVars

\* Mihomo: the first rule that covers the destination.
Route(d) ==
    LET covering == {i \in 1..Len(config.rules) : d \in config.rules[i].covers}
    IN config.rules[Min(covering)].target

-----------------------------------------------------------------------------
(* The answers given without the generated config.                          *)

PinnedNames(outbounds) == {n \in Names : app.pins[n] \in outbounds}

\* The longest pin that covers the name, among those of Direct and of the
\* enabled clients.
BestPin(name) ==
    LET covering == {n \in PinnedNames(app.enabled \union {Direct}) : name \in Covered(n)}
    IN IF covering = {} THEN NoPin
       ELSE app.pins[Max(covering)]

DecideIp(a) ==
    IF a \in {Loopback, Private} THEN Direct
    ELSE IF app.pins[a] \in app.enabled \union {Direct} THEN app.pins[a]
    ELSE IF a = Iran THEN Direct ELSE app.default

Decide(d) ==
    IF d \in Addresses THEN DecideIp(d)
    ELSE IF BestPin(d) # NoPin THEN BestPin(d)
    ELSE IF d \in Covered(IranLabels) THEN Direct ELSE app.default

\* What the health report compares the live MATCH rule with.
ExpectedMatchProxy == MatchGroup(readyClients \union app.enabled)

-----------------------------------------------------------------------------

Generated == config # NotGenerated

\* Mihomo accepts the config: a rule names a group that is declared, also for a
\* client that is enabled and down, or that is disabled and still has a handle.
EveryTargetIsDeclared ==
    Generated => \A i \in 1..Len(config.rules) :
        config.rules[i].target \in config.groups \union {Direct, Reject}

\* A destination pinned to an enabled client never goes direct because that
\* client is down, unless the operator allowed it; whatever other pins, lists
\* and handles there are.
PinFailsClosed ==
    Generated => \A d \in Destinations :
        app.pins[d] \in app.enabled /\ FailsClosed(app.pins[d]) => Route(d) = app.pins[d]

\* Traffic nobody pinned or listed does not leave directly while its default
\* client is down.
DefaultFailsClosed ==
    Generated /\ app.default # Direct /\ FailsClosed(app.default) =>
        \A d \in Destinations : Decide(d) = app.default => Route(d) # Direct

\* No client that is down opens the way past it, for its pins or as the default.
DownClientsFailClosed == PinFailsClosed /\ DefaultFailsClosed

\* The operator's route test and Mihomo agree on every destination, except that
\* a down client may be bypassed and that a private address may have been pinned
\* to a side tunnel.
RouteTestAgrees ==
    Generated => \A d \in Destinations :
        \/ Route(d) = Decide(d)
        \/ Decide(d) \notin Live /\ Route(d) \in {Direct, Reject}
        \/ d = Private /\ app.pins[d] \in Tunnels

\* What every configuration that is generated promises Mihomo and the operator.
RoutingInvariant == EveryTargetIsDeclared /\ DownClientsFailClosed /\ RouteTestAgrees

\* decide_ip: "the generated config keeps private-networks ahead of the client
\* rule sets too".
PrivateStaysDirect == Generated => Route(Private) = Direct

\* expected_match_proxy is "the group generate_config will put on MATCH".
ExpectedMatchIsGenerated == Generated => ExpectedMatchProxy = config.match
=============================================================================
