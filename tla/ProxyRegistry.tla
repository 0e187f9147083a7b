---------------------------- MODULE ProxyRegistry ----------------------------
(***************************************************************************)
(* Plan.Render (internal/relay/render.go): from the relays of a plan and  *)
(* the nodes of the subs to the proxies, groups and routes of mihomo.     *)
(*                                                                         *)
(* Proxies and groups share one namespace, and relays may list the same   *)
(* node, by way of one sub or of several.  The registry loads each proxy  *)
(* once and finds it a free name.                                          *)
(*                                                                         *)
(* A relay is a record of name, strategy (the type of mihomo's group) and *)
(* upstreams, each with sub, the name of a sub, or proxy, an inline one of *)
(* name and map; the other is None.  A route maps a caller to a password  *)
(* and a relay.                                                            *)
(***************************************************************************)
EXTENDS ShareLinks

CONSTANTS
  Builtins,    \* builtinProxies
  Unloadable,  \* Clash maps that checkProxy refuses
  Reject       \* the target of callers whose relay has no upstream

ASSUME BuiltinsAssumption == IsFiniteSet(Builtins)

\* Relays have names of their own, and each an inline proxy or a sub.
PlanTyped(plan) ==
  /\ IsSeq(plan.relays)
  /\ \A i, j \in DOMAIN plan.relays : plan.relays[i].name = plan.relays[j].name => i = j
  /\ \A i \in DOMAIN plan.relays :
       LET ups == plan.relays[i].upstreams
       IN /\ IsSeq(ups)
          /\ \A j \in DOMAIN ups : IF ups[j].proxy # None THEN IsSeq(ups[j].proxy.name)
                                   ELSE NodesTyped(plan.nodesOf[ups[j].sub])

\* f with value for key.
Put(f, key, value) == [k \in DOMAIN f \cup {key} |-> IF k = key THEN value ELSE f[k]]

DisplayName(n) == IF n.name # <<>> THEN n.name ELSE <<n.clash.type, n.clash.server, n.clash.port>>

\* The upstreams of a relay in order, a sub as its nodes.
Upstreams(relay, nodesOf) ==
  FlattenSeq([i \in DOMAIN relay.upstreams |->
    LET up == relay.upstreams[i]
    IN IF up.proxy # None
       THEN <<[node |-> FromClashMap(up.proxy.name, up.proxy.map), inline |-> TRUE]>>
       ELSE [j \in DOMAIN nodesOf[up.sub] |-> [node |-> nodesOf[up.sub][j], inline |-> FALSE]]])

\* Mutant of ContentKey: names are no part of the key of an inline proxy.
ContentOnly(up) == <<up.node.clash>>

\* What makes two upstreams one: the map, and the name if it is inline.
ContentKey(up) == IF up.inline THEN <<up.node.clash, up.node.name>> ELSE <<up.node.clash>>

\* registered.name of what could not be loaded.
NoName == <<>>

\* proxyRegistry.add
Add(registry, up) ==
  LET key  == ContentKey(up)
      name == FreeName(DisplayName(up.node), registry.used)
  IN IF up.node.clash = None \/ key \in DOMAIN registry.byContent THEN registry
     ELSE IF up.node.clash \in Unloadable
     THEN [registry EXCEPT !.byContent = Put(@, key, NoName)]
     ELSE [used      |-> registry.used \cup {name},
           byContent |-> Put(registry.byContent, key, name),
           proxies   |-> Append(registry.proxies, [name |-> name, map |-> up.node.clash])]

\* appendUnique, and nothing for an upstream that could not be loaded.
AppendName(names, name) == IF name = NoName \/ Contains(names, name) THEN names ELSE Append(names, name)

\* proxyRegistry.members, once the upstreams are registered.
Members(registry, ups) ==
  FoldLeft(AppendName, <<>>,
           [i \in DOMAIN ups |-> IF ups[i].node.clash = None THEN NoName
                                 ELSE registry.byContent[ContentKey(ups[i])]])

\* Mutant of NewRegistry: the groups' names are not reserved.
NewRegistryNoGroups(relays) == [used |-> Builtins, byContent |-> <<>>, proxies |-> <<>>]

NewRegistry(relays) ==
  [used |-> Builtins \cup { relays[i].name : i \in DOMAIN relays }, byContent |-> <<>>, proxies |-> <<>>]

\* relayGroup
RelayGroup(relay, members) ==
  [type |-> IF Len(members) = 1 THEN "select" ELSE relay.strategy, members |-> members]

AddRelay(nodesOf, acc, relay) ==
  LET ups == Upstreams(relay, nodesOf)
      registry == FoldLeft(Add, acc.registry, ups)
      members == Members(registry, ups)
  IN [registry |-> registry,
      groups   |-> IF members = <<>> THEN acc.groups
                   ELSE Put(acc.groups, relay.name, RelayGroup(relay, members))]

\* Plan.Render
Render(relays, routes, nodesOf) ==
  LET done == FoldLeft(LAMBDA acc, relay : AddRelay(nodesOf, acc, relay),
                       [registry |-> NewRegistry(relays), groups |-> <<>>], relays)
  IN [proxies |-> done.registry.proxies,
      groups  |-> done.groups,
      routes  |-> [r \in DOMAIN routes |->
                     [password |-> routes[r].password,
                      target   |-> IF routes[r].relay \in DOMAIN done.groups
                                   THEN routes[r].relay ELSE Reject]]]
=============================================================================
