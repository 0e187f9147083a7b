----------------------------- MODULE MCRelayCore -----------------------------
EXTENDS RelayCore, TLC

CONSTANTS k, l, x, alice, bob, c1, c2

Reg == INSTANCE ProxyRegistry WITH Builtins <- {}, Unloadable <- {}

HK == <<"HK">>
JP == <<"JP">>
A == <<"a">>
B == <<"b">>

MCProxies == {HK, Append(HK, 2), JP}
MCRelays == {A, B}

Node(name, map) == [name |-> name, clash |-> map]
Relay(name, strategy, subs) ==
  [name |-> name, strategy |-> strategy,
   upstreams |-> [i \in DOMAIN subs |-> [sub |-> subs[i], proxy |-> None]]]
To(password, relay) == [password |-> password, relay |-> relay]

\* What Render makes of the relays, the routes and the nodes of the subs s
\* and t, as a function of all names.
D(relays, routes, s, t) ==
  LET made == Reg!Render(relays, routes, [s |-> s, t |-> t])
      configs == { made.proxies[i] : i \in DOMAIN made.proxies }
  IN [proxies |-> [p \in Proxies |-> IF \E c \in configs : c.name = p
                                      THEN (CHOOSE c \in configs : c.name = p).map ELSE None],
      groups  |-> [g \in Relays |-> IF g \in DOMAIN made.groups THEN made.groups[g] ELSE None],
      routes  |-> [r \in Routes |-> IF r \in DOMAIN routes THEN made.routes[r] ELSE None]]

Relays2 == << Relay(A, "url-test", <<"s", "t">>), Relay(B, "url-test", <<"t">>) >>
Routes2 == alice :> To(1, A) @@ bob :> To(1, B)

\* Two relays share JP, and there are two nodes HK; then the first of them is
\* gone and the other one is HK; then HK is the first again in an unchanged
\* group, and a password is changed; then a sub is empty and a route gone.
MCDesireds == {
  D(Relays2, Routes2, <<Node(HK, k), Node(HK, l)>>, <<Node(JP, x)>>),
  D(Relays2, Routes2, <<Node(HK, l)>>, <<Node(JP, x)>>),
  D(Relays2, alice :> To(1, A) @@ bob :> To(2, B), <<Node(HK, k)>>, <<Node(JP, x)>>),
  D(Relays2, alice :> To(1, A), <<Node(HK, k)>>, <<>>) }
=============================================================================
