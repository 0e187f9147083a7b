---------------------------- MODULE MCRelayPlan -----------------------------
EXTENDS RelayPlan

\* A port below 0: a .cfg has no negative numbers.
MCPorts == {-1, 0, 1, 2, 8080, 65536}

CONSTANTS A, B, C, u, v, bad, p, q, any, lan

D(typ, listen, port, username, password) ==
  [typ |-> typ, listen |-> listen, port |-> port, username |-> username, password |-> password]

R(name, sound, downstream) == [name |-> name, sound |-> sound, downstream |-> downstream]

OneOrTwo(menu) == { <<d>> : d \in menu } \cup (menu \X menu)

\* Three relays that meet on two ports, with one or two downstreams each.
Crowd ==
  LET menu == { D("mixed", any, port, c[1], c[2]) :
                  port \in {1, 2}, c \in { <<None, None>>, <<u, p>>, <<v, p>> } }
  IN { <<R(A, TRUE, x), R(B, TRUE, y), R(C, TRUE, z)>> :
         x \in OneOrTwo(menu), y \in OneOrTwo(menu), z \in { <<d>> : d \in menu } }

\* Two relays, which may have the same name, with downstreams of every form
\* on one port, and with downstreams that are not valid.
Forms ==
  LET menu == { D(typ, listen, 1, c[1], c[2]) : typ \in {"http", "socks5"}, listen \in {any, lan},
                  c \in { <<None, None>>, <<u, p>>, <<u, q>> } }
              \cup { D("http", any, 0, None, None), D("http", any, OwnPort, None, None),
                     D("http", any, 65536, None, None), D("http", any, -1, None, None),
                     D("tproxy", any, 1, None, None), D("", any, 1, u, p),
                     D("", any, 1, v, None), D("http", any, 1, None, p),
                     D("http", any, 1, v, None), D("socks5", any, 1, v, None),
                     D("http", any, 1, bad, p) }
  IN { <<R(A, sound, x), R(name, TRUE, y)>> :
         sound \in BOOLEAN, name \in {A, B},
         x \in OneOrTwo(menu) \cup {<<>>}, y \in { <<d>> : d \in menu } }

MCConfigs == Crowd \cup Forms
=============================================================================
