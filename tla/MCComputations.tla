--------------------------- MODULE MCComputations ---------------------------
EXTENDS Computations

CONSTANTS u1, u2, u3, u4, k1, k2, a1, a2, a3

-----------------------------------------------------------------------------
(* Configuration files *)

A == <<"a">>
A2 == <<"a", 2>>
RelayA == <<"relay", "a">>

\* Two URLs on one host, one on the host a-2 and one without a host.
MCHostOf == u1 :> A @@ u2 :> A @@ u3 :> A2 @@ u4 :> None

S(name, host, seconds, sound) == [name |-> name, host |-> host, seconds |-> seconds, sound |-> sound]
K(key, allowed) == [key |-> key, allowed |-> allowed]
U(url, seconds) == [sub |-> None, url |-> url, seconds |-> seconds]

\* Given names that look like made ones, and the other way round.
SubMenu == { S(None, A, 0, TRUE), S(None, A2, 59, TRUE), S(A, A, 60, TRUE), S(A2, A, 0, TRUE),
             S(RelayA, A, -1, TRUE), S(None, A, 0, FALSE) }
SubLists == { <<>> } \cup { <<x>> : x \in SubMenu } \cup (SubMenu \X SubMenu)
            \cup (SubMenu \X SubMenu \X SubMenu)

KeyLists == { <<>>, <<K(k1, <<>>), K(k2, <<A2, A>>)>>, <<K(k1, <<RelayA, RelayA>>)>>,
              <<K(k1, <<A>>), K(k1, <<>>)>>, <<K(None, <<>>)>> }

UpMenu == { U(u1, 0), U(u1, 30), U(u2, 120), U(u3, 0), U(u4, 0), [sub |-> A, url |-> None, seconds |-> 0] }
UpLists == { <<>> } \cup (UpMenu \X UpMenu \X UpMenu)

MCFiles == [subs : SubLists, keys : KeyLists, upstreams : { <<>>, <<U(u1, 0), U(u2, 0), U(u1, 30)>> }]
           \cup [subs : { <<x>> : x \in SubMenu }, keys : { <<K(k1, <<>>)>> }, upstreams : UpLists]

-----------------------------------------------------------------------------
(* Links and maps *)

Menu(fields) == { NonEmpty(r) : r \in fields }

Transports == [type : {"", "tcp", "ws", "grpc", "http"}, path : {"", "x"}, serviceName : {"", "y"}, host : {"", "z"}]

ParamMenu == [
  ss        |-> Menu([plugin : {"", "obfs-local", "v2ray-plugin", "other"}, obfs : {"", "http"}, obfsHost : {"", "z"},
                      tls : {"", "true"}, host : {"", "z"}, path : {"", "x"}]),
  vmess     |-> Menu([net : {"", "tcp", "ws", "grpc", "h2", "http"}, path : {"", "x"}, host : {"", "z"},
                      tls : {"", "none", "tls"}, sni : {"", "s"}, scy : {"", "aes"}, aid : {"", "1"}]),
  vless     |-> { t @@ o : t \in Menu(Transports),
                           o \in Menu([security : {"", "none", "tls", "reality"}, pbk : {"", "p"}, sid : {"", "i"},
                                       allowInsecure : {"0", "true"}]) },
  trojan    |-> { t @@ o : t \in Menu(Transports), o \in Menu([sni : {"", "s"}, peer : {"", "t"}]) },
  hysteria2 |-> Menu([obfs : {"", "salamander"}, obfsPassword : {"", "w"}, mport : {"", "1-9"}, ports : {"", "2-8"},
                      insecure : {"", "1"}]) ]

L(scheme, params) == [scheme |-> scheme, sound |-> TRUE, host |-> "h", port |-> 443, user |-> "u",
                      cipher |-> IF scheme = "ss" THEN "aes" ELSE "", name |-> <<"n">>, params |-> params]

\* Links with something missing, or of another kind.
OddLinks ==
  { [L(scheme, <<>>) EXCEPT !.sound = sound, !.host = host, !.port = port, !.user = user, !.name = name] :
      scheme \in {"ss", "vmess", "vless", "trojan", "hysteria2", "hy2", "tuic"}, sound \in BOOLEAN,
      host \in {"", "h"}, port \in {NoPort, 0, 443, 70000}, user \in {"", "u"}, name \in {<<>>, <<"n">>} }

MCLinks == UNION { { L(scheme, params) : params \in ParamMenu[scheme] } : scheme \in DOMAIN ParamMenu } \cup OddLinks

Networks == [network : {"", "tcp", "http", "ws", "grpc", "h2"}, wsPath : {"", "x"}, grpcService : {"", "y"}, h2Host : {"", "z"}]

OptMenu == [
  ss        |-> Menu([cipher : {"aes"}, password : {"w"}, plugin : {"", "obfs", "v2ray-plugin", "other"},
                      pluginMode : {"", "tls"}, pluginHost : {"", "z"}, udp : {"", "true"}]),
  vmess     |-> { n @@ o : n \in Menu(Networks), o \in Menu([uuid : {"u"}, cipher : {"", "aes"}, tls : {"", "true"}]) },
  vless     |-> { n @@ o : n \in Menu(Networks), o \in Menu([uuid : {"u"}, tls : {"", "true"}, publicKey : {"", "p"}]) },
  trojan    |-> { n @@ o : n \in Menu(Networks), o \in Menu([password : {"w"}, sni : {"", "s"}]) },
  hysteria2 |-> Menu([password : {"w"}, obfs : {"", "salamander"}, obfsPassword : {"", "w"}, ports : {"", "1-9"}]) ]

M(type, opts) == [type |-> type, server |-> "h", port |-> 443, opts |-> opts]

MCMaps == UNION { { M(type, opts) : opts \in OptMenu[type] } : type \in DOMAIN OptMenu }

-----------------------------------------------------------------------------
(* Lists of nodes *)

HK == <<"HK">>
HK2 == <<"HK", 2>>
Trojan(w) == M("trojan", [password |-> w])
Tuic == M("tuic", [uuid |-> "u"])

\* Nodes without a name, with the same name, with a name that looks made,
\* with that of a group; links that are not understood; maps that have no
\* link or change with it.
MergeMenu ==
  { FromURI(L("vless", [type |-> "ws"])), FromURI([L("tuic", <<>>) EXCEPT !.name = HK]),
    FromURI([L("vmess", <<>>) EXCEPT !.sound = FALSE]),
    FromClashMap(HK, Trojan("w")), FromClashMap(HK, Trojan("v")), FromClashMap(HK2, Tuic), FromClashMap(<<>>, Tuic),
    FromClashMap(<<"AUTO">>, M("vmess", [uuid |-> "u", network |-> "tcp"])) }
\* A link without a server, a map without who is allowed in.
NodeMenu == MergeMenu \cup { FromURI([L("ss", <<>>) EXCEPT !.host = ""]), FromClashMap(HK, M("vless", <<>>)) }
MCLists == UNION { [1 .. n -> NodeMenu] : n \in 0 .. 3 }

\* Two nodes of MergeMenu share a key under different names.
MCKeyOf == [n \in MergeMenu |-> n.key]
MCMerges == [lists : [{"s1", "s2"} -> UNION { [1 .. n -> MergeMenu] : n \in 0 .. 2 }],
             order : { <<"s1", "s2">>, <<"s2", "s1">>, <<"s2">>, <<>> }]

-----------------------------------------------------------------------------
(* Plans *)

Bad == M("snell", <<>>)
MCUnloadable == {Bad}
MCBuiltins == { <<"DIRECT">>, <<"REJECT">> }

Proxy(name, map) == [sub |-> None, proxy |-> [name |-> name, map |-> map]]
Sub(s) == [sub |-> s, proxy |-> None]

UpstreamMenu == { Sub("s1"), Sub("s2"), Proxy(HK, Trojan("w")), Proxy(<<"in">>, Trojan("w")), Proxy(<<"DIRECT">>, Tuic) }
UpstreamLists == UNION { [1 .. n -> UpstreamMenu] : n \in 1 .. 2 }

\* One relay is named like a node.
RelaysOf(x, y) == << [name |-> HK, strategy |-> "url-test", upstreams |-> x],
                     [name |-> <<"r">>, strategy |-> "fallback", upstreams |-> y] >>
MCRoutes == "alice" :> [password |-> 1, relay |-> HK] @@ "bob" :> [password |-> 2, relay |-> <<"r">>]

SubContents == { <<>>, <<FromURI([L("tuic", <<>>) EXCEPT !.name = HK])>>,
                 <<FromClashMap(HK, Trojan("w")), FromClashMap(<<"r">>, Bad), FromClashMap(HK, Trojan("v"))>>,
                 <<FromClashMap(<<>>, Trojan("w")), FromClashMap(HK2, Tuic), FromClashMap(<<"other">>, Tuic)>> }

MCPlans == { [relays |-> RelaysOf(x, y), routes |-> MCRoutes, nodesOf |-> n] :
               x \in UpstreamLists, y \in { <<u>> : u \in UpstreamMenu } \cup { <<Sub("s2"), Proxy(HK, Trojan("w"))>> },
               n \in [{"s1", "s2"} -> SubContents] }

-----------------------------------------------------------------------------
(* Client addresses *)

ShortSeqs(set) == UNION { [1 .. n -> set] : n \in 0 .. 2 }

Source(k, hop, trusts) == [kind |-> k, hop |-> hop, trusts |-> trusts]
Sources == { Source("direct", 0, {}), Source("header", 0, {}) } \cup { Source("xff", n, {}) : n \in 1 .. 3 }
           \cup { Source("trusted", 0, t) : t \in SUBSET Addresses }

MCCalls == [source : Sources, claimed : ShortSeqs(Addresses \cup {Junk}), client : Addresses,
            proxies : ShortSeqs(Addresses)]
=============================================================================
