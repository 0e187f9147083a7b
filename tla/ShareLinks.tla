----------------------------- MODULE ShareLinks ------------------------------
(***************************************************************************)
(* Share links and Clash proxy maps (internal/node: uri.go, build.go and  *)
(* node.go).                                                               *)
(*                                                                         *)
(* Escapes and base64 undo each other and are left out: a link is what    *)
(* its text decodes to.  It is a record of scheme, sound (FALSE if the    *)
(* text does not decode), host, port (NoPort if there is none), user,     *)
(* cipher (ss only), name and params: the query of a URL, the JSON fields *)
(* of vmess, the plugin of ss.  A Clash map is a record of type, server,  *)
(* port and opts, without its name; nested options are flat in opts.      *)
(* Where Go reads a missing value as "", so does Get.                      *)
(***************************************************************************)
EXTENDS FreeNames

NoPort == -1
MaxPort == 65535
PortNumbers == 1 .. MaxPort

\* A list of nodes, with or without names.
NodesTyped(nodes) == IsSeq(nodes) /\ \A i \in DOMAIN nodes : IsSeq(nodes[i].name)

Get(m, f) == IF f \in DOMAIN m THEN m[f] ELSE ""
\* The fields of f and those of g, f's where both have one.
Both(f, g) == [x \in DOMAIN f \cup DOMAIN g |-> IF x \in DOMAIN f THEN f[x] ELSE g[x]]
NonEmpty(m) == [f \in { g \in DOMAIN m : m[g] # "" } |-> m[f]]
FirstOf(a, b) == IF a # "" THEN a ELSE b
Flag(condition) == IF condition THEN "true" ELSE ""

-----------------------------------------------------------------------------
(* Parsing: uri.go *)

SSPlugin(q) ==
  CASE Get(q, "plugin") \in {"obfs-local", "simple-obfs", "obfs"} ->
         [plugin |-> "obfs", pluginMode |-> Get(q, "obfs"), pluginHost |-> Get(q, "obfsHost")]
    [] Get(q, "plugin") = "v2ray-plugin" ->
         [plugin |-> "v2ray-plugin", pluginMode |-> "websocket", pluginTls |-> Get(q, "tls"),
          pluginHost |-> Get(q, "host"), pluginPath |-> Get(q, "path")]
    [] OTHER -> <<>>

WsOpts(q) == [network |-> "ws", wsPath |-> FirstOf(Get(q, "path"), "/"), wsHost |-> Get(q, "host")]
H2Opts(q) == [network |-> "h2", h2Path |-> Get(q, "path"), h2Host |-> Get(q, "host")]

VmessTransport(q) ==
  CASE Get(q, "net") = "ws"             -> WsOpts(q)
    [] Get(q, "net") = "grpc"           -> [network |-> "grpc", grpcService |-> Get(q, "path")]
    [] Get(q, "net") \in {"h2", "http"} -> H2Opts(q)
    [] OTHER                            -> <<>>

\* Mutant of Transport: the service name of grpc is looked for in the path.
TransportByPath(q) ==
  CASE Get(q, "type") = "ws"             -> WsOpts(q)
    [] Get(q, "type") = "grpc"           -> [network |-> "grpc", grpcService |-> Get(q, "path")]
    [] Get(q, "type") \in {"h2", "http"} -> H2Opts(q)
    [] OTHER                             -> <<>>

\* applyTransport
Transport(q) ==
  CASE Get(q, "type") = "ws"   -> WsOpts(q)
    [] Get(q, "type") = "grpc" ->
         [network |-> "grpc", grpcService |-> FirstOf(Get(q, "serviceName"), Get(q, "path"))]
    [] Get(q, "type") \in {"h2", "http"} -> H2Opts(q)
    [] OTHER                   -> <<>>

Insecure(q, param) == Flag(Get(q, param) \in {"1", "true"})

ParseSS(l) == Both([cipher |-> l.cipher, password |-> l.user], SSPlugin(l.params))

ParseVmess(l) ==
  LET q == l.params
      tls == Get(q, "tls") \in {"true", "1", "tls"}
  IN Both([uuid |-> l.user, cipher |-> FirstOf(Get(q, "scy"), "auto"),
           alterId |-> FirstOf(Get(q, "aid"), "0"), tls |-> Flag(tls),
           servername |-> IF tls THEN Get(q, "sni") ELSE "",
           fingerprint |-> Get(q, "fp"), alpn |-> Get(q, "alpn")],
          VmessTransport(q))

ParseVless(l) ==
  LET q == l.params
  IN Both([uuid |-> l.user, tls |-> Flag(Get(q, "security") \in {"tls", "reality"}),
           servername |-> Get(q, "sni"), flow |-> Get(q, "flow"), fingerprint |-> Get(q, "fp"),
           publicKey |-> Get(q, "pbk"), shortId |-> IF Get(q, "pbk") = "" THEN "" ELSE Get(q, "sid"),
           skipVerify |-> Insecure(q, "allowInsecure"), alpn |-> Get(q, "alpn")],
          Transport(q))

ParseTrojan(l) ==
  LET q == l.params
  IN Both([password |-> l.user, sni |-> FirstOf(Get(q, "sni"), Get(q, "peer")), fingerprint |-> Get(q, "fp"),
           skipVerify |-> Insecure(q, "allowInsecure"), alpn |-> Get(q, "alpn")],
          Transport(q))

ParseHysteria2(l) ==
  LET q == l.params
  IN [password |-> l.user, sni |-> Get(q, "sni"), skipVerify |-> Insecure(q, "insecure"),
      obfs |-> Get(q, "obfs"), obfsPassword |-> IF Get(q, "obfs") = "" THEN "" ELSE Get(q, "obfsPassword"),
      ports |-> FirstOf(Get(q, "mport"), Get(q, "ports")), alpn |-> Get(q, "alpn")]

TypeOf(scheme) == IF scheme = "hy2" THEN "hysteria2" ELSE scheme

\* parseStdURL: a host and a port, of any number.
StdURL(l) == l.host # "" /\ l.port # NoPort

Parses(l) ==
  /\ l.sound
  /\ CASE TypeOf(l.scheme) = "ss"                 -> l.port \in PortNumbers
       [] TypeOf(l.scheme) = "vmess"              -> l.host # "" /\ l.port \notin {0, NoPort} /\ l.user # ""
       [] TypeOf(l.scheme) \in {"vless", "trojan"} -> StdURL(l) /\ l.user # ""
       [] TypeOf(l.scheme) = "hysteria2"          -> StdURL(l)
       [] OTHER                                   -> FALSE

Options(l) ==
  CASE TypeOf(l.scheme) = "ss"        -> ParseSS(l)
    [] TypeOf(l.scheme) = "vmess"     -> ParseVmess(l)
    [] TypeOf(l.scheme) = "vless"     -> ParseVless(l)
    [] TypeOf(l.scheme) = "trojan"    -> ParseTrojan(l)
    [] TypeOf(l.scheme) = "hysteria2" -> ParseHysteria2(l)

MapOf(l) ==
  [type |-> TypeOf(l.scheme), server |-> l.host, port |-> l.port, opts |-> NonEmpty(Options(l))]

-----------------------------------------------------------------------------
(* Nodes: node.go *)

Credential(m) ==
  CASE m.type = "ss"                                   -> <<Get(m.opts, "cipher"), Get(m.opts, "password")>>
    [] m.type \in {"vmess", "vless"}                   -> <<Get(m.opts, "uuid")>>
    [] m.type \in {"trojan", "hysteria2", "hysteria"}  -> <<Get(m.opts, "password")>>
    [] m.type = "tuic"                                 -> <<Get(m.opts, "uuid"), Get(m.opts, "password")>>
    [] m.type \in {"http", "socks5"}                   -> <<Get(m.opts, "username"), Get(m.opts, "password")>>
    [] OTHER                                           -> <<m.opts>>

\* Mutant of ClashKey: the cipher tells nodes of every type apart.
KeyWithCipher(m) ==
  <<m.type, m.server, m.port, Get(m.opts, "network"), Credential(m) \o <<Get(m.opts, "cipher")>> >>

ClashKey(m) == <<m.type, m.server, m.port, Get(m.opts, "network"), Credential(m)>>

FromClashMap(name, m) == [name |-> name, key |-> ClashKey(m), clash |-> m, raw |-> None]

\* A link that does not parse is passed through.  The name of a vmess link
\* is inside the part that did not decode.
FromURI(l) ==
  LET name == IF l.scheme = "vmess" THEN <<>> ELSE l.name
  IN IF Parses(l)
     THEN [name |-> l.name, key |-> ClashKey(MapOf(l)), clash |-> MapOf(l), raw |-> l]
     ELSE [name |-> name, clash |-> None, raw |-> l,
           key |-> <<"raw", IF l.scheme = "vmess" THEN l ELSE [l EXCEPT !.name = <<>>]>>]

-----------------------------------------------------------------------------
(* Building: build.go *)

SSParams(m) ==
  LET o == m.opts
  IN CASE Get(o, "plugin") = "obfs" ->
            [plugin |-> "obfs-local", obfs |-> Get(o, "pluginMode"), obfsHost |-> Get(o, "pluginHost")]
       [] Get(o, "plugin") = "v2ray-plugin" ->
            [plugin |-> "v2ray-plugin", tls |-> Get(o, "pluginTls"),
             host |-> Get(o, "pluginHost"), path |-> Get(o, "pluginPath")]
       [] OTHER -> <<>>

VmessNet(o) ==
  CASE Get(o, "network") = "ws"   -> [net |-> "ws", path |-> Get(o, "wsPath"), host |-> Get(o, "wsHost")]
    [] Get(o, "network") = "grpc" -> [net |-> "grpc", path |-> Get(o, "grpcService")]
    [] Get(o, "network") = "h2"   -> [net |-> "h2", path |-> Get(o, "h2Path"), host |-> Get(o, "h2Host")]
    [] OTHER                      -> [net |-> "tcp"]

VmessParams(m) ==
  LET o == m.opts
      tls == Get(o, "tls") # ""
  IN Both([aid |-> FirstOf(Get(o, "alterId"), "0"), scy |-> FirstOf(Get(o, "cipher"), "auto"),
           tls |-> IF tls THEN "tls" ELSE "", sni |-> IF tls THEN Get(o, "servername") ELSE "",
           fp |-> Get(o, "fingerprint"), alpn |-> Get(o, "alpn")],
          VmessNet(o))

\* transportQuery
TransportParams(o) ==
  CASE Get(o, "network") = "ws"   -> [type |-> "ws", path |-> Get(o, "wsPath"), host |-> Get(o, "wsHost")]
    [] Get(o, "network") = "grpc" -> [type |-> "grpc", serviceName |-> Get(o, "grpcService")]
    [] Get(o, "network") = "h2"   -> [type |-> "http", path |-> Get(o, "h2Path"), host |-> Get(o, "h2Host")]
    [] OTHER                      -> [type |-> "tcp"]

Security(o) ==
  IF "publicKey" \in DOMAIN o
  THEN [security |-> "reality", pbk |-> Get(o, "publicKey"), sid |-> Get(o, "shortId")]
  ELSE [security |-> IF Get(o, "tls") # "" THEN "tls" ELSE "none"]

VlessParams(m) ==
  LET o == m.opts
  IN Both([sni |-> Get(o, "servername"), flow |-> Get(o, "flow"), fp |-> Get(o, "fingerprint"),
           allowInsecure |-> IF Get(o, "skipVerify") # "" THEN "1" ELSE "", alpn |-> Get(o, "alpn")],
          Both(Security(o), TransportParams(o)))

TrojanParams(m) ==
  LET o == m.opts
  IN Both([sni |-> Get(o, "sni"), fp |-> Get(o, "fingerprint"),
           allowInsecure |-> IF Get(o, "skipVerify") # "" THEN "1" ELSE "", alpn |-> Get(o, "alpn")],
          TransportParams(o))

Hysteria2Params(m) ==
  LET o == m.opts
  IN [sni |-> Get(o, "sni"), insecure |-> IF Get(o, "skipVerify") # "" THEN "1" ELSE "",
      obfs |-> Get(o, "obfs"), obfsPassword |-> IF Get(o, "obfs") = "" THEN "" ELSE Get(o, "obfsPassword"),
      mport |-> Get(o, "ports"), alpn |-> Get(o, "alpn")]

Params(m) ==
  CASE m.type = "ss"        -> SSParams(m)
    [] m.type = "vmess"     -> VmessParams(m)
    [] m.type = "vless"     -> VlessParams(m)
    [] m.type = "trojan"    -> TrojanParams(m)
    [] m.type = "hysteria2" -> Hysteria2Params(m)

\* The types of which a link can be made.
Linked == {"ss", "vmess", "vless", "trojan", "hysteria2"}

BuildURI(m, name) ==
  [scheme |-> m.type, sound |-> TRUE, host |-> m.server, port |-> m.port, name |-> name,
   user   |-> Get(m.opts, IF m.type \in {"vmess", "vless"} THEN "uuid" ELSE "password"),
   cipher |-> IF m.type = "ss" THEN Get(m.opts, "cipher") ELSE "",
   params |-> NonEmpty(Params(m))]
=============================================================================
