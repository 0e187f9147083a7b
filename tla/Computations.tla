---------------------------- MODULE Computations -----------------------------
(***************************************************************************)
(* The parts that only compute, each applied to every input of a menu:    *)
(* config.validate (ConfigNames), share links and lists of nodes          *)
(* (ShareLinks, NodeLists), the merging of subs (Merging), Plan.Render    *)
(* (ProxyRegistry) and the source of client addresses (ClientIP).  Their  *)
(* definitions are in those modules, what is true of them is here.        *)
(***************************************************************************)
EXTENDS ConfigNames, NodeLists, Merging, ProxyRegistry, ClientIP

CONSTANTS
  Files,     \* configuration files, see ConfigNames
  Links,     \* share links, see ShareLinks
  Maps,      \* Clash maps of linked types
  Lists,     \* lists of nodes
  Merges,    \* records of lists, the nodes of each sub, and order, the subs to merge
  Plans,     \* records of relays, routes and nodesOf, see ProxyRegistry
  Addresses, \* IP addresses
  Calls      \* records of source, claimed, client and proxies, see ClientIP

\* What is decoded from a file: names are texts and intervals numbers.
ASSUME FilesAssumption == \A file \in Files : FileTyped(file)

\* A node as FromURI or parseClash makes it.
Made(n) == IF n.raw # None THEN n = FromURI(n.raw)
           ELSE n = FromClashMap(n.name, n.clash) /\ n.clash # None /\ n.clash.type # ""

\* Nodes have names, if only empty ones, and are made from a link or a map.
ASSUME NodesAssumption ==
  /\ \A nodes \in Lists : NodesTyped(nodes) /\ \A i \in DOMAIN nodes : Made(nodes[i])
  /\ \A m \in Merges : IsSeq(m.order) /\ \A i \in DOMAIN m.order : NodesTyped(m.lists[m.order[i]])
  /\ \A plan \in Plans : PlanTyped(plan)

\* A map or a node of a list is named when it is written, so that every map
\* is written under the same name.
MapName == <<"n">>

Formats == {"clash", "base64", "raw"}

\* What is read from a link or from a text is something.
ASSUME AbsenceAssumption ==
  /\ \A m \in Maps : MapOf(BuildURI(m, MapName)) # None
  /\ \A nodes \in Lists, format \in Formats, full \in BOOLEAN :
       LET entries == Rendered(nodes, format, full).entries
       IN None \notin {IF format = "clash" THEN ClashNodes(entries) ELSE LinkNodes(entries), LinkNodes(<<UrlLine>>)}

\* What a client claims may be anything; ParseClientIPSource refuses xff:0.
ASSUME CallsAssumption ==
  /\ Junk \notin Addresses
  /\ \A c \in Calls :
       /\ c.claimed \in Seq(Addresses \cup {Junk})
       /\ c.client \in Addresses
       /\ c.proxies \in Seq(Addresses)
       /\ c.source.kind = "xff" => c.source.hop \in Nat \ {0}

VARIABLES
  kind,    \* what is computed
  input,   \* from what
  done,    \* it is computed
  output   \* the result

vars == <<kind, input, done, output>>

Init ==
  /\ \/ kind = "validate" /\ input \in Files
     \/ kind = "fromURI"  /\ input \in Links
     \/ kind = "buildURI" /\ input \in Maps
     \/ kind = "parse"    /\ input \in [nodes : Lists, format : Formats, full : BOOLEAN]
     \/ kind = "collect"  /\ input \in Merges
     \/ kind = "render"   /\ input \in Plans
     \/ kind = "clientIP" /\ input \in Calls
  /\ done = FALSE
  /\ output = None

Compute(operation, result) ==
  /\ kind = operation
  /\ ~done
  /\ done' = TRUE
  /\ output' = result
  /\ UNCHANGED <<kind, input>>

Next ==
  \/ Compute("validate", Validate(input))
  \/ Compute("fromURI", FromURI(input))
  \/ Compute("buildURI", FromURI(BuildURI(input, MapName)))
  \/ Compute("parse", ParseContent(Rendered(input.nodes, input.format, input.full), "auto"))
  \/ Compute("collect", Collect(input.lists, input.order))
  \/ Compute("render", Render(input.relays, input.routes, input.nodesOf))
  \/ Compute("clientIP", ResolveClient(input.source, Forwarded(input.claimed, input.client, input.proxies)))

Spec == Init /\ [][Next]_vars

Done(operation) == done /\ kind = operation
Accepted == Done("validate") /\ output.ok

-----------------------------------------------------------------------------
(* Names *)

\* In an accepted file no two subs, relay subs included, have one name.
SubNamesAreUnique ==
  Accepted =>
    LET names == [i \in DOMAIN output.subs |-> output.subs[i].name]
                 \o [i \in DOMAIN output.relaySubs |-> output.relaySubs[i].name]
    IN IsInjective(names)

\* No two proxies of a Clash document have one name, and none has that of
\* a group of the document, unless its source calls it that.
ClashNamesAreUnique ==
  Done("parse") =>
    LET names == [i \in DOMAIN ClashEntries(input.nodes) |-> ClashEntries(input.nodes)[i].name]
    IN /\ IsInjective(names)
       /\ ToSet(names) \cap GroupNames \subseteq { n.name : n \in ToSet(input.nodes) }

\* No two proxies of mihomo have one name, and none has that of a group or of
\* a proxy mihomo has of itself; groups consist of proxies that are loaded.
ProxyNamesAreUnique ==
  Done("render") =>
    LET names == [i \in DOMAIN output.proxies |-> output.proxies[i].name]
    IN /\ IsInjective(names)
       /\ ToSet(names) \cap (Builtins \cup { input.relays[i].name : i \in DOMAIN input.relays }) = {}
       /\ \A r \in DOMAIN output.groups : ToSet(output.groups[r].members) \subseteq ToSet(names)

\* The store, keys and refreshers know subs by name, Clash and mihomo their
\* proxies.  In each of the three namespaces no name is used twice, whatever
\* the user or the sources call things: names that are made, with numbers,
\* meet given ones that look like them, before and after.
NamesAreUnique == SubNamesAreUnique /\ ClashNamesAreUnique /\ ProxyNamesAreUnique

-----------------------------------------------------------------------------
(* config.validate *)

\* A key is served its subs in the order of the configuration, whatever the
\* order of allowed_subs: that is the order in which duplicates are settled,
\* and it makes equal sets one entry of the render cache.
KeysResolveInOrder ==
  Accepted =>
    LET names == [i \in DOMAIN output.subs |-> output.subs[i].name] IN
    \A i \in DOMAIN input.keys :
      /\ ToSet(output.resolved[i]) = IF input.keys[i].allowed = <<>> THEN ToSet(names)
                                     ELSE ToSet(input.keys[i].allowed)
      /\ \E places \in SUBSET DOMAIN names :
           output.resolved[i] = [j \in 1 .. Cardinality(places) |->
                                   names[CHOOSE p \in places :
                                           Cardinality({ q \in places : q <= p }) = j]]

\* However often the relays mention a URL, it is fetched by one sub, as often
\* as the most demanding of them asks, but never more often than once a
\* minute, and all of them use that sub.
SharedFetch ==
  Accepted =>
    \A i \in DOMAIN input.upstreams :
      LET url == input.upstreams[i].url
          same == { j \in DOMAIN input.upstreams : input.upstreams[j].url = url }
          fetching == { k \in DOMAIN output.relaySubs : output.relaySubs[k].url = url }
      IN url # None /\ HostOf[url] # None =>
           /\ Cardinality(fetching) = 1
           /\ \A k \in fetching :
                /\ output.relaySubs[k].seconds = Min({ Interval(input.upstreams[j].seconds) : j \in same })
                /\ output.relaySubs[k].seconds >= MinInterval
                /\ \A j \in same : output.subNames[j] = output.relaySubs[k].name

-----------------------------------------------------------------------------
(* Links and maps *)

\* The key of m after m was written as a link: links of three types know a
\* transport, one of three.
KeyInLink(m) ==
  LET network == Get(m.opts, "network")
      known   == m.type \in {"vmess", "vless", "trojan"} /\ network \in {"ws", "grpc", "h2"}
  IN [ClashKey(m) EXCEPT ![4] = IF known THEN network ELSE ""]

\* What the parser of links asks for, though the builder does not: a server,
\* a port that is one, and who is allowed in.
Complete(m) ==
  /\ m.type \in Linked
  /\ m.server # ""
  /\ m.port \in PortNumbers
  /\ m.type \in {"vmess", "vless"} => Get(m.opts, "uuid") # ""
  /\ m.type = "trojan" => Get(m.opts, "password") # ""

\* A complete Clash map that is served as a link to the clients that want one
\* is read back from it as a node of the same name, and of the same key but
\* for its transport: the parser accepts all that the builder writes.
LinksReadBack ==
  Done("buildURI") /\ Complete(input) =>
    /\ output.clash # None
    /\ output.name = MapName
    /\ output.key = KeyInLink(input)

\* README.md, "Behavior notes": dedup is format-independent, by type, server,
\* port, credential and transport (but http, which no link made here has).
FormatIndependent ==
  Done("buildURI") /\ Get(input.opts, "network") # "http" => output.key = ClashKey(input)

\* What parsing gives tls to: a vless map with the options of reality says
\* tls when it is read from a link made of it.
WithTLS(m) ==
  IF m.type = "vless" /\ "publicKey" \in DOMAIN m.opts
  THEN [m EXCEPT !.opts = Both([tls |-> "true"], @)] ELSE m

\* What was understood of a link is all in the map made of it, and in a link
\* made of that map: nothing is lost or changed by going around again.
LinksSurvive ==
  Done("fromURI") /\ output.clash # None /\ output.clash.port \in PortNumbers =>
    FromURI(BuildURI(output.clash, output.name)).clash = WithTLS(output.clash)

-----------------------------------------------------------------------------
(* Lists of nodes *)

\* got is what is read of the node n, written in a Clash document as name.
\* A link made of a map that is not complete is not understood.
ReadInClash(got, n, name) == got.name = name /\ got.key = n.key

ReadInLink(got, n) ==
  n.raw # None \/ Complete(n.clash) =>
    got.name = n.name /\ got.key = IF n.raw # None THEN n.key ELSE KeyInLink(n.clash)

\* What one aggregator serves another one may subscribe to, and recognises
\* by itself: it gets the same nodes in the same order, with the names and
\* keys they were served with, except that a Clash document loses nodes
\* without a server.  A document without nodes is an error, except that the
\* URLs of a full one are taken for links.
ReadsOwnOutput ==
  Done("parse") =>
    LET nodes   == input.nodes
        clash   == input.format = "clash"
        written == { i \in DOMAIN nodes : IF clash THEN nodes[i].clash # None ELSE HasURI(nodes[i]) }
        read    == { i \in written : clash => nodes[i].clash.server # "" }
        Got(i)  == output.nodes[Cardinality({ j \in read : j <= i })]
    IN IF written # {}
       THEN /\ output.detected = input.format
            /\ Len(output.nodes) = Cardinality(read)
            /\ \A i \in read : IF clash THEN ReadInClash(Got(i), nodes[i], UniqueNames(nodes)[i])
                               ELSE ReadInLink(Got(i), nodes[i])
       ELSE output = IF clash /\ input.full
                     THEN [nodes |-> <<FromURI(UrlLine)>>, detected |-> "raw"] ELSE None

-----------------------------------------------------------------------------
(* Store.collectLocked *)

\* Whatever lists the refreshes have left, a key is served one node of each
\* dedup key, the one that comes first when its subs are taken in order, and
\* the nodes are in that order: which of two equal nodes a client sees does
\* not depend on which sub was refreshed last.
MergeKeepsFirst ==
  Done("collect") =>
    LET all == FlattenSeq([i \in DOMAIN input.order |-> input.lists[input.order[i]]])
        FirstAt(n) == Min({ i \in DOMAIN all : KeyOf[all[i]] = KeyOf[n] })
    IN /\ { KeyOf[output[i]] : i \in DOMAIN output } = { KeyOf[all[i]] : i \in DOMAIN all }
       /\ \A i \in DOMAIN output : output[i] = all[FirstAt(output[i])]
       /\ \A i, j \in DOMAIN output : i < j => FirstAt(output[i]) < FirstAt(output[j])

-----------------------------------------------------------------------------
(* Plan.Render *)

\* Two upstreams that should be one proxy.
Same(u, v) ==
  /\ u.node.clash = v.node.clash
  /\ u.inline = v.inline
  /\ u.inline => u.node.name = v.node.name

\* The upstreams of a relay that mihomo can load, each once, in order.
Wanted(relay) ==
  LET ups == Upstreams(relay, input.nodesOf)
      firsts == { i \in DOMAIN ups : /\ ups[i].node.clash # None /\ ups[i].node.clash \notin Unloadable
                                    /\ \A j \in 1 .. i - 1 : ~Same(ups[i], ups[j]) }
  IN [k \in 1 .. Cardinality(firsts) |->
        ups[CHOOSE i \in firsts : Cardinality({ j \in firsts : j <= i }) = k]]

\* The group of a relay is its upstreams, in the order of the configuration
\* and each once, under whatever names they got; a relay without any has no
\* group.  Upstreams of two relays are one proxy exactly if they are the
\* same: none is loaded twice, and no relay uses the proxy of another.
GroupsAreTheirUpstreams ==
  Done("render") =>
    LET relays == input.relays
        MapNamed(name) == (CHOOSE p \in ToSet(output.proxies) : p.name = name).map
        Group(i) == output.groups[relays[i].name].members
        grouped == { i \in DOMAIN relays : relays[i].name \in DOMAIN output.groups }
    IN /\ grouped = { i \in DOMAIN relays : Wanted(relays[i]) # <<>> }
       /\ \A i \in grouped :
            /\ Len(Group(i)) = Len(Wanted(relays[i]))
            /\ \A a \in DOMAIN Group(i) : MapNamed(Group(i)[a]) = Wanted(relays[i])[a].node.clash
       /\ \A i, j \in grouped : \A a \in DOMAIN Group(i), b \in DOMAIN Group(j) :
            Group(i)[a] = Group(j)[b] <=> Same(Wanted(relays[i])[a], Wanted(relays[j])[b])

-----------------------------------------------------------------------------
(* ClientIPSource *)

\* A source that describes the proxies in front of the server finds the
\* client, whatever the client claims in X-Forwarded-For: xff:<n> behind n
\* proxies, and xff:<list> behind any number of proxies it lists, if the
\* client is none of them.
ClientAddressFound ==
  Done("clientIP") =>
    LET source == input.source IN
    /\ source.kind = "xff" /\ source.hop = Len(input.proxies) => output = input.client
    /\ /\ source.kind = "trusted"
       /\ ToSet(input.proxies) \subseteq source.trusts
       /\ input.client \notin source.trusts
       => output = input.client
=============================================================================
