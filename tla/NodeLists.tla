------------------------------ MODULE NodeLists ------------------------------
(***************************************************************************)
(* Lists of nodes as texts: ParseContent reads one (internal/node,        *)
(* parse.go), render writes one (internal/agg/store.go), with the names   *)
(* nodes get in Clash output (node.UniqueNames).                           *)
(*                                                                         *)
(* A text is a record of coding ("clash", "base64" or "raw"), entries and *)
(* urls.  The entries of a Clash document are records of name and map, of *)
(* the others links.  urls says of a Clash document that "://" occurs in  *)
(* it, as in any with a test URL or a rule provider.                       *)
(***************************************************************************)
EXTENDS ShareLinks

-----------------------------------------------------------------------------
(* Reading *)

\* parseClash: proxies without type or server are skipped, but no proxies
\* at all is an error.
AddProxy(nodes, e) ==
  IF e.map.type # "" /\ e.map.server # "" THEN Append(nodes, FromClashMap(e.name, e.map)) ELSE nodes

ClashNodes(entries) == FoldLeft(AddProxy, <<>>, entries)

ParseClash(text) ==
  IF text.coding # "clash" \/ text.entries = <<>> THEN None ELSE ClashNodes(text.entries)

\* The lines of a Clash document that have a URL in them, read as links.
UrlLine == [scheme |-> "url: http", sound |-> TRUE, host |-> "", port |-> NoPort, user |-> "",
            cipher |-> "", name |-> <<>>, params |-> <<>>]

LinkNodes(lines) == [i \in DOMAIN lines |-> FromURI(lines[i])]

\* parseLines; None where there is no link.
ParseLines(text) ==
  LET lines == IF text.coding # "clash" THEN text.entries
               ELSE IF text.urls THEN <<UrlLine>> ELSE <<>>
  IN IF lines = <<>> THEN None ELSE LinkNodes(lines)

Parsed(nodes, detected) == IF nodes = None THEN None ELSE [nodes |-> nodes, detected |-> detected]

\* Mutant of ParseContent: whatever has a URL in it is read as lines.
ParseLinesFirst(text, type) ==
  IF type = "clash" THEN Parsed(ParseClash(text), "clash")
  ELSE IF ParseLines(text) # None \/ type # "auto"
  THEN Parsed(ParseLines(text), IF text.coding = "base64" /\ type # "raw" THEN "base64" ELSE "raw")
  ELSE Parsed(ParseClash(text), "clash")

\* ParseContent; None is an error.  With type raw, base64 is not decoded and
\* has no link in it.
ParseContent(text, type) ==
  LET lines == IF type = "raw" /\ text.coding = "base64" THEN None ELSE ParseLines(text)
      detected == IF text.coding = "base64" THEN "base64" ELSE "raw"
  IN IF type = "clash" \/ (type = "auto" /\ ParseClash(text) # None)
     THEN Parsed(ParseClash(text), "clash")
     ELSE Parsed(lines, detected)

-----------------------------------------------------------------------------
(* Writing *)

\* Node.URI: a node is written as its link, or as one made of its map.
HasURI(n) == n.raw # None \/ n.clash.type \in Linked
URI(n) == IF n.raw # None THEN n.raw ELSE BuildURI(n.clash, n.name)

FallbackName(n) == IF n.clash = None THEN <<"node">> ELSE <<n.clash.type, n.clash.server, n.clash.port>>

\* UniqueNames: every node of the list takes a name, in a Clash document or
\* not.
AddName(names, n) ==
  Append(names, FreeName(IF n.name = <<>> THEN FallbackName(n) ELSE n.name, ToSet(names)))

UniqueNames(nodes) == FoldLeft(AddName, <<>>, nodes)

\* renderClash: a node without a map is skipped.
AddEntry(entries, e) == IF e.map = None THEN entries ELSE Append(entries, e)

ClashEntries(nodes) ==
  FoldLeft(AddEntry, <<>>, [i \in DOMAIN nodes |-> [name |-> UniqueNames(nodes)[i], map |-> nodes[i].clash]])

\* The groups of a full Clash configuration.
GroupNames == { <<"PROXY">>, <<"AUTO">> }

\* render: a node without a link is skipped.
AddLink(lines, n) == IF HasURI(n) THEN Append(lines, URI(n)) ELSE lines

Rendered(nodes, format, full) ==
  IF format = "clash"
  THEN [coding |-> "clash", entries |-> ClashEntries(nodes), urls |-> full]
  ELSE [coding |-> format, entries |-> FoldLeft(AddLink, <<>>, nodes), urls |-> FALSE]
=============================================================================
