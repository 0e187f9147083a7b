------------------------------ MODULE ClientIP -------------------------------
(***************************************************************************)
(* Whose request it is, for the log (internal/server/client_ip.go).       *)
(*                                                                         *)
(* A request has peer, the address of the TCP connection; hops, what the  *)
(* lines of X-Forwarded-For list, in order, <<>> without such a line; and *)
(* header, the lines of the header a source may name.  An entry that is   *)
(* no IP address is Junk.  A source has kind, hop (xff) and trusts, the   *)
(* addresses of the proxies trusted (trusted).                             *)
(***************************************************************************)
EXTENDS Integers, Sequences

CONSTANT Junk  \* what is not an IP address, and the outcome of an error

\* resolveXFFIP: the hop-th address from the right.
ResolveXFF(hops, hop) == IF Len(hops) < hop THEN Junk ELSE hops[Len(hops) - hop + 1]

\* Mutant of ResolveTrustedXFF: the walk starts at the left.
ResolveFromLeft(trusts, peer, hops) ==
  LET strangers == { i \in DOMAIN hops : hops[i] \notin trusts }
  IN IF peer \notin trusts \/ hops = <<>> THEN peer
     ELSE IF strangers = {} THEN hops[1]
     ELSE hops[CHOOSE i \in strangers : \A j \in strangers : i <= j]

\* resolveTrustedXFFIP: from the right, past the trusted proxies.  Only a
\* trusted peer is asked; if all are trusted, the leftmost hop is taken.
ResolveTrustedXFF(trusts, peer, hops) ==
  LET strangers == { i \in DOMAIN hops : hops[i] \notin trusts }
  IN IF peer \notin trusts \/ hops = <<>> THEN peer
     ELSE IF strangers = {} THEN hops[1]
     ELSE hops[CHOOSE i \in strangers : \A j \in strangers : j <= i]

\* ClientIPSource.Resolve
ResolveClient(source, request) ==
  CASE source.kind = "direct" -> request.peer
    [] source.kind = "header" -> IF Len(request.header) = 1 THEN request.header[1] ELSE Junk
    [] source.kind = "xff"    -> ResolveXFF(request.hops, source.hop)
    [] source.kind = "trusted" ->
         IF request.peer = Junk THEN Junk
         ELSE ResolveTrustedXFF(source.trusts, request.peer, request.hops)

-----------------------------------------------------------------------------
\* A request as it arrives: client sent it with the entries claimed already
\* in X-Forwarded-For, and each proxy on the way appended the address it was
\* called from.
Forwarded(claimed, client, proxies) ==
  LET callers == <<client>> \o proxies
  IN [peer   |-> callers[Len(callers)],
      hops   |-> claimed \o SubSeq(callers, 1, Len(proxies)),
      header |-> <<client>>]
=============================================================================
