---------------------------- MODULE ConfigNames -----------------------------
(***************************************************************************)
(* config.validate (internal/config/config.go): the names and intervals   *)
(* of the subscriptions to fetch, and the subscriptions of each key.      *)
(*                                                                         *)
(* The store, the keys, the relays and the refreshers know a subscription *)
(* by its name only.  A name is given or made from the host, with a       *)
(* number if it is taken; a URL in a relay becomes a subscription of its  *)
(* own, named after its host.                                              *)
(***************************************************************************)
EXTENDS FreeNames

CONSTANT HostOf  \* HostOf[u]: the host of the URL u, as a name, or None

\* A file: subs, a sequence of records with name (or None), host, seconds
\* (0 if not given) and sound (a valid source and type); keys, a sequence of
\* records with key (None if empty) and allowed, a sequence of names; and
\* upstreams, the upstreams of all relays in order, each a record with sub,
\* a name, or url, the other one None, and seconds.
SubsTyped(subs) ==
  /\ IsSeq(subs)
  /\ \A i \in DOMAIN subs : subs[i].seconds \in Int /\ IsSeq(subs[i].host)
UpstreamsTyped(ups) ==
  /\ IsSeq(ups)
  /\ \A i \in DOMAIN ups :
       /\ ups[i].seconds \in Int
       /\ ups[i].url # None => HostOf[ups[i].url] = None \/ IsSeq(HostOf[ups[i].url])
FileTyped(file) == SubsTyped(file.subs) /\ UpstreamsTyped(file.upstreams)

DefaultInterval == 3600
MinInterval == 60

Interval(seconds) ==
  IF seconds <= 0 THEN DefaultInterval
  ELSE IF seconds < MinInterval THEN MinInterval ELSE seconds

-----------------------------------------------------------------------------
(* Names *)

NamesOf(list) == { list[i].name : i \in DOMAIN list }

\* validateSubs, one sub at a time; acc holds the subs done so far.
AddSub(acc, s) ==
  LET name == IF s.name # None THEN s.name ELSE FreeName(s.host, NamesOf(acc.subs))
  IN [subs |-> Append(acc.subs, [name |-> name, seconds |-> Interval(s.seconds)]),
      ok   |-> acc.ok /\ s.sound /\ name \notin NamesOf(acc.subs)]

ValidSubs(file) == FoldLeft(AddSub, [subs |-> <<>>, ok |-> file.subs # <<>>], file.subs)

\* validateKeys
KeysSound(file, subs) ==
  /\ \A i, j \in DOMAIN file.keys : file.keys[i].key = file.keys[j].key => i = j
  /\ \A i \in DOMAIN file.keys :
       /\ file.keys[i].key # None
       /\ ToSet(file.keys[i].allowed) \subseteq NamesOf(subs)

\* Mutant of Resolve: the order of allowed_subs is used.
ResolveAsListed(allowed, subs) ==
  IF allowed = <<>> THEN [i \in DOMAIN subs |-> subs[i].name] ELSE allowed

\* One sub of the config, for a key with allowed_subs.
AddResolved(allowed, resolved, s) ==
  IF s.name \in ToSet(allowed) THEN Append(resolved, s.name) ELSE resolved

\* Key.Resolved: the subs of a key in config order, all if none is listed.
Resolve(allowed, subs) ==
  IF allowed = <<>> THEN [i \in DOMAIN subs |-> subs[i].name]
  ELSE FoldLeft(LAMBDA resolved, s : AddResolved(allowed, resolved, s), <<>>, subs)

-----------------------------------------------------------------------------
(* resolveRelaySubs *)

\* Mutant of AddRelaySub: the first interval met for a URL is kept.
AddRelaySubOnce(acc, up) ==
  IF \/ up.url = None \/ HostOf[up.url] = None
     \/ \E i \in DOMAIN acc.relaySubs : acc.relaySubs[i].url = up.url
  THEN acc
  ELSE LET name == FreeName(<<"relay">> \o HostOf[up.url], acc.seen)
       IN [seen |-> acc.seen \cup {name},
           relaySubs |-> Append(acc.relaySubs,
             [name |-> name, url |-> up.url, seconds |-> Interval(up.seconds)])]

\* One upstream: a URL not met before makes a relay sub, one met before
\* shortens its interval.
AddRelaySub(acc, up) ==
  LET known == { i \in DOMAIN acc.relaySubs : acc.relaySubs[i].url = up.url }
      name  == FreeName(<<"relay">> \o HostOf[up.url], acc.seen)
      interval == Interval(up.seconds)
  IN IF up.url = None THEN acc
     ELSE IF known # {}
     THEN LET k == CHOOSE i \in known : TRUE
          IN [acc EXCEPT !.relaySubs[k].seconds = IF interval < @ THEN interval ELSE @]
     ELSE IF HostOf[up.url] = None THEN acc
     ELSE [seen |-> acc.seen \cup {name},
           relaySubs |-> Append(acc.relaySubs,
             [name |-> name, url |-> up.url, seconds |-> interval])]

RelaySubs(file, subs) ==
  FoldLeft(AddRelaySub, [seen |-> NamesOf(subs), relaySubs |-> <<>>], file.upstreams).relaySubs

\* Upstream.SubName: None where the code leaves it empty.
SubName(up, relaySubs) ==
  LET made == { i \in DOMAIN relaySubs : relaySubs[i].url = up.url }
  IN IF up.url = None THEN up.sub
     ELSE IF made = {} THEN None
     ELSE relaySubs[CHOOSE i \in made : TRUE].name

Validate(file) ==
  LET valid == ValidSubs(file)
      relaySubs == RelaySubs(file, valid.subs)
  IN IF ~valid.ok \/ ~KeysSound(file, valid.subs)
     THEN [ok |-> FALSE]
     ELSE [ok        |-> TRUE,
           subs      |-> valid.subs,
           resolved  |-> [i \in DOMAIN file.keys |-> Resolve(file.keys[i].allowed, valid.subs)],
           relaySubs |-> relaySubs,
           subNames  |-> [i \in DOMAIN file.upstreams |-> SubName(file.upstreams[i], relaySubs)]]
=============================================================================
