-------------------------- MODULE ConfigWatch_proof --------------------------
(***************************************************************************)
(* When everything rests, the text of the file is in use: for any texts,  *)
(* good or bad, and any number of writes and signals.                      *)
(*                                                                         *)
(* A change travels from the file to the watcher's stamp, its hash, the    *)
(* channel, the loader and the configuration in use.  The invariant says  *)
(* that at every moment the last write is somewhere on this way: if        *)
(* nothing is still to see it, it has arrived.                             *)
(***************************************************************************)
EXTENDS ConfigWatch, TLAPS

\* Nobody has written before the watcher has had its first look.
NotYetWatching ==
  mishaps = {} /\ watch \in {"off", "stat0", "read0"} =>
    text = 0 /\ stamp = 0 /\ lastHash = None /\ ncfg = 0 /\ cfg = 0

\* The watcher will look at the file again.
Noticed == watch = "read" \/ stamp # lastMod

\* A text that is not the one the watcher has seen, if it has seen any, is
\* one it will look for.
UnseenIsNoticed ==
  mishaps = {} /\ watch \in {"poll", "read"} =>
    (text # lastHash => Noticed \/ lastHash = None)

\* A good text that the watcher will not see as a new one, and that no load
\* will read again, has been loaded.
SeenIsLoaded ==
  mishaps = {} /\ watch \in {"poll", "read"} =>
    \/ text # lastHash /\ Noticed
    \/ queued \/ loop = "load"
    \/ text \in Bad
    \/ IF loop = "apply" THEN ncfg = text ELSE cfg = text

\* The numbers of texts and stamps are those of writes of the past.
Past ==
  /\ text <= stamp
  /\ lastHash = None \/ lastHash <= stamp
  /\ lastMod = None \/ lastMod <= stamp
  /\ loop = "main" <=> watch = "off"

IndInv == TypeOK /\ Past /\ NotYetWatching /\ UnseenIsNoticed /\ SeenIsLoaded

LEMMA WatchInit == Init => IndInv
<1> SUFFICES ASSUME Init PROVE IndInv
  OBVIOUS
<1>1. 0 \in Texts /\ 0 \in Texts \ Bad
  BY BoundsAssumption, BadAssumption DEF Texts
<1>2. TypeOK
  <2>1. /\ text \in Texts /\ stamp \in Texts
        /\ lastMod \in Texts \cup {None} /\ lastHash \in Texts \cup {None}
        /\ ncfg \in Texts \ Bad /\ cfg \in Texts \ Bad
    BY <1>1 DEF Init
  <2>2. signals \in 0 .. MaxSignals /\ mishaps \subseteq Mishaps
    BY BoundsAssumption DEF Init
  <2>3. /\ watch \in {"off", "stat0", "read0", "poll", "read"}
        /\ loop \in {"main", "idle", "load", "apply"}
        /\ queued \in BOOLEAN /\ hup \in BOOLEAN
    BY DEF Init
  <2> QED
    BY <2>1, <2>2, <2>3 DEF TypeOK
<1>3. Past /\ NotYetWatching /\ UnseenIsNoticed /\ SeenIsLoaded
  BY DEF Init, Past, NotYetWatching, Noticed, UnseenIsNoticed, SeenIsLoaded
<1> QED
  BY <1>2, <1>3 DEF IndInv

LEMMA WatchTyped == IndInv /\ [Next]_vars => TypeOK' /\ Past'
<1> SUFFICES ASSUME IndInv, [Next]_vars PROVE TypeOK' /\ Past'
  OBVIOUS
<1> USE BoundsAssumption, BadAssumption
    DEF IndInv, TypeOK, Past, Texts, file, watcher, requests, loader
<1>1. CASE UNCHANGED vars
  BY <1>1 DEF vars
<1>2. CASE Write
  <2>1. /\ text' \in Texts /\ stamp' \in Texts /\ text' <= stamp' /\ stamp <= stamp'
        /\ UNCHANGED <<watcher, requests, loader>>
    BY <1>2 DEF Write
  <2>2. mishaps' \subseteq Mishaps
    BY <1>2 DEF Write, Mishaps
  <2> QED
    BY <2>1, <2>2
<1>3. CASE Sighup
  BY <1>3 DEF Sighup
<1>4. CASE ForwardHup
  BY <1>4 DEF ForwardHup
<1>5. CASE Watcher
  <2>1. CASE ReadFails
    BY <2>1 DEF ReadFails, Mishaps
  <2>2. CASE FirstStat \/ FirstRead
    BY <2>2 DEF FirstStat, FirstRead
  <2>3. CASE PollUnchanged
    BY <2>3 DEF PollUnchanged, vars
  <2>4. CASE PollChanged
    BY <2>4 DEF PollChanged
  <2>5. CASE ReadChanged
    BY <2>5 DEF ReadChanged
  <2> QED
    BY <1>5, <2>1, <2>2, <2>3, <2>4, <2>5 DEF Watcher
<1>6. CASE Loader
  <2>1. CASE LoadFails
    BY <2>1 DEF LoadFails, Mishaps
  <2>2. CASE StartTriggers
    BY <2>2 DEF StartTriggers
  <2>3. CASE TakeRequest
    BY <2>3 DEF TakeRequest
  <2>4. CASE LoadGood
    BY <2>4 DEF LoadGood
  <2>5. CASE Apply
    BY <2>5 DEF Apply
  <2> QED
    BY <1>6, <2>1, <2>2, <2>3, <2>4, <2>5 DEF Loader
<1> QED
  BY <1>1, <1>2, <1>3, <1>4, <1>5, <1>6 DEF Next

\* No step loses sight of the last write.
LEMMA NothingIsLost == IndInv /\ [Next]_vars => NotYetWatching' /\ UnseenIsNoticed' /\ SeenIsLoaded'
<1> DEFINE Goal == NotYetWatching /\ UnseenIsNoticed /\ SeenIsLoaded
<1> SUFFICES ASSUME IndInv, [Next]_vars PROVE Goal'
  OBVIOUS
<1>0. TypeOK /\ Past /\ Goal
  BY DEF IndInv
<1> USE DEF NotYetWatching, Noticed, UnseenIsNoticed, SeenIsLoaded, file, watcher, requests, loader
<1>1. CASE UNCHANGED vars
  BY <1>0, <1>1 DEF vars
<1>2. CASE Write
  <2> SUFFICES ASSUME mishaps' = {} PROVE Goal'
    OBVIOUS
  <2>1. /\ mishaps = {} /\ watch \in {"poll", "read"}
        /\ Quiet \/ text' \in {text, stamp + 1}
    BY <1>2 DEF Write
  <2>2. /\ stamp' = stamp + 1 /\ UNCHANGED <<watch, lastMod, lastHash, queued, loop, ncfg, cfg>>
        /\ stamp \in Nat /\ stamp + 1 \in Texts
        /\ lastMod = None \/ (lastMod \in Nat /\ lastMod <= stamp)
        /\ lastHash = None \/ (lastHash \in Nat /\ lastHash <= stamp)
    BY <1>0, <1>2, BoundsAssumption DEF Write, TypeOK, Past, Texts
  <2>3. stamp' # lastMod' /\ lastHash # stamp + 1
    BY <2>2, NoneAssumption
  <2>4. CASE Quiet
    <3>1. text = lastHash \/ lastHash = None
      BY <1>0, <2>1, <2>4 DEF Quiet
    <3>2. text' # None
      BY <1>2, <2>2, BoundsAssumption, NoneAssumption DEF Write, Texts
    <3>3. CASE text' # lastHash
      BY <2>1, <2>2, <2>3, <3>3
    <3>4. CASE text' = lastHash
      <4>1. text' = text
        BY <3>1, <3>2, <3>4
      <4> QED
        BY <1>0, <2>1, <2>2, <2>3, <2>4, <4>1 DEF Quiet
    <3> QED
      BY <3>3, <3>4
  <2>5. CASE text' \in {text, stamp + 1}
    BY <1>0, <2>1, <2>2, <2>3, <2>5
  <2> QED
    BY <2>1, <2>4, <2>5
<1>3. CASE Sighup
  BY <1>0, <1>3 DEF Sighup
<1>4. CASE ForwardHup
  BY <1>0, <1>4 DEF ForwardHup
<1>5. CASE Watcher
  <2>1. CASE ReadFails
    BY <2>1 DEF ReadFails
  <2>2. CASE FirstStat
    BY <1>0, <2>2 DEF FirstStat
  <2>3. CASE FirstRead
    BY <1>0, <2>3 DEF FirstRead
  <2>4. CASE PollUnchanged
    BY <1>0, <2>4 DEF PollUnchanged, vars
  <2>5. CASE PollChanged
    BY <1>0, <2>5 DEF PollChanged
  <2>6. CASE ReadChanged
    BY <1>0, <2>6 DEF ReadChanged
  <2> QED
    BY <1>5, <2>1, <2>2, <2>3, <2>4, <2>5, <2>6 DEF Watcher
<1>6. CASE Loader
  <2>1. CASE LoadFails
    BY <1>0, <2>1 DEF LoadFails
  <2>2. CASE StartTriggers
    BY <1>0, <2>2 DEF StartTriggers, Past
  <2>3. CASE TakeRequest
    BY <1>0, <2>3 DEF TakeRequest
  <2>4. CASE LoadGood
    BY <1>0, <2>4 DEF LoadGood
  <2>5. CASE Apply
    BY <1>0, <2>5 DEF Apply
  <2> QED
    BY <1>6, <2>1, <2>2, <2>3, <2>4, <2>5 DEF Loader
<1> QED
  BY <1>1, <1>2, <1>3, <1>4, <1>5, <1>6 DEF Next

LEMMA WatchAlways == Spec => []IndInv
<1>1. IndInv /\ [Next]_vars => IndInv'
  BY WatchTyped, NothingIsLost DEF IndInv
<1> QED
  BY <1>1, WatchInit, PTL DEF Spec

\* Types: in particular no text that does not load comes into use.
THEOREM OnlyGoodTextsInUse == Spec => []TypeOK
<1>1. IndInv => TypeOK
  BY DEF IndInv
<1> QED
  BY <1>1, WatchAlways, PTL

\* When the watcher has seen the last write and no request waits or runs,
\* the text of the file is in use.
THEOREM RestMeansApplied == Spec => []QuietMeansApplied
<1>1. IndInv => QuietMeansApplied
  BY DEF IndInv, Noticed, SeenIsLoaded, Quiet, QuietMeansApplied, InUse
<1> QED
  BY <1>1, WatchAlways, PTL
=============================================================================
