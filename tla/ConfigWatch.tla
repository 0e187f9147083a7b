----------------------------- MODULE ConfigWatch ----------------------------
(***************************************************************************)
(* How a change of the configuration file gets into the running program:  *)
(* main's first load, the watcher (watchConfig), the SIGHUP goroutine and *)
(* the reload loop of main.go.  They share the file, which others write   *)
(* at any time, and the channel reloadCh, which holds one request.        *)
(*                                                                         *)
(* A text of the file is a number; its hash is identified with it.  A     *)
(* write gives the file a new stamp, which stands for mtime and size.     *)
(***************************************************************************)
EXTENDS Naturals

CONSTANTS
  Bad,         \* texts that do not load: syntax error, no subs, ...
  MaxWrites,   \* bound: at most this many writes
  MaxSignals,  \* bound: at most this many SIGHUPs
  None         \* the zero time and the zero hash of a watcher that saw nothing

ASSUME BoundsAssumption == MaxWrites \in Nat /\ MaxSignals \in Nat

Texts == 0 .. MaxWrites

\* main exits when the first load fails, so the first text is a good one.
ASSUME BadAssumption == Bad \subseteq Texts \ {0}
ASSUME NoneAssumption == None \notin Texts

VARIABLES
  text,        \* what the file holds
  stamp,       \* its mtime and size: the number of the last write
  watch,       \* where watchConfig is
  lastMod,     \* watchConfig: the stamp it saw last
  lastHash,    \* watchConfig: the text it saw last
  queued,      \* a request is in reloadCh (capacity 1)
  hup,         \* a signal is in the hup channel (capacity 1)
  signals,     \* SIGHUPs sent so far
  loop,        \* where main or the reload loop is
  ncfg,        \* the configuration it has loaded
  cfg,         \* the configuration in use
  mishaps      \* history: what has happened that may lose a write, see Mishaps

vars == <<text, stamp, watch, lastMod, lastHash, queued, hup, signals, loop, ncfg, cfg, mishaps>>
file == <<text, stamp>>
watcher == <<watch, lastMod, lastHash>>
requests == <<queued, hup, signals>>
loader == <<loop, ncfg, cfg>>

\* The watcher has seen the last write and no request waits or runs.
Quiet == watch = "poll" /\ lastMod = stamp /\ ~queued /\ ~hup /\ loop = "idle"

\* A write before the watcher's first look, a text brought back while a
\* change is still on its way, a read of the watcher that fails, and a load
\* that fails although the text is good.
Mishaps == {"early", "revert", "read", "load"}

Init ==
  /\ text = 0
  /\ stamp = 0
  /\ watch = "off"
  /\ lastMod = None
  /\ lastHash = None
  /\ queued = FALSE
  /\ hup = FALSE
  /\ signals = 0
  /\ loop = "main"
  /\ ncfg = 0
  /\ cfg = 0
  /\ mishaps = {}

-----------------------------------------------------------------------------
(* The world outside *)

\* Somebody saves the file, with a new text, with the same one (touch, an
\* editor) or with one it held before.
Write ==
  /\ stamp < MaxWrites
  /\ stamp' = stamp + 1
  /\ text' \in 0 .. stamp + 1
  /\ mishaps' = mishaps \cup (IF watch \in {"poll", "read"} THEN {} ELSE {"early"})
                        \cup (IF Quiet \/ text' \in {text, stamp + 1} THEN {} ELSE {"revert"})
  /\ UNCHANGED <<watcher, requests, loader>>

\* signal.Notify does not block: a signal that finds the channel full is
\* dropped.
Sighup ==
  /\ loop # "main"
  /\ signals < MaxSignals
  /\ signals' = signals + 1
  /\ hup' = TRUE
  /\ UNCHANGED <<file, watcher, loader, queued, mishaps>>

-----------------------------------------------------------------------------
(* main *)

\* loadConfig has read the file as Init shows it; main starts the reload
\* loop and the triggers.
StartTriggers ==
  /\ loop = "main"
  /\ loop' = "idle"
  /\ watch' = "stat0"
  /\ UNCHANGED <<file, requests, lastMod, lastHash, ncfg, cfg, mishaps>>

\* Mutant: a signal during a reload is dropped.
ForwardWhenIdle ==
  /\ hup
  /\ hup' = FALSE
  /\ queued' = (queued \/ loop = "idle")
  /\ UNCHANGED <<file, watcher, loader, signals, mishaps>>

\* requestReload: a request that finds the channel full is dropped.
ForwardHup ==
  /\ hup
  /\ hup' = FALSE
  /\ queued' = TRUE
  /\ UNCHANGED <<file, watcher, loader, signals, mishaps>>

-----------------------------------------------------------------------------
(* watchConfig *)

\* The first look at the file; stat and read may fail.
FirstStat ==
  /\ watch = "stat0"
  /\ lastMod' \in {stamp, None}
  /\ watch' = "read0"
  /\ UNCHANGED <<file, requests, loader, lastHash, mishaps>>

FirstRead ==
  /\ watch = "read0"
  /\ lastHash' \in {text, None}
  /\ watch' = "poll"
  /\ UNCHANGED <<file, requests, loader, lastMod, mishaps>>

\* A tick finds nothing new, or no file.
PollUnchanged ==
  /\ watch = "poll"
  /\ stamp = lastMod
  /\ UNCHANGED vars

\* A tick finds another mtime or size.
PollChanged ==
  /\ watch = "poll"
  /\ stamp # lastMod
  /\ lastMod' = stamp
  /\ watch' = "read"
  /\ UNCHANGED <<file, requests, loader, lastHash, mishaps>>

ReadChanged ==
  /\ watch = "read"
  /\ watch' = "poll"
  /\ lastHash' = text
  /\ queued' = (queued \/ text # lastHash)
  /\ UNCHANGED <<file, loader, lastMod, hup, signals, mishaps>>

\* The file is away or unreadable for a moment.
ReadFails ==
  /\ watch = "read"
  /\ watch' = "poll"
  /\ mishaps' = mishaps \cup {"read"}
  /\ UNCHANGED <<file, requests, loader, lastMod, lastHash>>

-----------------------------------------------------------------------------
(* reloadLoop *)

TakeRequest ==
  /\ loop = "idle"
  /\ queued
  /\ queued' = FALSE
  /\ loop' = "load"
  /\ UNCHANGED <<file, watcher, hup, signals, ncfg, cfg, mishaps>>

\* Mutant: what was read is used without validation.
LoadAnything ==
  /\ loop = "load"
  /\ ncfg' = text
  /\ loop' = "apply"
  /\ UNCHANGED <<file, watcher, requests, cfg, mishaps>>

LoadGood ==
  /\ loop = "load"
  /\ text \notin Bad
  /\ ncfg' = text
  /\ loop' = "apply"
  /\ UNCHANGED <<file, watcher, requests, cfg, mishaps>>

\* Mutant: a configuration that does not load ends the loop.
LoadFailsForGood ==
  /\ loop = "load"
  /\ mishaps' = IF text \in Bad THEN mishaps ELSE mishaps \cup {"load"}
  /\ loop' = "ended"
  /\ UNCHANGED <<file, watcher, requests, ncfg, cfg>>

\* The current configuration is kept and the loop goes on.
LoadFails ==
  /\ loop = "load"
  /\ mishaps' = IF text \in Bad THEN mishaps ELSE mishaps \cup {"load"}
  /\ loop' = "idle"
  /\ UNCHANGED <<file, watcher, requests, ncfg, cfg>>

\* Mutant: a request that came in meanwhile is taken for served.
ApplyAndDrain ==
  /\ loop = "apply"
  /\ cfg' = ncfg
  /\ loop' = "idle"
  /\ queued' = FALSE
  /\ UNCHANGED <<file, watcher, ncfg, hup, signals, mishaps>>

Apply ==
  /\ loop = "apply"
  /\ cfg' = ncfg
  /\ loop' = "idle"
  /\ UNCHANGED <<file, watcher, requests, ncfg, mishaps>>

-----------------------------------------------------------------------------
Watcher ==
  FirstStat \/ FirstRead \/ PollUnchanged \/ PollChanged \/ ReadChanged \/ ReadFails
Loader == StartTriggers \/ TakeRequest \/ LoadGood \/ LoadFails \/ Apply

Next == Write \/ Sighup \/ ForwardHup \/ Watcher \/ Loader

\* Every goroutine that can run does.  A read that fails is not tried
\* again, so nothing is assumed about it.
Fairness ==
  /\ WF_vars(Watcher)
  /\ WF_vars(Loader)
  /\ WF_vars(ForwardHup)

Spec == Init /\ [][Next]_vars
FairSpec == Spec /\ Fairness

-----------------------------------------------------------------------------
(* Properties *)

TypeOK ==
  /\ text \in Texts /\ stamp \in Texts
  /\ watch \in {"off", "stat0", "read0", "poll", "read"}
  /\ lastMod \in Texts \cup {None} /\ lastHash \in Texts \cup {None}
  /\ queued \in BOOLEAN /\ hup \in BOOLEAN
  /\ signals \in 0 .. MaxSignals
  /\ loop \in {"main", "idle", "load", "apply"}
  /\ ncfg \in Texts \ Bad /\ cfg \in Texts \ Bad
  /\ mishaps \subseteq Mishaps

\* The text of the file is in use, unless it does not load.
InUse == text \in Bad \/ cfg = text

\* When everything rests, the text of the file is in use.  Requests that the
\* full channel drops, and texts replaced between stat and read or between
\* the watcher's read and the loader's, cost nothing.
QuietMeansApplied == Quiet /\ mishaps = {} => InUse

\* README.md, "Hot reload": the file is watched and changes are applied.
\* Once the writes are over, the last text comes into use and stays.
WritesTakeEffect == <>[](mishaps = {} => InUse)

\* README.md, "Hot reload": SIGHUP also triggers a reload.  A signal that
\* comes after the last write brings that text into use, whatever the
\* watcher has missed, even when the signal or its request is dropped
\* because one is waiting already; only the load itself may fail.
SignalTakesEffect ==
  (hup /\ stamp = MaxWrites) ~> (InUse \/ "load" \in mishaps)

\* README.md, "Hot reload", again: a read of the watcher that fails, while an
\* editor replaces the file, does not keep the last text out of use.
FailedReadLosesNothing == <>[](mishaps \subseteq {"read"} => InUse)
=============================================================================
