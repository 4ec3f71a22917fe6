------------------------------ MODULE ScanFlow ------------------------------
(***************************************************************************)
(* From a scan command to the session it installs (extension.ts, "scan     *)
(* flow" and "Context Review UX"; session/contextCache.ts).  A scan passes *)
(* the gate of the API route, asks the bridge for the context the file     *)
(* needs, and either scans with it or leaves a review behind, which        *)
(* Confirm or Skip take up later.  One module variable holds the pending   *)
(* review and one the session, and any number of these commands may be     *)
(* under way: a step is what runs between two awaits.                      *)
(*                                                                         *)
(* A content hash is modelled by the text it is the hash of, an inferred   *)
(* context by the text it was inferred for.  The bridge is the one of the  *)
(* current mode; a kill makes every handle dead, and what was asked of it  *)
(* may still be answered.                                                  *)
(***************************************************************************)
EXTENDS Naturals

CONSTANTS
  Files,
  Texts,          \* the texts the files may hold
  FileOf(_),      \* the file a text belongs to
  Slots,          \* bound: commands under way at the same time
  None,
  MaxCommands,    \* bound: commands in one behaviour
  MaxEdits,       \* bound: changes of a text
  MaxSwitches     \* bound: changes of the mode or the local model, stops of the latter

Contexts == [of : Texts, reviewed : BOOLEAN]
Reviews == [text : Texts, fix : BOOLEAN, asked : {"asked", "local", "overtaken"}]
Sessions == [text : Texts, context : Contexts, fix : BOOLEAN]

ASSUME ScanAssumption ==
  /\ \A t \in Texts : FileOf(t) \in Files
  /\ None \notin Files \cup Texts \cup Contexts \cup Reviews \cup Sessions
  /\ {MaxCommands, MaxEdits, MaxSwitches} \subseteq Nat

VARIABLES
  mode,           \* crepair.modelMode: over the API, or local
  text,           \* file -> the text its document holds
  cache,          \* the confirmed contexts in workspaceState
  pending,        \* pendingReview
  session,        \* the installed ScanSession
  stale,          \* its flag
  timer,          \* the document whose stale check is due (staleTimer)
  flow,           \* slot -> the command in it
  started, edits, switches,
  missed          \* history: the session was installed for a text already gone

limits == <<started, edits, switches>>
vars == <<mode, text, cache, pending, session, stale, timer, flow, limits, missed>>

\* What a command holds across its awaits.
\*   asked   "asked": the gate was passed; "local": there was none, the mode was local;
\*           "overtaken": there was none, and the mode has changed to the API since
\*   bridge  the handle it has
\*   met     another review has been opened since it began
\*   left    the cache keys Reset has yet to remove
Idle == [pc |-> "idle", kind |-> None, text |-> None, file |-> None, fix |-> FALSE,
         context |-> None, asked |-> "local", bridge |-> "none", met |-> FALSE, left |-> {}]

Waiting == {"gate", "starting", "inferring", "opening", "confirming", "checking", "asking",
            "caching", "closing", "scanning", "finishing", "evicting", "dialog", "forgetting"}
Requests == {"inferring", "confirming", "checking", "scanning"}
Commands == [pc : Waiting \cup {"idle"}, kind : {"scan", "confirm", "skip", "edit", "reset", None},
             text : Texts \cup {None}, file : Files \cup {None}, fix : BOOLEAN,
             context : Contexts \cup {None}, asked : {"asked", "local", "overtaken"},
             bridge : {"none", "live", "dead"}, met : BOOLEAN, left : SUBSET Texts]

ScanTypeOK ==
  /\ mode \in {"api", "local"}
  /\ text \in [Files -> Texts] /\ \A f \in Files : FileOf(text[f]) = f
  /\ cache \subseteq Contexts
  /\ pending \in Reviews \cup {None}
  /\ session \in Sessions \cup {None}
  /\ {stale, missed} \subseteq BOOLEAN /\ timer \in Files \cup {None}
  /\ flow \in [Slots -> Commands]

Init ==
  /\ mode \in {"api", "local"}
  /\ text \in [Files -> Texts] /\ \A f \in Files : FileOf(text[f]) = f
  /\ cache = {} /\ pending = None
  /\ session = None /\ stale = FALSE /\ timer = None /\ missed = FALSE
  /\ flow = [s \in Slots |-> Idle]
  /\ started = 0 /\ edits = 0 /\ switches = 0

Active == {s \in Slots : flow[s].pc # "idle"}
Moves(s, to) == flow' = [flow EXCEPT ![s] = to]
\* The command ends: it is done, or what it awaited failed, was cancelled or dismissed.
Ends(s) == Moves(s, Idle)

Begins(s, command) ==
  /\ flow[s].pc = "idle" /\ started < MaxCommands
  /\ started' = started + 1
  /\ Moves(s, command)
  /\ UNCHANGED <<edits, switches>>
-----------------------------------------------------------------------------
(* The cache                                                               *)

\* getCachedContext: the entry of a text, as the set of none or one.
CachedFor(t) == {c \in cache : c.of = t}

\* setCachedContext and evictCachedContext: workspaceState changes at once, the await is
\* for its write to disk.
Store(t, c) == cache' = (cache \ CachedFor(t)) \cup {c}
Evict(t) == cache' = cache \ CachedFor(t)
-----------------------------------------------------------------------------
(* scanCurrentFile                                                         *)

\* The text is read when the gate has been passed, and the cache is looked up for it: from
\* here on the command works on this text, whatever the document does.
Snapshot(s, f, fix, asked) ==
  \E c \in IF CachedFor(text[f]) = {} THEN {None} ELSE CachedFor(text[f]) :
    Moves(s, [Idle EXCEPT !.pc = "starting", !.kind = "scan", !.text = text[f],
                          !.fix = fix, !.context = c, !.asked = asked])

\* The file is the one of the active editor.
Enter(s, f, fix) ==
  \/ mode = "local" /\ Snapshot(s, f, fix, "local")
  \/ /\ mode = "api"
     /\ Moves(s, [Idle EXCEPT !.pc = "gate", !.kind = "scan", !.file = f, !.fix = fix])

Scan(s) ==
  /\ flow[s].pc = "idle" /\ started < MaxCommands
  /\ \E f \in Files, fix \in BOOLEAN : Enter(s, f, fix)
  /\ started' = started + 1
  /\ UNCHANGED <<mode, text, cache, pending, session, stale, timer, edits, switches, missed>>

\* The key, the notice about the external route, the choice of a mode, the free model.
PassGate(s) ==
  /\ flow[s].pc = "gate"
  /\ Snapshot(s, flow[s].file, flow[s].fix, "asked")
  /\ UNCHANGED <<mode, text, cache, pending, session, stale, timer, limits, missed>>

\* Mutant: a file without a cached context is scanned without one.
BridgeIsUpNoContext(s) ==
  /\ flow[s].pc = "starting"
  /\ Moves(s, [flow[s] EXCEPT !.bridge = "live",
                 !.pc = IF flow[s].kind = "scan" THEN "scanning" ELSE "confirming"])
  /\ UNCHANGED <<mode, text, cache, pending, session, stale, timer, limits, missed>>

\* ensureBridgeForScan: a bridge of the current mode, after which the command sends its
\* first request.
BridgeIsUp(s) ==
  /\ flow[s].pc = "starting"
  /\ Moves(s, [flow[s] EXCEPT !.bridge = "live",
                 !.pc = IF flow[s].kind # "scan" THEN "confirming"
                        ELSE IF flow[s].context # None THEN "scanning" ELSE "inferring"])
  /\ UNCHANGED <<mode, text, cache, pending, session, stale, timer, limits, missed>>

\* A request on a dead handle fails, one made before the handle died may be answered.
Sends(s, to) == Moves(s, IF flow[s].bridge = "live" THEN to ELSE Idle)

\* decideReview: a review, or (nothing inferred, or never to be reviewed) straight on.
Inferred(s) ==
  /\ flow[s].pc = "inferring"
  /\ \/ Moves(s, [flow[s] EXCEPT !.pc = "opening"])
     \/ Sends(s, [flow[s] EXCEPT !.pc = "confirming"])
  /\ UNCHANGED <<mode, text, cache, pending, session, stale, timer, limits, missed>>

\* openContextReview, when its document is open.  A review that was pending is replaced.
OpenReview(s) ==
  /\ flow[s].pc = "opening"
  /\ pending' = [text |-> flow[s].text, fix |-> flow[s].fix, asked |-> flow[s].asked]
  /\ flow' = [r \in Slots |-> IF r = s THEN Idle
                              ELSE [flow[r] EXCEPT !.met = flow[r].kind \in {"confirm", "skip"}]]
  /\ UNCHANGED <<mode, text, cache, session, stale, timer, limits, missed>>
-----------------------------------------------------------------------------
(* confirmContextAndScan, skipContextAndScan: both hold on to the review   *)
(* they have read and neither takes it away before it goes on to scan.     *)

Resolve(s, how) ==
  /\ pending # None
  /\ Begins(s, [Idle EXCEPT !.pc = "starting", !.kind = how, !.text = pending.text,
                            !.fix = pending.fix, !.asked = pending.asked])
  /\ UNCHANGED <<mode, text, cache, pending, session, stale, timer, missed>>

\* What /context/confirm answers becomes the context.  Confirm has it checked; Skip and the
\* direct scan store it as it is.
Confirmed(s) ==
  /\ flow[s].pc = "confirming"
  /\ LET c == [of |-> flow[s].text, reviewed |-> flow[s].kind = "confirm"]
     IN IF flow[s].kind = "confirm"
        THEN /\ Sends(s, [flow[s] EXCEPT !.pc = "checking", !.context = c])
             /\ UNCHANGED cache
        ELSE /\ Moves(s, [flow[s] EXCEPT !.pc = "caching", !.context = c])
             /\ Store(flow[s].text, c)
  /\ UNCHANGED <<mode, text, pending, session, stale, timer, limits, missed>>

\* checkResultMessage: if the context does not compile the user is asked.
MissingSymbols(s) ==
  /\ flow[s].pc = "checking"
  /\ Moves(s, [flow[s] EXCEPT !.pc = "asking"])
  /\ UNCHANGED <<mode, text, cache, pending, session, stale, timer, limits, missed>>

\* It compiles, or the answer is Continue.
Accepted(s) ==
  /\ flow[s].pc \in {"checking", "asking"}
  /\ Moves(s, [flow[s] EXCEPT !.pc = "caching"])
  /\ Store(flow[s].text, flow[s].context)
  /\ UNCHANGED <<mode, text, pending, session, stale, timer, limits, missed>>

\* Mutant: a scan without a review goes on to scan the way a reviewed one does.
CachedAndClosed(s) ==
  /\ flow[s].pc = "caching"
  /\ Moves(s, [flow[s] EXCEPT !.pc = "closing"])
  /\ UNCHANGED <<mode, text, cache, pending, session, stale, timer, limits, missed>>

\* The entry is written.  A scan goes on; a review is closed first, if its file can still
\* be opened (otherwise the command ends, see Fail).
Cached(s) ==
  /\ flow[s].pc = "caching"
  /\ IF flow[s].kind = "scan" THEN Sends(s, [flow[s] EXCEPT !.pc = "scanning"])
                              ELSE Moves(s, [flow[s] EXCEPT !.pc = "closing"])
  /\ UNCHANGED <<mode, text, cache, pending, session, stale, timer, limits, missed>>

\* The review's editor is closed; whatever review is pending by now is forgotten.
ReviewClosed(s) ==
  /\ flow[s].pc = "closing"
  /\ pending' = None
  /\ Sends(s, [flow[s] EXCEPT !.pc = "scanning"])
  /\ UNCHANGED <<mode, text, cache, session, stale, timer, limits, missed>>
-----------------------------------------------------------------------------
(* runScanWithConfirmed and what follows it                                *)

\* Mutant: the snapshot is taken from the document when the answer is there.
InstallCurrentText(s) ==
  /\ flow[s].pc = "scanning"
  /\ session' = [text |-> text[FileOf(flow[s].text)], context |-> flow[s].context,
                 fix |-> flow[s].fix]
  /\ stale' = FALSE /\ missed' = FALSE
  /\ IF flow[s].fix THEN Moves(s, [flow[s] EXCEPT !.pc = "finishing"]) ELSE Ends(s)
  /\ UNCHANGED <<mode, text, cache, pending, timer, limits>>

Install(s) ==
  /\ flow[s].pc = "scanning"
  /\ session' = [text |-> flow[s].text, context |-> flow[s].context, fix |-> flow[s].fix]
  /\ stale' = FALSE
  /\ missed' = (text[FileOf(flow[s].text)] # flow[s].text)
  /\ IF flow[s].fix THEN Moves(s, [flow[s] EXCEPT !.pc = "finishing"]) ELSE Ends(s)
  /\ UNCHANGED <<mode, text, cache, pending, timer, limits>>

\* afterScanComplete of Scan & Fix, after the last reading of the usage: the pipeline is
\* run for the session there is now.
StartRepairs(s) ==
  /\ flow[s].pc = "finishing"
  /\ Ends(s)
  /\ UNCHANGED <<mode, text, cache, pending, session, stale, timer, limits, missed>>
-----------------------------------------------------------------------------
(* editContext                                                             *)

EditContext(s) ==
  /\ session # None
  /\ Begins(s, [Idle EXCEPT !.pc = "evicting", !.kind = "edit"])
  /\ Evict(session.text)
  /\ UNCHANGED <<mode, text, pending, session, stale, timer, missed>>

Evicted(s) ==
  /\ flow[s].pc = "evicting"
  /\ \E f \in Files : Enter(s, f, FALSE)
  /\ UNCHANGED <<mode, text, cache, pending, session, stale, timer, limits, missed>>
-----------------------------------------------------------------------------
(* Failures                                                                *)

\* Whatever a command awaits may fail: the gate is declined, the bridge does not start,
\* a request fails or is cancelled, the user edits the context instead, the file is gone.
Fail(s) ==
  /\ flow[s].pc \in {"gate", "starting", "opening", "asking", "caching", "dialog"} \cup Requests
  /\ Ends(s)
  /\ UNCHANGED <<mode, text, cache, pending, session, stale, timer, limits, missed>>
-----------------------------------------------------------------------------
(* Reset Extension State, Stop Local Model, changes of the settings        *)

\* bridge.kill, as the commands see it: a start is cancelled.
Killed(r) == IF r.pc = "starting" THEN Idle
             ELSE [r EXCEPT !.bridge = IF @ = "live" THEN "dead" ELSE @]

ClearLiveSessionState ==
  /\ session' = None /\ pending' = None /\ timer' = None
  /\ stale' = FALSE /\ missed' = FALSE

Reset(s) ==
  /\ Begins(s, [Idle EXCEPT !.pc = "dialog", !.kind = "reset"])
  /\ UNCHANGED <<mode, text, cache, pending, session, stale, timer, missed>>

\* The keys of the cache are listed once, then removed one await after the other.
Forget(s) ==
  /\ flow[s].pc = "dialog"
  /\ Moves(s, [flow[s] EXCEPT !.pc = "forgetting", !.left = {c.of : c \in cache}])
  /\ UNCHANGED <<mode, text, cache, pending, session, stale, timer, limits, missed>>

ForgetOne(s) ==
  /\ flow[s].pc = "forgetting"
  /\ \E t \in flow[s].left : /\ Evict(t)
                             /\ Moves(s, [flow[s] EXCEPT !.left = @ \ {t}])
  /\ UNCHANGED <<mode, text, pending, session, stale, timer, limits, missed>>

FinishReset(s) ==
  /\ flow[s].pc = "forgetting" /\ flow[s].left = {}
  /\ ClearLiveSessionState
  /\ flow' = [r \in Slots |-> IF r = s THEN Idle ELSE Killed(flow[r])]
  /\ UNCHANGED <<mode, text, cache, limits>>

\* The bridge is killed and everything cleared, while the mode stays.
Clears ==
  /\ switches < MaxSwitches /\ switches' = switches + 1
  /\ ClearLiveSessionState
  /\ flow' = [r \in Slots |-> Killed(flow[r])]
  /\ UNCHANGED <<mode, text, cache, started, edits>>

OvertakenBy(m, r) ==
  [r EXCEPT !.asked = IF m = "api" /\ r.pc # "idle" /\ @ = "local" THEN "overtaken" ELSE @]

\* Mutant: the review outlives the mode.
SwitchKeepingReview ==
  /\ switches < MaxSwitches /\ switches' = switches + 1
  /\ mode' \in {"api", "local"} \ {mode}
  /\ session' = None /\ timer' = None /\ stale' = FALSE /\ missed' = FALSE
  /\ flow' = [r \in Slots |-> OvertakenBy(mode', Killed(flow[r]))]
  /\ UNCHANGED <<text, cache, pending, started, edits>>

\* onConfigChanged for crepair.modelMode.
SwitchMode ==
  /\ switches < MaxSwitches /\ switches' = switches + 1
  /\ mode' \in {"api", "local"} \ {mode}
  /\ ClearLiveSessionState
  /\ flow' = [r \in Slots |-> OvertakenBy(mode', Killed(flow[r]))]
  /\ UNCHANGED <<text, cache, started, edits>>

\* crepair.stopLocalModel in local mode; onConfigChanged for what crepair.local says of the
\* model, in either mode.
StopLocalModel == mode = "local" /\ Clears
ChangeLocalModel == Clears
-----------------------------------------------------------------------------
(* The user types; the debounced stale check                               *)

IsScanned(f) == session # None /\ FileOf(session.text) = f

\* onDocumentChanged
Type ==
  /\ edits < MaxEdits /\ edits' = edits + 1
  /\ \E f \in Files, t \in Texts :
       /\ FileOf(t) = f /\ t # text[f]
       /\ text' = [text EXCEPT ![f] = t]
       /\ timer' = IF IsScanned(f) THEN f ELSE timer
       /\ missed' = (missed /\ ~IsScanned(f))
  /\ UNCHANGED <<mode, cache, pending, session, stale, flow, started, switches>>

\* Mutant: the flag is set and never taken back.
StaleCheckOneWay ==
  /\ timer # None
  /\ timer' = None
  /\ IF IsScanned(timer) /\ text[timer] # session.text
     THEN stale' = TRUE /\ missed' = FALSE
     ELSE UNCHANGED <<stale, missed>>
  /\ UNCHANGED <<mode, text, cache, pending, session, flow, limits>>

StaleCheck ==
  /\ timer # None
  /\ timer' = None
  /\ IF IsScanned(timer)
     THEN stale' = (text[timer] # session.text) /\ missed' = FALSE
     ELSE UNCHANGED <<stale, missed>>
  /\ UNCHANGED <<mode, text, cache, pending, session, flow, limits>>
-----------------------------------------------------------------------------
Next ==
  \/ SwitchMode \/ StopLocalModel \/ ChangeLocalModel \/ Type \/ StaleCheck
  \/ \E s \in Slots :
       \/ Scan(s) \/ PassGate(s) \/ BridgeIsUp(s) \/ Inferred(s) \/ OpenReview(s)
       \/ Resolve(s, "confirm") \/ Resolve(s, "skip")
       \/ Confirmed(s) \/ MissingSymbols(s) \/ Accepted(s) \/ Cached(s) \/ ReviewClosed(s)
       \/ Install(s) \/ StartRepairs(s) \/ EditContext(s) \/ Evicted(s) \/ Fail(s)
       \/ Reset(s) \/ Forget(s) \/ ForgetOne(s) \/ FinishReset(s)

Spec == Init /\ [][Next]_vars
-----------------------------------------------------------------------------
\* What was inferred, reviewed and confirmed for one text is used for that text only,
\* however long the review took and whatever was typed or scanned meanwhile (scanCurrentFile,
\* getCachedContext, runScanWithConfirmed).
ContextBelongs ==
  /\ session # None => session.context.of = session.text
  /\ \A c, d \in cache : c.of = d.of => c = d
  /\ \A s \in Slots : flow[s].context # None => flow[s].context.of = flow[s].text

\* When no check is due, the flag of the session on display is right, across sessions,
\* files and modes, unless the session was for a text that had already gone when it was
\* installed: nothing checks that (onDocumentChanged, runScanWithConfirmed).
FlagExactAcrossSessions ==
  session # None /\ ~missed /\ timer # FileOf(session.text) =>
    stale = (text[FileOf(session.text)] # session.text)

\* No request goes over the API for a scan that began as a local one, and no review made
\* locally can be confirmed over it, unless the mode changed while that scan was under way
\* (scanCurrentFile asks at its beginning only; clearLiveSessionState on a change).
AskedUnlessOvertaken ==
  mode = "api" =>
    /\ pending # None => pending.asked # "local"
    /\ \A s \in Slots : flow[s].pc \in Requests /\ flow[s].bridge = "live"
                          => flow[s].asked # "local"

\* A review stays until the command that was given for it goes on to scan, another review
\* takes its place, or everything is cleared; the one exception is a command that was
\* waiting when that other review was opened, and takes it away (confirmContextAndScan).
IsFor(s, review) == [text |-> flow[s].text, fix |-> flow[s].fix, asked |-> flow[s].asked] = review
ReviewIsKept ==
  [][pending # None /\ pending' = None =>
       \/ \E s \in Slots : /\ flow[s].kind \in {"confirm", "skip"} /\ flow[s].context # None
                           /\ flow'[s].pc \in {"scanning", "idle"}
                           /\ IsFor(s, pending) \/ flow[s].met
       \/ switches' # switches   \* the mode or the local model changed, or it was stopped
       \/ \E s \in Slots : flow[s].kind = "reset" /\ flow'[s].pc = "idle"]_vars

-----------------------------------------------------------------------------
\* What the sources say, and TLC finds the code does not keep; no run checks it.

\* Only what was scanned to be fixed is repaired without being asked ("Scan Current File":
\* scan only, no auto-repair, extension.ts:553).
OnlyFixIsRepaired ==
  [][\A s \in Slots : flow[s].pc = "finishing" /\ flow'[s].pc = "idle" /\ session # None
       => session.fix]_vars
=============================================================================
