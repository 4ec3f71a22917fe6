# A verification of C Repair

C Repair scans one C file, asks a model for repairs of what it finds, and lets a
person decide about each of them: a repair is a set of hunks that is applied to
the open document only when it is accepted.  Its README states the invariant this
project is built around: *the output is always `Original C + accepted patches`*.

This directory holds TLA+ modules translated from the source (`src/` below is the
repository root), the TLC configurations that check them, and theorems that TLAPS
proves about them.

## The system

| Component | State it keeps | Operations | What makes it correct | Module |
|---|---|---|---|---|
| Patch arithmetic: `packages/core/src/patches.js`, `ui/model.ts`, `apply/*.ts` | none | ranges, conflicts, offsets, edit ranges, the `#include` filter | every accepted hunk ends up where Original C has its lines, in any order of accepting | Patches, AcceptChain |
| Scan session: `session/ScanSession.ts` | candidates, decisions, override flags, reject reasons, reviewed marks, the expected hash, the stale flag | see the commands | decisions, document and flags tell the same story | ReviewSession, AcceptedOutput |
| Review commands: `extension.ts` | what each `async` command holds across its awaits | accept, confirm, accept all reviewed, reject, show diff, generate, regenerate | an edit is built for the text it lands on; a late answer changes nothing that has been replaced | ReviewSession |
| Auto-repair pipeline: `runAutoRepairPipeline` | its plan, "a diff was opened" | one `/repair` per finding | stops on rescan and on a stale document | ReviewSession, ReviewQueue |
| Review queue and views: `session/reviewQueue.ts`, `ui/tree.ts`, `ui/diffView.ts`, `ui/validationLens.ts`, diagnostics | open diffs, the active one, a content cache, the tree, lenses, the stale notice | title bar, advance, refresh | what is on the screen is what the session holds | ReviewQueue |
| Stale monitoring: `onDocumentChanged` | one debounce timer for all files | refresh the flag | the flag is exact once the timer has run | ReviewSession, ScanFlow |
| Scan flow and context review: `scanCurrentFile`, `pendingReview`, `contextCache.ts` | the pending review, the cache of confirmed contexts | infer, review, confirm, skip, edit, reset | a context is used for the text it was inferred for; a review is lost to no other command | ScanFlow |
| Model mode, onboarding, settings: `session/modelMode.ts`, `configChangeNotice.ts`, `overrideEnv.ts`, `ui/onboardingState.ts` | settings, key, "mode chosen", free-model switch, the open notice | the gate of a scan, the pickers, notices, reset | nothing is billed without a choice; notice and walkthrough speak of the settings there are | Onboarding |
| Bridge manager: `bridge/BridgeManager.ts` | state, child process, handle, start epoch | start (shared), handshake, kill, exit | at most one live child; a start overtaken by a kill never hands out a handle; the bridge in use has the settings in force | BridgeManager |
| Local runtime: `bridge/LocalRuntime.ts` | the child, the lock file | start, stop | one local model per user | LocalRuntime |
| Local setup: `bridge/bootstrap.ts`, `localAssets.ts`, `localReleaseEngine.ts`, `local*Engine.ts` | virtual environment, archive and part file, engine directory, install lock | bootstrap, download, prepare | one setup at a time; what is taken for installed is whole | LocalInstall |
| Bridge client and service: `bridge/BridgeClient.ts`, `main.py`, `cancellation.py` | one cancel token per request | request, run, watch for a disconnect | a cancelled request sends nothing more, and ends | RequestLifecycle |
| Usage display: `cost/sessionUsage.ts`, `usage_tracker.py` | totals, the session line | reset, count, poll | the figure that stays is this session's | RequestLifecycle |
| Repair adapter: `adapter/repair.py` | one request's attempts | generate, gates, hunks | the status and the gates agree; hunks are in Original C coordinates | - |
| Context inference: `infer.py`, `context.py` | one request's items | infer, check | ends, and keeps what compiled | - |
| Report, feedback, cost, OAuth, model choice, tools | none of their own, or the user's settings | rendering, forms, packaging | | - |

Everything runs on one JavaScript thread per window and in an event loop with a thread
pool in the bridge; several windows of a user share the files under globalStorage.
Nothing in the extension serialises the commands, so what is atomic is what runs between
two awaits.  The hard behaviour is what happens at those awaits: the editor answers an
edit, the user types, undoes, answers a dialog or starts another scan, the debounce fires,
the bridge answers late, another window takes a lock, a process or a window dies.
`PROJECT.json` lists the places under "hazards", each with the properties that watch it.

## The modules

**Patches** - the functions every part shares.  A text is the sequence of lines of
`split('\n')`; a hunk is a record `[start, count, repl]`; a line is a sequence of fragments,
so that a text glued to an unfinished last line is a different line and not the same one.
`RangesIntersect`, `CandidatesConflict` and `ApplyHunks` are `patches.js`;
`LineOffsetForStart`, `HunkToEditRange` and `CandidateToEditRanges` are `ui/model.ts`;
`DedupeIncludes` is `apply/dedupeIncludes.ts`.  `ApplyTextEdit`, `BottomUp` and
`ApplyWorkspaceEdit` stand for VS Code: positions are validated and all edits of one
`WorkspaceEdit` refer to the text it was built for.  `Compose` is the reference: Original C
with a set of hunks put in, line by line, without any offset.  No function is recursive:
sorting, filtering and applying are folds and flattened families of sequences, so that they
can be reasoned about.

**AcceptChain** - accepts candidates one after another with nothing in between.  One step is
one whole accept.  It answers whether the arithmetic is right: with every shape of hunks,
outside three cases the property names.  One of them is `EndReached`, a hunk that takes the
last line or goes below it: that is an append to a text without final newline, and behind a
final newline difflib puts an insertion there as well when an empty line further up matched
the last one (from "x\n" to "x\n\ny\n").  `ShapesAssumption` says what the adapter delivers:
the unequal blocks of one difflib run (`adapter/repair.py:1332`) and perhaps an include hunk
that meets none of them (`adapter/repair.py:924`, `:2735`) stay within the text or go below
its last line, and no two of a candidate conflict.

**ReviewSession** - a scan session with all its commands, taken apart at every await.  `sent`
is the set of `applyCandidate` calls that have not returned, and an element of it goes
through `sent` -> `landed` or `refused` -> continuation (`Land`, `Finish`, `GiveUp`).
`Confirm` is the part of `acceptCandidate` after the QuickPick, `RunBatch` the loop of
`acceptAllReviewed` from one await to the next, `RepairReturns` what follows
`handle.client.repair`.  It uses the arithmetic of Patches on real texts, so a wrong offset
shows in the document.

**AcceptedOutput** - what a session promises, without saying how: a document with its undo
stack and the patches accepted so far.  It accepts only where the document is Original C
with the patches (`InStep`), in one undo step, and adds one patch; everything else is the
user's (`Type`, `Travel`).  ReviewSession implements it (`Output!Spec`) with the undo stack
mapped to itself and `patches` to the hunks of the accepted candidates and of an edit that
has landed and waits for its continuation: the accept takes effect when the edit lands, not
when it is recorded.

**ReviewQueue** - what the reviewer looks at.  Here the session is a candidate and a decision
per finding; the variables are the screens: `open` and `active` diffs with the content the
provider has rendered (`doc`), the `tree`, the `lens`es, the diagnostics (`hidden`,
`notice`).  Each command updates the screens the code has it update (`TreeRefreshed`,
`Relensed`, `Invalidated`, `DiagnosticsRefreshed`), at the step where the code does it;
`Closes` and `OpensNext` are the automatic advance of the title bar, the `Pipe...` actions
the background repair.

**ScanFlow** - `flow` holds the commands under way, each with what it carries across its
awaits: the text read at the beginning, the context, the handle of the bridge.  `Snapshot`
to `Inferred` are `scanCurrentFile`, `OpenReview` the review, `Resolve` to `ReviewClosed`
confirm and skip, `Install` the part of `runScanWithConfirmed` after the answer,
`ClearLiveSessionState` and `Forget` the reset; `StaleCheck` belongs to the one timer.  A
switch of the mode, a stop of the local model and a change of its settings kill the bridge
and clear the session (`SwitchMode`, `Clears`), and what is under way goes on.

**Onboarding** - the settings and what reacts to them.  `Write` is one write to the settings
with the whole of `onConfigChanged`; every writer uses it (the user, the notices' buttons,
the picker, the migration) but Set Up Local, for which the code returns early.  `flow` is a
command from its key through the notice about the route, the picker and the tier to the
start; `refresh` the newest call of `refreshOnboardingState`, whose predecessors are
superseded.

**RequestLifecycle** - one request end to end: `op` is `withUsageTracking` around it, `conn`
the HTTP connection with its two reasons to be given up, `work` the worker thread, `cancel`
the event loop's `CancelToken.cancel` in its three steps, `registered` and `closed` the
client of the send in flight.  `total` is the tracker's, `reading` every `GET /usage` under
way, `shown` the line.  The bridge may end at any step (`BridgeEnds`), with its handle or
before its exit is noticed; another start brings a tracker that counts from zero, and a
reading that finds no handle leaves the line alone (`Settle`, `Fetch`).

**LocalInstall** - `at` is where each window's setup stands.  `OpenLock` to `Unlock` are
`withAssetLock` operation by operation; `LookAtFile` to `CheckDownload` the download, with a
part file that may be damaged, too long or complete; `ClearStaging` to `RenameStaging` the
engine; `ClearVenv` to `Installed` the bootstrap, which no lock protects.  `InstallFails` and
`BootstrapFails` may come at every operation, `Dies` anywhere.

**LocalRuntime** - the local model of every window of a user and their one lock file.
`loading` is where a window's `start` stands; between its awaits come the window's own
`stop`s, and between any two operations on the file come the other windows (`ReadLock`,
`RemoveStaleLock`, `CreateLock`, `WriteLock`).  `release` is `this.release`, `engine` the
guardian with its model.  `Crash` ends a window without a stop, between the creation of the
lock and its release too.  `mishap` and `stolen` are history: what befell a window's last
lock, and whether a lock was ever removed that was not the dead window's any more.

**BridgeManager** - extends LocalRuntime with the bridge of the window `Self`.  `phase` is the
await a start is at: the port, the engine (`prepare`), the model (`runtime`), its
inspection, the secret, the handshake.  A kill may come at any of them; `overtaken` says
that `startEpoch` has moved since the start began, which is all the code asks of the epoch.
`Call` is `ensureStarted` up to the shared promise, `Catch` the catch clause of `start`,
`KillAndThrow` a kill by the start itself.  A call that is served at once by the bridge in
use changes nothing and is no action.

The **MC** modules give each of these its files, texts, hunks, windows and processes for
TLC, the modules that end in **_proofs** hold the theorems.

The modules meet where the code does: ReviewSession and AcceptChain share Patches;
BridgeManager contains LocalRuntime; ScanFlow sees a bridge that is there, dies or is
killed, and Onboarding one with a state, which BridgeManager explains; the session that
ScanFlow installs and replaces is the one of ReviewSession (`rescan`) and ReviewQueue
(`Rescanned`).

Operators and actions whose comment begins with "Mutant:" are not part of the model.
Each is a plausible mistake in the operator that follows it, and for every property
a run checks, PROJECT.json names one with which TLC finds the property violated.

What the abstractions leave out: a content hash is the text it is the hash of; a
candidate id is a function of the finding (`repair.py:2267`), so the session's maps
are keyed by finding and the content of an answer is its *version*; gates are
reduced to the badge `candidateBadge` computes.  The scanned document stays open
(`findOpenDoc` finds it).  An accept clicked twice while the first edit is under way is the
same element of `sent`: the editor refuses the second edit because the text has changed.
In BridgeManager the construction of a bridge is one value, `settings` (execution mode,
local settings, free model); the content of its environment, the tokens and the ports are
left out, and so is the attachment to a running bridge that only tests use.  A process that
nobody refers to any more is just dead; how one ended matters only while the start or the
manager holds it, because a process that died by a signal has no exit code.  In Onboarding
the settings that are read in custom mode only are one, `model`; in ReviewQueue a candidate
is its proposal and an accept may be refused for any reason; in RequestLifecycle the
tracker's counters are one and each operation makes one long request; in LocalInstall the
archive has `Chunks` pieces and two files.

## The runs

| Run | Question | Distinct states |
|---|---|---|
| `chain_shapes` | are offsets, export and include filter right for all shapes of hunks? | 39 thousand |
| `session_review` | do document, decisions and flags agree while a careful user works, and does the session implement AcceptedOutput? | 668 thousand |
| `session_all` | what holds unconditionally, whatever happens and however late it comes? | 1.9 million |
| `session_live` | is an edit always flagged, does a batch always end? | 17 thousand |
| `scan_flow` | do contexts, reviews, sessions and flags stay with their text and mode? | 3.0 million |
| `onboarding` | is nothing billed without a choice, is no notice or walkthrough outdated? | 6.0 million |
| `review_queue` | does the screen show what the session holds? | 3.1 million |
| `request` | is a cancelled request silent, does it end, is the figure right? | 566 thousand |
| `runtime_lock` | is there one model at a time, and is the lock always given back? | 22 thousand |
| `bridge` | is any process left behind, any outdated bridge handed out, any call never answered, is the state true? | 285 thousand |
| `install` | is what is taken for installed whole, and does every waiting window get in? | 732 thousand |
| `session_regenerate` | a disagreement of the code with its documents | until the violation |

**Exceptions are named.**  Where the code keeps a promise only outside some case, the
property names the case (`SomeDeletion`, `missed`, `overtaken`, `Overtaken`, `late`, `gone`,
`early`, `cut`, `stolen`, `Orphaned`, `Unfinished`), and without the exception TLC finds a counterexample; the section
on disagreements lists them.

**Habits.**  `ReviewSession` has a constant `Habits`, the parts of the environment a run lets
happen, because the code's guarantees are of two kinds.  Some hold whatever happens
(`session_all` has every habit): the stale flag is exact, an unconfirmed edit lands on the
expected text, a replaced session takes no answer, a reason is recorded for a rejected
candidate only.  `OutputIsComposition` and the properties next to it do not:
`session_review` leaves out

* `haste` - typing, or opening another accept, while the editor has still to answer an
  edit.  The continuation takes the expected hash from the text it finds, so a keystroke
  in that gap is silently accepted; and a batch re-applies a candidate that a single accept
  has under way.
* `disk` - a confirmed accept is not guarded again after the dialog; `regenerate` - the
  violation run shows what happens with it.
* `overlap` - two commands repairing the same finding; the later answer replaces a candidate
  that may have been accepted by then.
* `title bar` - Accept and Reject of a candidate that is decided already.
* `rescan`, `pipeline` - the invariants hold with them as well (6.1 million states); they are
  left to `session_all` for the time this takes.

Likewise LocalRuntime has `Crashes`: `runtime_lock` lets each of its three windows crash at any
step, `bridge` has one window, which does not.  In LocalInstall `Fragile` names the windows
that may die.

**Bounds.**

* Sessions: three lines, one or two lines of replacement and two candidates are enough to put
  a hunk above, inside, at the first line of, at the last line of, next to and below another
  one, and before and after the end of the text.  `MaxChanges` bounds the texts on the undo
  stack, `MaxCalls` the calls to `/repair`, `MaxSent` the edits under way.  Four texts allow
  two accepts and an edit by the user before, between or after them, and undo and redo
  anywhere; three calls allow a candidate for each finding; two edits under way are the
  least that can meet each other.  A bound never holds back an edit that has been sent.
  `session_live` has two findings with a hunk each (`MCSingleHunks`): what it asks is about the
  answers of the editor, not about the text they leave.
* `chain_shapes`: a text of three lines with and without a final newline, two candidates, every
  start and count and one or two lines of text; pairs of hunks of one candidate in order with
  a line between them, an include hunk first or last, deletions, appends below the last line.
* `scan_flow`: two files of which one has two texts, so that a scan can be for another file,
  for this one, or for what this one was; two commands at a time and three altogether (a
  scan, the one that takes up its review, and one in between), two edits (there and back),
  one switch of the mode, change of the local model or stop of it.
* `review_queue`: two findings, two commands at a time (a third, the pipeline, is not counted),
  two edits or clicks elsewhere, one rescan; one proposal, because the other answer that
  differs is a repair without a fix.
* `onboarding`: two commands at a time and altogether, one edit, reset or death of the bridge,
  and the commands' own writes besides; the start is in the mode nobody has chosen or in the
  one whose settings are its own.
* `request`: two operations, one of which begins a usage session and the other sends, so that the
  reset can come between a send and its counting; one of them is given up; one reading of
  the timer; two bridges, so that one can end under everything and the next count from zero.
  The four properties also hold with a send of each operation and one bridge (711 thousand
  states), and with a retry of one of them, two bridges and no timer (645 thousand), which
  are left out for the time they take.
* `runtime_lock`: three windows are the least with which a lock is stolen: one that died, and two that
  find its file.  They are symmetric.
* `install`: two windows of which one may die, an archive of two pieces, so that a part file can be
  empty, half, whole and too long; three setups, so that one finds what two have left.
* `bridge`: two callers are the least that can share a start, two processes let one be told to end
  while its successor starts (a third start waits for one of them to be gone), and the two
  settings are one with a local model and one without.  Nothing is counted there and in
  `runtime_lock`, so these runs cover behaviours of any length.

Slots are interchangeable in `scan_flow`, `onboarding` and `review_queue`, which check no liveness,
and are declared symmetric.  Deadlock is not checked: every behaviour ends where a bound, the
last decision or the last answer leaves nothing to do.

**Fairness.**

* `session_live`: the editor answers every edit (`applyEdit` resolves), the continuation of a
  resolved promise runs, and the debounce timer fires - the user pauses for longer than
  `STALE_DEBOUNCE_MS` sometimes.  Nothing is assumed of the user or of the bridge.
* `bridge`: an await of the start returns - reserving a port, the secret storage and the
  inspection do, the handshake has a deadline of 15 seconds and the loading of a model one
  of five minutes - and a process that was told to end does, uvicorn at SIGTERM and a model
  at the latest by the guardian's SIGKILL after three seconds.  No process has to come up,
  to answer or to end by itself.
* `request`: the event loop runs its cancel to the end and a worker thread does its own steps.
  Nothing is assumed of the provider: a send may hang for ever, and what ends it is the
  closing of its client.
* `install`: a window takes the next step of its setup, because its commands have timeouts, a
  download that stalls is ended by a timer and waiting for a lock polls.  Nobody has to begin
  a setup, to stop waiting or to stay alive.

## What is proved

TLAPS proves, for every value of the constants:

* `AcceptChain_proofs`: `TypeCorrect`, `AcceptedAlwaysOrdered`, `OutputAlwaysComposition` and
  `ExportAlwaysComposition`, for any text, any number of candidates and any hunks within
  `ShapesAssumption`; `NoDuplicateIncludeAlways`, when besides each candidate inserts its
  includes once (`IncludesOnce`).  See "The arithmetic of the patches" below.
* `ReviewSession_proofs`, whatever happens: `TypeCorrect`; `StaleFlagAlwaysExact`, whose
  invariant is the property itself, since every step that changes the document arms the timer
  or meets a session that is no longer live, and the steps that change the expected text
  set the flag; `LateStepsAreAlwaysHeld`, whose parts are `DirectEditsOnExpected`, from the
  invariant that an edit which is still `sent` and was never confirmed was guarded against
  the text now in the document - a change of the text refuses it, and a change of the
  expected text is that very change, or finds the text where it was - `LateAnswersDropped`,
  and that a reason is recorded for a candidate still rejected.
* `ReviewSession_proofs`, as long as no finding is repaired twice (`RepairsOnce`: `Habits` without
  `regenerate` and `overlap`, each of which breaks it): `OverrideAlwaysMarksWarnings`, for any
  hunks, right or wrong, and with `haste`, `disk` and `title bar`.  `RepairInv`: a finding
  with a candidate has no answer outstanding; hence whatever an accept, a batch or a dialog
  holds across its await is the candidate there is, and was warned of exactly when the user
  was asked (`MarksInv`).
* `ReviewSession_proofs`, the output: `OutputIsAlwaysComposition` and the refinement
  `ImplementsOutput`, for any findings, hunks, badges and texts.  See below.
* `ScanFlow_proofs`: `ScanTypeCorrect`, `ContextAlwaysBelongs`, `FlagAlwaysExact`, `AlwaysAsked`,
  `ReviewAlwaysKept`, all from one invariant, `ScanInv`: what the module state satisfies
  (`Rest`) and what each command knows at its await (`Fits`) - its context is that of the
  text it read, it has been asked for or the mode has overtaken it, and the review it was
  given for is the pending one or another has come in between.  A step of one command
  changes only that command, so one lemma per kind of step (`Moving`, `Requesting`,
  `Installing`, ...) shows that it still fits; a kill and a switch of the mode touch all of
  them (`KilledFits`, `OvertakenFits`).
* `Onboarding_proofs`: `OnboardingTypeCorrect`, `NoticeAlwaysTrue`, `WalkthroughAlwaysTrue`,
  `PaidAlwaysChosen`, from `OnboardingInv`.  What has to be added to the properties: the key
  that a refresh under way has read is the key there is, because whatever writes a key
  supersedes the refresh (`Walkthrough`); and a command past the gate has a choice on
  record, or a reset has overtaken it (`Gate`).
* `ReviewQueue_proofs`: `ReviewTypeCorrect`, `ShownAlwaysTrue`, `ShowingAlwaysKept`, from
  `ReviewInv`: `ShownIsTrue`, and that every command under way belongs to a scan that has
  been and holds findings only (`InFlight`).  Each command leaves the screens true because
  the refreshes of its own step make up for what it changes; only a batch owes them until it ends.
* `RequestLifecycle_proofs`: `SilentAlways`, from `TokenInv`: a client is in the token's set
  exactly while its send is being made, and a cancel that is over has left none open that
  is about to send.  `PinnedAlwaysFinal`, from `LineInv`: a connection is open only for an
  operation under way and the operation's own reading is its last act, so that with none
  under way only orphans are still counted, and that a line which has not been read from
  this very process is marked `gone`.  `TypeCorrect`.
* `LocalInstall_proofs`, the lock: `SerializedWhileAllLive` for any number of windows of which
  none dies, `SerializedBetweenTwo` for two that may both die at any step.  Both from
  `LockIsOwners`: whoever is inside is named in the file, and whoever is about to remove a
  file is the last window to live - with two windows because the other one is the dead
  owner.  With three it is not, and the lock fails.
* `LocalInstall_proofs`, the engine: `EngineStaysWhole`: as long as the lock serializes, for
  whatever reason, every directory is as far as its step says, and an engine that lists its
  files has them all (`EngineInv`); this needs no assumption about who dies.
  `InstalledWhole` adds the two reasons above.  `InstallTypeCorrect` holds without the lock: an
  archive that has been verified is never replaced.
* `LocalInstall_proofs`, the Python environment: `ProvisionedAlwaysWhole`, for any number of windows that
  bootstrap at once, with no lock.  `VenvInv`: while somebody works on the environment, and
  when it is bare, it is whole all the same, or was cut short, or the window that cleared it
  last is still at it.
* `BridgeManager_proofs`, the lock of the local model: `OneModelAtATime` and `LockAlwaysGivenBack`,
  for any number of windows that start, stop and crash at any step, without an assumption.
  `LockIsOwned`: whoever runs a model or is about to spawn one is to remove the lock, or was
  stopped too early, and whoever is to remove it is named in it until a lock is stolen.
  `HeldForAReason`: the window a file names is to remove it, is still writing it or was cut
  short, and whoever is to remove it is about to spawn or has a process.  `NothingIsStolen` says when
  the exception `stolen` is none: without crashes, and between two windows - a stale file is
  then removed by the last window to live.  (The theorems about LocalRuntime are here
  because BridgeManager contains it.)
* `BridgeManager_proofs`, the bridge: `NoBridgeIsOrphaned`, `SettingsAlwaysInForce` and
  `StateAlwaysTellsTruth`.  They are not inductive: the invariant adds that no live
  bridge is in use while a start is under way (`StartsAlone`), and that a start which has
  not been overtaken has read the settings in force and shakes hands with the current child,
  and that an answer under way is of a process that had come up (`StartIsCurrent`).  `KillEndsAll` is the heart: after a kill no process is live, so
  whatever a start does after it has been overtaken concerns no other bridge.

The type invariants of AcceptChain, LocalRuntime and BridgeManager are parts of what is proved
and no run repeats them.

**The arithmetic of the patches.**  That the edits computed from hunks alone put every accepted
hunk where Original C has its lines is a statement about nested folds over sequences of any
length.  It is proved in `AcceptChain_proofs` in this order:

1. *Folds are recursions.*  `Induction` is induction over a set of natural numbers (by the least
   number outside it), which needs no theorem with an operator parameter; `Recursion` and
   `FoldExists` give the function that a fold computes, `FoldAlong` the fold from it, and
   `OffsetFold`, `SortFold`, `HunksFold`, `EditsFold`, `FlattenSteps` say it of each fold in the
   model.
2. *The stable sort* keeps the elements and orders them (`SortedBySorts`).
3. *The composition.*  One more hunk, put in on top of any others it keeps clear of, splices its
   lines into the composition at its position (`ComposeSplices`) and moves the positions of the
   lines below it by its delta (`PosShift`).
4. *The offset* of a hunk, computed from the accepted hunks in any order, is the distance from its
   line to its position (`OffsetIsPosition`).
5. *One edit* that does not reach the last line is such a splice (`EditIsSplice`); the edits of a
   candidate are applied from the bottom up, so that none moves another, and they leave the
   composition with all of its hunks (`EditsCompose`).
6. *The export* applies the hunks from the bottom up as well (`ExportComposes`): a splice above
   does not move what is below it.

`OutputIsCompositionElsewhere` is not inductive by itself.  `IInv` adds that each candidate keeps
the hunks it came with (`ShapesKept`); that hunks of different accepted candidates do not
conflict (`AcceptedApart`, from the guard, and it gives `AcceptedOrdered`: of two hunks exactly
one is above the other, `ExactlyOneAbove`); that the accepted hunks can all be put into Original
C (`AcceptedPlaced`), which is what 3 to 6 ask; and that the editor was never given more hunks
than were accepted (`LandedShorter`), so that when nothing is missing in the end nothing was
ever dropped on the way.

`NoDuplicateIncludeAlways` has an invariant of its own on top of `IInv`: no include comes twice in
the document and its last line is none (`DocumentOnce`; an append glues its first line to the
last one).  The filter of an accept leaves lines of the candidate, each place at most once
(`ChosenPicks`), and no include the document has (`DedupeLeaves`); the edits made of them share
none with each other, and the sort keeps that (`SortKeepsPairs`); each edit puts its text
between two parts of the document (`EditKeepsOnce`), and the edits below it have brought none
of its includes (`EditsKeepOnce`).  Offsets do not matter, so the theorem has no exception for
deletions, dropped lines or the end of the text.  It assumes `IncludesOnce`, which TLC evaluates
for the candidates of `chain_shapes` (`MCIncludesOnce`): the scanned text has no include twice and
none on an unfinished last line, and the includes of a candidate are insertions that differ
from each other and from all its other lines.  So are the ones the adapter adds for missing
headers (`repair.py:900`: one insertion, the headers without duplicates); nothing makes a model
keep to it in hunks of its own, and the filter cannot do without it: it only looks at insertions
(`dedupeIncludes.ts:12`), and only compares them with the document.

**The output of a session.**  The theorems about it rest on three assumptions, about the repairs
and about the user.

`RepairsArePlain`: no repair deletes or reaches the last line, its hunks do not conflict with each
other, and an include it inserts is its own.  `ArithmeticHolds` proves from it, for any text and
any findings, that one accept is right (`ArithmeticIsRight`): on Original C with some candidates
put in, the edits of one more that conflicts with none of them leave Original C with that one put
in as well.  It uses the lemmas of `AcceptChain_proofs` through an instance; they are about the
functions of Patches, not about the variables of the chain.  Left out are repairs for which the
arithmetic is wrong - an empty text, the end of the text, two candidates that bring the same
include - as `chain_shapes` shows and `SomeDeletion`, `EndReached` and `SomeDropped` name them.

`RepairsChangeText`: each repair changes the text, whatever was accepted before.  The shapes do not
imply it, because one repair may undo what another does.  It is needed for what follows the
landing of an edit: all other edits are refused because the text is another one.

TLC evaluates both for the candidates of the session runs (`MCRepairsArePlain`,
`MCRepairsChangeText`).

`Careful` leaves out the five habits named above - `haste`, `disk`, `regenerate`, `overlap`,
`title bar`.  Each of them alone lets TLC violate one of the two theorems: `disk` the refinement, the
others `OutputIsComposition`.
Typing, undo, batches, rejects, rescans and the pipeline are in.

The invariant is `OutputInv`:

* `AcceptedInv`: the expected text is Original C with the accepted candidates put in, and no two
  of these conflict;
* `OpsInv`: an edit on its way is for a candidate that is ready to be accepted (`Ready`: not
  accepted yet, in conflict with none that is) and was computed for the text in the document,
  which is the expected one; when one has landed the others have been refused, and the
  document is the composition that its continuation is about to record;
* `BatchInv`: a batch waits for the only edit there is, and what it has left was reviewed and is
  not accepted; `ConfirmInv`: nothing is under way while a dialog asks, so the guard still
  holds when it is answered;
* `RepairInv` from above, and `HistoryInv` about the undo stack.

Where an edit is computed, `ArithmeticIsRight` says what it will make of the text, and that this
is another text, so that all other edits are refused when it lands.  The refinement reads the
steps off the same invariant: `Land` is the abstract accept, and `Finish` a stutter, because
`PatchesOut` counts the hunks from the landing on.

**Other assumptions** are those the modules name: the finite bounds are natural numbers, `None` is
no other value, a session begins with its first scan (`MaxScans` is at least 1).

## What is only model-checked

* The output of a session with repairs that are not plain, or with a habit `Careful` leaves out:
  there the properties fail, see the next section.
* Liveness: `EditIsFlagged`, `BatchEnds`, `EveryCallAnswered`, `OrphanEnds`, `WaiterGetsIn`, which
  need fairness and ENABLED.

## Where the code and its documents disagree

`session_regenerate` has a run: an accepted candidate may be regenerated; its text stays in the
document and its decision goes.

The others are exceptions of properties, or definitions at the end of their module under
"What the sources say, and TLC finds the code does not keep":

1. *Deletion*: a hunk with an empty text leaves an empty line the offsets do not count
   (`SomeDeletion`).
2. *Dropped includes*: an include dropped as a duplicate is counted as an inserted line by the
   offsets of later accepts (`SomeDropped`).
3. *Confirmation*: the stale guard is not evaluated again after the user has confirmed a
   warning, and the file may have changed on disk meanwhile (`ReviewSession`, "disk").
4. *Reviewed marks*: a regenerated candidate keeps the mark of the one before it
   (`ScanSession.ts:143`), so a batch applies what nobody has seen, against
   `docs/STATE_MODEL.md:66-67` (`BatchAppliesShown`; TLC needs one finding, the habits
   `regenerate` and `batch`, and seven states).
5. *One model*: a stop that meets a start without a process gives back the lock, and the start
   goes on to load a model beside another window's (`LocalRuntime.ts:112`, against line 45;
   `OneModelPerUser`, with two windows that do not crash in fourteen states).
6. *A dead bridge in use*: a process that a signal ended while its answer to `/health` was under
   way is handed out by every later call (`BridgeManager.ts:146`, against lines 138-139;
   `ReusableIsAlive`, with one caller in eight states).  `StateTellsTruth` excepts it.
7. *The pinned line*: when the bridge ends under an operation, the final reading returns without
   rendering and an earlier figure stays (`extension.ts:1136`, against line 1189;
   `PinnedReflectsOperation`).  `PinnedIsFinal` excepts it (`shown.gone`).
8. *A lock without an id*: a write of the local model's lock that fails, or a crash between its
   creation and its content, leaves a file that every later start refuses as invalid
   (`LocalRuntime.ts:54`; `LockIsGivenBack` excepts it, `mishap` is "cut").
9. *Edited during the scan*: a session is installed as not stale though its text has gone
   (`missed`).
10. *Overlapping reviews*: a Confirm that waits while another review is opened takes that review
   away (`met`); a scan without fix is repaired when a Scan & Fix overlaps with it
   (`OnlyFixIsRepaired`).
11. *Switch of the mode*: a local scan under way goes on over the API (`AskedUnlessOvertaken`).
12. *The announced route*: a key without credits is switched to the free model after the notice
   about the route has named the preset (`AnnouncedRouteIsUsed`).
13. *The stale notice*: a batch, or an accept from before a rescan, replaces it by the findings
   (`StaleIsShown`).
14. *Closing diffs*: a command of the title bar closes whichever repair diff is active by the time it is done
    (`ClosesItsOwn`); "Review complete" may be announced with a candidate pending
    (`CompleteMeansDecided`).
15. *Late reading*: a reading of the interval timer may overwrite the final figure (`shown.late`).
16. *Handshake*: a bridge that is late or speaks another contract is reported as a cancelled
    start, in local mode not at all (`CancelledForAReason`).
17. *Released*: a local model may go on loading after it was stopped (`StoppedIsReleased`).
18. *Interrupted bootstrap*: an environment that was cut short counts as provisioned
    (`ProvisionedAfterBootstrap`).
19. *Locks*: with three windows, two that find a dead one's lock can remove each other's new one
    (both `withAssetLock` and `LocalRuntime`, where the property names it, `stolen`); an install
    lock whose owner died before its id was in it keeps everyone waiting (`Orphaned`).
20. `setAcceptedWithWarning` leaves an earlier reject reason in place (`ScanSession.ts:209`);
    nothing shows it while the candidate is accepted.

## Not modelled, and why

* `adapter/repair.py`: a sequential computation over the outputs of compiler and model.  What
  leaves it - shapes of hunks, badges, the candidate id - is an input of the modules here.
* Context inference (`infer.py`, `context.py`, `functions.py`, `compose.py`): stateless parsing.
* `certfix_adapter.py`, `local.py`, `config_override.py`, the contract types: translation of values.
* `repairReport.ts`, `feedbackData.ts`: rendering of the session.  The flag and the text they
  show are `OverrideMarksWarnings` and `ExportIsCompositionElsewhere`.
* `cost/openrouterUsage.ts`: a query whose failure shows nothing.
* The OAuth exchange happens in the browser; the key it yields is `StoreKey` of Onboarding.
* The pages for the choice of a local model: forms and pure functions of the hardware; saving
  is `SaveLocal`.
* Build and release tools: sequential scripts.
* In Onboarding a second button clicked while the writes of a first are under way takes their
  place; in the code both go on, and the first to end takes away the other's suppression of
  notices (`extension.ts:3561`).

## The plan

1. The action properties that the invariants already give and no run states yet: that the
   expected text only ever grows by one candidate, that a lock changes hands through "nobody".
2. The exact output in the cases `OutputIsCompositionElsewhere` leaves out, so that a correction
   of the code has something to be proved against.
