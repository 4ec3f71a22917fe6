--------------------------- MODULE RequestLifecycle ---------------------------
(***************************************************************************)
(* What becomes of a long request to the bridge, and of the line that says *)
(* what it cost.  The extension side: BridgeClient.request with its two    *)
(* reasons to give up, and the usage tracking around every bridge          *)
(* operation (extension.ts).  The bridge side: the disconnect monitor, the *)
(* cancel token and the metered send (main.py, cancellation.py,            *)
(* usage_tracker.py), where the event loop cancels while a worker thread   *)
(* sends.  The bridge process may end at any time, by a kill or by itself,  *)
(* and another one be started, which counts from zero.  The model          *)
(* provider, certfix and httpx are outside: a send may be answered, may    *)
(* fail, or may hang; a closed client's send fails.                        *)
(***************************************************************************)
EXTENDS Naturals, FiniteSets

CONSTANTS
  Requests,       \* bound: the operations of one behaviour, each with one long request
  Scans,          \* those that begin a usage session; the others repair in one
  Polls,          \* bound: readings of the interval timer under way at the same time
  MaxCalls,       \* bound: request -> its sends to the provider, retries included
  MaxDrops,       \* bound: requests given up
  MaxStarts,      \* bound: bridge processes
  None

\* GET /usage: asked for, or answered and the cost asked for.  A reading is late when the
\* final reading of an operation was asked for after it, and gone when its bridge is.
Reading ==
  [pc : {"asked", "costing"}, value : Nat \cup {None}, late : BOOLEAN, gone : BOOLEAN]
Line == [value : Nat, late : BOOLEAN, gone : BOOLEAN]

ASSUME RequestAssumption ==
  /\ MaxCalls \in [Requests -> Nat] /\ {MaxDrops, MaxStarts} \subseteq Nat
  /\ Scans \subseteq Requests /\ Polls \cap Requests = {}
  /\ None \notin Nat \cup Reading \cup Line

VARIABLES
  bridge,         \* the process whose handle is handed out: none, up, or dead unnoticed
  starts,         \* processes so far
  left,           \* the requests whose handle is of an earlier process, or of a dead one
  op,             \* request -> the operation around it, in the extension
  aborted,        \* request -> the user has cancelled before it was sent (signal.aborted)
  conn,           \* request -> its connection
  work,           \* request -> its worker thread in the bridge
  calls,          \* request -> sends made
  event,          \* request -> CancelToken._event
  registered,     \* request -> its httpx client is in CancelToken._clients
  closed,         \* request -> that client has been closed
  cancel,         \* request -> where CancelToken.cancel is
  total,          \* requests the last process counted since its reset (UsageTotals.requests)
  reading,        \* poll, or request for its final one -> the reading of /usage under way
  shown,          \* the session line of the tree view
  active,         \* sessionActive
  orphans         \* history: sends counted since the reset for a request nobody waits for

process == <<bridge, starts, left>>
client == <<op, aborted>>
token == <<event, registered, closed, cancel>>
thread == <<work, calls>>
line == <<reading, shown, active>>
usage == <<total, orphans>>
vars == <<process, client, conn, token, thread, line, usage>>

Readers == Polls \cup Requests
RequestTypeOK ==
  /\ bridge \in {"none", "up", "dead"} /\ starts \in 0 .. MaxStarts
  /\ left \subseteq Requests
  /\ op \in [Requests -> {"idle", "starting", "opening", "resetting", "fetching", "ending",
                          "ended"}]
  /\ {aborted, event, registered, closed} \subseteq [Requests -> BOOLEAN]
  /\ conn \in [Requests -> {"none", "open", "dropped", "answered"}]
  /\ work \in [Requests -> {"none", "free", "checked", "registered", "armed", "sent",
                            "counting", "ended"}]
  /\ \A r \in Requests : calls[r] \in 0 .. MaxCalls[r]
  /\ cancel \in [Requests -> {"no", "set", "closing", "done"}]
  /\ {total, orphans} \subseteq Nat
  /\ reading \in [Readers -> Reading \cup {None}]
  /\ shown \in Line \cup {None}
  /\ active \in BOOLEAN
  \* a client is in the token's set exactly while its send is being made
  /\ \A r \in Requests : registered[r] <=> work[r] \in {"registered", "armed", "sent"}

Init ==
  /\ bridge = "none" /\ starts = 0 /\ left = {}
  /\ op = [r \in Requests |-> "idle"]
  /\ aborted = [r \in Requests |-> FALSE] /\ conn = [r \in Requests |-> "none"]
  /\ work = [r \in Requests |-> "none"] /\ calls = [r \in Requests |-> 0]
  /\ event = [r \in Requests |-> FALSE] /\ registered = [r \in Requests |-> FALSE]
  /\ closed = [r \in Requests |-> FALSE] /\ cancel = [r \in Requests |-> "no"]
  /\ total = 0 /\ orphans = 0
  /\ reading = [x \in Readers |-> None] /\ shown = None
  /\ active = FALSE
-----------------------------------------------------------------------------
(* The session line                                                        *)

\* usageInFlightOps counts these; the poll timer runs while there is one.
InFlight == {r \in Requests : op[r] \in {"starting", "opening", "resetting", "fetching"}}

Asked == [pc |-> "asked", value |-> None, late |-> FALSE, gone |-> bridge = "dead"]

\* renderSessionUsage: a reading that failed clears the line.
Render(value, late, gone) ==
  shown' = IF value = None THEN None ELSE [value |-> value, late |-> late, gone |-> gone]

\* The interval fires: pollSessionUsageOnce asks GET /usage, if there is a handle.
PollTick(p) ==
  /\ InFlight # {} /\ active /\ bridge # "none"
  /\ reading[p] = None
  /\ reading' = [reading EXCEPT ![p] = Asked]
  /\ UNCHANGED <<process, client, conn, token, thread, shown, active, usage>>

\* The bridge answers with a snapshot, or the reading fails; then the cost is asked for.
Serve(x) ==
  /\ reading[x] # None /\ reading[x].pc = "asked"
  /\ \E v \in {None} \cup (IF reading[x].gone THEN {} ELSE {total}) :
       reading' = [reading EXCEPT ![x] = [@ EXCEPT !.pc = "costing", !.value = v]]
  /\ UNCHANGED <<process, client, conn, token, thread, shown, active, usage>>

\* The cost is known, and the line is rendered.  The operation a final reading belongs to
\* ends here.
Rendered(x) ==
  /\ reading[x] # None /\ reading[x].pc = "costing"
  /\ Render(reading[x].value, reading[x].late, reading[x].gone)
  /\ reading' = [reading EXCEPT ![x] = None]
  /\ op' = [y \in Requests |-> IF y = x THEN "ended" ELSE op[y]]
  /\ UNCHANGED <<process, aborted, conn, token, thread, active, usage>>

\* clearLiveSessionState: another mode or local model, a reset, Stop Local Model.
ClearLine ==
  /\ shown # None /\ shown' = None
  /\ UNCHANGED <<process, client, conn, token, thread, reading, active, usage>>
-----------------------------------------------------------------------------
(* The bridge process                                                      *)

\* ensureStarted, for a command that is counted or for one that is not: a new process, with
\* a new tracker.
BridgeStarts ==
  /\ bridge = "none" /\ starts < MaxStarts
  /\ bridge' = "up" /\ starts' = starts + 1
  /\ total' = 0 /\ orphans' = 0
  /\ UNCHANGED <<left, client, conn, token, thread, line>>

\* It is killed, or ends by itself.  Whatever has its handle keeps it; a process that was
\* told to end still serves the requests it has, but no new ones.
BridgeEnds ==
  /\ bridge = "up" /\ bridge' \in {"none", "dead"}
  /\ left' = {r \in Requests : op[r] \notin {"idle", "starting"}}
  /\ reading' = [x \in Readers |-> IF reading[x] = None THEN None
                                   ELSE [reading[x] EXCEPT !.gone = TRUE]]
  /\ shown' = IF shown = None THEN None ELSE [shown EXCEPT !.gone = TRUE]
  /\ UNCHANGED <<starts, client, conn, token, thread, active, usage>>

\* Its exit event: the handle is no longer handed out.
ExitNoticed ==
  /\ bridge = "dead" /\ bridge' = "none"
  /\ UNCHANGED <<starts, left, client, conn, token, thread, line, usage>>

\* A request, its worker and its token go down with their process.
Cut(r) ==
  /\ r \in left /\ (conn[r] = "open" \/ work[r] \notin {"none", "ended"})
  /\ conn' = [conn EXCEPT ![r] = IF @ = "open" THEN "answered" ELSE @]
  /\ work' = [work EXCEPT ![r] = "ended"]
  /\ event' = [event EXCEPT ![r] = FALSE] /\ cancel' = [cancel EXCEPT ![r] = "no"]
  /\ registered' = [registered EXCEPT ![r] = FALSE] /\ closed' = [closed EXCEPT ![r] = FALSE]
  /\ UNCHANGED <<process, client, calls, line, usage>>
-----------------------------------------------------------------------------
(* The extension: an operation and its request                             *)

\* withUsageTracking begins; what is not a scan works on the results of one.
Begin(r) ==
  /\ op[r] = "idle" /\ (r \in Scans \/ active)
  /\ op' = [op EXCEPT ![r] = "starting"]
  /\ UNCHANGED <<process, aborted, conn, token, thread, line, usage>>

\* Mutant: the timer's last reading stays.
SettleWithoutReading(r) == op' = [op EXCEPT ![r] = "ended"] /\ UNCHANGED reading

\* What withUsageTracking does when the operation is over, whatever its outcome: with no
\* other under way the timer stops and the final reading is taken before it returns - unless
\* there is no handle: then nothing is rendered, and the line stays.
Settle(r) ==
  IF InFlight = {r} /\ bridge # "none"
  THEN /\ op' = [op EXCEPT ![r] = "ending"]
       /\ reading' = [x \in Readers |-> IF x = r THEN Asked
                                        ELSE IF reading[x] = None THEN None
                                        ELSE [reading[x] EXCEPT !.late = TRUE]]
  ELSE op' = [op EXCEPT ![r] = "ended"] /\ UNCHANGED reading

\* The request is sent, unless the user has cancelled (an aborted signal aborts the fetch at
\* once) or the bridge is gone.
Post(r, gone) ==
  \/ /\ ~aborted[r] /\ ~gone
     /\ op' = [op EXCEPT ![r] = "fetching"] /\ conn' = [conn EXCEPT ![r] = "open"]
     /\ UNCHANGED reading
  \/ (aborted[r] \/ gone) /\ Settle(r) /\ UNCHANGED conn

\* ensureStarted returns a handle, that of a dead process included.  A scan goes on to
\* beginUsageSession and samples the cost; anything else sends its request.
Started(r) ==
  /\ op[r] = "starting" /\ bridge # "none"
  /\ left' = IF bridge = "dead" THEN left \cup {r} ELSE left
  /\ \/ /\ r \in Scans
        /\ op' = [op EXCEPT ![r] = "opening"] /\ active' = TRUE
        /\ UNCHANGED <<conn, reading>>
     \/ r \notin Scans /\ Post(r, bridge = "dead") /\ UNCHANGED active
  /\ UNCHANGED <<bridge, starts, aborted, token, thread, shown, usage>>

\* No bridge comes up, the user cancels its start, or the scan of a confirmed review has the
\* handle of an earlier one.
StartFails(r) ==
  /\ op[r] = "starting"
  /\ Settle(r)
  /\ UNCHANGED <<process, aborted, conn, token, thread, shown, active, usage>>

\* POST /usage/reset: the counters are zeroed, and the answer is what they are then.
Reset(r) ==
  /\ op[r] = "opening" /\ r \notin left
  /\ op' = [op EXCEPT ![r] = "resetting"]
  /\ total' = 0 /\ orphans' = 0
  /\ UNCHANGED <<process, aborted, conn, token, thread, line>>

\* The answer of the reset is rendered, or its failure clears the line; then the request is
\* sent.
Fetch(r) ==
  /\ op[r] \in {"opening", "resetting"}
  /\ IF op[r] = "resetting" THEN \E v \in {total, None} : Render(v, FALSE, r \in left)
                            ELSE shown' = None
  /\ Post(r, r \in left)
  /\ UNCHANGED <<process, aborted, token, thread, active, usage>>

GivenUp == {r \in Requests : aborted[r] \/ conn[r] = "dropped"}

Undecided(r) == r \in InFlight \ GivenUp /\ Cardinality(GivenUp) < MaxDrops

\* The user cancels before the request is sent; it is looked at when it is about to be.
CancelEarly(r) ==
  /\ Undecided(r) /\ op[r] # "fetching"
  /\ aborted' = [aborted EXCEPT ![r] = TRUE]
  /\ UNCHANGED <<process, op, conn, token, thread, line, usage>>

\* The user cancels, or the request's own timer fires (a long local call has none): only
\* the message differs.
GiveUp(r) ==
  /\ Undecided(r) /\ op[r] = "fetching"
  /\ conn' = [conn EXCEPT ![r] = "dropped"]
  /\ Settle(r)
  /\ UNCHANGED <<process, aborted, token, thread, shown, active, usage>>

\* An answer of any status ends the operation.
Returns(r) ==
  /\ op[r] = "fetching" /\ conn[r] = "answered"
  /\ Settle(r)
  /\ UNCHANGED <<process, aborted, conn, token, thread, shown, active, usage>>
-----------------------------------------------------------------------------
(* The bridge's event loop                                                 *)

\* _run_cancellable starts the worker.  A request may be read although its client has
\* gone already.
Arrive(r) ==
  /\ conn[r] \in {"open", "dropped"} /\ work[r] = "none"
  /\ work' = [work EXCEPT ![r] = "free"]
  /\ UNCHANGED <<process, client, conn, token, calls, line, usage>>

Working(r) == work[r] \notin {"none", "ended"}

\* CancelToken.cancel, in three steps a worker can run between: the event is set, the
\* in-flight clients are copied under the lock, and the copied ones are closed.
CancelSets(r) ==
  /\ conn[r] = "dropped" /\ Working(r) /\ cancel[r] = "no"
  /\ event' = [event EXCEPT ![r] = TRUE] /\ cancel' = [cancel EXCEPT ![r] = "set"]
  /\ UNCHANGED <<process, client, conn, registered, closed, thread, line, usage>>

CancelCopies(r) ==
  /\ cancel[r] = "set"
  /\ cancel' = [cancel EXCEPT ![r] = IF registered[r] THEN "closing" ELSE "done"]
  /\ UNCHANGED <<process, client, conn, event, registered, closed, thread, line, usage>>

\* Mutant: a cancel that sets the event and leaves what is in flight alone.
CancelLeavesOpen(r) ==
  /\ cancel[r] = "closing"
  /\ cancel' = [cancel EXCEPT ![r] = "done"]
  /\ UNCHANGED <<process, client, conn, event, registered, closed, thread, line, usage>>

CancelCloses(r) ==
  /\ cancel[r] = "closing"
  /\ closed' = [closed EXCEPT ![r] = registered[r]] /\ cancel' = [cancel EXCEPT ![r] = "done"]
  /\ UNCHANGED <<process, client, conn, event, registered, thread, line, usage>>
-----------------------------------------------------------------------------
(* The bridge's worker thread: send_wrapper, once per call of certfix      *)

Goes(r, to) == work' = [work EXCEPT ![r] = to]

\* RequestCancelled is a BaseException: nothing between here and the endpoint retries it
\* or goes on without it.
RaiseIfCancelled(r) == IF event[r] THEN Goes(r, "ended") ELSE Goes(r, "checked")

Check(r) ==
  /\ work[r] = "free" /\ calls[r] < MaxCalls[r]
  /\ RaiseIfCancelled(r)
  /\ calls' = [calls EXCEPT ![r] = @ + 1]
  /\ UNCHANGED <<process, client, conn, token, line, usage>>

\* register: the client, new for this send, enters the set under the lock ...
Register(r) ==
  /\ work[r] = "checked"
  /\ Goes(r, "registered")
  /\ registered' = [registered EXCEPT ![r] = TRUE]
  /\ UNCHANGED <<process, client, conn, event, closed, cancel, calls, line, usage>>

\* Mutant: a register that relies on the check before it.
OpenOnArrival(r) == FALSE

\* ... and is closed when the event is set by then.
ClosedOnArrival(r) == event[r]

RegisterChecks(r) ==
  /\ work[r] = "registered"
  /\ Goes(r, "armed")
  /\ closed' = [closed EXCEPT ![r] = @ \/ ClosedOnArrival(r)]
  /\ UNCHANGED <<process, client, conn, event, registered, cancel, calls, line, usage>>

\* The send itself.  A closed client sends nothing.
Send(r) ==
  /\ work[r] = "armed" /\ ~closed[r]
  /\ Goes(r, "sent")
  /\ UNCHANGED <<process, client, conn, token, calls, line, usage>>

\* Mutant: an unregister only a send that returns gets to.
LeaveRegistered(r) == UNCHANGED <<registered, closed>>

\* unregister, in the finally of every send: its client is never used again.
Leave(r) == registered' = [registered EXCEPT ![r] = FALSE] /\ closed' = [closed EXCEPT ![r] = FALSE]

\* The send fails: its client was closed, or the network failed; certfix
\* retries, skips the chunk or gives up, and in each case goes on.
SendFails(r) ==
  /\ work[r] \in {"armed", "sent"}
  /\ work[r] = "armed" => closed[r]
  /\ Goes(r, "free") /\ Leave(r)
  /\ UNCHANGED <<process, client, conn, event, cancel, calls, line, usage>>

\* The provider's answer is there, even if the client is being closed.
SendReturns(r) ==
  /\ work[r] = "sent"
  /\ Goes(r, "counting") /\ Leave(r)
  /\ UNCHANGED <<process, client, conn, event, cancel, calls, line, usage>>

\* _record_from_send: the tracker of its process counts it, whoever waits for it.
Record(r) ==
  /\ work[r] = "counting"
  /\ total' = IF r \in left THEN total ELSE total + 1
  /\ orphans' = IF r \notin left /\ conn[r] = "dropped" THEN orphans + 1 ELSE orphans
  /\ Goes(r, "free")
  /\ UNCHANGED <<process, client, conn, token, calls, line>>

\* The handler returns, with a result or a failure, and the answer goes to whoever is there.
Finish(r) ==
  /\ work[r] = "free"
  /\ Goes(r, "ended")
  /\ conn' = [conn EXCEPT ![r] = IF @ = "open" THEN "answered" ELSE @]
  /\ UNCHANGED <<process, client, token, calls, line, usage>>
-----------------------------------------------------------------------------
Loop(r) == CancelSets(r) \/ CancelCopies(r) \/ CancelCloses(r)

\* The steps of the worker nothing outside can hold up.
Own(r) ==
  \/ Check(r) \/ Register(r) \/ RegisterChecks(r) \/ Send(r) \/ Record(r)
  \/ calls[r] = MaxCalls[r] /\ Finish(r)
  \/ closed[r] /\ SendFails(r)

Next ==
  \/ \E p \in Polls : PollTick(p)
  \/ \E x \in Readers : Serve(x) \/ Rendered(x)
  \/ ClearLine \/ BridgeStarts \/ BridgeEnds \/ ExitNoticed
  \/ \E r \in Requests :
       \/ Begin(r) \/ Started(r) \/ StartFails(r) \/ Reset(r) \/ Fetch(r)
       \/ CancelEarly(r) \/ GiveUp(r) \/ Returns(r)
       \/ Cut(r) \/ Arrive(r) \/ Loop(r)
       \/ Check(r) \/ Register(r) \/ RegisterChecks(r) \/ Send(r)
       \/ SendFails(r) \/ SendReturns(r) \/ Record(r) \/ Finish(r)

\* The event loop and the worker are scheduled, and a closed client's send fails.  Nothing
\* is asked of the provider: a send nobody closes may hang.
Fairness == \A r \in Requests : WF_vars(Loop(r)) /\ WF_vars(Own(r))

Spec == Init /\ [][Next]_vars /\ Fairness
-----------------------------------------------------------------------------
(* Properties                                                              *)

\* Once cancel has run, the request puts nothing more on the wire, though a worker may have
\* passed the check before the send when the event was set (cancellation.py: register).
SilentOnceCancelled ==
  [][\A r \in Requests : cancel[r] = "done" /\ work[r] # "sent" => work'[r] # "sent"]_vars

\* A request whose client has gone ends in the bridge, even if the provider never answers
\* ("the bridge's in-flight LLM call must be aborted", cancellation.py).
OrphanEnds == \A r \in Requests : (conn[r] = "dropped" /\ Working(r)) ~> work[r] = "ended"

\* No operation is under way and no reading either.
AtRest == (\A r \in Requests : op[r] \in {"idle", "ended"}) /\ \A x \in Readers : reading[x] = None

Counted(value) == value \in (total - orphans) .. total

\* At rest the line, where there is one, has everything that was counted for requests
\* somebody waited for, and nothing that was not counted in this session - unless a reading
\* from before the final one was rendered after it, or the bridge it was read from has ended
\* (extension.ts: withUsageTracking).
PinnedIsFinal == AtRest /\ shown # None /\ ~shown.late /\ ~shown.gone => Counted(shown.value)

-----------------------------------------------------------------------------
\* What the sources say, and TLC finds the code does not keep; no run checks it.

\* "Final reading so the pinned line reflects the completed operation" (extension.ts:1189):
\* so it does not, where the bridge has ended and nobody clears the line.
PinnedReflectsOperation == AtRest /\ shown # None /\ ~shown.late => Counted(shown.value)
=============================================================================
