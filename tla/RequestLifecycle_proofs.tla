----------------------- MODULE RequestLifecycle_proofs -----------------------
(* Theorems about a request that is given up and about the usage line, for *)
(* any number of overlapping operations, readings, sends and cancels.      *)
EXTENDS RequestLifecycle, TLAPS

Ops == {"idle", "starting", "opening", "resetting", "fetching", "ending", "ended"}
Conns == {"none", "open", "dropped", "answered"}
Works == {"none", "free", "checked", "registered", "armed", "sent", "counting", "ended"}

(***************************************************************************)
(* The cancel token against the worker.                                    *)
(***************************************************************************)

\* What the bridge does for a request.
BridgeNext(r) ==
  \/ Cut(r) \/ Arrive(r) \/ Loop(r) \/ Check(r) \/ Register(r) \/ RegisterChecks(r)
  \/ Send(r) \/ SendFails(r) \/ SendReturns(r) \/ Record(r) \/ Finish(r)

\* A client is in the token's set exactly while its send is being made; a cancel that is
\* over has left none open that is about to send.
TokenInv ==
  /\ conn \in [Requests -> Conns] /\ work \in [Requests -> Works]
  /\ event \in [Requests -> BOOLEAN] /\ registered \in [Requests -> BOOLEAN]
  /\ closed \in [Requests -> BOOLEAN]
  /\ cancel \in [Requests -> {"no", "set", "closing", "done"}]
  /\ \A r \in Requests :
       /\ registered[r] <=> work[r] \in {"registered", "armed", "sent"}
       /\ cancel[r] # "no" => event[r]
       /\ cancel[r] = "done" /\ work[r] = "armed" => closed[r]

\* The steps that leave the bridge alone but for the connection.
Elsewhere == UNCHANGED <<token, work>> /\ conn' \in [Requests -> Conns]

ClientNext(r) ==
  \/ Begin(r) \/ Started(r) \/ StartFails(r) \/ Reset(r) \/ Fetch(r)
  \/ CancelEarly(r) \/ GiveUp(r) \/ Returns(r)

LEMMA ClientSteps ==
  ASSUME TokenInv, NEW r \in Requests, ClientNext(r)
  PROVE  Elsewhere
<1>1. CASE Begin(r) \/ StartFails(r)
  BY <1>1 DEF Begin, StartFails, TokenInv, Elsewhere, thread
<1>2. CASE Reset(r) \/ CancelEarly(r) \/ Returns(r)
  BY <1>2 DEF Reset, CancelEarly, Returns, TokenInv, Elsewhere, thread
<1>3. CASE Started(r) \/ Fetch(r) \/ GiveUp(r)
  BY <1>3 DEF Started, Fetch, Post, GiveUp, TokenInv, Elsewhere, thread, Conns
<1>4. QED
  BY <1>1, <1>2, <1>3 DEF ClientNext

\* The line is cleared, a process comes or goes.
ProcessNext == ClearLine \/ BridgeStarts \/ BridgeEnds \/ ExitNoticed

LEMMA ProcessSteps ==
  ASSUME ProcessNext
  PROVE  UNCHANGED <<client, conn, token, thread>>
BY DEF ProcessNext, ClearLine, BridgeStarts, BridgeEnds, ExitNoticed

LEMMA ReadingSteps ==
  ASSUME TokenInv, NEW x,
         PollTick(x) \/ Serve(x) \/ Rendered(x)
  PROVE  Elsewhere
BY DEF PollTick, Serve, Rendered, TokenInv, Elsewhere, thread

LEMMA TokenInit == Init => TokenInv
BY DEF Init, TokenInv, Conns, Works

LEMMA TokenStep ==
  ASSUME TokenInv, [Next]_vars
  PROVE  TokenInv'
<1>1. CASE Elsewhere
  BY <1>1 DEF Elsewhere, TokenInv, token
<1>2. CASE UNCHANGED vars
  BY <1>2 DEF vars, TokenInv, token, thread
<1>3. ASSUME NEW r \in Requests, BridgeNext(r) PROVE TokenInv'
  <2> USE DEF TokenInv, token, thread, Goes, Works, Conns
  <2>14. CASE Cut(r)
    BY <2>14 DEF Cut
  <2>1. CASE Arrive(r)
    BY <2>1 DEF Arrive
  <2>2. CASE CancelSets(r)
    BY <2>2 DEF CancelSets
  <2>3. CASE CancelCopies(r)
    BY <2>3 DEF CancelCopies
  <2>4. CASE CancelCloses(r)
    BY <2>4 DEF CancelCloses
  <2>5. CASE Check(r)
    BY <2>5 DEF Check, RaiseIfCancelled
  <2>6. CASE Register(r)
    BY <2>6 DEF Register
  <2>7. CASE RegisterChecks(r)
    BY <2>7 DEF RegisterChecks, ClosedOnArrival
  <2>8. CASE Send(r)
    BY <2>8 DEF Send
  <2>9. CASE SendFails(r)
    BY <2>9 DEF SendFails, Leave
  <2>13. CASE SendReturns(r)
    BY <2>13 DEF SendReturns, Leave
  <2>10. CASE Record(r)
    BY <2>10 DEF Record
  <2>11. CASE Finish(r)
    BY <2>11 DEF Finish
  <2>12. QED
    BY <1>3, <2>1, <2>2, <2>3, <2>4, <2>5, <2>6, <2>7, <2>8, <2>9, <2>10, <2>11, <2>13, <2>14
    DEF Loop, BridgeNext
<1>4. CASE ProcessNext
  BY <1>4, ProcessSteps DEF TokenInv, token, thread
<1>5. QED
  BY <1>1, <1>2, <1>3, <1>4, ClientSteps, ReadingSteps
  DEF Next, ClientNext, BridgeNext, ProcessNext

\* After a cancel nothing is sent, however the worker's send and the event loop's cancel
\* interleave (CancelToken.cancel and register).
THEOREM SilentAlways == Spec => SilentOnceCancelled
<1>1. TokenInv /\ [Next]_vars
        => [\A r \in Requests :
              cancel[r] = "done" /\ work[r] # "sent" => work'[r] # "sent"]_vars
  <2> SUFFICES ASSUME TokenInv, [Next]_vars, NEW r \in Requests,
                      cancel[r] = "done", work[r] # "sent", work'[r] = "sent"
               PROVE  FALSE
    OBVIOUS
  <2>1. CASE UNCHANGED work
    BY <2>1
  <2>2. ASSUME NEW p \in Requests, BridgeNext(p) PROVE FALSE
    <3>1. CASE Loop(p)
      BY <2>1, <3>1 DEF Loop, CancelSets, CancelCopies, CancelCloses, thread
    <3>2. CASE Send(p)
      BY <3>2 DEF Send, TokenInv, Goes
    <3>3. CASE \/ Arrive(p) \/ Check(p) \/ Register(p) \/ RegisterChecks(p)
      BY <3>3 DEF Arrive, Check, RaiseIfCancelled, Register, RegisterChecks, TokenInv, Goes
    <3>4. CASE SendFails(p) \/ SendReturns(p) \/ Record(p) \/ Finish(p)
      BY <3>4 DEF SendFails, SendReturns, Record, Finish, TokenInv, Goes
    <3>5. CASE Cut(p)
      BY <3>5 DEF Cut, TokenInv
    <3>6. QED
      BY <2>2, <3>1, <3>2, <3>3, <3>4, <3>5 DEF BridgeNext
  <2>3. CASE ProcessNext
    BY <2>1, <2>3, ProcessSteps DEF thread
  <2>4. QED
    BY <2>1, <2>2, <2>3, ClientSteps, ReadingSteps
    DEF Next, vars, thread, Elsewhere, ClientNext, BridgeNext, ProcessNext
<1>2. QED
  BY <1>1, TokenInit, TokenStep, PTL DEF Spec, SilentOnceCancelled

(***************************************************************************)
(* The usage line.                                                         *)
(***************************************************************************)
\* A connection is open only for an operation under way, and a reading of an operation's own
\* is its last act; so with none under way whatever is counted is an orphan's, and what a
\* reading that is neither late nor gone has, or still gets, is right.
LineTypes ==
  /\ op \in [Requests -> Ops] /\ total \in Nat /\ orphans \in Nat /\ orphans <= total
  /\ bridge \in {"none", "up", "dead"} /\ left \subseteq Requests
  /\ reading \in [Readers -> Reading \cup {None}]
  /\ shown \in Line \cup {None}
  /\ conn \in [Requests -> Conns] /\ work \in [Requests -> Works]

Connected ==
  \A r \in Requests :
    /\ conn[r] = "open" => op[r] = "fetching"
    /\ work[r] \notin {"none", "ended"} => conn[r] \in {"open", "dropped"}
    /\ reading[r] # None => op[r] = "ending"

\* Without a bridge the line and the readings are those of an ended one.
NothingLives ==
  bridge # "up" =>
    /\ shown = None \/ shown.gone
    /\ \A x \in Readers : reading[x] # None => reading[x].gone
    /\ \A r \in Requests : op[r] \in {"opening", "resetting", "fetching"} => r \in left

Good(x) == reading[x] # None /\ ~reading[x].late /\ ~reading[x].gone

Right ==
  InFlight = {} =>
    /\ \A x \in Readers : Good(x) /\ reading[x].pc = "costing" /\ reading[x].value # None
                            => Counted(reading[x].value)
    /\ \/ shown = None \/ shown.late \/ shown.gone \/ Counted(shown.value)
       \/ \E x \in Readers : Good(x)

LineInv == LineTypes /\ Connected /\ NothingLives /\ Right

LEMMA LineInit == Init => LineInv
BY DEF Init, LineInv, LineTypes, Connected, NothingLives, Right, Good, Ops, Conns, Works, Readers

LEMMA AskedIsReading == LineInv => /\ Asked \in Reading /\ Asked # None /\ Asked.pc = "asked"
                                   /\ ~Asked.late /\ (Asked.gone <=> bridge = "dead")
<1>1. Asked \in Reading
  BY DEF Asked, Reading
<1>2. QED
  BY <1>1, RequestAssumption DEF Asked

\* An operation ends, with the counters as they were.
LEMMA LineSettles ==
  ASSUME LineInv, NEW r \in Requests,
         op[r] \in {"starting", "opening", "resetting", "fetching"},
         Settle(r), UNCHANGED <<usage, work, bridge>>,
         left \subseteq left', left' \subseteq Requests,
         shown' \in Line \cup {None}, bridge # "up" => shown' = None \/ shown'.gone,
         conn' \in [Requests -> Conns],
         \A p \in Requests : conn'[p] = "open" => conn[p] = "open" /\ p # r,
         \A p \in Requests : conn[p] \in {"open", "dropped"} => conn'[p] \in {"open", "dropped"}
  PROVE  LineInv'
<1> USE DEF usage
<1>1. r \in InFlight
  BY DEF InFlight
<1>2. /\ total \in Nat /\ orphans \in Nat /\ orphans <= total
      /\ reading \in [Readers -> Reading \cup {None}] /\ op \in [Requests -> Ops]
      /\ bridge \in {"none", "up", "dead"} /\ work \in [Requests -> Works]
  BY DEF LineInv, LineTypes
<1>3. CASE InFlight = {r} /\ bridge # "none"
  <2>1. /\ op' = [op EXCEPT ![r] = "ending"]
        /\ reading' = [x \in Readers |-> IF x = r THEN Asked
                                         ELSE IF reading[x] = None THEN None
                                         ELSE [reading[x] EXCEPT !.late = TRUE]]
    BY <1>3 DEF Settle
  <2>2. /\ Asked \in Reading /\ Asked # None /\ Asked.pc = "asked"
        /\ ~Asked.late /\ (Asked.gone <=> bridge = "dead") /\ r \in Readers
    BY AskedIsReading DEF Readers
  <2>3. ASSUME NEW x \in Readers, x # r, reading[x] # None
        PROVE  /\ reading'[x] \in Reading /\ reading'[x].late
               /\ reading'[x].gone = reading[x].gone
    <3>1. reading[x] \in Reading
      BY <1>2, <2>3
    <3>2. reading'[x] = [reading[x] EXCEPT !.late = TRUE]
      BY <2>1, <2>3
    <3>3. QED
      BY <3>1, <3>2 DEF Reading
  <2>4. reading' \in [Readers -> Reading \cup {None}]
    BY <2>1, <2>2, <2>3
  <2>5. reading'[r] = Asked
    BY <2>1, <2>2
  <2>6. op' \in [Requests -> Ops]
    BY <1>2, <2>1 DEF Ops
  <2>7. LineTypes'
    BY <1>2, <2>4, <2>6 DEF LineTypes
  <2>8. Connected'
    <3>1. \A p \in Requests : conn'[p] = "open" => op'[p] = "fetching"
      BY <1>2, <2>1 DEF LineInv, Connected
    <3>2. \A p \in Requests : reading'[p] # None => op'[p] = "ending"
      BY <1>2, <2>1 DEF Readers, LineInv, Connected
    <3>3. QED
      BY <3>1, <3>2 DEF LineInv, Connected
  <2>9. NothingLives'
    <3>1. bridge # "up" => \A x \in Readers : reading'[x] # None => reading'[x].gone
      BY <1>2, <1>3, <2>1, <2>2, <2>3, <2>5 DEF LineInv, NothingLives
    <3>2. \A p \in Requests : op'[p] \in {"opening", "resetting", "fetching"}
                                => op[p] \in {"opening", "resetting", "fetching"}
      BY <1>2, <2>1
    <3>3. QED
      BY <3>1, <3>2 DEF LineInv, NothingLives
  <2>10. Right'
    <3>1. \A x \in Readers : Good(x)' => x = r
      BY <2>1, <2>3 DEF Good
    <3>2. bridge = "up" => Good(r)'
      BY <2>2, <2>5 DEF Good
    <3>3. QED
      BY <1>2, <2>2, <2>5, <3>1, <3>2 DEF Right
  <2>11. QED
    BY <2>7, <2>8, <2>9, <2>10 DEF LineInv
<1>4. CASE ~(InFlight = {r} /\ bridge # "none")
  <2>1. op' = [op EXCEPT ![r] = "ended"] /\ reading' = reading
    BY <1>4 DEF Settle
  <2>2. \A q \in Requests : reading[q] # None => q # r
    BY DEF Readers, LineInv, Connected
  <2>3. LineTypes'
    BY <1>2, <2>1 DEF LineTypes, Ops
  <2>4. Connected'
    BY <1>2, <2>1, <2>2 DEF LineInv, Connected
  <2>5. NothingLives'
    BY <1>2, <2>1 DEF LineInv, NothingLives
  <2>6. Right'
    <3>1. CASE bridge = "none"
      BY <2>1, <3>1 DEF LineInv, NothingLives, Right, Good
    <3>2. CASE InFlight # {r}
      <4>1. PICK p \in InFlight : p # r
        BY <1>1, <3>2
      <4>2. p \in InFlight'
        BY <1>2, <2>1, <4>1 DEF InFlight
      <4>3. QED
        BY <4>2 DEF Right
    <3>3. QED
      BY <1>4, <3>1, <3>2
  <2>7. QED
    BY <2>3, <2>4, <2>5, <2>6 DEF LineInv
<1>5. QED
  BY <1>3, <1>4

\* What a rendering may make of the line.
LEMMA Rendering ==
  ASSUME NEW v \in Nat \cup {None}, NEW late \in BOOLEAN, NEW gone \in BOOLEAN,
         Render(v, late, gone)
  PROVE  /\ shown' \in Line \cup {None}
         /\ shown' # None => /\ v # None /\ shown'.value = v
                             /\ shown'.late = late /\ shown'.gone = gone
BY RequestAssumption DEF Render, Line

LEMMA LineOfReaders ==
  ASSUME LineInv, NEW x \in Readers, Serve(x) \/ Rendered(x) \/ (x \in Polls /\ PollTick(x))
  PROVE  LineInv'
<1> USE DEF usage, thread, token, client, process
<1>1. CASE x \in Polls /\ PollTick(x)
  <2>1. /\ InFlight # {} /\ reading' = [reading EXCEPT ![x] = Asked] /\ x \notin Requests
        /\ bridge # "none"
        /\ UNCHANGED <<process, op, conn, work, total, orphans, shown>>
    BY <1>1, RequestAssumption DEF PollTick
  <2>2. InFlight' = InFlight /\ Asked \in Reading /\ (Asked.gone <=> bridge = "dead")
    BY <2>1, AskedIsReading DEF InFlight
  <2>3. \A p \in Requests : reading'[p] = reading[p]
    BY <2>1 DEF Readers, LineInv, LineTypes
  <2>4. LineTypes'
    BY <2>1, <2>2 DEF LineInv, LineTypes
  <2>5. Connected'
    BY <2>1, <2>3 DEF LineInv, Connected
  <2>6. NothingLives'
    <3>1. ASSUME bridge # "up", NEW y \in Readers, reading'[y] # None PROVE reading'[y].gone
      <4>1. CASE y = x
        BY <2>1, <2>2, <3>1, <4>1 DEF LineInv, LineTypes
      <4>2. CASE y # x
        BY <2>1, <3>1, <4>2 DEF LineInv, NothingLives, LineTypes
      <4>3. QED
        BY <4>1, <4>2
    <3>2. QED
      BY <2>1, <3>1 DEF LineInv, NothingLives
  <2>7. QED
    BY <2>1, <2>2, <2>4, <2>5, <2>6 DEF LineInv, Right
<1>2. CASE Serve(x)
  <2>1. PICK v \in {None, total} :
          /\ reading' = [reading EXCEPT ![x] = [reading[x] EXCEPT !.pc = "costing", !.value = v]]
          /\ reading[x].gone => v = None
    BY <1>2 DEF Serve
  <2>2. /\ reading[x] \in Reading /\ reading[x] # None /\ total \in Nat
        /\ reading \in [Readers -> Reading \cup {None}]
        /\ UNCHANGED <<process, op, conn, work, total, orphans, shown>>
    BY <1>2 DEF Serve, LineInv, LineTypes
  <2>3. /\ reading'[x] \in Reading /\ reading'[x].late = reading[x].late
        /\ reading'[x].gone = reading[x].gone /\ reading'[x].value = v
    BY <2>1, <2>2 DEF Reading
  <2>4. /\ InFlight' = InFlight /\ \A y \in Readers : y # x => reading'[y] = reading[y]
        /\ reading' \in [Readers -> Reading \cup {None}]
    BY <2>1, <2>2, <2>3 DEF InFlight
  <2>5. v # None => Counted(v)
    BY <2>2 DEF Counted, LineInv, LineTypes
  <2>6. reading'[x] # None
    BY <2>3, RequestAssumption
  <2>7. \A y \in Readers : /\ reading'[y] # None <=> reading[y] # None
                           /\ Good(y)' <=> Good(y)
    BY <2>2, <2>3, <2>4, <2>6 DEF Good
  <2>8. LineTypes'
    BY <2>2, <2>4 DEF LineInv, LineTypes
  <2>9. Connected'
    BY <2>2, <2>7 DEF LineInv, Connected, Readers
  <2>10. NothingLives'
    BY <2>2, <2>3, <2>4, <2>7 DEF LineInv, NothingLives
  <2>11. Right'
    BY <2>2, <2>3, <2>4, <2>5, <2>7 DEF LineInv, Right, Counted
  <2>12. QED
    BY <2>8, <2>9, <2>10, <2>11 DEF LineInv
<1>3. CASE Rendered(x)
  <2>1. /\ reading[x] \in Reading /\ reading[x] # None /\ reading[x].pc = "costing"
        /\ Render(reading[x].value, reading[x].late, reading[x].gone)
        /\ reading' = [reading EXCEPT ![x] = None]
        /\ op' = [y \in Requests |-> IF y = x THEN "ended" ELSE op[y]]
        /\ UNCHANGED <<process, conn, work, total, orphans>>
    BY <1>3 DEF Rendered, LineInv, LineTypes
  <2>2. /\ reading[x].value \in Nat \cup {None}
        /\ reading[x].late \in BOOLEAN /\ reading[x].gone \in BOOLEAN
    BY <2>1 DEF Reading
  <2>3. /\ shown' \in Line \cup {None}
        /\ shown' # None => /\ reading[x].value # None
                            /\ shown'.value = reading[x].value
                            /\ shown'.late = reading[x].late /\ shown'.gone = reading[x].gone
    BY <2>1, <2>2, Rendering
  <2>4. x \in Requests => op[x] = "ending"
    BY <2>1 DEF LineInv, Connected
  <2>5. InFlight' = InFlight /\ op' \in [Requests -> Ops]
    BY <2>1, <2>4 DEF InFlight, Ops, LineInv, LineTypes
  <2>6. \A y \in Readers : reading'[y] # None => y # x /\ reading'[y] = reading[y]
    BY <2>1 DEF LineInv, LineTypes
  <2>7. LineTypes'
    BY <2>1, <2>3, <2>5 DEF LineInv, LineTypes
  <2>8. Connected'
    BY <2>1, <2>4, <2>6 DEF LineInv, Connected, Readers
  <2>9. NothingLives'
    BY <2>1, <2>3, <2>4, <2>6 DEF LineInv, NothingLives
  <2>10. InFlight = {} => shown' = None \/ shown'.late \/ shown'.gone \/ Counted(shown'.value)
    BY <2>1, <2>2, <2>3 DEF LineInv, Right, Good
  <2>11. Right'
    BY <2>1, <2>5, <2>6, <2>10 DEF LineInv, Right, Good, Counted
  <2>12. QED
    BY <2>7, <2>8, <2>9, <2>11 DEF LineInv
<1>4. QED
  BY <1>1, <1>2, <1>3

\* A step with an operation in flight after it: nothing is asked of the line but its type.
LEMMA LineOfFlight ==
  ASSUME LineInv, NEW r \in Requests, r \in InFlight',
         LineTypes', Connected', NothingLives'
  PROVE  LineInv'
BY DEF LineInv, Right

\* What a step that settles or sends makes of the connections.
LEMMA LineOfPost ==
  ASSUME LineInv, NEW r \in Requests, NEW gone \in BOOLEAN, Post(r, gone),
         op[r] \in {"starting", "opening", "resetting"},
         UNCHANGED <<usage, work, bridge>>, left \subseteq left', left' \subseteq Requests,
         shown' \in Line \cup {None}, bridge # "up" => (shown' = None \/ shown'.gone) /\ gone
  PROVE  LineInv'
<1> USE DEF usage
<1>1. conn[r] # "open" /\ reading[r] = None /\ op \in [Requests -> Ops]
  BY DEF LineInv, Connected, LineTypes
<1>2. CASE Settle(r) /\ UNCHANGED conn
  BY <1>1, <1>2, LineSettles DEF LineInv, LineTypes
<1>3. CASE /\ ~gone /\ op' = [op EXCEPT ![r] = "fetching"] /\ conn' = [conn EXCEPT ![r] = "open"]
           /\ UNCHANGED reading
  <2>1. r \in InFlight'
    BY <1>1, <1>3 DEF InFlight
  <2>2. LineTypes'
    BY <1>3 DEF LineInv, LineTypes, Ops, Conns
  <2>3. Connected'
    BY <1>1, <1>3 DEF LineInv, Connected, LineTypes
  <2>4. NothingLives'
    BY <1>3 DEF LineInv, NothingLives
  <2>5. QED
    BY <2>1, <2>2, <2>3, <2>4, LineOfFlight
<1>4. QED
  BY <1>2, <1>3 DEF Post

LEMMA LineOfClients ==
  ASSUME LineInv, NEW r \in Requests, ClientNext(r)
  PROVE  LineInv'
<1> USE DEF usage, thread, token, client, process
<1>1. /\ op \in [Requests -> Ops] /\ left \subseteq Requests /\ shown \in Line \cup {None}
      /\ total \in Nat
  BY DEF LineInv, LineTypes
<1>2. CASE Begin(r) \/ Reset(r) \/ (Started(r) /\ r \in Scans)
  <2>1. /\ op' = [op EXCEPT ![r] = op'[r]] /\ op'[r] \in {"starting", "opening", "resetting"}
        /\ op[r] \notin {"fetching", "ending"}
        /\ UNCHANGED <<conn, work, reading, shown, bridge>>
    BY <1>1, <1>2 DEF Begin, Reset, Started, line
  <2>2. /\ total' \in Nat /\ orphans' \in Nat /\ orphans' <= total'
    BY <1>2 DEF Begin, Reset, Started, LineInv, LineTypes
  <2>3. left' \in {left, left \cup {r}}
    BY <1>2 DEF Begin, Reset, Started
  <2>4. r \in InFlight'
    BY <1>1, <2>1 DEF InFlight
  <2>5. LineTypes'
    BY <2>1, <2>2, <2>3 DEF LineInv, LineTypes, Ops
  <2>6. Connected'
    BY <1>1, <2>1 DEF LineInv, Connected
  <2>7. NothingLives'
    <3>1. bridge # "up" => op'[r] = "starting" \/ r \in left'
      <4>1. CASE Begin(r)
        BY <1>1, <4>1 DEF Begin
      <4>2. CASE Reset(r)
        BY <4>2 DEF Reset, LineInv, NothingLives
      <4>3. CASE Started(r)
        BY <4>3 DEF Started, LineInv, LineTypes
      <4>4. QED
        BY <1>2, <4>1, <4>2, <4>3
    <3>2. QED
      BY <1>1, <2>1, <2>3, <3>1 DEF LineInv, NothingLives
  <2>8. QED
    BY <2>4, <2>5, <2>6, <2>7, LineOfFlight
<1>3. CASE Started(r) /\ r \notin Scans
  <2>1. /\ op[r] = "starting" /\ Post(r, bridge = "dead") /\ bridge # "none"
        /\ left' \in {left, left \cup {r}} /\ UNCHANGED <<usage, work, bridge, shown>>
    BY <1>3 DEF Started
  <2>2. bridge # "up" => (shown = None \/ shown.gone) /\ bridge = "dead"
    BY <2>1 DEF LineInv, NothingLives, LineTypes
  <2>3. (bridge = "dead") \in BOOLEAN
    OBVIOUS
  <2>4. QED
    BY <1>1, <2>1, <2>2, <2>3, LineOfPost
<1>4. CASE Fetch(r)
  <2>1. /\ op[r] \in {"opening", "resetting"} /\ Post(r, r \in left)
        /\ UNCHANGED <<usage, work, bridge, left>>
    BY <1>4 DEF Fetch
  <2>2. bridge # "up" => r \in left
    BY <2>1 DEF LineInv, NothingLives
  <2>3. shown' \in Line \cup {None} /\ (r \in left => shown' = None \/ shown'.gone)
    <3>1. CASE op[r] = "opening"
      BY <1>4, <3>1 DEF Fetch
    <3>2. CASE op[r] = "resetting"
      <4>1. PICK v \in {total, None} : Render(v, FALSE, r \in left)
        BY <1>4, <3>2 DEF Fetch
      <4>2. v \in Nat \cup {None} /\ (r \in left) \in BOOLEAN
        BY <1>1
      <4>3. QED
        BY <4>1, <4>2, Rendering
    <3>3. QED
      BY <2>1, <3>1, <3>2
  <2>4. (r \in left) \in BOOLEAN
    OBVIOUS
  <2>5. QED
    BY <1>1, <2>1, <2>2, <2>3, <2>4, LineOfPost
<1>5. CASE CancelEarly(r)
  BY <1>5 DEF CancelEarly, LineInv, LineTypes, Connected, NothingLives, Right, Good, line,
              InFlight, Counted
<1>6. CASE StartFails(r) \/ Returns(r)
  <2>1. /\ op[r] \in {"starting", "fetching"} /\ conn[r] # "open" /\ Settle(r)
        /\ UNCHANGED <<usage, work, bridge, left, shown, conn>>
    BY <1>6 DEF StartFails, Returns, LineInv, Connected
  <2>2. bridge # "up" => shown = None \/ shown.gone
    BY DEF LineInv, NothingLives
  <2>3. QED
    BY <1>1, <2>1, <2>2, LineSettles DEF LineInv, LineTypes
<1>7. CASE GiveUp(r)
  <2>1. /\ op[r] = "fetching" /\ conn' = [conn EXCEPT ![r] = "dropped"] /\ Settle(r)
        /\ UNCHANGED <<usage, work, bridge, left, shown>>
    BY <1>7 DEF GiveUp
  <2>2. conn \in [Requests -> Conns] /\ conn' \in [Requests -> Conns]
    BY <2>1 DEF LineInv, LineTypes, Conns
  <2>3. bridge # "up" => shown = None \/ shown.gone
    BY DEF LineInv, NothingLives
  <2>4. QED
    BY <1>1, <2>1, <2>2, <2>3, LineSettles
<1>8. QED
  BY <1>2, <1>3, <1>4, <1>5, <1>6, <1>7 DEF ClientNext

LEMMA LineOfProcess ==
  ASSUME LineInv, ProcessNext
  PROVE  LineInv'
<1> USE DEF client, thread, token, usage, line
<1>1. CASE ClearLine
  <2>1. shown' = None /\ UNCHANGED <<op, conn, work, reading, bridge, left, total, orphans>>
    BY <1>1 DEF ClearLine, process
  <2>2. QED
    BY <2>1 DEF LineInv, LineTypes, Connected, NothingLives, Right, Good, InFlight, Counted
<1>2. CASE BridgeStarts
  <2>1. /\ bridge = "none" /\ bridge' = "up" /\ total' = 0 /\ orphans' = 0
        /\ UNCHANGED <<op, conn, work, reading, shown, left>>
    BY <1>2 DEF BridgeStarts
  <2>2. Right'
    BY <2>1 DEF LineInv, NothingLives, Right, Good
  <2>3. QED
    BY <2>1, <2>2 DEF LineInv, LineTypes, Connected, NothingLives
<1>3. CASE BridgeEnds
  <2>1. /\ bridge' \in {"none", "dead"}
        /\ left' = {r \in Requests : op[r] \notin {"idle", "starting"}}
        /\ reading' = [x \in Readers |-> IF reading[x] = None THEN None
                                         ELSE [reading[x] EXCEPT !.gone = TRUE]]
        /\ shown' = IF shown = None THEN None ELSE [shown EXCEPT !.gone = TRUE]
        /\ UNCHANGED <<op, conn, work, total, orphans>>
    BY <1>3 DEF BridgeEnds
  <2>2. ASSUME NEW x \in Readers, reading[x] # None
        PROVE  reading'[x] \in Reading /\ reading'[x].gone
    <3>1. reading[x] \in Reading
      BY <2>2 DEF LineInv, LineTypes
    <3>2. reading'[x] = [reading[x] EXCEPT !.gone = TRUE]
      BY <2>1, <2>2
    <3>3. QED
      BY <3>1, <3>2 DEF Reading
  <2>3. \A x \in Readers : reading'[x] # None => reading[x] # None /\ reading'[x].gone
    BY <2>1, <2>2
  <2>4. shown' \in Line \cup {None} /\ (shown' = None \/ shown'.gone)
    BY <2>1 DEF LineInv, LineTypes, Line
  <2>5. reading' \in [Readers -> Reading \cup {None}]
    BY <2>1, <2>2
  <2>6. LineTypes'
    BY <2>1, <2>4, <2>5 DEF LineInv, LineTypes
  <2>7. Connected'
    BY <2>1, <2>3 DEF LineInv, Connected, Readers
  <2>8. NothingLives' /\ Right'
    BY <2>1, <2>3, <2>4 DEF NothingLives, Right, Good
  <2>9. QED
    BY <2>6, <2>7, <2>8 DEF LineInv
<1>4. CASE ExitNoticed
  <2>1. /\ bridge = "dead" /\ bridge' = "none"
        /\ UNCHANGED <<op, conn, work, reading, shown, left, total, orphans>>
    BY <1>4 DEF ExitNoticed
  <2>2. QED
    BY <2>1 DEF LineInv, LineTypes, Connected, NothingLives, Right, Good, InFlight, Counted
<1>5. QED
  BY <1>1, <1>2, <1>3, <1>4 DEF ProcessNext

LEMMA LineOfBridge ==
  ASSUME LineInv, NEW r \in Requests, BridgeNext(r)
  PROVE  LineInv'
<1>1. UNCHANGED <<op, reading, shown, bridge, left>>
  BY DEF BridgeNext, Cut, Arrive, Loop, CancelSets, CancelCopies, CancelCloses, Check, Register,
         RegisterChecks, Send, SendFails, SendReturns, Record, Finish, client, line, process
<1>2. InFlight' = InFlight /\ NothingLives' /\ \A x \in Readers : Good(x)' = Good(x)
  BY <1>1 DEF InFlight, LineInv, NothingLives, Good
<1>3. CASE Record(r)
  <2>1. /\ work' = [work EXCEPT ![r] = "free"] /\ work[r] = "counting" /\ conn' = conn
        /\ r \in left => total' = total /\ orphans' = orphans
        /\ r \notin left => total' = total + 1
        /\ r \notin left /\ conn[r] = "dropped" => orphans' = orphans + 1
        /\ conn[r] # "dropped" => orphans' = orphans
    BY <1>3 DEF Record, Goes
  <2>2. /\ total \in Nat /\ orphans \in Nat /\ orphans <= total
        /\ work \in [Requests -> Works] /\ conn[r] \in {"open", "dropped"}
        /\ conn[r] = "open" => op[r] = "fetching"
    BY <2>1 DEF LineInv, LineTypes, Connected
  <2>3. total' \in Nat /\ orphans' \in Nat /\ orphans' <= total'
    BY <2>1, <2>2
  <2>4. InFlight = {} => conn[r] = "dropped"
    BY <2>2 DEF InFlight
  <2>5. ASSUME InFlight = {}, NEW v \in Nat, Counted(v) PROVE Counted(v)'
    BY <2>1, <2>2, <2>4, <2>5 DEF Counted
  <2>6. /\ \A x \in Readers : reading[x] # None /\ reading[x].value # None
                                => reading[x].value \in Nat
        /\ shown # None => shown.value \in Nat
    BY DEF LineInv, LineTypes, Reading, Line
  <2>7. /\ work' \in [Requests -> Works]
        /\ \A p \in Requests : work'[p] \notin {"none", "ended"} => work[p] \notin {"none", "ended"}
    BY <2>1, <2>2 DEF Works
  <2>8. LineTypes' /\ Connected'
    BY <1>1, <2>1, <2>3, <2>7 DEF LineInv, LineTypes, Connected
  <2>9. ASSUME InFlight = {}
        PROVE  /\ \A x \in Readers : Good(x) /\ reading[x].pc = "costing"
                                       /\ reading[x].value # None => Counted(reading[x].value)'
               /\ \/ shown = None \/ shown.late \/ shown.gone \/ Counted(shown.value)'
                  \/ \E x \in Readers : Good(x)
    <3>1. ASSUME NEW x \in Readers, Good(x), reading[x].pc = "costing", reading[x].value # None
          PROVE  Counted(reading[x].value)'
      <4>1. Counted(reading[x].value) /\ reading[x].value \in Nat
        BY <2>6, <2>9, <3>1 DEF LineInv, Right, Good
      <4>2. reading'[x].value = reading[x].value
        BY <1>1
      <4>3. QED
        BY <2>5, <2>9, <4>1, <4>2 DEF Counted
    <3>2. ASSUME shown # None, Counted(shown.value) PROVE Counted(shown.value)'
      <4>1. shown.value \in Nat /\ shown'.value = shown.value
        BY <1>1, <2>6, <3>2
      <4>2. QED
        BY <2>5, <2>9, <3>2, <4>1 DEF Counted
    <3>3. QED
      BY <2>9, <3>1, <3>2 DEF LineInv, Right
  <2>10. Right'
    BY <1>1, <1>2, <2>9 DEF Right
  <2>11. QED
    BY <1>2, <2>8, <2>10 DEF LineInv
<1>4. CASE ~Record(r)
  <2>1. UNCHANGED usage
    BY <1>4 DEF BridgeNext, Cut, Arrive, Loop, CancelSets, CancelCopies, CancelCloses, Check,
                Register, RegisterChecks, Send, SendFails, SendReturns, Finish
  <2>2. /\ work' \in [Requests -> Works] /\ conn' \in [Requests -> Conns]
        /\ \A p \in Requests :
             /\ conn'[p] = "open" => conn[p] = "open"
             /\ work'[p] \notin {"none", "ended"} => conn'[p] \in {"open", "dropped"}
    <3> USE DEF LineInv, LineTypes, Connected, Goes, Works, Conns, thread
    <3>1. CASE Loop(r)
      BY <3>1 DEF Loop, CancelSets, CancelCopies, CancelCloses
    <3>2. CASE Arrive(r)
      BY <3>2 DEF Arrive
    <3>3. CASE Finish(r)
      BY <3>3 DEF Finish
    <3>4. CASE Check(r) \/ Register(r) \/ RegisterChecks(r) \/ Send(r)
      BY <3>4 DEF Check, RaiseIfCancelled, Register, RegisterChecks, Send
    <3>5. CASE SendFails(r) \/ SendReturns(r)
      BY <3>5 DEF SendFails, SendReturns
    <3>6. CASE Cut(r)
      BY <3>6 DEF Cut
    <3>7. QED
      BY <1>4, <3>1, <3>2, <3>3, <3>4, <3>5, <3>6 DEF BridgeNext
  <2>3. LineTypes' /\ Connected'
    BY <1>1, <2>1, <2>2 DEF LineInv, LineTypes, Connected, usage
  <2>4. Right'
    BY <1>1, <1>2, <2>1 DEF LineInv, Right, Counted, usage
  <2>5. QED
    BY <1>2, <2>3, <2>4 DEF LineInv
<1>5. QED
  BY <1>3, <1>4

LEMMA LineStep ==
  ASSUME LineInv, [Next]_vars
  PROVE  LineInv'
<1>1. CASE UNCHANGED vars
  BY <1>1 DEF vars, process, client, thread, line, usage, LineInv, LineTypes, Connected,
              NothingLives, Right, Good, Counted, InFlight
<1>2. CASE Next
  BY <1>2, LineOfReaders, LineOfClients, LineOfBridge, LineOfProcess
  DEF Next, Readers, ClientNext, BridgeNext, ProcessNext
<1>3. QED
  BY <1>1, <1>2

\* The line that stays when everything is over has the figure of this session, for any number
\* of overlapping operations, readings, orphans and bridge processes, unless the process it was
\* read from has ended (withUsageTracking).
THEOREM PinnedAlwaysFinal == Spec => []PinnedIsFinal
<1>1. LineInv => PinnedIsFinal
  <2> SUFFICES ASSUME LineInv, AtRest, shown # None, ~shown.late, ~shown.gone
               PROVE  Counted(shown.value)
    BY DEF PinnedIsFinal
  <2>1. InFlight = {} /\ \A x \in Readers : ~Good(x)
    BY DEF AtRest, InFlight, Good
  <2>2. QED
    BY <2>1 DEF LineInv, Right
<1>2. QED
  BY <1>1, LineInit, LineStep, PTL DEF Spec

\* The rest of the types.
CallsInv ==
  /\ calls \in [Requests -> Nat] /\ \A r \in Requests : calls[r] <= MaxCalls[r]
  /\ aborted \in [Requests -> BOOLEAN] /\ active \in BOOLEAN
  /\ starts \in 0 .. MaxStarts

LEMMA CallsStep ==
  ASSUME CallsInv, [Next]_vars
  PROVE  CallsInv'
<1> USE DEF CallsInv, process, client, thread, line
<1>1. CASE UNCHANGED vars
  BY <1>1 DEF vars
<1>2. ASSUME NEW x, PollTick(x) \/ Serve(x) \/ Rendered(x) PROVE CallsInv'
  BY <1>2 DEF PollTick, Serve, Rendered
<1>3. CASE ProcessNext
  <2>1. UNCHANGED <<calls, aborted, active>>
    BY <1>3 DEF ProcessNext, ClearLine, BridgeStarts, BridgeEnds, ExitNoticed
  <2>2. starts' = starts \/ (starts < MaxStarts /\ starts' = starts + 1)
    BY <1>3 DEF ProcessNext, ClearLine, BridgeStarts, BridgeEnds, ExitNoticed
  <2>3. starts' \in 0 .. MaxStarts
    BY <2>2, RequestAssumption
  <2>4. QED
    BY <2>1, <2>3
<1>4. ASSUME NEW r \in Requests, ClientNext(r) PROVE CallsInv'
  <2>1. UNCHANGED <<calls, starts>>
    BY <1>4 DEF ClientNext, Begin, Started, StartFails, Reset, Fetch, CancelEarly, GiveUp, Returns
  <2>2. active' \in BOOLEAN /\ aborted' \in [Requests -> BOOLEAN]
    BY <1>4 DEF ClientNext, Begin, Started, StartFails, Reset, Fetch, CancelEarly, GiveUp, Returns
  <2>3. QED
    BY <2>1, <2>2
<1>5. ASSUME NEW r \in Requests, Check(r) PROVE CallsInv'
  <2>1. /\ calls' = [calls EXCEPT ![r] = calls[r] + 1] /\ calls[r] < MaxCalls[r]
        /\ UNCHANGED <<aborted, active, starts>>
    BY <1>5 DEF Check
  <2>2. MaxCalls[r] \in Nat
    BY RequestAssumption
  <2>3. calls'[r] <= MaxCalls[r] /\ calls'[r] \in Nat
    BY <2>1, <2>2
  <2>4. QED
    BY <2>1, <2>3
<1>6. ASSUME NEW r \in Requests, BridgeNext(r), ~Check(r) PROVE CallsInv'
  BY <1>6 DEF BridgeNext, Cut, Arrive, Loop, CancelSets, CancelCopies, CancelCloses, Register,
              RegisterChecks, Send, SendFails, SendReturns, Record, Finish
<1>7. QED
  BY <1>1, <1>2, <1>3, <1>4, <1>5, <1>6 DEF Next, ClientNext, BridgeNext, ProcessNext

\* Every variable of client, event loop, worker thread and counters keeps its type, and no
\* request is sent more often than its bound.
THEOREM TypeCorrect == Spec => []RequestTypeOK
<1>1. Init => CallsInv
  <2> SUFFICES ASSUME Init PROVE CallsInv
    OBVIOUS
  <2>1. \A r \in Requests : MaxCalls[r] \in Nat
    BY RequestAssumption
  <2>2. /\ calls = [r \in Requests |-> 0]
        /\ aborted \in [Requests -> BOOLEAN] /\ active \in BOOLEAN
    BY DEF Init
  <2>3. calls \in [Requests -> Nat] /\ \A r \in Requests : calls[r] = 0
    BY <2>2
  <2>4. \A r \in Requests : calls[r] <= MaxCalls[r]
    BY <2>1, <2>3
  <2>5. starts \in 0 .. MaxStarts
    <3>1. starts = 0 /\ MaxStarts \in Nat
      BY RequestAssumption DEF Init
    <3>2. QED
      BY <3>1
  <2>6. QED
    BY <2>2, <2>3, <2>4, <2>5, Zenon DEF CallsInv
<1>2. TokenInv /\ LineInv /\ CallsInv => RequestTypeOK
  <2> SUFFICES ASSUME TokenInv, LineInv, CallsInv PROVE RequestTypeOK
    OBVIOUS
  <2>1. \A r \in Requests : calls[r] \in 0 .. MaxCalls[r]
    BY RequestAssumption DEF CallsInv
  <2>2. op \in [Requests -> {"idle", "starting", "opening", "resetting", "fetching", "ending",
                             "ended"}]
    BY DEF LineInv, LineTypes, Ops
  <2>3. {aborted, event, registered, closed} \subseteq [Requests -> BOOLEAN]
    BY DEF TokenInv, CallsInv
  <2>4. {total, orphans} \subseteq Nat
    BY DEF LineInv, LineTypes
  <2>5. /\ conn \in [Requests -> {"none", "open", "dropped", "answered"}]
        /\ work \in [Requests -> {"none", "free", "checked", "registered", "armed", "sent",
                                  "counting", "ended"}]
    BY DEF TokenInv, Conns, Works
  <2>6. /\ cancel \in [Requests -> {"no", "set", "closing", "done"}]
        /\ \A r \in Requests : registered[r] <=> work[r] \in {"registered", "armed", "sent"}
    BY DEF TokenInv
  <2>7. /\ reading \in [Readers -> Reading \cup {None}] /\ shown \in Line \cup {None}
        /\ active \in BOOLEAN
    BY DEF LineInv, LineTypes, CallsInv
  <2>8. /\ bridge \in {"none", "up", "dead"} /\ starts \in 0 .. MaxStarts
        /\ left \subseteq Requests
    BY DEF LineInv, LineTypes, CallsInv
  <2>9. QED
    BY <2>1, <2>2, <2>3, <2>4, <2>5, <2>6, <2>7, <2>8, Zenon DEF RequestTypeOK
<1>3. QED
  BY <1>1, <1>2, TokenInit, TokenStep, LineInit, LineStep, CallsStep, PTL DEF Spec
=============================================================================
