--------------------------- MODULE ScanFlow_proofs ---------------------------
(* Theorems about the scan flow, for any number of files, texts and        *)
(* commands under way.                                                     *)
EXTENDS ScanFlow, TLAPS

(***************************************************************************)
(* A command from one await to the next.                                   *)
(***************************************************************************)

\* The commands that have passed their gate and hold a text, and those with its context.
Holding == {"checking", "asking", "caching", "closing", "scanning", "finishing"}
Beyond == Holding \cup {"starting", "inferring", "opening", "confirming"}

\* What a command knows, in mode m and with p pending: its context is that of its text; it has
\* been asked for, unless the mode overtook it; the review it was given for is the pending one,
\* or another one has come in between.
Fits(c, m, p) ==
  /\ c \in Commands
  /\ c.context # None => c.context.of = c.text
  /\ c.pc \in Holding => c.context # None
  /\ c.pc \in Beyond => c.text \in Texts /\ c.kind \in {"scan", "confirm", "skip"}
  /\ c.pc = "gate" => c.file \in Files
  /\ c.pc = "closing" => c.kind \in {"confirm", "skip"}
  /\ c.pc \in {"dialog", "forgetting"} => c.kind = "reset"
  /\ c.pc \in {"gate", "dialog", "forgetting", "evicting"} => c.bridge = "none"
  /\ m = "api" /\ c.pc \in Beyond => c.asked # "local"
  /\ c.pc # "idle" /\ c.kind \in {"confirm", "skip"} /\ p # None
       => [text |-> c.text, fix |-> c.fix, asked |-> c.asked] = p \/ c.met

\* Everything but the commands.
Rest ==
  /\ mode \in {"api", "local"}
  /\ text \in [Files -> Texts] /\ \A f \in Files : FileOf(text[f]) = f
  /\ cache \subseteq Contexts /\ \A c, d \in cache : c.of = d.of => c = d
  /\ pending \in Reviews \cup {None}
  /\ mode = "api" /\ pending # None => pending.asked # "local"
  /\ session \in Sessions \cup {None}
  /\ session # None => session.context.of = session.text
  /\ stale \in BOOLEAN /\ missed \in BOOLEAN /\ timer \in Files \cup {None}
  /\ FlagExactAcrossSessions

ScanInv ==
  /\ Rest
  /\ flow \in [Slots -> Commands]
  /\ \A s \in Slots : Fits(flow[s], mode, pending)

Fields(d, c) ==
  /\ d.kind = c.kind /\ d.text = c.text /\ d.file = c.file /\ d.fix = c.fix
  /\ d.asked = c.asked /\ d.met = c.met

LEMMA IdleIsOne == Idle \in Commands /\ Idle.pc = "idle" /\ Idle.context = None
BY DEF Idle, Commands

LEMMA IdleFits == \A m, p : Fits(Idle, m, p)
BY IdleIsOne DEF Fits, Holding, Beyond

LEMMA Moved ==
  ASSUME NEW c \in Commands, NEW to \in Waiting
  PROVE  /\ [c EXCEPT !.pc = to] \in Commands
         /\ [c EXCEPT !.pc = to].pc = to
         /\ [c EXCEPT !.pc = to].context = c.context
         /\ [c EXCEPT !.pc = to].bridge = c.bridge
         /\ Fields([c EXCEPT !.pc = to], c)
BY DEF Commands, Fields

LEMMA MovedWith ==
  ASSUME NEW c \in Commands, NEW to \in Waiting, NEW k \in Contexts
  PROVE  /\ [c EXCEPT !.pc = to, !.context = k] \in Commands
         /\ [c EXCEPT !.pc = to, !.context = k].pc = to
         /\ [c EXCEPT !.pc = to, !.context = k].context = k
         /\ [c EXCEPT !.pc = to, !.context = k].bridge = c.bridge
         /\ Fields([c EXCEPT !.pc = to, !.context = k], c)
BY DEF Commands, Fields

LEMMA Bridged ==
  ASSUME NEW c \in Commands, NEW b \in {"none", "live", "dead"}
  PROVE  /\ [c EXCEPT !.bridge = b] \in Commands
         /\ [c EXCEPT !.bridge = b].pc = c.pc
         /\ [c EXCEPT !.bridge = b].context = c.context
         /\ [c EXCEPT !.bridge = b].bridge = b
         /\ Fields([c EXCEPT !.bridge = b], c)
BY DEF Commands, Fields

LEMMA BridgedTo ==
  ASSUME NEW c \in Commands, NEW to \in Waiting, NEW b \in {"none", "live", "dead"}
  PROVE  /\ [c EXCEPT !.bridge = b, !.pc = to] \in Commands
         /\ [c EXCEPT !.bridge = b, !.pc = to].pc = to
         /\ [c EXCEPT !.bridge = b, !.pc = to].context = c.context
         /\ [c EXCEPT !.bridge = b, !.pc = to].bridge = b
         /\ Fields([c EXCEPT !.bridge = b, !.pc = to], c)
BY DEF Commands, Fields

LEMMA Met ==
  ASSUME NEW c \in Commands, NEW b \in BOOLEAN
  PROVE  /\ [c EXCEPT !.met = b] \in Commands
         /\ [c EXCEPT !.met = b].pc = c.pc
         /\ [c EXCEPT !.met = b].context = c.context
         /\ [c EXCEPT !.met = b].bridge = c.bridge
         /\ [c EXCEPT !.met = b].kind = c.kind /\ [c EXCEPT !.met = b].text = c.text
         /\ [c EXCEPT !.met = b].file = c.file /\ [c EXCEPT !.met = b].fix = c.fix
         /\ [c EXCEPT !.met = b].asked = c.asked /\ [c EXCEPT !.met = b].met = b
BY DEF Commands

LEMMA Overtaken ==
  ASSUME NEW c \in Commands, NEW a \in {"asked", "local", "overtaken"}
  PROVE  /\ [c EXCEPT !.asked = a] \in Commands
         /\ [c EXCEPT !.asked = a].pc = c.pc
         /\ [c EXCEPT !.asked = a].context = c.context
         /\ [c EXCEPT !.asked = a].bridge = c.bridge
         /\ [c EXCEPT !.asked = a].kind = c.kind /\ [c EXCEPT !.asked = a].text = c.text
         /\ [c EXCEPT !.asked = a].file = c.file /\ [c EXCEPT !.asked = a].fix = c.fix
         /\ [c EXCEPT !.asked = a].asked = a /\ [c EXCEPT !.asked = a].met = c.met
BY DEF Commands

LEMMA Fresh ==
  ASSUME NEW to \in Waiting, NEW k \in {"scan", "confirm", "skip", "edit", "reset"}
  PROVE  /\ [Idle EXCEPT !.pc = to, !.kind = k] \in Commands
         /\ [Idle EXCEPT !.pc = to, !.kind = k].pc = to
         /\ [Idle EXCEPT !.pc = to, !.kind = k].kind = k
         /\ [Idle EXCEPT !.pc = to, !.kind = k].context = None
         /\ [Idle EXCEPT !.pc = to, !.kind = k].bridge = "none"
BY DEF Commands, Idle

LEMMA FreshForFile ==
  ASSUME NEW f \in Files, NEW fix \in BOOLEAN
  PROVE  Fits([Idle EXCEPT !.pc = "gate", !.kind = "scan", !.file = f, !.fix = fix], mode, pending)
<1>1. [Idle EXCEPT !.pc = "gate", !.kind = "scan", !.file = f, !.fix = fix] \in Commands
  BY DEF Commands, Idle, Waiting, Requests
<1>2. QED
  BY <1>1 DEF Fits, Idle, Holding, Beyond

\* Only one command moves, and nothing it is measured by.
LEMMA Moving ==
  ASSUME ScanInv, NEW s \in Slots, NEW c, Moves(s, c), Fits(c, mode, pending),
         UNCHANGED <<mode, pending>>
  PROVE  /\ flow' \in [Slots -> Commands]
         /\ \A r \in Slots : Fits(flow'[r], mode', pending')
<1>1. flow' \in [Slots -> Commands]
  BY DEF Moves, ScanInv, Fits
<1>2. ASSUME NEW r \in Slots PROVE Fits(flow'[r], mode', pending')
  BY DEF Moves, ScanInv
<1>3. QED
  BY <1>1, <1>2

LEMMA RestStays ==
  ASSUME Rest, UNCHANGED <<mode, text, cache, pending, session, stale, missed, timer>>
  PROVE  Rest'
BY DEF Rest, FlagExactAcrossSessions

\* The steps that move one command and change nothing else, or only the cache.
LEMMA Snapshots ==
  ASSUME ScanInv, NEW s \in Slots, NEW f \in Files, NEW fix \in BOOLEAN,
         NEW asked \in {"asked", "local"}, mode = "api" => asked # "local",
         Snapshot(s, f, fix, asked), UNCHANGED <<mode, pending>>
  PROVE  /\ flow' \in [Slots -> Commands]
         /\ \A r \in Slots : Fits(flow'[r], mode', pending')
<1>1. PICK k \in Contexts \cup {None} :
        /\ k # None => k.of = text[f]
        /\ Moves(s, [Idle EXCEPT !.pc = "starting", !.kind = "scan", !.text = text[f],
                                 !.fix = fix, !.context = k, !.asked = asked])
  BY DEF Snapshot, CachedFor, ScanInv, Rest
<1> DEFINE c == [Idle EXCEPT !.pc = "starting", !.kind = "scan", !.text = text[f],
                             !.fix = fix, !.context = k, !.asked = asked]
<1>2. text[f] \in Texts
  BY DEF ScanInv, Rest
<1>3. c \in Commands
  BY <1>2 DEF Commands, Idle, Waiting, Requests
<1>4. /\ c.pc = "starting" /\ c.kind = "scan" /\ c.text = text[f] /\ c.context = k
      /\ c.asked = asked
  BY DEF Idle
<1>5. Fits(c, mode, pending)
  BY <1>1, <1>2, <1>3, <1>4 DEF Fits, Holding, Beyond
<1>6. QED
  BY <1>1, <1>5, Moving

LEMMA Enters ==
  ASSUME ScanInv, NEW s \in Slots, NEW f \in Files, NEW fix \in BOOLEAN, Enter(s, f, fix),
         UNCHANGED <<mode, pending>>
  PROVE  /\ flow' \in [Slots -> Commands]
         /\ \A r \in Slots : Fits(flow'[r], mode', pending')
<1>1. CASE mode = "local" /\ Snapshot(s, f, fix, "local")
  BY <1>1, Snapshots
<1>2. CASE Moves(s, [Idle EXCEPT !.pc = "gate", !.kind = "scan", !.file = f, !.fix = fix])
  BY <1>2, FreshForFile, Moving
<1>3. QED
  BY <1>1, <1>2 DEF Enter

\* A command that goes on with what it has.
LEMMA GoesOn ==
  ASSUME NEW c, NEW m, NEW p, Fits(c, m, p), NEW to \in Waiting,
         c.pc \in Beyond, to \in Beyond,
         to \in Holding => c.context # None,
         to = "closing" => c.kind # "scan"
  PROVE  Fits([c EXCEPT !.pc = to], m, p)
<1>1. c \in Commands
  BY DEF Fits
<1> DEFINE d == [c EXCEPT !.pc = to]
<1>2. /\ d \in Commands /\ d.pc = to /\ d.context = c.context /\ d.bridge = c.bridge
      /\ d.kind = c.kind /\ d.text = c.text /\ d.file = c.file /\ d.fix = c.fix
      /\ d.asked = c.asked /\ d.met = c.met
  BY <1>1, Moved DEF Fields
<1> HIDE DEF d
<1>3. to \notin {"gate", "dialog", "forgetting", "evicting", "idle"} /\ c.pc # "idle"
  BY DEF Beyond, Holding
<1>4. Fits(d, m, p)
  BY <1>2, <1>3 DEF Fits
<1>5. QED
  BY <1>4 DEF d

LEMMA GoesOnWith ==
  ASSUME NEW c, NEW m, NEW p, Fits(c, m, p), NEW to \in Waiting,
         c.pc \in Beyond, to \in Holding \ {"closing"},
         NEW k \in Contexts, k.of = c.text
  PROVE  Fits([c EXCEPT !.pc = to, !.context = k], m, p)
<1>1. c \in Commands
  BY DEF Fits
<1> DEFINE d == [c EXCEPT !.pc = to, !.context = k]
<1>2. /\ d \in Commands /\ d.pc = to /\ d.context = k /\ d.bridge = c.bridge
      /\ d.kind = c.kind /\ d.text = c.text /\ d.file = c.file /\ d.fix = c.fix
      /\ d.asked = c.asked /\ d.met = c.met
  BY <1>1 DEF Commands
<1> HIDE DEF d
<1>3. /\ to \notin {"gate", "dialog", "forgetting", "evicting", "idle"} /\ c.pc # "idle"
      /\ to \in Beyond
  BY DEF Beyond, Holding
<1>6. k # None
  BY ScanAssumption
<1>4. Fits(d, m, p)
  BY <1>2, <1>3, <1>6 DEF Fits
<1>5. QED
  BY <1>4 DEF d

LEMMA Sending ==
  ASSUME ScanInv, NEW s \in Slots, NEW c, Fits(c, mode, pending), Sends(s, c),
         UNCHANGED <<mode, pending>>
  PROVE  /\ flow' \in [Slots -> Commands]
         /\ \A r \in Slots : Fits(flow'[r], mode', pending')
BY Moving, IdleFits DEF Sends

\* The commands, step by step: those that move one command.
LEMMA Entering ==
  ASSUME ScanInv, NEW s \in Slots, Scan(s) \/ PassGate(s) \/ Evicted(s)
  PROVE  /\ flow' \in [Slots -> Commands]
         /\ \A r \in Slots : Fits(flow'[r], mode', pending')
<1>1. CASE Scan(s)
  BY <1>1, Enters DEF Scan
<1>2. CASE PassGate(s)
  <2>1. flow[s].file \in Files /\ flow[s].fix \in BOOLEAN
    BY <1>2 DEF PassGate, ScanInv, Fits, Commands
  <2>2. QED
    BY <1>2, <2>1, Snapshots DEF PassGate
<1>3. CASE Evicted(s)
  BY <1>3, Enters DEF Evicted
<1>4. QED
  BY <1>1, <1>2, <1>3

LEMMA Requesting ==
  ASSUME ScanInv, NEW s \in Slots,
         BridgeIsUp(s) \/ Inferred(s) \/ Confirmed(s) \/ MissingSymbols(s) \/ Accepted(s)
           \/ Cached(s)
  PROVE  /\ flow' \in [Slots -> Commands]
         /\ \A r \in Slots : Fits(flow'[r], mode', pending')
<1> DEFINE c == flow[s]
<1>1. Fits(c, mode, pending) /\ c \in Commands
  BY DEF ScanInv, Fits
<1> USE DEF Waiting, Requests, Beyond, Holding
<1>2. CASE BridgeIsUp(s)
  <2> DEFINE to == IF c.kind # "scan" THEN "confirming"
                   ELSE IF c.context # None THEN "scanning" ELSE "inferring"
  <2>1. Moves(s, [c EXCEPT !.bridge = "live", !.pc = to]) /\ c.pc = "starting"
        /\ UNCHANGED <<mode, pending>>
    BY <1>2 DEF BridgeIsUp
  <2>2. Fits([c EXCEPT !.pc = to], mode, pending)
    BY <1>1, <2>1, GoesOn
  <2>4. /\ to \in {"confirming", "scanning", "inferring"} /\ to \in Waiting
        /\ to = "scanning" => c.context # None
    OBVIOUS
  <2> HIDE DEF to, c
  <2> DEFINE d == [c EXCEPT !.bridge = "live", !.pc = to]
  <2>3. /\ d \in Commands /\ d.pc = to /\ d.context = c.context /\ d.bridge = "live"
        /\ d.kind = c.kind /\ d.text = c.text /\ d.file = c.file /\ d.fix = c.fix
        /\ d.asked = c.asked /\ d.met = c.met
    BY <1>1, <2>4 DEF Commands
  <2> HIDE DEF d
  <2>5. Fits(d, mode, pending)
    BY <1>1, <2>1, <2>3, <2>4 DEF Fits
  <2>6. QED
    BY <2>1, <2>5, Moving DEF d
<1>3. CASE Inferred(s)
  BY <1>1, <1>3, GoesOn, Moving, Sending DEF Inferred
<1>4. CASE Confirmed(s)
  <2> DEFINE k == [of |-> c.text, reviewed |-> c.kind = "confirm"]
  <2>1. c.pc = "confirming" /\ UNCHANGED <<mode, pending>>
    BY <1>4 DEF Confirmed
  <2>2. k \in Contexts /\ k.of = c.text
    BY <1>1, <2>1 DEF Fits, Contexts
  <2>3. \A to \in {"checking", "caching"} : Fits([c EXCEPT !.pc = to, !.context = k], mode, pending)
    BY <1>1, <2>1, <2>2, GoesOnWith
  <2>4. \/ Sends(s, [c EXCEPT !.pc = "checking", !.context = k])
        \/ Moves(s, [c EXCEPT !.pc = "caching", !.context = k])
    BY <1>4 DEF Confirmed
  <2>5. QED
    BY <2>1, <2>3, <2>4, Moving, Sending
<1>5. CASE MissingSymbols(s)
  <2>1. c.pc = "checking" /\ c.context # None
    BY <1>1, <1>5 DEF MissingSymbols, Fits
  <2>2. Fits([c EXCEPT !.pc = "asking"], mode, pending)
    BY <1>1, <2>1, GoesOn
  <2>3. QED
    BY <1>5, <2>2, Moving DEF MissingSymbols
<1>6. CASE Accepted(s)
  <2>1. c.pc \in {"checking", "asking"} /\ c.context # None
    BY <1>1, <1>6 DEF Accepted, Fits
  <2>2. Fits([c EXCEPT !.pc = "caching"], mode, pending)
    BY <1>1, <2>1, GoesOn
  <2>3. QED
    BY <1>6, <2>2, Moving DEF Accepted
<1>7. CASE Cached(s)
  <2>1. c.pc = "caching" /\ c.context # None /\ UNCHANGED <<mode, pending>>
    BY <1>1, <1>7 DEF Cached, Fits
  <2>2. CASE c.kind = "scan" /\ Sends(s, [c EXCEPT !.pc = "scanning"])
    BY <1>1, <2>1, <2>2, GoesOn, Sending
  <2>3. CASE c.kind # "scan" /\ Moves(s, [c EXCEPT !.pc = "closing"])
    BY <1>1, <2>1, <2>3, GoesOn, Moving
  <2>4. QED
    BY <1>7, <2>2, <2>3 DEF Cached
<1>8. QED
  BY <1>2, <1>3, <1>4, <1>5, <1>6, <1>7

LEMMA Installing ==
  ASSUME ScanInv, NEW s \in Slots, Install(s) \/ StartRepairs(s) \/ Fail(s)
  PROVE  /\ flow' \in [Slots -> Commands]
         /\ \A r \in Slots : Fits(flow'[r], mode', pending')
<1>1. Fits(flow[s], mode, pending)
  BY DEF ScanInv
<1>2. flow[s].pc = "scanning" => Fits([flow[s] EXCEPT !.pc = "finishing"], mode, pending)
  <2>1. flow[s].pc = "scanning" => flow[s].context # None
    BY <1>1 DEF Fits, Holding
  <2>2. QED
    BY <1>1, <2>1, GoesOn DEF Waiting, Requests, Beyond, Holding
<1>3. UNCHANGED <<mode, pending>>
  BY DEF Install, StartRepairs, Fail
<1>4. Ends(s) \/ (flow[s].pc = "scanning" /\ Moves(s, [flow[s] EXCEPT !.pc = "finishing"]))
  BY DEF Install, StartRepairs, Fail
<1>5. QED
  BY <1>2, <1>3, <1>4, IdleFits, Moving DEF Ends

LEMMA Resolving ==
  ASSUME ScanInv, NEW s \in Slots, NEW how \in {"confirm", "skip"}, Resolve(s, how)
  PROVE  /\ flow' \in [Slots -> Commands]
         /\ \A r \in Slots : Fits(flow'[r], mode', pending')
<1> DEFINE c == [Idle EXCEPT !.pc = "starting", !.kind = how, !.text = pending.text,
                             !.fix = pending.fix, !.asked = pending.asked]
<1>1. pending \in Reviews /\ (mode = "api" => pending.asked # "local")
  BY DEF Resolve, ScanInv, Rest
<1>2. pending = [text |-> pending.text, fix |-> pending.fix, asked |-> pending.asked]
  BY <1>1 DEF Reviews
<1>3. /\ pending.text \in Texts /\ pending.fix \in BOOLEAN
      /\ pending.asked \in {"asked", "local", "overtaken"}
  BY <1>1 DEF Reviews
<1>4. c \in Commands
  BY <1>3 DEF Commands, Idle, Waiting, Requests
<1>5. /\ c.pc = "starting" /\ c.kind = how /\ c.text = pending.text /\ c.fix = pending.fix
      /\ c.asked = pending.asked /\ c.context = None
  BY DEF Idle
<1>6. Fits(c, mode, pending)
  BY <1>1, <1>2, <1>3, <1>4, <1>5 DEF Fits, Beyond, Holding
<1>7. Moves(s, c) /\ UNCHANGED <<mode, pending>>
  BY DEF Resolve, Begins
<1>8. QED
  BY <1>6, <1>7, Moving

\* What a command knows is not about a review that has gone.
LEMMA FitsWithout ==
  ASSUME NEW c, NEW m, NEW p, Fits(c, m, p)
  PROVE  Fits(c, m, None)
BY DEF Fits

LEMMA Opening ==
  ASSUME ScanInv, NEW s \in Slots, OpenReview(s)
  PROVE  /\ pending' \in Reviews /\ (mode = "api" => pending'.asked # "local")
         /\ flow' \in [Slots -> Commands]
         /\ \A r \in Slots : Fits(flow'[r], mode', pending')
<1>1. /\ pending' = [text |-> flow[s].text, fix |-> flow[s].fix, asked |-> flow[s].asked]
      /\ flow[s].pc = "opening" /\ mode' = mode
      /\ flow' = [r \in Slots |-> IF r = s THEN Idle
                    ELSE [flow[r] EXCEPT !.met = flow[r].kind \in {"confirm", "skip"}]]
  BY DEF OpenReview
<1>2. Fits(flow[s], mode, pending)
  BY DEF ScanInv
<1>3. pending' \in Reviews /\ (mode = "api" => pending'.asked # "local")
  BY <1>1, <1>2 DEF Fits, Beyond, Commands, Reviews
<1>4. ASSUME NEW r \in Slots, r # s
      PROVE  flow'[r] \in Commands /\ Fits(flow'[r], mode, pending')
  <2> DEFINE c == flow[r]
  <2> DEFINE b == flow[r].kind \in {"confirm", "skip"}
  <2> DEFINE d == [c EXCEPT !.met = b]
  <2>1. Fits(c, mode, pending) /\ c \in Commands /\ b \in BOOLEAN
    BY DEF ScanInv, Fits
  <2>2. /\ d \in Commands /\ d.pc = c.pc /\ d.context = c.context /\ d.bridge = c.bridge
        /\ d.kind = c.kind /\ d.text = c.text /\ d.file = c.file /\ d.fix = c.fix
        /\ d.asked = c.asked /\ d.met = b
    BY <2>1, Met
  <2>3. flow'[r] = d
    BY <1>1, <1>4
  <2>4. b <=> c.kind \in {"confirm", "skip"}
    OBVIOUS
  <2> HIDE DEF d, c, b
  <2>5. Fits(d, mode, pending')
    BY <2>1, <2>2, <2>4 DEF Fits
  <2>6. QED
    BY <2>2, <2>3, <2>5
<1>5. QED
  BY <1>1, <1>3, <1>4, IdleFits, IdleIsOne

LEMMA Closing ==
  ASSUME ScanInv, NEW s \in Slots, ReviewClosed(s)
  PROVE  /\ flow' \in [Slots -> Commands]
         /\ \A r \in Slots : Fits(flow'[r], mode', pending')
<1>1. /\ flow[s].pc = "closing" /\ pending' = None /\ mode' = mode
      /\ Sends(s, [flow[s] EXCEPT !.pc = "scanning"])
  BY DEF ReviewClosed
<1>2. \A r \in Slots : Fits(flow[r], mode, None)
  BY FitsWithout DEF ScanInv
<1>3. flow[s].context # None
  BY <1>1, <1>2 DEF Fits, Holding
<1>4. Fits([flow[s] EXCEPT !.pc = "scanning"], mode, None)
  BY <1>1, <1>2, <1>3, GoesOn DEF Waiting, Requests, Beyond, Holding
<1>5. PICK c : Moves(s, c) /\ Fits(c, mode, None)
  BY <1>1, <1>4, IdleFits DEF Sends
<1>6. QED
  BY <1>1, <1>2, <1>5 DEF Moves, ScanInv, Fits

LEMMA Maintaining ==
  ASSUME ScanInv, NEW s \in Slots,
         EditContext(s) \/ Reset(s) \/ Forget(s) \/ ForgetOne(s)
  PROVE  /\ flow' \in [Slots -> Commands]
         /\ \A r \in Slots : Fits(flow'[r], mode', pending')
<1>1. UNCHANGED <<mode, pending>>
  BY DEF EditContext, Reset, Forget, ForgetOne
<1>2. CASE EditContext(s)
  <2>1. Moves(s, [Idle EXCEPT !.pc = "evicting", !.kind = "edit"])
    BY <1>2 DEF EditContext, Begins
  <2>2. Fits([Idle EXCEPT !.pc = "evicting", !.kind = "edit"], mode, pending)
    BY Fresh DEF Fits, Beyond, Holding, Waiting
  <2>3. QED
    BY <1>1, <2>1, <2>2, Moving
<1>3. CASE Reset(s)
  <2>1. Moves(s, [Idle EXCEPT !.pc = "dialog", !.kind = "reset"])
    BY <1>3 DEF Reset, Begins
  <2>2. Fits([Idle EXCEPT !.pc = "dialog", !.kind = "reset"], mode, pending)
    BY Fresh DEF Fits, Beyond, Holding, Waiting
  <2>3. QED
    BY <1>1, <2>1, <2>2, Moving
<1>4. CASE Forget(s)
  <2> DEFINE c == flow[s]
  <2> DEFINE l == {k.of : k \in cache}
  <2> DEFINE d == [c EXCEPT !.pc = "forgetting", !.left = l]
  <2>1. Fits(c, mode, pending) /\ c \in Commands /\ c.pc = "dialog" /\ Moves(s, d)
    BY <1>4 DEF Forget, ScanInv, Fits
  <2>2. l \subseteq Texts
    BY DEF ScanInv, Rest, Contexts
  <2>3. "forgetting" \in Waiting
    BY DEF Waiting
  <2> HIDE DEF l
  <2>4. /\ d \in Commands /\ d.pc = "forgetting" /\ d.context = c.context
        /\ d.bridge = c.bridge /\ d.kind = c.kind /\ d.text = c.text
    BY <2>1, <2>2, <2>3 DEF Commands
  <2> HIDE DEF d, c
  <2>5. Fits(d, mode, pending)
    BY <2>1, <2>4 DEF Fits, Beyond, Holding
  <2>6. QED
    BY <1>1, <2>1, <2>5, Moving
<1>5. CASE ForgetOne(s)
  <2> DEFINE c == flow[s]
  <2>1. PICK t \in c.left : Moves(s, [c EXCEPT !.left = c.left \ {t}])
    BY <1>5 DEF ForgetOne
  <2> DEFINE d == [c EXCEPT !.left = c.left \ {t}]
  <2>2. Fits(c, mode, pending) /\ c \in Commands /\ c.pc = "forgetting"
    BY <1>5 DEF ForgetOne, ScanInv, Fits
  <2>4. /\ d \in Commands /\ d.pc = "forgetting" /\ d.context = c.context
        /\ d.bridge = c.bridge /\ d.kind = c.kind /\ d.text = c.text
    BY <2>1, <2>2 DEF Commands
  <2>5. Moves(s, d)
    BY <2>1
  <2> HIDE DEF d, c
  <2>6. Fits(d, mode, pending)
    BY <2>2, <2>4 DEF Fits, Beyond, Holding
  <2>7. QED
    BY <1>1, <2>5, <2>6, Moving
<1>6. QED
  BY <1>2, <1>3, <1>4, <1>5

\* A kill, and a change of the mode, go through all commands.
LEMMA KilledFits ==
  ASSUME NEW c, NEW m, NEW p, Fits(c, m, p)
  PROVE  Killed(c) \in Commands /\ Fits(Killed(c), m, None)
<1>1. CASE c.pc = "starting"
  BY <1>1, IdleFits, IdleIsOne DEF Killed
<1>2. CASE c.pc # "starting"
  <2> DEFINE b == IF c.bridge = "live" THEN "dead" ELSE c.bridge
  <2> DEFINE d == [c EXCEPT !.bridge = b]
  <2>1. Killed(c) = d
    BY <1>2 DEF Killed
  <2>2. c \in Commands
    BY DEF Fits
  <2>3. b \in {"none", "live", "dead"} /\ (c.bridge = "none" => b = "none")
    BY <2>2 DEF Commands
  <2> HIDE DEF b
  <2>4. /\ d \in Commands /\ d.pc = c.pc /\ d.context = c.context /\ d.bridge = b
        /\ d.kind = c.kind /\ d.text = c.text /\ d.file = c.file /\ d.fix = c.fix
        /\ d.asked = c.asked /\ d.met = c.met
    BY <2>2, <2>3, Bridged DEF Fields
  <2> HIDE DEF d
  <2>5. Fits(d, m, None)
    BY <2>3, <2>4 DEF Fits
  <2>6. QED
    BY <2>1, <2>4, <2>5
<1>3. QED
  BY <1>1, <1>2

LEMMA OvertakenFits ==
  ASSUME NEW c, NEW m \in {"api", "local"}, NEW n \in {"api", "local"}, m # n, Fits(c, m, None)
  PROVE  OvertakenBy(n, c) \in Commands /\ Fits(OvertakenBy(n, c), n, None)
<1> DEFINE a == IF n = "api" /\ c.pc # "idle" /\ c.asked = "local" THEN "overtaken" ELSE c.asked
<1> DEFINE d == [c EXCEPT !.asked = a]
<1>1. OvertakenBy(n, c) = d
  BY DEF OvertakenBy
<1>2. c \in Commands
  BY DEF Fits
<1>3. a \in {"asked", "local", "overtaken"} /\ (n = "api" /\ c.pc # "idle" => a # "local")
  BY <1>2 DEF Commands
<1> HIDE DEF a
<1>4. /\ d \in Commands /\ d.pc = c.pc /\ d.context = c.context /\ d.bridge = c.bridge
      /\ d.kind = c.kind /\ d.text = c.text /\ d.file = c.file /\ d.fix = c.fix
      /\ d.asked = a /\ d.met = c.met
  BY <1>2, <1>3, Overtaken
<1> HIDE DEF d
<1>5. c.pc \in Beyond => c.pc # "idle"
  BY DEF Beyond, Holding
<1>6. Fits(d, n, None)
  BY <1>3, <1>4, <1>5 DEF Fits
<1>7. QED
  BY <1>1, <1>4, <1>6

\* Stop Local Model and a change of its settings clear alike.
LEMMA ClearsAlike == StopLocalModel \/ ChangeLocalModel => Clears
BY DEF StopLocalModel, ChangeLocalModel

LEMMA Clearing ==
  ASSUME ScanInv, SwitchMode \/ Clears \/ \E s \in Slots : FinishReset(s)
  PROVE  /\ flow' \in [Slots -> Commands]
         /\ \A r \in Slots : Fits(flow'[r], mode', pending')
<1>1. pending' = None
  BY DEF SwitchMode, Clears, FinishReset, ClearLiveSessionState
<1>2. \A r \in Slots : Killed(flow[r]) \in Commands /\ Fits(Killed(flow[r]), mode, None)
  BY KilledFits DEF ScanInv
<1>3. CASE SwitchMode
  <2>1. /\ flow' = [r \in Slots |-> OvertakenBy(mode', Killed(flow[r]))]
        /\ mode' \in {"api", "local"} \ {mode}
    BY <1>3 DEF SwitchMode
  <2>2. mode \in {"api", "local"}
    BY DEF ScanInv, Rest
  <2>3. \A r \in Slots : /\ OvertakenBy(mode', Killed(flow[r])) \in Commands
                         /\ Fits(OvertakenBy(mode', Killed(flow[r])), mode', None)
    BY <1>2, <2>1, <2>2, OvertakenFits
  <2>4. QED
    BY <1>1, <2>1, <2>3
<1>4. ASSUME NEW s \in Slots, FinishReset(s)
      PROVE  /\ flow' \in [Slots -> Commands]
             /\ \A r \in Slots : Fits(flow'[r], mode', pending')
  BY <1>1, <1>2, <1>4, IdleFits, IdleIsOne DEF FinishReset
<1>5. CASE Clears
  BY <1>1, <1>2, <1>5 DEF Clears
<1>6. QED
  BY <1>3, <1>4, <1>5

(***************************************************************************)
(* The module variables.                                                   *)
(***************************************************************************)
LEMMA RestOfCommands ==
  ASSUME ScanInv, NEW s \in Slots,
         \/ Scan(s) \/ PassGate(s) \/ BridgeIsUp(s) \/ Inferred(s) \/ MissingSymbols(s)
         \/ Cached(s) \/ StartRepairs(s) \/ Evicted(s) \/ Fail(s) \/ Reset(s) \/ Forget(s)
         \/ Resolve(s, "confirm") \/ Resolve(s, "skip")
  PROVE  Rest'
<1>1. UNCHANGED <<mode, text, cache, pending, session, stale, missed, timer>>
  BY DEF Scan, PassGate, BridgeIsUp, Inferred, MissingSymbols, Cached, StartRepairs, Evicted,
         Fail, Reset, Forget, Resolve
<1>2. QED
  BY <1>1, RestStays DEF ScanInv

\* At most one entry for a text.
LEMMA Storing ==
  ASSUME cache \subseteq Contexts, \A c, d \in cache : c.of = d.of => c = d,
         NEW k \in Contexts, Store(k.of, k)
  PROVE  cache' \subseteq Contexts /\ \A c, d \in cache' : c.of = d.of => c = d
BY DEF Store, CachedFor

LEMMA RestOfCache ==
  ASSUME ScanInv, NEW s \in Slots,
         Confirmed(s) \/ Accepted(s) \/ EditContext(s) \/ ForgetOne(s)
  PROVE  Rest'
<1>1. UNCHANGED <<mode, text, pending, session, stale, missed, timer>>
  BY DEF Confirmed, Accepted, EditContext, ForgetOne
<1>2. Fits(flow[s], mode, pending) /\ cache \subseteq Contexts
      /\ \A c, d \in cache : c.of = d.of => c = d
  BY DEF ScanInv, Rest
<1>3. \/ cache' \subseteq cache
      \/ \E k \in Contexts : Store(k.of, k)
  <2>1. CASE Confirmed(s)
    <3> DEFINE k == [of |-> flow[s].text, reviewed |-> flow[s].kind = "confirm"]
    <3>1. flow[s].text \in Texts
      BY <1>2, <2>1 DEF Confirmed, Fits, Beyond
    <3>2. k \in Contexts /\ k.of = flow[s].text
      BY <3>1 DEF Contexts
    <3>3. UNCHANGED cache \/ Store(flow[s].text, k)
      BY <2>1 DEF Confirmed
    <3> HIDE DEF k
    <3>4. QED
      BY <3>2, <3>3
  <2>2. CASE Accepted(s)
    <3>1. /\ flow[s].context # None /\ flow[s].context.of = flow[s].text
          /\ flow[s].context \in Contexts
      BY <1>2, <2>2 DEF Accepted, Fits, Holding, Commands
    <3>2. QED
      BY <2>2, <3>1 DEF Accepted
  <2>3. CASE EditContext(s) \/ ForgetOne(s)
    BY <2>3 DEF EditContext, ForgetOne, Evict
  <2>4. QED
    BY <2>1, <2>2, <2>3
<1>4. cache' \subseteq Contexts /\ \A c, d \in cache' : c.of = d.of => c = d
  BY <1>2, <1>3, Storing
<1>5. QED
  BY <1>1, <1>4 DEF ScanInv, Rest, FlagExactAcrossSessions

LEMMA RestOfReviews ==
  ASSUME ScanInv, NEW s \in Slots, OpenReview(s) \/ ReviewClosed(s)
  PROVE  Rest'
<1>1. UNCHANGED <<mode, text, cache, session, stale, missed, timer>>
  BY DEF OpenReview, ReviewClosed
<1>2. /\ pending' \in Reviews \cup {None}
      /\ mode = "api" /\ pending' # None => pending'.asked # "local"
  BY Opening DEF ReviewClosed
<1>3. QED
  BY <1>1, <1>2 DEF ScanInv, Rest, FlagExactAcrossSessions

LEMMA RestOfInstall ==
  ASSUME ScanInv, NEW s \in Slots, Install(s)
  PROVE  Rest'
<1> DEFINE new == [text |-> flow[s].text, context |-> flow[s].context, fix |-> flow[s].fix]
<1>1. /\ session' = new /\ stale' = FALSE
      /\ missed' = (text[FileOf(flow[s].text)] # flow[s].text)
      /\ UNCHANGED <<mode, text, cache, pending, timer>>
  BY DEF Install
<1>2. /\ flow[s].text \in Texts /\ flow[s].context \in Contexts /\ flow[s].fix \in BOOLEAN
      /\ flow[s].context.of = flow[s].text
  BY DEF Install, ScanInv, Fits, Beyond, Holding, Commands
<1>3. /\ new \in Sessions /\ new.text = flow[s].text /\ new.context = flow[s].context
  BY <1>2 DEF Sessions
<1> HIDE DEF new
<1>4. FlagExactAcrossSessions'
  BY <1>1, <1>3 DEF FlagExactAcrossSessions
<1>5. QED
  BY <1>1, <1>2, <1>3, <1>4 DEF ScanInv, Rest

LEMMA RestOfEnvironment ==
  ASSUME ScanInv, SwitchMode \/ Clears \/ Type \/ StaleCheck \/ \E s \in Slots : FinishReset(s)
  PROVE  Rest'
<1>1. CASE SwitchMode \/ Clears \/ \E s \in Slots : FinishReset(s)
  <2>1. /\ session' = None /\ pending' = None /\ timer' = None /\ stale' = FALSE
        /\ missed' = FALSE /\ UNCHANGED <<text, cache>>
        /\ mode' \in {"api", "local"}
    BY <1>1 DEF SwitchMode, Clears, FinishReset, ClearLiveSessionState, ScanInv, Rest
  <2>2. QED
    BY <2>1 DEF ScanInv, Rest, FlagExactAcrossSessions
<1>2. CASE Type
  <2>1. PICK f \in Files, t \in Texts :
          /\ FileOf(t) = f /\ text' = [text EXCEPT ![f] = t]
          /\ timer' = IF IsScanned(f) THEN f ELSE timer
          /\ missed' = (missed /\ ~IsScanned(f))
          /\ UNCHANGED <<mode, cache, pending, session, stale>>
    BY <1>2 DEF Type
  <2>2. FlagExactAcrossSessions'
    BY <2>1, ScanAssumption DEF FlagExactAcrossSessions, IsScanned, ScanInv, Rest, Sessions
  <2>3. /\ text' \in [Files -> Texts] /\ \A g \in Files : FileOf(text'[g]) = g
        /\ timer' \in Files \cup {None} /\ missed' \in BOOLEAN
    BY <2>1 DEF ScanInv, Rest
  <2>4. QED
    BY <2>1, <2>2, <2>3 DEF ScanInv, Rest
<1>3. CASE StaleCheck
  <2>1. /\ timer' = None /\ UNCHANGED <<mode, text, cache, pending, session>>
        /\ stale' \in BOOLEAN /\ missed' \in BOOLEAN
    BY <1>3 DEF StaleCheck, ScanInv, Rest
  <2>2. FlagExactAcrossSessions'
    BY <1>3, <2>1 DEF StaleCheck, FlagExactAcrossSessions, IsScanned, ScanInv, Rest
  <2>3. QED
    BY <2>1, <2>2 DEF ScanInv, Rest
<1>4. QED
  BY <1>1, <1>2, <1>3

LEMMA ScanInit == Init => ScanInv
<1> SUFFICES ASSUME Init PROVE ScanInv
  OBVIOUS
<1>1. Rest
  BY DEF Init, Rest, FlagExactAcrossSessions
<1>2. QED
  BY <1>1, IdleFits, IdleIsOne DEF Init, ScanInv

LEMMA ScanStep ==
  ASSUME ScanInv, [Next]_vars
  PROVE  ScanInv'
<1>1. CASE UNCHANGED vars
  BY <1>1, RestStays DEF vars, ScanInv
<1>2. CASE Type \/ StaleCheck
  <2>1. UNCHANGED <<mode, pending, flow>>
    BY <1>2 DEF Type, StaleCheck
  <2>2. QED
    BY <1>2, <2>1, RestOfEnvironment DEF ScanInv
<1>3. CASE SwitchMode \/ Clears \/ \E s \in Slots : FinishReset(s)
  BY <1>3, RestOfEnvironment, Clearing DEF ScanInv
<1>4. ASSUME NEW s \in Slots, Scan(s) \/ PassGate(s) \/ Evicted(s) PROVE ScanInv'
  BY <1>4, Entering, RestOfCommands DEF ScanInv
<1>5. ASSUME NEW s \in Slots,
             BridgeIsUp(s) \/ Inferred(s) \/ Confirmed(s) \/ MissingSymbols(s) \/ Accepted(s)
               \/ Cached(s)
      PROVE  ScanInv'
  BY <1>5, Requesting, RestOfCommands, RestOfCache DEF ScanInv
<1>6. ASSUME NEW s \in Slots, Install(s) \/ StartRepairs(s) \/ Fail(s) PROVE ScanInv'
  BY <1>6, Installing, RestOfCommands, RestOfInstall DEF ScanInv
<1>7. ASSUME NEW s \in Slots, Resolve(s, "confirm") \/ Resolve(s, "skip") PROVE ScanInv'
  BY <1>7, Resolving, RestOfCommands DEF ScanInv
<1>8. ASSUME NEW s \in Slots, OpenReview(s) \/ ReviewClosed(s) PROVE ScanInv'
  BY <1>8, Opening, Closing, RestOfReviews DEF ScanInv
<1>9. ASSUME NEW s \in Slots, EditContext(s) \/ Reset(s) \/ Forget(s) \/ ForgetOne(s)
      PROVE  ScanInv'
  BY <1>9, Maintaining, RestOfCommands, RestOfCache DEF ScanInv
<1>10. QED
  BY <1>1, <1>2, <1>3, <1>4, <1>5, <1>6, <1>7, <1>8, <1>9, ClearsAlike DEF Next

\* The changes of the settings are counted.
Counted == switches \in Nat
LEMMA SwitchesCount == Spec => []Counted
<1>1. Init => Counted
  BY DEF Init, Counted
<1>2. Counted /\ [Next]_vars => Counted'
  <2> SUFFICES ASSUME switches \in Nat, [Next]_vars PROVE switches' \in Nat
    BY DEF Counted
  <2>1. CASE UNCHANGED vars \/ SwitchMode \/ Clears \/ Type \/ StaleCheck
    BY <2>1 DEF vars, limits, SwitchMode, Clears, Type, StaleCheck
  <2>2. ASSUME NEW s \in Slots,
               Scan(s) \/ EditContext(s) \/ Reset(s)
                 \/ Resolve(s, "confirm") \/ Resolve(s, "skip")
        PROVE  UNCHANGED switches
    BY <2>2 DEF Scan, EditContext, Reset, Resolve, Begins
  <2>3. ASSUME NEW s \in Slots,
               \/ PassGate(s) \/ BridgeIsUp(s) \/ Inferred(s) \/ OpenReview(s)
               \/ Confirmed(s) \/ MissingSymbols(s) \/ Accepted(s) \/ Cached(s)
               \/ ReviewClosed(s) \/ Install(s) \/ StartRepairs(s) \/ Evicted(s) \/ Fail(s)
               \/ Forget(s) \/ ForgetOne(s) \/ FinishReset(s)
        PROVE  UNCHANGED switches
    BY <2>3 DEF PassGate, BridgeIsUp, Inferred, OpenReview, Confirmed, MissingSymbols, Accepted,
           Cached, ReviewClosed, Install, StartRepairs, Evicted, Fail, Forget, ForgetOne,
           FinishReset, limits
  <2>4. QED
    BY <2>1, <2>2, <2>3, ClearsAlike DEF Next
<1>3. QED
  BY <1>1, <1>2, PTL DEF Spec

(***************************************************************************)
(* What follows.                                                           *)
(***************************************************************************)

\* The types are right, for any number of scans, reviews and edits at the same time.
THEOREM ScanTypeCorrect == Spec => []ScanTypeOK
<1>1. ScanInv => ScanTypeOK
  BY DEF ScanInv, Rest, Fits, ScanTypeOK
<1>2. QED
  BY <1>1, ScanInit, ScanStep, PTL DEF Spec

\* What was inferred and confirmed for one text is used for that text only, whatever is edited,
\* scanned and reviewed meanwhile (runScanWithConfirmed).
THEOREM ContextAlwaysBelongs == Spec => []ContextBelongs
<1>1. ScanInv => ContextBelongs
  BY DEF ScanInv, Rest, Fits, ContextBelongs
<1>2. QED
  BY <1>1, ScanInit, ScanStep, PTL DEF Spec

\* The flag of the session on display is right whenever no check is due (onDocumentChanged).
THEOREM FlagAlwaysExact == Spec => []FlagExactAcrossSessions
<1>1. ScanInv => FlagExactAcrossSessions
  BY DEF ScanInv, Rest
<1>2. QED
  BY <1>1, ScanInit, ScanStep, PTL DEF Spec

\* Nothing goes over the API that began locally, and no review made locally is left for it
\* (scanCurrentFile, clearLiveSessionState).
THEOREM AlwaysAsked == Spec => []AskedUnlessOvertaken
<1>1. ScanInv => AskedUnlessOvertaken
  BY DEF ScanInv, Rest, Fits, AskedUnlessOvertaken, Requests, Beyond, Holding
<1>2. QED
  BY <1>1, ScanInit, ScanStep, PTL DEF Spec

\* No step takes away a review but the commands given for it (confirmContextAndScan).
THEOREM ReviewAlwaysKept == Spec => ReviewIsKept
<1> DEFINE Kept ==
      pending # None /\ pending' = None =>
        \/ \E s \in Slots : /\ flow[s].kind \in {"confirm", "skip"} /\ flow[s].context # None
                            /\ flow'[s].pc \in {"scanning", "idle"}
                            /\ IsFor(s, pending) \/ flow[s].met
        \/ switches' # switches
        \/ \E s \in Slots : flow[s].kind = "reset" /\ flow'[s].pc = "idle"
<1>1. ScanInv /\ Counted /\ [Next]_vars => [Kept]_vars
  <2> SUFFICES ASSUME ScanInv, switches \in Nat, Next, pending # None, pending' = None
               PROVE  Kept
    BY DEF Counted
  <2>1. SwitchMode \/ Clears \/ \E s \in Slots : OpenReview(s) \/ ReviewClosed(s) \/ FinishReset(s)
    <3>1. \A s \in Slots : \/ Scan(s) \/ PassGate(s) \/ BridgeIsUp(s) \/ Inferred(s)
                           \/ Resolve(s, "confirm") \/ Resolve(s, "skip") \/ Confirmed(s)
                           \/ MissingSymbols(s) \/ Accepted(s) \/ Cached(s) \/ Install(s)
                           \/ StartRepairs(s) \/ EditContext(s) \/ Evicted(s) \/ Fail(s)
                           \/ Reset(s) \/ Forget(s) \/ ForgetOne(s)
                           => pending' = pending
      BY DEF Scan, PassGate, BridgeIsUp, Inferred, Resolve, Confirmed, MissingSymbols, Accepted,
             Cached, Install, StartRepairs, EditContext, Evicted, Fail, Reset, Forget, ForgetOne
    <3>2. Type \/ StaleCheck => pending' = pending
      BY DEF Type, StaleCheck
    <3>3. QED
      BY <3>1, <3>2, ClearsAlike DEF Next
  <2>2. CASE SwitchMode \/ Clears
    <3>1. switches' = switches + 1 /\ switches \in Nat
      BY <2>2 DEF SwitchMode, Clears
    <3>2. QED
      BY <3>1
  <2>3. ASSUME NEW s \in Slots, OpenReview(s) PROVE Kept
    <3>1. pending' \in Reviews
      BY <2>3, Opening
    <3>2. QED
      BY <3>1, ScanAssumption
  <2>4. ASSUME NEW s \in Slots, FinishReset(s) PROVE Kept
    BY <2>4, IdleIsOne DEF FinishReset, ScanInv, Fits
  <2>5. ASSUME NEW s \in Slots, ReviewClosed(s) PROVE Kept
    <3>6. Fits(flow[s], mode, pending) /\ flow[s].pc = "closing"
      BY <2>5 DEF ReviewClosed, ScanInv
    <3>1. /\ flow[s].kind \in {"confirm", "skip"} /\ flow[s].context # None
          /\ IsFor(s, pending) \/ flow[s].met
      BY <3>6 DEF Fits, Holding, IsFor
    <3>2. flow[s] \in Commands /\ "scanning" \in Waiting
      BY DEF ScanInv, Waiting, Requests
    <3>3. Moves(s, [flow[s] EXCEPT !.pc = "scanning"]) \/ Moves(s, Idle)
      BY <2>5 DEF ReviewClosed, Sends
    <3>4. flow'[s].pc \in {"scanning", "idle"}
      <4> DEFINE d == [flow[s] EXCEPT !.pc = "scanning"]
      <4>1. d.pc = "scanning"
        BY <3>2, Moved
      <4> HIDE DEF d
      <4>2. flow' = [flow EXCEPT ![s] = d] \/ flow' = [flow EXCEPT ![s] = Idle]
        BY <3>3 DEF Moves, d
      <4>3. flow'[s] = d \/ flow'[s] = Idle
        BY <4>2 DEF ScanInv
      <4>4. QED
        BY <4>1, <4>3, IdleIsOne
    <3>5. QED
      BY <3>1, <3>4
  <2>6. QED
    BY <2>1, <2>2, <2>3, <2>4, <2>5
<1>2. QED
  BY <1>1, ScanInit, ScanStep, SwitchesCount, PTL DEF Spec, ReviewIsKept
=============================================================================
