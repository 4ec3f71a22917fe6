------------------------ MODULE LocalInstall_proofs ------------------------
(* Theorems about the install lock and the engine it guards, for any       *)
(* number of windows.                                                      *)
EXTENDS LocalInstall, TLAPS

(***************************************************************************)
(* The lock, while no window dies, and between two windows.                *)
(***************************************************************************)
Owning == Inside \cup {"signing"}
AtMostTwo == \A u, v, w \in Windows : u = v \/ v = w \/ u = w

\* Whoever is past the open of the lock file is in it; a lock is broken by the last to live.
LockIsOwners ==
  /\ at \in [Windows -> Places]
  /\ lock \in Locks \cup {None}
  /\ \A w \in Windows : /\ at[w] = "dead" => w \in Fragile
                        /\ at[w] = "breaking" => \A v \in Windows \ {w} : at[v] = "dead"
                        /\ at[w] \in Owning => lock # None /\ lock.by = w

LEMMA LockInit == Init => LockIsOwners
BY DEF Init, LockIsOwners, Places, Outside, Owning, Inside, Fetching, Filling

LEMMA LockStep ==
  ASSUME Fragile = {} \/ AtMostTwo, LockIsOwners, [Next]_vars
  PROVE  LockIsOwners'
<1> USE DEF LockIsOwners, Goes, Places, Outside, Owning, Inside, Fetching, Filling, Waiting,
            Bootstrapping, Locks
<1>1. CASE UNCHANGED vars
  BY <1>1 DEF vars
<1>2. ASSUME NEW w \in Windows, Begin(w) PROVE LockIsOwners'
  BY <1>2 DEF Begin
<1>3. ASSUME NEW w \in Windows, StopWaiting(w) PROVE LockIsOwners'
  BY <1>3 DEF StopWaiting
<1>4. ASSUME NEW w \in Windows, Dies(w) PROVE LockIsOwners'
  BY <1>4 DEF Dies
<1>5. ASSUME NEW w \in Windows, Step(w) PROVE LockIsOwners'
  <2>12. at[w] # "dead" => \A v \in Windows \ {w} : at[v] # "breaking"
    OBVIOUS
  <2>1. CASE \/ Resolve(w) \/ BundleVerified(w) \/ UvFound(w) \/ ClearVenv(w) \/ VenvCreated(w)
             \/ Installed(w) \/ Started(w) \/ BootstrapFails(w)
    BY <2>1 DEF Resolve, BundleVerified, UvFound, ClearVenv, VenvCreated, Installed, Started,
                BootstrapFails
  <2>2. CASE OpenLock(w)
    <3>1. CASE lock = None
      <4>1. lock' = [by |-> w, signed |-> FALSE] /\ at' = [at EXCEPT ![w] = "signing"]
        BY <2>2, <3>1 DEF OpenLock
      <4>5. lock' \in Locks
        BY <4>1
      <4>2. \A v \in Windows : v # w => at[v] \notin Owning
        BY <3>1
      <4>3. lock' # None /\ lock'.by = w
        BY <4>1, <4>5, InstallAssumption
      <4>6. at[w] # "dead"
        BY <2>2 DEF OpenLock
      <4>4. QED
        BY <2>12, <4>1, <4>2, <4>3, <4>5, <4>6
    <3>2. CASE lock # None
      <4>1. lock' = lock /\ at' = [at EXCEPT ![w] = "judging"]
        BY <2>2, <3>2 DEF OpenLock
      <4>2. at[w] = "locking"
        BY <2>2 DEF OpenLock
      <4>3. QED
        BY <2>12, <4>1, <4>2
    <3>3. QED
      BY <3>1, <3>2
  <2>3. CASE SignLock(w)
    <3>1. lock # None /\ lock.by = w /\ lock \in Locks
      BY <2>3 DEF SignLock
    <3>2. lock' = [lock EXCEPT !.signed = TRUE] /\ at' = [at EXCEPT ![w] = "ready"]
      BY <2>3, <3>1 DEF SignLock
    <3>3. lock' \in Locks /\ lock'.by = w
      BY <3>1, <3>2
    <3>4. lock' # None
      BY <3>3, InstallAssumption
    <3>6. at[w] = "signing"
      BY <2>3 DEF SignLock
    <3>5. QED
      BY <2>12, <3>1, <3>2, <3>3, <3>4, <3>6
  <2>9. CASE SignFails(w)
    BY <2>9 DEF SignFails
  <2>10. CASE Unlock(w)
    <3>1. \A v \in Windows : v # w => at[v] \notin Owning
      BY <2>10 DEF Unlock
    <3>2. lock' = None /\ \E place \in {"using", "idle"} : at' = [at EXCEPT ![w] = place]
      BY <2>10 DEF Unlock
    <3>4. at[w] \in {"leaving", "returning"}
      BY <2>10 DEF Unlock
    <3>3. QED
      BY <2>12, <3>1, <3>2, <3>4
  <2>4. CASE JudgeLock(w)
    <3>1. CASE lock # None /\ Dead(lock)
      <4>1. lock.by \in Windows /\ lock.by # w /\ at[lock.by] = "dead" /\ AtMostTwo
        BY <2>4, <3>1 DEF JudgeLock, Dead
      <4>2. \A v \in Windows \ {w} : v = lock.by
        BY <4>1 DEF AtMostTwo
      <4>3. lock' = lock /\ at' = [at EXCEPT ![w] = "breaking"]
        BY <2>4, <3>1 DEF JudgeLock
      <4>4. QED
        BY <2>4, <4>1, <4>2, <4>3 DEF JudgeLock
    <3>2. CASE ~(lock # None /\ Dead(lock))
      BY <2>4, <3>2 DEF JudgeLock
    <3>3. QED
      BY <3>1, <3>2
  <2>11. CASE BreakLock(w)
    <3>1. lock' = None /\ at' = [at EXCEPT ![w] = "locking"] /\ \A v \in Windows \ {w} : at[v] = "dead"
      BY <2>11 DEF BreakLock
    <3>2. QED
      BY <3>1
  <2>5. CASE \/ LookAtFile(w) \/ Request(w) \/ Receive(w) \/ ResponseEnds(w) \/ CheckDownload(w)
    BY <2>5 DEF LookAtFile, Request, Receive, ResponseEnds, CheckDownload
  <2>6. CASE \/ LookAtEngine(w) \/ ClearStaging(w) \/ Unpack(w) \/ Probe(w) \/ WriteReady(w)
    BY <2>6 DEF LookAtEngine, ClearStaging, Unpack, Probe, WriteReady
  <2>7. CASE RemoveOld(w) \/ RenameStaging(w) \/ CleanUp(w) \/ InstallFails(w)
    BY <2>7 DEF RemoveOld, RenameStaging, CleanUp, InstallFails
  <2>8. QED
    BY <1>5, <2>1, <2>2, <2>3, <2>4, <2>5, <2>6, <2>7, <2>9, <2>10, <2>11 DEF Step
<1>6. QED
  BY <1>1, <1>2, <1>3, <1>4, <1>5 DEF Next

\* Any number of windows set up one at a time, whatever fails and is cancelled, as long as no
\* window dies with the lock in its hand (withAssetLock).
THEOREM SerializedWhileAllLive ==
  ASSUME Fragile = {}
  PROVE  Spec => []Serialized
<1>1. LockIsOwners => Serialized
  BY DEF LockIsOwners, Serialized, Owning
<1>2. QED
  BY <1>1, LockInit, LockStep, PTL DEF Spec

\* So do two windows, whichever of them dies and whenever: whoever takes a dead window's lock
\* away is the only one left.  A third window is what it takes for two to be inside.
THEOREM SerializedBetweenTwo ==
  ASSUME AtMostTwo
  PROVE  Spec => []Serialized
<1>1. LockIsOwners => Serialized
  BY DEF LockIsOwners, Serialized, Owning
<1>2. QED
  BY <1>1, LockInit, LockStep, PTL DEF Spec

(***************************************************************************)
(* The engine, wherever the lock serializes, whatever dies.                *)
(***************************************************************************)
Handing == {"using", "returning"}
Building == (Fetching \ {"ready"}) \cup Filling

\* What is being put together is as far as its step says; what is listed in the engine's
\* ready.json is everything, from the right archive; nobody builds while somebody uses.
EngineInv ==
  /\ staging \in Directory /\ dest \in Directory
  /\ dest.lists \in {{}, Files} /\ (dest.lists = Files => dest.good)
  /\ \A w \in Windows :
       /\ at[w] \in Filling \cup {"staging"} => file = "good"
       /\ at[w] \in Filling => staging.good
       /\ at[w] \in {"unpacking", "probing", "marking"} => staging.lists = {}
       /\ at[w] \in {"probing", "marking", "removing", "renaming"} => staging.files = Files
       /\ at[w] \in {"removing", "renaming"} => staging.lists = Files
       /\ at[w] \in Handing => Usable(dest)
       /\ at[w] \in Building => \A v \in Windows : at[v] \notin Handing

Typed ==
  /\ at \in [Windows -> Places] /\ task \in [Windows -> {"local", "bridge"}]
  /\ configured \in {"none", "found", "missing"} /\ venv \in {"none", "bare", "whole"}
  /\ disturbed \in [Windows -> BOOLEAN] /\ cut \in BOOLEAN
  /\ lock \in Locks \cup {None}
  /\ part \in [n : 0 .. Chunks + 1, good : BOOLEAN] /\ file \in {"none", "good", "bad"}

IInv == Typed /\ EngineInv

LEMMA InvImplies == IInv => InstallTypeOK /\ EngineIsWhole
BY DEF IInv, Typed, EngineInv, InstallTypeOK, EngineIsWhole, Usable, Files, Directory, Handing

\* What a directory is, for the proofs that do not look into it.
LEMMA EmptyDirectory ==
  /\ NoDirectory \in Directory
  /\ NoDirectory.files = {} /\ NoDirectory.lists = {} /\ NoDirectory.good = TRUE
BY DEF NoDirectory, Directory

LEMMA Fields ==
  ASSUME NEW d \in Directory
  PROVE  /\ d.files \subseteq Files /\ d.lists \subseteq Files /\ d.good \in BOOLEAN
         /\ \A s \in SUBSET Files : /\ [d EXCEPT !.files = s] \in Directory
                                    /\ [d EXCEPT !.files = s].files = s
                                    /\ [d EXCEPT !.files = s].lists = d.lists
                                    /\ [d EXCEPT !.files = s].good = d.good
         /\ \A s \in SUBSET Files : /\ [d EXCEPT !.lists = s] \in Directory
                                    /\ [d EXCEPT !.lists = s].lists = s
                                    /\ [d EXCEPT !.lists = s].files = d.files
                                    /\ [d EXCEPT !.lists = s].good = d.good
         /\ \A g \in BOOLEAN : /\ [d EXCEPT !.good = g] \in Directory
                               /\ [d EXCEPT !.good = g].good = g
                               /\ [d EXCEPT !.good = g].lists = d.lists
                               /\ [d EXCEPT !.good = g].files = d.files
BY DEF Directory

LEMMA EmptyPart == NoPart \in [n : 0 .. Chunks + 1, good : BOOLEAN]
BY InstallAssumption DEF NoPart

LEMMA EngineInit == Init => IInv
<1> SUFFICES ASSUME Init PROVE IInv
  OBVIOUS
<1>1. Typed
  <2>1. part \in [n : 0 .. Chunks + 1, good : BOOLEAN]
    <3>1. CASE part = NoPart
      BY <3>1, EmptyPart
    <3>2. CASE part = [n |-> 1, good |-> FALSE]
      BY <3>2, InstallAssumption
    <3>3. CASE part = [n |-> Chunks + 1, good |-> FALSE]
      BY <3>3, InstallAssumption
    <3>4. QED
      BY <3>1, <3>2, <3>3 DEF Init
  <2>2. QED
    BY <2>1 DEF Init, Typed, Places, Outside
<1>2. EngineInv
  <2>1. staging \in Directory
    <3>1. [files |-> {"server"}, lists |-> {}, good |-> TRUE] \in Directory
      BY DEF Directory, Files
    <3>2. QED
      BY <3>1, EmptyDirectory DEF Init
  <2>2. /\ dest \in Directory /\ dest.lists \in {{}, Files}
        /\ (dest.lists = Files => dest.good)
    <3>1. CASE dest = NoDirectory
      BY <3>1, EmptyDirectory DEF Files
    <3>2. CASE dest = [files |-> Files, lists |-> {}, good |-> FALSE]
      BY <3>2 DEF Directory, Files
    <3>3. CASE dest = [files |-> {"server"}, lists |-> Files, good |-> TRUE]
      BY <3>3 DEF Directory, Files
    <3>4. QED
      BY <3>1, <3>2, <3>3 DEF Init
  <2>3. \A w \in Windows : at[w] = "idle"
    BY DEF Init
  <2>4. QED
    BY <2>1, <2>2, <2>3 DEF EngineInv, Handing, Building, Filling, Fetching
<1>3. QED
  BY <1>1, <1>2 DEF IInv

LEMMA TypedStep ==
  ASSUME Typed, [Next]_vars
  PROVE  Typed'
<1> USE DEF Typed, Goes, Places, Outside, Inside, Fetching, Filling, Waiting, Bootstrapping
<1>1. CASE UNCHANGED vars
  BY <1>1 DEF vars, who, environment, archive, engine
<1>2. ASSUME NEW w \in Windows, Begin(w) PROVE Typed'
  BY <1>2 DEF Begin, environment, archive, engine
<1>3. ASSUME NEW w \in Windows, StopWaiting(w) \/ Dies(w) PROVE Typed'
  BY <1>3 DEF StopWaiting, Dies, who, environment, archive, engine
<1>4. ASSUME NEW w \in Windows, Step(w) PROVE Typed'
  <2> USE DEF who, environment, archive, engine
  <2>1. CASE Resolve(w) \/ BundleVerified(w) \/ UvFound(w) \/ Started(w) \/ BootstrapFails(w)
    BY <2>1 DEF Resolve, BundleVerified, UvFound, Started, BootstrapFails
  <2>2. CASE ClearVenv(w) \/ VenvCreated(w) \/ Installed(w)
    BY <2>2 DEF ClearVenv, VenvCreated, Installed
  <2>3. CASE OpenLock(w) \/ SignLock(w)
    <3>1. lock' \in Locks \cup {None}
      <4>1. lock' \in {lock, [by |-> w, signed |-> FALSE], [lock EXCEPT !.signed = TRUE]}
        BY <2>3 DEF OpenLock, SignLock
      <4>2. [by |-> w, signed |-> FALSE] \in Locks
        BY DEF Locks
      <4>3. lock \in Locks => [lock EXCEPT !.signed = TRUE] \in Locks
        BY DEF Locks
      <4>4. lock' = [lock EXCEPT !.signed = TRUE] => lock \in Locks \/ lock' = lock
                                                    \/ lock' = [by |-> w, signed |-> FALSE]
        BY <2>3 DEF OpenLock, SignLock
      <4>5. QED
        BY <4>1, <4>2, <4>3, <4>4
    <3>2. QED
      BY <2>3, <3>1 DEF OpenLock, SignLock
  <2>4. CASE SignFails(w) \/ Unlock(w) \/ JudgeLock(w) \/ BreakLock(w)
    BY <2>4 DEF SignFails, Unlock, JudgeLock, BreakLock
  <2>5. CASE LookAtFile(w) \/ Request(w) \/ ResponseEnds(w) \/ CheckDownload(w)
    <3>1. part' \in {part, NoPart}
      BY <2>5 DEF LookAtFile, Request, ResponseEnds, CheckDownload
    <3>2. part' \in [n : 0 .. Chunks + 1, good : BOOLEAN]
      BY <3>1, EmptyPart
    <3>3. CASE LookAtFile(w)
      BY <3>2, <3>3 DEF LookAtFile
    <3>4. CASE Request(w) \/ ResponseEnds(w)
      BY <3>2, <3>4 DEF Request, ResponseEnds
    <3>5. CASE CheckDownload(w)
      BY <3>2, <3>5 DEF CheckDownload
    <3>6. QED
      BY <2>5, <3>3, <3>4, <3>5
  <2>6. CASE Receive(w)
    BY <2>6, InstallAssumption DEF Receive
  <2>7. CASE \/ LookAtEngine(w) \/ ClearStaging(w) \/ Unpack(w) \/ Probe(w) \/ WriteReady(w)
             \/ RemoveOld(w) \/ RenameStaging(w) \/ CleanUp(w) \/ InstallFails(w)
    BY <2>7 DEF LookAtEngine, ClearStaging, Unpack, Probe, WriteReady, RemoveOld,
                RenameStaging, CleanUp, InstallFails
  <2>8. QED
    BY <1>4, <2>1, <2>2, <2>3, <2>4, <2>5, <2>6, <2>7 DEF Step
<1>5. QED
  BY <1>1, <1>2, <1>3, <1>4 DEF Next

LEMMA EngineStep ==
  ASSUME IInv, Serialized, [Next]_vars
  PROVE  EngineInv'
<1> USE DEF IInv, Typed, EngineInv, Serialized, Goes, Places, Outside, Inside, Fetching, Filling,
            Waiting, Bootstrapping, Handing, Building, Usable
<1>1. CASE UNCHANGED vars
  BY <1>1 DEF vars, who, environment, archive, engine
<1>2. ASSUME NEW w \in Windows, Begin(w) \/ StopWaiting(w) \/ Dies(w) PROVE EngineInv'
  BY <1>2 DEF Begin, StopWaiting, Dies, environment, archive, engine
<1>4. ASSUME NEW w \in Windows, Step(w) PROVE EngineInv'
  <2>1. CASE \/ Resolve(w) \/ BundleVerified(w) \/ UvFound(w) \/ ClearVenv(w) \/ VenvCreated(w)
             \/ Installed(w) \/ Started(w) \/ BootstrapFails(w)
    BY <2>1 DEF Resolve, BundleVerified, UvFound, ClearVenv, VenvCreated, Installed, Started,
                BootstrapFails, archive, engine
  <2>2. CASE \/ OpenLock(w) \/ SignLock(w) \/ SignFails(w) \/ Unlock(w) \/ JudgeLock(w)
             \/ BreakLock(w)
    BY <2>2 DEF OpenLock, SignLock, SignFails, Unlock, JudgeLock, BreakLock, archive, engine
  <2>3. CASE LookAtEngine(w)
    BY <2>3 DEF LookAtEngine, archive, engine
  <2>4. CASE LookAtFile(w)
    BY <2>4 DEF LookAtFile, archive, engine
  <2>5. CASE Request(w) \/ Receive(w) \/ ResponseEnds(w) \/ CheckDownload(w)
    BY <2>5 DEF Request, Receive, ResponseEnds, CheckDownload, archive, engine
  <2>6. CASE ClearStaging(w)
    <3>1. staging' = [NoDirectory EXCEPT !.good = TRUE]
      BY <2>6 DEF ClearStaging
    <3>2. staging' \in Directory /\ staging'.good /\ staging'.lists = {}
      BY <3>1, EmptyDirectory, Fields
    <3>3. QED
      BY <2>6, <3>2 DEF ClearStaging, archive
  <2>7. CASE Unpack(w)
    <3>1. PICK f \in Files \ staging.files :
             /\ staging' = [staging EXCEPT !.files = staging.files \cup {f}]
             /\ Goes(w, IF staging.files \cup {f} = Files THEN "probing" ELSE "unpacking")
      BY <2>7 DEF Unpack
    <3>2. staging.files \cup {f} \in SUBSET Files
      BY Fields
    <3>3. /\ staging' \in Directory /\ staging'.files = staging.files \cup {f}
          /\ staging'.lists = staging.lists /\ staging'.good = staging.good
      BY <3>1, <3>2, Fields
    <3>4. QED
      BY <2>7, <3>1, <3>3 DEF Unpack, archive
  <2>8. CASE Probe(w)
    BY <2>8 DEF Probe, archive, engine
  <2>9. CASE WriteReady(w)
    <3>1. staging.lists \cup staging.files = Files
      BY <2>9, Fields DEF WriteReady
    <3>2. /\ staging' \in Directory /\ staging'.files = staging.files
          /\ staging'.lists = Files /\ staging'.good = staging.good
      BY <2>9, <3>1, Fields DEF WriteReady
    <3>3. QED
      BY <2>9, <3>2 DEF WriteReady, archive
  <2>10. CASE RemoveOld(w)
    <3>1. /\ dest' \in Directory /\ dest'.lists \in {{}, dest.lists}
          /\ dest'.lists = Files => dest'.good
      <4>1. CASE dest.files = {}
        BY <2>10, <4>1, EmptyDirectory DEF RemoveOld, Files
      <4>2. CASE dest.files # {} /\ \E f \in dest.files : dest' = [dest EXCEPT !.files = dest.files \ {f}]
        <5>1. PICK f : dest' = [dest EXCEPT !.files = dest.files \ {f}]
          BY <4>2
        <5>2. dest.files \ {f} \in SUBSET Files
          BY Fields
        <5>3. QED
          BY <5>1, <5>2, Fields
      <4>3. CASE dest' = [dest EXCEPT !.lists = {}]
        BY <4>3, Fields DEF Files
      <4>4. QED
        BY <2>10, <4>1, <4>2, <4>3 DEF RemoveOld
    <3>2. at' = at \/ Goes(w, "renaming")
      BY <2>10 DEF RemoveOld
    <3>3. at[w] = "removing" /\ UNCHANGED <<staging, file>>
      BY <2>10 DEF RemoveOld, archive
    <3>4. QED
      BY <3>1, <3>2, <3>3
  <2>11. CASE RenameStaging(w)
    <3>1. dest' = staging /\ staging' = NoDirectory /\ Goes(w, "returning") /\ at[w] = "renaming"
      BY <2>11 DEF RenameStaging
    <3>2. dest'.files = Files /\ dest'.lists = Files /\ dest'.good /\ dest' \in Directory
      BY <3>1
    <3>3. "server" \in Files
      BY DEF Files
    <3>4. QED
      BY <2>11, <3>1, <3>2, <3>3, EmptyDirectory DEF RenameStaging, archive
  <2>12. CASE CleanUp(w)
    BY <2>12, EmptyDirectory DEF CleanUp, archive
  <2>13. CASE InstallFails(w)
    BY <2>13 DEF InstallFails, archive, engine
  <2>14. QED
    BY <1>4, <2>13, <2>1, <2>2, <2>3, <2>4, <2>5, <2>6, <2>7, <2>8, <2>9, <2>10, <2>11, <2>12 DEF Step
<1>5. QED
  BY <1>1, <1>2, <1>4 DEF Next

\* Wherever the lock does serialize the windows, the types are right and the engine is whole,
\* whichever of them die, fail or are cancelled, at whatever step (prepareReleaseEngine).
THEOREM EngineStaysWhole == Spec /\ []Serialized => [](InstallTypeOK /\ EngineIsWhole)
<1>1. IInv /\ Serialized /\ [Next]_vars => IInv'
  BY TypedStep, EngineStep DEF IInv
<1>2. QED
  BY <1>1, InvImplies, EngineInit, PTL DEF Spec

\* Both together: while no window dies, and between two of which both may.
THEOREM InstalledWhole ==
  ASSUME Fragile = {} \/ AtMostTwo
  PROVE  Spec => []EngineIsWhole
<1>1. CASE Fragile = {}
  BY <1>1, SerializedWhileAllLive, EngineStaysWhole, PTL
<1>2. CASE AtMostTwo
  BY <1>2, SerializedBetweenTwo, EngineStaysWhole, PTL
<1>3. QED
  BY <1>1, <1>2

(***************************************************************************)
(* The archive, whoever is inside.                                         *)
(***************************************************************************)
\* An archive is unpacked only after it has been verified, and one that has been is kept.
ArchiveInv ==
  /\ Typed /\ staging \in Directory /\ dest \in Directory
  /\ \A w \in Windows : at[w] \in Filling \cup {"staging"} => file = "good"

LEMMA ArchiveStep ==
  ASSUME ArchiveInv, [Next]_vars
  PROVE  ArchiveInv'
<1> USE DEF ArchiveInv, Goes, Places, Outside, Inside, Fetching, Filling, Waiting, Bootstrapping
<1>1. Typed'
  BY TypedStep
<1> USE <1>1 DEF Typed
<1>2. CASE UNCHANGED vars
  BY <1>2 DEF vars, archive, engine
<1>3. ASSUME NEW w \in Windows, Begin(w) \/ StopWaiting(w) \/ Dies(w) PROVE ArchiveInv'
  BY <1>3 DEF Begin, StopWaiting, Dies, archive, engine
<1>4. ASSUME NEW w \in Windows, Step(w) PROVE ArchiveInv'
  <2>1. CASE \/ Resolve(w) \/ BundleVerified(w) \/ UvFound(w) \/ ClearVenv(w) \/ VenvCreated(w)
             \/ Installed(w) \/ Started(w) \/ BootstrapFails(w)
    BY <2>1 DEF Resolve, BundleVerified, UvFound, ClearVenv, VenvCreated, Installed, Started,
                BootstrapFails, archive, engine
  <2>2. CASE \/ OpenLock(w) \/ SignLock(w) \/ SignFails(w) \/ Unlock(w) \/ JudgeLock(w)
             \/ BreakLock(w) \/ LookAtEngine(w) \/ Probe(w) \/ InstallFails(w)
    BY <2>2 DEF OpenLock, SignLock, SignFails, Unlock, JudgeLock, BreakLock, LookAtEngine,
                Probe, InstallFails, archive, engine
  <2>3. CASE LookAtFile(w)
    BY <2>3 DEF LookAtFile, archive, engine
  <2>4. CASE Request(w) \/ Receive(w) \/ ResponseEnds(w) \/ CheckDownload(w)
    BY <2>4 DEF Request, Receive, ResponseEnds, CheckDownload, archive, engine
  <2>5. CASE ClearStaging(w)
    <3>1. PICK g \in BOOLEAN : staging' = [NoDirectory EXCEPT !.good = g]
      BY <2>5 DEF ClearStaging
    <3>2. staging' \in Directory
      BY <3>1, EmptyDirectory, Fields
    <3>3. QED
      BY <2>5, <3>2 DEF ClearStaging, archive
  <2>6. CASE Unpack(w)
    <3>1. PICK f \in Files \ staging.files :
             staging' = [staging EXCEPT !.files = staging.files \cup {f}]
      BY <2>6 DEF Unpack
    <3>2. staging.files \cup {f} \in SUBSET Files
      BY Fields
    <3>3. staging' \in Directory
      BY <3>1, <3>2, Fields
    <3>4. QED
      BY <2>6, <3>3 DEF Unpack, archive
  <2>7. CASE WriteReady(w)
    <3>1. staging.lists \cup staging.files \in SUBSET Files
      BY Fields
    <3>2. staging' \in Directory
      BY <2>7, <3>1, Fields DEF WriteReady
    <3>3. QED
      BY <2>7, <3>2 DEF WriteReady, archive
  <2>8. CASE RemoveOld(w)
    <3>1. dest' \in Directory
      <4>1. CASE dest.files = {}
        BY <2>8, <4>1, EmptyDirectory DEF RemoveOld
      <4>2. CASE dest.files # {} /\ \E f \in dest.files : dest' = [dest EXCEPT !.files = dest.files \ {f}]
        <5>1. PICK f : dest' = [dest EXCEPT !.files = dest.files \ {f}]
          BY <4>2
        <5>2. dest.files \ {f} \in SUBSET Files
          BY Fields
        <5>3. QED
          BY <5>1, <5>2, Fields
      <4>3. CASE dest' = [dest EXCEPT !.lists = {}]
        BY <4>3, Fields
      <4>4. QED
        BY <2>8, <4>1, <4>2, <4>3 DEF RemoveOld
    <3>2. at' = at \/ Goes(w, "renaming")
      BY <2>8 DEF RemoveOld
    <3>3. at[w] = "removing" /\ UNCHANGED <<staging, file>>
      BY <2>8 DEF RemoveOld, archive
    <3>4. QED
      BY <3>1, <3>2, <3>3
  <2>9. CASE RenameStaging(w)
    BY <2>9, EmptyDirectory DEF RenameStaging, archive
  <2>10. CASE CleanUp(w)
    BY <2>10, EmptyDirectory DEF CleanUp, archive
  <2>11. QED
    BY <1>4, <2>1, <2>2, <2>3, <2>4, <2>5, <2>6, <2>7, <2>8, <2>9, <2>10 DEF Step
<1>5. QED
  BY <1>2, <1>3, <1>4 DEF Next

\* The types are right, and nothing is unpacked, probed, listed or put in place but from an
\* archive whose checksum was the right one, for any number of windows, even where two of
\* them are inside at once (downloadAsset).
THEOREM InstallTypeCorrect == Spec => []InstallTypeOK
<1>1. Init => ArchiveInv
  BY EngineInit DEF IInv, EngineInv, ArchiveInv
<1>2. ArchiveInv => InstallTypeOK
  BY DEF ArchiveInv, Typed, InstallTypeOK
<1>3. QED
  BY <1>1, <1>2, ArchiveStep, PTL DEF Spec

(***************************************************************************)
(* The Python environment, which no lock guards.                           *)
(***************************************************************************)
\* Whoever has cleared the environment last is still at it.
UnderWay == \E v \in Windows : at[v] \in Bootstrapping /\ ~disturbed[v]

\* An environment that is empty of the bridge, or that somebody works on, is whole all the
\* same, or has been left half done, or is somebody's own to finish.
VenvInv ==
  venv = "bare" \/ (\E w \in Windows : at[w] \in Bootstrapping)
    => venv = "whole" \/ cut \/ UnderWay

LEMMA VenvStep ==
  ASSUME Typed, VenvInv, [Next]_vars
  PROVE  VenvInv'
<1> USE DEF Typed, VenvInv, UnderWay, Goes, Places, Outside, Inside, Fetching, Filling, Waiting,
            Bootstrapping
<1>1. CASE UNCHANGED vars
  BY <1>1 DEF vars, environment
<1>2. ASSUME NEW w \in Windows, Begin(w) \/ StopWaiting(w) PROVE VenvInv'
  BY <1>2 DEF Begin, StopWaiting, environment
<1>3. ASSUME NEW w \in Windows, Dies(w) \/ BootstrapFails(w) PROVE VenvInv'
  <2>1. UNCHANGED <<venv, disturbed>>
    BY <1>3 DEF Dies, BootstrapFails
  <2>2. \E place \in {"idle", "dead"} : at' = [at EXCEPT ![w] = place]
    BY <1>3 DEF Dies, BootstrapFails
  <2>3. cut' = (cut \/ (at[w] \in Bootstrapping /\ ~disturbed[w]))
    BY <1>3 DEF Dies, BootstrapFails
  <2>4. cut' \in BOOLEAN
    BY <2>3
  <2>5. QED
    BY <2>1, <2>2, <2>3, <2>4
<1>4. ASSUME NEW w \in Windows, Step(w) PROVE VenvInv'
  <2>1. CASE ClearVenv(w)
    BY <2>1 DEF ClearVenv
  <2>2. CASE VenvCreated(w)
    BY <2>2 DEF VenvCreated
  <2>3. CASE Installed(w)
    BY <2>3 DEF Installed
  <2>4. CASE \/ Resolve(w) \/ BundleVerified(w) \/ UvFound(w) \/ Started(w)
             \/ OpenLock(w) \/ SignLock(w) \/ SignFails(w) \/ JudgeLock(w) \/ BreakLock(w)
             \/ Unlock(w)
    BY <2>4 DEF Resolve, BundleVerified, UvFound, Started, OpenLock, SignLock, SignFails,
                JudgeLock, BreakLock, Unlock, environment
  <2>5. CASE \/ LookAtFile(w) \/ Request(w) \/ Receive(w) \/ ResponseEnds(w) \/ CheckDownload(w)
             \/ LookAtEngine(w) \/ ClearStaging(w) \/ Unpack(w) \/ Probe(w) \/ WriteReady(w)
    BY <2>5 DEF LookAtFile, Request, Receive, ResponseEnds, CheckDownload, LookAtEngine,
                ClearStaging, Unpack, Probe, WriteReady, environment
  <2>6. CASE RemoveOld(w) \/ RenameStaging(w) \/ CleanUp(w) \/ InstallFails(w)
    BY <2>6 DEF RemoveOld, RenameStaging, CleanUp, InstallFails, environment
  <2>7. QED
    BY <1>3, <1>4, <2>1, <2>2, <2>3, <2>4, <2>5, <2>6 DEF Step
<1>5. QED
  BY <1>1, <1>2, <1>3, <1>4 DEF Next

\* No step but these takes a Python for provisioned.
LEMMA TakenBy ==
  ASSUME Typed, Next, NEW w \in Windows, TakenForProvisioned(w)
  PROVE  Resolve(w) \/ Installed(w)
<1> USE DEF Typed, TakenForProvisioned, Goes
<1>1. at[w] \in {"resolving", "installing"} /\ at'[w] = "locking"
  OBVIOUS
<1>2. PICK u \in Windows : Begin(u) \/ Step(u) \/ StopWaiting(u) \/ Dies(u)
  BY DEF Next
<1>3. ~Begin(u) /\ ~StopWaiting(u) /\ ~Dies(u)
  BY <1>1, <1>2 DEF Begin, StopWaiting, Dies
<1>4. CASE Resolve(u) \/ Installed(u)
  <2>1. u = w
    BY <1>1, <1>4 DEF Resolve, Installed
  <2>2. QED
    BY <1>4, <2>1
<1>5. CASE \/ BundleVerified(u) \/ UvFound(u) \/ ClearVenv(u) \/ VenvCreated(u) \/ Started(u)
           \/ BootstrapFails(u)
  BY <1>1, <1>5 DEF BundleVerified, UvFound, ClearVenv, VenvCreated, Started, BootstrapFails,
                    Bootstrapping
<1>6. CASE \/ OpenLock(u) \/ SignLock(u) \/ SignFails(u) \/ JudgeLock(u) \/ BreakLock(u)
           \/ Unlock(u)
  BY <1>1, <1>6 DEF OpenLock, SignLock, SignFails, JudgeLock, BreakLock, Unlock
<1>7. CASE \/ LookAtFile(u) \/ Request(u) \/ Receive(u) \/ ResponseEnds(u) \/ CheckDownload(u)
           \/ LookAtEngine(u) \/ ClearStaging(u) \/ Unpack(u) \/ Probe(u) \/ WriteReady(u)
  BY <1>1, <1>7 DEF LookAtFile, Request, Receive, ResponseEnds, CheckDownload, LookAtEngine,
                    ClearStaging, Unpack, Probe, WriteReady
<1>8. CASE RemoveOld(u) \/ RenameStaging(u) \/ CleanUp(u) \/ InstallFails(u)
  BY <1>1, <1>8 DEF RemoveOld, RenameStaging, CleanUp, InstallFails, Fetching, Filling
<1>9. QED
  BY <1>2, <1>3, <1>4, <1>5, <1>6, <1>7, <1>8 DEF Step

\* A Python that is taken for provisioned has the bridge, or is another window's to finish, or
\* was left half done, for any number of windows that bootstrap at once, fail and die at any
\* step (resolveBridgePython, which only looks whether the interpreter is there).
THEOREM ProvisionedAlwaysWhole == Spec => ProvisionedIsWhole
<1>1. Init => Typed /\ VenvInv
  BY EngineInit DEF IInv, Init, VenvInv, Bootstrapping
<1>2. Typed /\ VenvInv /\ [Next]_vars => (Typed /\ VenvInv)'
  BY TypedStep, VenvStep
<1>3. Typed /\ VenvInv /\ [Next]_vars
        => [\A w \in Windows : TakenForProvisioned(w) => venv' = "whole" \/ Unfinished(w)]_vars
  <2> SUFFICES ASSUME Typed, VenvInv, Next, NEW w \in Windows, TakenForProvisioned(w)
               PROVE  venv' = "whole" \/ Unfinished(w)
    OBVIOUS
  <2>1. Resolve(w) \/ Installed(w)
    BY TakenBy
  <2>2. CASE Resolve(w)
    <3>1. venv \in {"bare", "whole"} /\ venv' = venv /\ at[w] \notin Bootstrapping
      BY <2>2 DEF Resolve, HasPython, TakenForProvisioned, Typed, Goes, environment, Bootstrapping
    <3>2. QED
      BY <3>1 DEF VenvInv, UnderWay, Unfinished
  <2>3. CASE Installed(w)
    <3>1. at[w] \in Bootstrapping /\ venv' = IF disturbed[w] THEN venv ELSE "whole"
      BY <2>3 DEF Installed, Bootstrapping
    <3>2. QED
      BY <3>1 DEF VenvInv, UnderWay, Unfinished
  <2>4. QED
    BY <2>1, <2>2, <2>3
<1>4. QED
  BY <1>1, <1>2, <1>3, PTL DEF Spec, ProvisionedIsWhole
=============================================================================
