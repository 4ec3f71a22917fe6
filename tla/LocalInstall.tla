----------------------------- MODULE LocalInstall -----------------------------
(***************************************************************************)
(* What is put on disk before a bridge or a local model can be started:    *)
(* the bridge's Python environment (bridge/bootstrap.ts, setUpBridge) and  *)
(* the inference engine (bridge/localReleaseEngine.ts, of which            *)
(* localMacEngine.ts and localEngine.ts differ in the archives and the     *)
(* probe), with the resumable download and the lock file of                *)
(* bridge/localAssets.ts.  All windows of a user share these files; a      *)
(* setup may be cancelled, may fail at every command and operation, and a  *)
(* window may die with its setup half done.                                *)
(*                                                                         *)
(* Files are addressed by path: a handle that outlives its path, and what  *)
(* a command still does when its window is gone, are left out.             *)
(***************************************************************************)
EXTENDS Naturals, FiniteSets

CONSTANTS
  Windows,        \* the extension hosts; a window stands for its process id
  Fragile,        \* bound: those that may die
  Chunks,         \* bound: the pieces in which an archive arrives
  MaxSetups,      \* bound: setups in one behaviour
  None

Files == {"server", "library"}      \* what the archives unpack to

Locks == [by : Windows, signed : BOOLEAN]      \* .install.lock, when there is one

ASSUME InstallAssumption ==
  Fragile \subseteq Windows /\ Chunks \in Nat \ {0} /\ MaxSetups \in Nat /\ None \notin Locks

VARIABLES
  at, task,       \* window -> where its setup is, and what is being set up
  configured,     \* an interpreter of the user's own: "none", "found", "missing"
  venv,           \* <globalStorage>/bridge-venv: "none", "bare" (only Python), "whole"
  disturbed,      \* window -> another one has cleared the venv since it did itself
  cut,            \* history: the last to clear the venv did not get to the end
  lock,           \* .install.lock: None, or who made it and whether its id is in it
  part, file,     \* the download under way; the archive
  staging, dest,  \* the directory being filled; the one the engine is run from
  setups

environment == <<configured, venv, disturbed, cut>>
archive == <<part, file>>
engine == <<staging, dest>>
who == <<task, setups>>
vars == <<at, who, environment, lock, archive, engine>>

Outside == {"idle", "using", "dead"}
Bootstrapping == {"creating", "installing"}
Filling == {"unpacking", "probing", "marking", "removing", "renaming"}
Fetching == {"ready", "fetching", "requesting", "reading", "checking", "staging"}
Inside == Fetching \cup Filling \cup {"cleaning", "leaving", "returning"}
Waiting == {"locking", "judging", "breaking"}
Places == Outside \cup Bootstrapping \cup Inside \cup Waiting
            \cup {"resolving", "bundle", "uv", "clearing", "starting", "signing"}

\* A directory: its files, what its ready.json lists ({} when there is none for these
\* archives), and whether what it has been unpacked from was the archive it should be.
Directory == [files : SUBSET Files, lists : SUBSET Files, good : BOOLEAN]
NoDirectory == [files |-> {}, lists |-> {}, good |-> TRUE]
NoPart == [n |-> 0, good |-> TRUE]

InstallTypeOK ==
  /\ at \in [Windows -> Places] /\ task \in [Windows -> {"local", "bridge"}]
  /\ configured \in {"none", "found", "missing"} /\ venv \in {"none", "bare", "whole"}
  /\ disturbed \in [Windows -> BOOLEAN] /\ cut \in BOOLEAN
  /\ lock \in Locks \cup {None}
  /\ part \in [n : 0 .. Chunks + 1, good : BOOLEAN] /\ file \in {"none", "good", "bad"}
  /\ {staging, dest} \subseteq Directory
  \* what has been verified and listed is what the engine consists of
  /\ \A w \in Windows : at[w] \in Filling => file = "good"

Goes(w, place) == at' = [at EXCEPT ![w] = place]

\* Nothing, or whatever an earlier version, a full disk or a dead window has left.
Init ==
  /\ at = [w \in Windows |-> "idle"] /\ task = [w \in Windows |-> "local"]
  /\ configured \in {"none", "found", "missing"} /\ venv \in {"none", "whole"}
  /\ disturbed = [w \in Windows |-> FALSE] /\ cut = FALSE
  /\ lock = None
  /\ part \in {NoPart, [n |-> 1, good |-> FALSE], [n |-> Chunks + 1, good |-> FALSE]}
  /\ file \in {"none", "bad"}
  /\ staging \in {NoDirectory, [files |-> {"server"}, lists |-> {}, good |-> TRUE]}
  /\ dest \in {NoDirectory, [files |-> Files, lists |-> {}, good |-> FALSE],
               [files |-> {"server"}, lists |-> Files, good |-> TRUE]}
  /\ setups = 0
-----------------------------------------------------------------------------
(* The Python environment                                                  *)

\* setUpBridge runs the bootstrap, setUpLocal asks for a Python first.
Begin(w) ==
  /\ at[w] \in {"idle", "using"} /\ setups < MaxSetups
  /\ setups' = setups + 1
  /\ \/ task' = [task EXCEPT ![w] = "bridge"] /\ Goes(w, "bundle")
     \/ task' = [task EXCEPT ![w] = "local"] /\ Goes(w, "resolving")
  /\ UNCHANGED <<environment, lock, archive, engine>>

\* resolveBridgePython; the local setup takes a configured interpreter that is missing, too,
\* for a bridge not set up.
HasPython == configured = "found" \/ (configured = "none" /\ venv # "none")

Resolve(w) ==
  /\ at[w] = "resolving"
  /\ Goes(w, IF HasPython THEN "locking" ELSE "bundle")
  /\ UNCHANGED <<who, environment, lock, archive, engine>>

\* The wheels are there and as the manifest says.
BundleVerified(w) ==
  /\ at[w] = "bundle" /\ Goes(w, "uv")
  /\ UNCHANGED <<who, environment, lock, archive, engine>>

\* uv is found, or installed with the user's consent and found then.
UvFound(w) ==
  /\ at[w] = "uv" /\ Goes(w, "clearing")
  /\ UNCHANGED <<who, environment, lock, archive, engine>>

\* `uv venv --clear` takes away what there is ...
ClearVenv(w) ==
  /\ at[w] = "clearing" /\ Goes(w, "creating")
  /\ venv' = "none" /\ cut' = FALSE
  /\ disturbed' = [v \in Windows |-> v # w]
  /\ UNCHANGED <<who, configured, lock, archive, engine>>

\* ... and makes it anew.
VenvCreated(w) ==
  /\ at[w] = "creating" /\ Goes(w, "installing")
  /\ venv' = IF disturbed[w] /\ venv # "none" THEN venv ELSE "bare"
  /\ UNCHANGED <<who, configured, disturbed, cut, lock, archive, engine>>

\* Mutant: the exit code of the installation is not looked at.
InstalledUnchecked(w) ==
  /\ at[w] = "installing"
  /\ Goes(w, IF task[w] = "local" THEN "locking" ELSE "starting")
  /\ venv' \in {venv, "whole"}
  /\ UNCHANGED <<who, configured, disturbed, cut, lock, archive, engine>>

\* `uv pip install --reinstall` has ended well; in an environment that another window has
\* cleared since it leaves what the other makes of it.
Installed(w) ==
  /\ at[w] = "installing"
  /\ Goes(w, IF task[w] = "local" THEN "locking" ELSE "starting")
  /\ venv' = IF disturbed[w] THEN venv ELSE "whole"
  /\ UNCHANGED <<who, configured, disturbed, cut, lock, archive, engine>>

\* setUpBridge starts the bridge, or says that it was provisioned but did not start.
Started(w) ==
  /\ at[w] = "starting" /\ Goes(w, "idle")
  /\ UNCHANGED <<who, environment, lock, archive, engine>>

\* A check or a command fails, or the local setup is cancelled.
BootstrapFails(w) ==
  /\ at[w] \in {"bundle", "uv", "clearing"} \cup Bootstrapping
  /\ Goes(w, "idle")
  /\ cut' = (cut \/ (at[w] \in Bootstrapping /\ ~disturbed[w]))
  /\ UNCHANGED <<who, configured, venv, disturbed, lock, archive, engine>>
-----------------------------------------------------------------------------
(* withAssetLock                                                           *)

\* open(lock, 'wx')
OpenLock(w) ==
  /\ at[w] = "locking"
  /\ IF lock = None THEN lock' = [by |-> w, signed |-> FALSE] /\ Goes(w, "signing")
                    ELSE UNCHANGED lock /\ Goes(w, "judging")
  /\ UNCHANGED <<who, environment, archive, engine>>

\* The process id is written, to the file there was.
SignLock(w) ==
  /\ at[w] = "signing" /\ Goes(w, "ready")
  /\ lock' = IF lock # None /\ lock.by = w THEN [lock EXCEPT !.signed = TRUE] ELSE lock
  /\ UNCHANGED <<who, environment, archive, engine>>

\* It cannot be written, the disk being full, say: nobody removes the file.
SignFails(w) ==
  /\ at[w] = "signing" /\ Goes(w, "idle")
  /\ UNCHANGED <<who, environment, lock, archive, engine>>

Dead(l) == l.signed /\ at[l.by] = "dead"

\* Mutant: any lock is a dead one.
JudgedDead(w) ==
  /\ at[w] = "judging"
  /\ Goes(w, IF lock = None THEN "locking" ELSE "breaking")
  /\ UNCHANGED <<who, environment, lock, archive, engine>>

\* Whoever is in the file is asked for with a signal; a file without an id is waited for.
JudgeLock(w) ==
  /\ at[w] = "judging"
  /\ Goes(w, IF lock # None /\ Dead(lock) THEN "breaking" ELSE "locking")
  /\ UNCHANGED <<who, environment, lock, archive, engine>>

BreakLock(w) ==
  /\ at[w] = "breaking" /\ Goes(w, "locking")
  /\ lock' = None
  /\ UNCHANGED <<who, environment, archive, engine>>

\* The setup is cancelled while it waits.
StopWaiting(w) ==
  /\ at[w] = "locking" /\ Goes(w, "idle")
  /\ UNCHANGED <<who, environment, lock, archive, engine>>

\* Mutant: a lock that is given back when all went well.
LeaveHolding(w) ==
  /\ at[w] \in {"leaving", "returning"}
  /\ Goes(w, IF at[w] = "returning" THEN "using" ELSE "idle")
  /\ lock' = IF at[w] = "returning" THEN None ELSE lock
  /\ UNCHANGED <<who, environment, archive, engine>>

\* The finally: the file is removed, whoever's it is.
Unlock(w) ==
  /\ at[w] \in {"leaving", "returning"}
  /\ Goes(w, IF at[w] = "returning" THEN "using" ELSE "idle")
  /\ lock' = None
  /\ UNCHANGED <<who, environment, archive, engine>>
-----------------------------------------------------------------------------
(* downloadAsset                                                           *)

\* An archive that is as it should be is kept, anything else removed; so is a download that
\* is too long.
LookAtFile(w) ==
  /\ at[w] = "fetching"
  /\ UNCHANGED <<who, environment, lock, engine>>
  /\ IF file = "good" THEN Goes(w, "staging") /\ UNCHANGED archive
     ELSE /\ file' = "none"
          /\ part' = IF part.n > Chunks THEN NoPart ELSE part
          /\ Goes(w, IF part.n = Chunks THEN "checking" ELSE "requesting")

\* The rest is asked for; the server may send all of it instead.
Request(w) ==
  /\ at[w] = "requesting" /\ Goes(w, "reading")
  /\ part' \in {part, NoPart}
  /\ UNCHANGED <<who, environment, lock, file, engine>>

\* More arrives, right or wrong.
Receive(w) ==
  /\ at[w] = "reading" /\ part.n < Chunks
  /\ \E right \in BOOLEAN : part' = [n |-> part.n + 1, good |-> part.good /\ right]
  /\ UNCHANGED <<at, who, environment, lock, file, engine>>

\* The response ends, complete or not.
ResponseEnds(w) ==
  /\ at[w] = "reading" /\ Goes(w, "checking")
  /\ UNCHANGED <<who, environment, lock, archive, engine>>

\* Mutant: the size is enough.
CheckSize(w) ==
  /\ at[w] = "checking"
  /\ IF part.n < Chunks THEN UNCHANGED archive /\ Goes(w, "leaving")
     ELSE /\ part' = NoPart
          /\ file' = IF part.good THEN "good" ELSE "bad"
          /\ Goes(w, "staging")
  /\ UNCHANGED <<who, environment, lock, engine>>

\* A download that is incomplete is kept, one with another checksum removed; the right one
\* becomes the archive.
CheckDownload(w) ==
  /\ at[w] = "checking"
  /\ IF part.n < Chunks THEN UNCHANGED archive /\ Goes(w, "leaving")
     ELSE /\ part' = NoPart
          /\ IF part.good THEN file' = "good" /\ Goes(w, "staging")
                          ELSE UNCHANGED file /\ Goes(w, "leaving")
  /\ UNCHANGED <<who, environment, lock, engine>>
-----------------------------------------------------------------------------
(* prepareReleaseEngine                                                    *)

\* ready.json is that of these archives, lists the server, and all it lists is there.
Usable(d) == "server" \in d.lists /\ d.lists \subseteq d.files

\* Mutant: what is listed need not be there.
LookAtReadyFile(w) ==
  /\ at[w] = "ready"
  /\ Goes(w, IF "server" \in dest.lists THEN "returning" ELSE "fetching")
  /\ UNCHANGED <<who, environment, lock, archive, engine>>

LookAtEngine(w) ==
  /\ at[w] = "ready"
  /\ Goes(w, IF Usable(dest) THEN "returning" ELSE "fetching")
  /\ UNCHANGED <<who, environment, lock, archive, engine>>

ClearStaging(w) ==
  /\ at[w] = "staging" /\ Goes(w, "unpacking")
  /\ staging' = [NoDirectory EXCEPT !.good = (file = "good")]
  /\ UNCHANGED <<who, environment, lock, archive, dest>>

\* The installer script is run with the Python found, and writes the files one by one.
Unpack(w) ==
  /\ at[w] = "unpacking" /\ (staging.files # {} \/ configured = "found" \/ venv # "none")
  /\ \E f \in Files \ staging.files :
       /\ staging' = [staging EXCEPT !.files = @ \cup {f}]
       /\ Goes(w, IF staging.files \cup {f} = Files THEN "probing" ELSE "unpacking")
  /\ UNCHANGED <<who, environment, lock, archive, dest>>

\* The engine is run once to see that it works on this computer.
Probe(w) ==
  /\ at[w] = "probing" /\ Goes(w, "marking")
  /\ UNCHANGED <<who, environment, lock, archive, engine>>

\* ready.json is written to the staging directory, listing what is there.
WriteReady(w) ==
  /\ at[w] = "marking" /\ Goes(w, "removing")
  /\ staging' = [staging EXCEPT !.lists = @ \cup staging.files]
  /\ UNCHANGED <<who, environment, lock, archive, dest>>

\* What was there goes, a file or ready.json at a time.
RemoveOld(w) ==
  /\ at[w] = "removing"
  /\ UNCHANGED <<who, environment, lock, archive, staging>>
  /\ IF dest.files = {} THEN dest' = NoDirectory /\ Goes(w, "renaming")
     ELSE /\ UNCHANGED at
          /\ \/ \E f \in dest.files : dest' = [dest EXCEPT !.files = @ \ {f}]
             \/ dest.lists # {} /\ dest' = [dest EXCEPT !.lists = {}]

\* The directory is renamed; the clean-up that follows finds nothing.
RenameStaging(w) ==
  /\ at[w] = "renaming" /\ Goes(w, "returning")
  /\ dest' = staging /\ staging' = NoDirectory
  /\ UNCHANGED <<who, environment, lock, archive>>

CleanUp(w) ==
  /\ at[w] = "cleaning" /\ Goes(w, "leaving")
  /\ staging' = NoDirectory
  /\ UNCHANGED <<who, environment, lock, archive, dest>>

\* An operation or a command fails or has taken too long, the download has stalled, or the
\* setup is cancelled.
InstallFails(w) ==
  /\ at[w] \in Fetching \cup Filling
  /\ Goes(w, IF at[w] \in Filling THEN "cleaning" ELSE "leaving")
  /\ UNCHANGED <<who, environment, lock, archive, engine>>
-----------------------------------------------------------------------------
\* The window is gone, and with it what it has under way.
Dies(w) ==
  /\ w \in Fragile /\ at[w] # "dead"
  /\ Goes(w, "dead")
  /\ cut' = (cut \/ (at[w] \in Bootstrapping /\ ~disturbed[w]))
  /\ UNCHANGED <<who, configured, venv, disturbed, lock, archive, engine>>

\* What a setup does by itself, good or bad.
Step(w) ==
  \/ Resolve(w) \/ BundleVerified(w) \/ UvFound(w) \/ ClearVenv(w) \/ VenvCreated(w)
  \/ Installed(w) \/ Started(w) \/ BootstrapFails(w)
  \/ OpenLock(w) \/ SignLock(w) \/ SignFails(w) \/ JudgeLock(w) \/ BreakLock(w) \/ Unlock(w)
  \/ LookAtFile(w) \/ Request(w) \/ Receive(w) \/ ResponseEnds(w) \/ CheckDownload(w)
  \/ LookAtEngine(w) \/ ClearStaging(w) \/ Unpack(w) \/ Probe(w) \/ WriteReady(w)
  \/ RemoveOld(w) \/ RenameStaging(w) \/ CleanUp(w) \/ InstallFails(w)

Next == \E w \in Windows : Begin(w) \/ Step(w) \/ StopWaiting(w) \/ Dies(w)

\* A window that lives goes on: every command has a timeout, a download a stall timer.
Fairness == \A w \in Windows : WF_vars(Step(w))

Spec == Init /\ [][Next]_vars /\ Fairness
-----------------------------------------------------------------------------
(* Properties                                                              *)

\* "installation lock serializes concurrent windows" (localAssets.test.ts).  Holds between two
\* windows, whichever may die; with a third TLC finds two that each remove a dead one's lock.
Serialized == \A v, w \in Windows : at[v] \in Inside /\ at[w] \in Inside => v = w

\* An engine that would be taken for ready has all its files, from the right archive, and one
\* that has been handed out stays so, whatever fails, dies or is cancelled (ready.json, the
\* staging directory and the rename of prepareReleaseEngine).
EngineIsWhole ==
  /\ Usable(dest) => dest.files = Files /\ dest.good
  /\ \A w \in Windows : at[w] = "using" => Usable(dest)

\* The lock was made by a window that then died, or could not write to it, before its id
\* was in it.
Orphaned == lock # None /\ ~lock.signed /\ at[lock.by] # "signing"

\* A window that waits for another one's setup gets its turn, unless it gives up or the lock
\* is nobody's (withAssetLock: the finally, and the signal sent to the owner).
WaiterGetsIn ==
  \A w \in Windows : at[w] \in Waiting ~> (at[w] \notin Waiting \/ Orphaned)

\* A Python the extension takes for provisioned has the bridge installed, or the last
\* bootstrap was cut short or is another window's, under way ("the provisioned venv under
\* globalStorage (end users, after bootstrap)", bootstrap.ts).
TakenForProvisioned(w) ==
  configured = "none" /\ at[w] \in {"resolving", "installing"} /\ at'[w] = "locking"
Unfinished(w) == cut \/ \E v \in Windows \ {w} : at[v] \in Bootstrapping
ProvisionedIsWhole ==
  [][\A w \in Windows : TakenForProvisioned(w) => venv' = "whole" \/ Unfinished(w)]_vars

-----------------------------------------------------------------------------
\* What the sources say, and TLC finds the code does not keep; no run checks it.

\* "the provisioned venv under globalStorage (end users, after bootstrap)".
ProvisionedAfterBootstrap ==
  [][\A w \in Windows : TakenForProvisioned(w) => venv' = "whole"]_vars
=============================================================================
