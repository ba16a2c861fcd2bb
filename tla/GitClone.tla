------------------------------- MODULE GitClone -------------------------------
(***************************************************************************)
(* Client.CloneRepository (internal/git/clone.go): bring one folder to a   *)
(* branch, tag, pull request or commit of a remote repository, by cloning, *)
(* by fetching into what an earlier run left there, or by recloning into a *)
(* temporary directory that is then swapped in.                            *)
(*                                                                         *)
(* Runs follow each other on the same folder.  Each of them may lose a     *)
(* network call or a file operation, or be killed anywhere, while others   *)
(* push to the remote.  go-git and the remote are external: modelled from  *)
(* the way the code uses them and from the errors it handles.              *)
(***************************************************************************)
EXTENDS Integers, FiniteSets

CONSTANTS
    MaxCommit,   \* bound: commits of the remote, each the child of the one before
    MaxRuns,     \* bound: runs on the folder
    MaxFaults,   \* bound: failing operations and kills
    MaxMoves,    \* bound: pushes to, and deletions of, references
    Requests,    \* requests considered
    Folders      \* what the folder may hold at first

ASSUME BoundsAssumption ==
    /\ MaxCommit \in Nat \ {0}
    /\ MaxRuns \in Nat /\ MaxFaults \in Nat /\ MaxMoves \in Nat

Commits == 1 .. MaxCommit
Kinds   == {"branch", "tag", "pr"}          \* targets that are references
Gone    == 0                                \* a reference that does not exist
Mixed   == 0                                \* files of no commit in particular

(***************************************************************************)
(* A request.  Depth 0 asks for the whole history; only a request of kind  *)
(* "commit" uses its commit.                                               *)
(***************************************************************************)
Request ==
    [kind : Kinds \cup {"commit"}, commit : Commits, depth : Nat, repair : BOOLEAN]

(***************************************************************************)
(* A repository on disk: whose it is, the commit objects it has, whether   *)
(* its history is cut, its remote-tracking references, its temporary       *)
(* references, the commit its files are those of, and whether a removal    *)
(* that was cut short has torn it: what it is said to hold may be missing. *)
(***************************************************************************)
Repository ==
    [repo : BOOLEAN, origin : {"none", "this", "other"}, objects : SUBSET Commits,
     shallow : BOOLEAN, refs : [Kinds -> Commits \cup {Gone}],
     tmpRefs : SUBSET Commits, tree : Commits \cup {Mixed}, torn : BOOLEAN]

Absent ==
    [repo |-> FALSE, origin |-> "none", objects |-> {}, shallow |-> FALSE,
     refs |-> [k \in Kinds |-> Gone], tmpRefs |-> {}, tree |-> Mixed,
     torn |-> FALSE]

\* References lead to objects that are there: go-git writes them afterwards.
Sound(f) ==
    /\ \A k \in Kinds : f.refs[k] # Gone => f.refs[k] \in f.objects
    /\ f.tmpRefs \subseteq f.objects

ASSUME InputsAssumption ==
    /\ Requests \subseteq Request
    /\ Folders \subseteq { f \in Repository : Sound(f) }

VARIABLES
    remote,      \* the remote: reference -> commit
    owned,       \* the repository's full name contains its owner and a slash
    managed,     \* the target's path starts with its parent's and a slash, as
                 \* "/repo", "." and a path that ends in a slash do not
    folder,      \* the target folder
    temp,        \* the repository in this run's temporary directory
    temps,       \* temporary directories that exist
    pc,          \* where the run is
    req,         \* its request
    dst,         \* where it is cloning to
    retried,     \* fetchTarget has failed once
    runs, faults, kills, moves,
    seen,        \* history: values of the wanted reference during the run
    disturbed,   \* history: an operation of this run failed
    begun        \* history: the folder when the run began

disk    == <<folder, temp, temps>>
world   == <<remote, owned, managed>>
bounds  == <<runs, faults, kills, moves>>
history == <<seen, disturbed, begun>>
vars == <<world, disk, pc, req, dst, retried, bounds, history>>

-----------------------------------------------------------------------------
Ended == {"idle", "done", "failed", "killed"}

\* The commit the remote would send for the request.
Wanted == IF req.kind = "commit" THEN req.commit ELSE remote[req.kind]

\* An operation of the run fails; which one, the bound decides.
Fault ==
    /\ faults < MaxFaults
    /\ faults' = faults + 1
    /\ disturbed' = TRUE
    /\ UNCHANGED <<runs, kills, moves, seen, begun>>

NoFault == UNCHANGED <<bounds, history>>

Goto(there) == pc' = there /\ UNCHANGED <<world, req, dst, retried>>

\* A new run on the folder.
Start(q) ==
    /\ pc \in Ended
    /\ runs < MaxRuns
    /\ runs' = runs + 1
    /\ req' = q
    /\ pc' = "list"
    /\ retried' = FALSE
    /\ seen' = {IF q.kind = "commit" THEN q.commit ELSE remote[q.kind]}
    /\ disturbed' = FALSE
    /\ begun' = folder
    /\ temp' = Absent
    /\ UNCHANGED <<world, folder, temps, dst, faults, kills, moves>>

\* determineTarget: the references are listed before anything else.  A commit is
\* taken as it is.
DetermineTarget ==
    /\ pc = "list"
    /\ \/ Goto(IF Wanted = Gone THEN "failed" ELSE "open") /\ NoFault
       \/ Goto("failed") /\ Fault
    /\ UNCHANGED disk

\* PlainOpen, and the remote of a repository that is there has to be this one.
OpenFolder ==
    /\ pc = "open"
    /\ dst' = "folder"
    /\ \/ ~folder.repo /\ pc' = "init"
       \/ folder.repo /\ folder.origin = "this" /\ pc' = "fetch"
       \/ folder.repo /\ folder.origin # "this" /\ pc' = "failed"
    /\ UNCHANGED <<world, disk, req, retried, bounds, history>>

-----------------------------------------------------------------------------
(***************************************************************************)
(* cloneAtRef, cloneCustomRef and cloneCommit, into the folder or into the *)
(* temporary directory.                                                    *)
(***************************************************************************)

Dest == IF dst = "folder" THEN folder ELSE temp

Write(r) ==
    /\ folder' = IF dst = "folder" THEN r ELSE folder
    /\ temp' = IF dst = "temp" THEN r ELSE temp
    /\ UNCHANGED temps

InitRepo ==
    /\ pc = "init"
    /\ Write([Absent EXCEPT !.repo = TRUE])
    /\ Goto("origin") /\ NoFault

AddOrigin ==
    /\ pc = "origin"
    /\ Write([Dest EXCEPT !.origin = "this"])
    /\ Goto("clone") /\ NoFault

\* The commits a fetch of commit c brings with the history the request asks for.
History(c) == { a \in Commits : a <= c /\ (req.depth = 0 \/ a > c - req.depth) }

\* The repository after a fetch of commit c.  What else a clone brings (other
\* branches, tags) is fetched again by the run that wants it.
Downloaded(f, c) ==
    [repo |-> f.repo, origin |-> f.origin, tree |-> f.tree, torn |-> f.torn,
     objects |-> f.objects \cup (IF f.shallow THEN {c} ELSE History(c)),
     shallow |-> f.shallow \/ History(c) # 1 .. c,
     refs |-> [k \in Kinds |-> IF k = req.kind THEN c ELSE f.refs[k]],
     tmpRefs |-> f.tmpRefs \cup (IF req.kind = "commit" THEN {c} ELSE {})]

CloneFetch ==
    /\ pc = "clone"
    /\ Wanted # Gone
    /\ Write(Downloaded(Dest, Wanted))
    /\ Goto(IF dst = "temp" THEN "remove" ELSE "checkout") /\ NoFault

-----------------------------------------------------------------------------
(***************************************************************************)
(* fetchTarget: one attempt, one retry, and the reclone they may call.     *)
(***************************************************************************)

\* Plausible bug: the run goes on with what an earlier fetch left.
AttemptFailedIgnored ==
    /\ retried' = TRUE
    /\ pc' = IF retried THEN "checkout" ELSE "fetch"
    /\ UNCHANGED <<world, req, dst>>

\* An attempt returned an error: the second one is final.
AttemptFailed ==
    /\ retried' = TRUE
    /\ pc' = IF retried THEN "failed" ELSE "fetch"
    /\ UNCHANGED <<world, req, dst>>

\* Plausible bug: a failing reclone goes on with the swap.
CloneFailIgnored ==
    /\ \/ pc \in {"init", "origin", "clone"} /\ Fault
       \/ pc = "clone" /\ Wanted = Gone /\ NoFault
    /\ IF dst = "folder"
       THEN /\ folder' = IF req.kind \in {"branch", "tag"} THEN Absent ELSE folder
            /\ Goto("failed")
            /\ UNCHANGED <<temp, temps>>
       ELSE /\ Goto("remove")
            /\ UNCHANGED disk

\* A clone fails.  In the folder PlainClone takes away what it made and the two
\* others leave it; the temporary directory is removed in any case.
CloneFail ==
    /\ \/ pc \in {"init", "origin", "clone"} /\ Fault
       \/ pc = "clone" /\ Wanted = Gone /\ NoFault
    /\ IF dst = "folder"
       THEN /\ folder' = IF req.kind \in {"branch", "tag"} THEN Absent ELSE folder
            /\ Goto("failed")
            /\ UNCHANGED <<temp, temps>>
       ELSE /\ temp' = Absent /\ temps' = temps - 1
            /\ AttemptFailed
            /\ UNCHANGED folder

\* The reference the fetch would write already has the remote's commit.
UpToDate ==
    IF req.kind = "commit" THEN req.commit \in folder.tmpRefs
    ELSE folder.refs[req.kind] = Wanted

HasCommit == req.kind = "commit" /\ req.commit \in folder.objects

\* A commit that is there is not fetched, whatever the remote says.
HaveCommit ==
    /\ pc = "fetch" /\ ~retried
    /\ HasCommit
    /\ Goto("checkout") /\ NoFault
    /\ UNCHANGED disk

Fetching == pc = "fetch" /\ (retried \/ ~HasCommit \/ folder.torn)

\* Plausible bug: NoErrAlreadyUpToDate is taken for an error.
FetchStrict ==
    /\ Fetching /\ folder.repo /\ Wanted # Gone
    /\ IF UpToDate
       THEN AttemptFailed /\ UNCHANGED folder
       ELSE Goto("checkout") /\ folder' = Downloaded(folder, Wanted)
    /\ NoFault
    /\ UNCHANGED <<temp, temps>>

\* Plausible bug: a reference that is gone is taken for nothing new.
FetchOfGone ==
    /\ Fetching /\ folder.repo
    /\ folder' = IF UpToDate THEN folder ELSE Downloaded(folder, Wanted)
    /\ Goto("checkout") /\ NoFault
    /\ UNCHANGED <<temp, temps>>

\* The fetch succeeds, or says that there is nothing new.
Fetch ==
    /\ Fetching /\ folder.repo /\ Wanted # Gone
    /\ folder' = IF UpToDate THEN folder ELSE Downloaded(folder, Wanted)
    /\ Goto("checkout") /\ NoFault
    /\ UNCHANGED <<temp, temps>>

\* isObjectMissing: a cut history cannot be updated, nor one with gaps.  Without
\* consent to a reclone that is an error.
ObjectMissing ==
    /\ Fetching /\ folder.repo /\ Wanted # Gone
    /\ folder.torn \/ (folder.shallow /\ ~UpToDate)
    /\ IF req.repair THEN Goto("mktemp") ELSE AttemptFailed
    /\ NoFault
    /\ UNCHANGED disk

\* Any other error: the reference or the folder is gone or torn, or the network
\* is gone.  No second attempt once the run's time is up.
FetchFail ==
    /\ Fetching
    /\ \/ (Wanted = Gone \/ ~folder.repo \/ folder.torn) /\ NoFault /\ AttemptFailed
       \/ Fault /\ (AttemptFailed \/ Goto("failed"))
    /\ UNCHANGED disk

\* reclone: os.MkdirTemp refuses a pattern with a path separator, and the pattern
\* holds the full name of the repository.
MakeTemp ==
    /\ pc = "mktemp"
    /\ IF owned
       THEN AttemptFailed /\ UNCHANGED disk
       ELSE /\ temps' = temps + 1 /\ temp' = Absent
            /\ pc' = "init" /\ dst' = "temp"
            /\ UNCHANGED <<world, folder, req, retried>>
    /\ NoFault

DropTemp == temp' = Absent /\ temps' = temps - 1

\* What a removal that does not come to its end may leave: everything, nothing
\* that opens, or a repository without some of its files, perhaps its origin.
PartlyRemoved(f) ==
    { f, Absent } \cup
    { [f EXCEPT !.torn = TRUE, !.tree = Mixed, !.origin = o] : o \in {f.origin, "none"} }

\* Outside its parent a target is not deleted, and the clone in the temporary
\* directory stays where it is.
RefuseRemoval ==
    /\ pc = "remove" /\ ~managed
    /\ AttemptFailed /\ NoFault
    /\ UNCHANGED disk

\* os.RemoveAll(targetFolder).
RemoveOld ==
    /\ pc = "remove" /\ managed
    /\ \/ /\ folder' = Absent
          /\ Goto("rename") /\ NoFault
          /\ UNCHANGED <<temp, temps>>
       \/ /\ folder' \in PartlyRemoved(folder)
          /\ DropTemp /\ AttemptFailed /\ Fault

\* Plausible bug: a failing rename leaves the temporary directory.
ActivateLeaking ==
    /\ pc = "rename"
    /\ \/ /\ folder' = temp
          /\ DropTemp /\ Goto("checkout") /\ NoFault
       \/ /\ AttemptFailed /\ Fault
          /\ UNCHANGED disk

\* os.Rename(tmp, targetFolder), which fails across file systems, and PlainOpen.
Activate ==
    /\ pc = "rename"
    /\ \/ /\ folder' = temp
          /\ DropTemp
          /\ \/ Goto("checkout") /\ NoFault
             \/ AttemptFailed /\ Fault
       \/ /\ DropTemp /\ AttemptFailed /\ Fault
          /\ UNCHANGED folder

-----------------------------------------------------------------------------
(***************************************************************************)
(* checkoutRef, checkoutPR and checkoutCommit.                             *)
(***************************************************************************)

Resolved == IF req.kind = "commit" THEN req.commit ELSE folder.refs[req.kind]

Checkout ==
    /\ pc = "checkout"
    /\ Resolved \in folder.objects
    /\ folder' = [folder EXCEPT
          !.tree = Resolved,
          !.tmpRefs = IF req.kind = "commit" THEN @ \ {Resolved} ELSE @]
    /\ Goto("done") /\ NoFault
    /\ UNCHANGED <<temp, temps>>

CheckoutFail ==
    /\ pc = "checkout"
    /\ \/ Resolved \notin folder.objects /\ NoFault /\ UNCHANGED folder
       \/ /\ Fault \/ (folder.torn /\ NoFault)
          /\ \E t \in {folder.tree, Mixed} : folder' = [folder EXCEPT !.tree = t]
    /\ Goto("failed")
    /\ UNCHANGED <<temp, temps>>

-----------------------------------------------------------------------------
(***************************************************************************)
(* The environment.                                                        *)
(***************************************************************************)

\* The plugin process is killed; what it was writing stays as it is.
Killed ==
    /\ pc \notin Ended
    /\ faults < MaxFaults
    /\ faults' = faults + 1 /\ kills' = kills + 1
    /\ \/ folder' = folder
       \/ pc = "checkout" /\ folder' = [folder EXCEPT !.tree = Mixed]
       \/ pc = "remove" /\ managed /\ folder' \in PartlyRemoved(folder)
    /\ Goto("killed")
    /\ UNCHANGED <<temp, temps, runs, moves, history>>

\* A reference is pushed to, forced back or deleted.
Move(k) ==
    /\ moves < MaxMoves
    /\ moves' = moves + 1
    /\ \E c \in (Commits \cup {Gone}) \ {remote[k]} :
          /\ remote' = [remote EXCEPT ![k] = c]
          /\ seen' = IF pc \notin Ended /\ req.kind = k THEN seen \cup {c} ELSE seen
    /\ UNCHANGED <<owned, managed, disk, pc, req, dst, retried, runs, faults, kills,
                   disturbed, begun>>

Init ==
    /\ remote = [k \in Kinds |-> 1]
    /\ owned \in BOOLEAN /\ managed \in BOOLEAN
    /\ folder \in Folders
    /\ temp = Absent /\ temps = 0
    /\ pc = "idle" /\ req \in Requests /\ dst = "folder" /\ retried = FALSE
    /\ runs = 0 /\ faults = 0 /\ kills = 0 /\ moves = 0
    /\ seen = {} /\ disturbed = FALSE /\ begun = folder

Run ==
    \/ DetermineTarget \/ OpenFolder
    \/ InitRepo \/ AddOrigin \/ CloneFetch \/ CloneFail
    \/ HaveCommit \/ Fetch \/ ObjectMissing \/ FetchFail
    \/ MakeTemp \/ RefuseRemoval \/ RemoveOld \/ Activate
    \/ Checkout \/ CheckoutFail

Next ==
    \/ \E q \in Requests : Start(q)
    \/ Run
    \/ Killed
    \/ \E k \in Kinds : Move(k)

Spec == Init /\ [][Next]_vars

-----------------------------------------------------------------------------
(***************************************************************************)
(* Correctness.                                                            *)
(***************************************************************************)

(***************************************************************************)
(* Type invariant.                                                         *)
(***************************************************************************)
StateOK ==
    /\ remote \in [Kinds -> Commits \cup {Gone}]
    /\ folder \in Repository /\ temp \in Repository /\ temps \in Nat
    /\ pc \in Ended \cup {"list", "open", "init", "origin", "clone", "fetch",
                         "mktemp", "remove", "rename", "checkout"}
    /\ req \in Request /\ dst \in {"folder", "temp"}
    /\ runs \in 0 .. MaxRuns /\ faults \in 0 .. MaxFaults
    /\ kills \in 0 .. faults /\ moves \in 0 .. MaxMoves
    /\ seen \subseteq Commits \cup {Gone}
    /\ begun \in Repository

FlagsOK ==
    /\ owned \in BOOLEAN /\ managed \in BOOLEAN
    /\ retried \in BOOLEAN /\ disturbed \in BOOLEAN

TypeOK == StateOK /\ FlagsOK

(***************************************************************************)
(* A run that reports success leaves the files of the commit it was asked  *)
(* for, or of one the reference had at some moment of this run: nothing an *)
(* earlier run left behind passes for an update, whatever failed, was      *)
(* retried or recloned on the way.                                         *)
(***************************************************************************)
SuccessIsFresh ==
    pc = "done" => folder.repo /\ folder.tree \in seen \ {Gone}

(***************************************************************************)
(* A repository found by a run goes, or is taken apart, only when its      *)
(* replacement, complete for this request, lies in the temporary directory.*)
(***************************************************************************)
ReplacedWhenReady ==
    [][begun.repo /\ folder.repo /\ (~folder'.repo \/ (folder'.torn /\ ~folder.torn)) =>
          /\ temp.origin = "this"
          /\ \E c \in seen \cap temp.objects :
                IF req.kind = "commit" THEN c \in temp.tmpRefs
                ELSE temp.refs[req.kind] = c]_vars

\* What a run may fail for although every operation it called succeeded.
NotFetchable == Gone \in seen
OtherRepository == begun.repo /\ begun.origin # "this"
NotRepaired == begun.shallow /\ (~req.repair \/ owned \/ ~managed)

(***************************************************************************)
(* Runs recover by themselves: whatever earlier runs left when they failed *)
(* or were killed, a run whose operations all succeed fails only when the  *)
(* reference is not there, the folder has another origin (or none, left by *)
(* a kill right after the init), a cut history is not to be repaired, or a *)
(* removal that did not come to its end has torn the repository.           *)
(***************************************************************************)
FailsForCause ==
    pc = "failed" =>
        \/ disturbed \/ NotFetchable \/ OtherRepository \/ NotRepaired
        \/ begun.torn

(***************************************************************************)
(* The temporary reference a commit was fetched into is gone after success *)
(* even if it was an earlier run, failed since, that had created it.       *)
(***************************************************************************)
TmpRefRemoved ==
    pc = "done" /\ req.kind = "commit" => req.commit \notin folder.tmpRefs

(***************************************************************************)
(* A run that ends by itself has no temporary directory left; only killed  *)
(* runs leave theirs, at most one each.  A target that is not to be        *)
(* deleted is the exception: there each attempt of a run may leave one.    *)
(***************************************************************************)
NoTempLeft ==
    pc \in {"done", "failed"} => temps <= kills + (IF managed THEN 0 ELSE 2 * runs)

-----------------------------------------------------------------------------
(***************************************************************************)
(* docs/reference/plugin-github.md, Auto-repair: on shallow-related errors *)
(* "the client attempts to reclone the repository in place".  So with      *)
(* --auto-repair a cut history is no reason to fail.                       *)
(***************************************************************************)
AutoRepairRepairs ==
    pc = "failed" /\ req.repair /\ managed =>
        disturbed \/ NotFetchable \/ OtherRepository
=============================================================================
