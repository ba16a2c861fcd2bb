---------------------------- MODULE GitCloneProofs ----------------------------
(***************************************************************************)
(* What GitClone promises for every number of commits, runs, faults and    *)
(* moves, every set of requests and every state of the folder.             *)
(*                                                                         *)
(* The invariant is built in four layers: the types together with the      *)
(* count of temporary directories; references lead to objects; what a run  *)
(* is about to check out was on the remote during the run; and why a run   *)
(* may have failed.                                                        *)
(***************************************************************************)
EXTENDS GitClone, TLAPS

Active == {"list", "open", "init", "origin", "clone", "fetch", "mktemp",
           "remove", "rename", "checkout"}

\* The run owns a temporary directory.
InTemp ==
    \/ pc \in {"remove", "rename"}
    \/ pc \in {"init", "origin", "clone"} /\ dst = "temp"

\* Where the target is not to be deleted: the attempts that may have left theirs.
Refused ==
    IF managed THEN 0
    ELSE 2 * runs - (IF pc \in Ended THEN 0 ELSE IF retried THEN 1 ELSE 2)

\* Directories of killed runs, of refused attempts, and that of the present one.
TempsCount ==
    /\ InTemp => temps >= 1
    /\ temps <= kills + (IF InTemp THEN 1 ELSE 0) + Refused

Typed == StateOK /\ TempsCount

-----------------------------------------------------------------------------
(***************************************************************************)
(* Types.                                                                  *)
(***************************************************************************)

\* The Boolean variables, apart from everything that needs arithmetic.
LEMMA FlagsInvariant == Spec => []FlagsOK
<1>1. Init => FlagsOK
  BY DEF Init, FlagsOK
<1>2. FlagsOK /\ [Next]_vars => FlagsOK'
  <2> SUFFICES ASSUME FlagsOK, [Next]_vars PROVE FlagsOK'
    OBVIOUS
  <2>1. CASE UNCHANGED vars
    BY <2>1 DEF vars, world, history, FlagsOK
  <2>2. CASE Run
    BY <2>2, Zenon
       DEF Run, DetermineTarget, OpenFolder, InitRepo, AddOrigin, CloneFetch,
           CloneFail, HaveCommit, Fetch, ObjectMissing, FetchFail, MakeTemp,
           RefuseRemoval, RemoveOld, Activate, Checkout, CheckoutFail, Goto, AttemptFailed,
           Fault, NoFault, world, history, FlagsOK
  <2>3. ASSUME NEW q \in Requests, Start(q) PROVE FlagsOK'
    BY <2>3 DEF Start, world, FlagsOK
  <2>4. CASE Killed
    BY <2>4 DEF Killed, Goto, world, history, FlagsOK
  <2>5. ASSUME NEW k \in Kinds, Move(k) PROVE FlagsOK'
    BY <2>5 DEF Move, FlagsOK
  <2>. QED
    BY <2>1, <2>2, <2>3, <2>4, <2>5 DEF Next
<1>. QED
  BY <1>1, <1>2, PTL DEF Spec

LEMMA AbsentTyped == Absent \in Repository /\ Sound(Absent) /\ ~Absent.repo
BY DEF Absent, Repository, Sound, Gone, Mixed

LEMMA WantedTyped ==
    ASSUME StateOK
    PROVE  Wanted \in Commits \cup {Gone}
BY DEF StateOK, Wanted, Request

\* A fetch keeps a repository a repository, whose references lead to objects.
LEMMA DownloadedTyped ==
    ASSUME StateOK, NEW f \in Repository, NEW c \in Commits
    PROVE  /\ Downloaded(f, c) \in Repository
           /\ Sound(f) => Sound(Downloaded(f, c))
           /\ Downloaded(f, c).repo = f.repo /\ Downloaded(f, c).origin = f.origin
           /\ c \in Downloaded(f, c).objects
           /\ f.objects \subseteq Downloaded(f, c).objects
           /\ req.kind \in Kinds => Downloaded(f, c).refs[req.kind] = c
           /\ req.kind = "commit" => c \in Downloaded(f, c).tmpRefs
           /\ Downloaded(f, c).torn = f.torn
<1>1. c \in Int /\ req.depth \in Nat
  BY BoundsAssumption DEF StateOK, Request, Commits
<1>2. c \in History(c) /\ History(c) \subseteq Commits
  BY <1>1 DEF History
<1>3. /\ Downloaded(f, c).objects \subseteq Commits
      /\ f.objects \cup {c} \subseteq Downloaded(f, c).objects
  BY <1>2 DEF Downloaded, Repository
<1>4. /\ Downloaded(f, c).repo = f.repo /\ Downloaded(f, c).origin = f.origin
      /\ Downloaded(f, c).tree = f.tree /\ Downloaded(f, c).torn = f.torn
  BY DEF Downloaded, Repository
<1>5. Downloaded(f, c).shallow = (f.shallow \/ History(c) # 1 .. c)
  BY DEF Downloaded, Repository
<1>6. Downloaded(f, c).refs = [k \in Kinds |-> IF k = req.kind THEN c ELSE f.refs[k]]
  BY DEF Downloaded, Repository
<1>7. Downloaded(f, c).tmpRefs = f.tmpRefs \cup (IF req.kind = "commit" THEN {c} ELSE {})
  BY DEF Downloaded, Repository
<1>8. Downloaded(f, c) \in Repository
  BY <1>3, <1>4, <1>5, <1>6, <1>7 DEF Repository, Downloaded
<1>9. Sound(f) => Sound(Downloaded(f, c))
  BY <1>3, <1>6, <1>7 DEF Sound
<1>. QED
  BY <1>3, <1>4, <1>6, <1>7, <1>8, <1>9

\* A removal cut short leaves a repository or none.
LEMMA PartlyRemovedTyped ==
    ASSUME NEW f \in Repository, NEW g \in PartlyRemoved(f)
    PROVE  g \in Repository /\ (Sound(f) => Sound(g))
<1>1. CASE g \in {f, Absent}
  BY <1>1, AbsentTyped
<1>2. ASSUME NEW o \in {f.origin, "none"},
             g = [f EXCEPT !.torn = TRUE, !.tree = Mixed, !.origin = o]
      PROVE  g \in Repository /\ (Sound(f) => Sound(g))
  BY <1>2 DEF Repository, Sound
<1>. QED
  BY <1>1, <1>2 DEF PartlyRemoved

\* The initial folder and every request are typed.
LEMMA TypedInit == Init => Typed
<1> SUFFICES ASSUME Init PROVE Typed
  OBVIOUS
<1>1. 1 \in Commits
  BY BoundsAssumption DEF Commits
<1>2. /\ folder \in Repository /\ req \in Request
      /\ remote \in [Kinds -> Commits \cup {Gone}]
  BY <1>1, InputsAssumption DEF Init
<1>. QED
  BY <1>1, <1>2, AbsentTyped, BoundsAssumption
     DEF Init, Typed, StateOK, TempsCount, Refused, InTemp, Ended

\* Steps that leave the disk alone and only move on.
LEMMA TypedPlain ==
    ASSUME Typed,
           DetermineTarget \/ OpenFolder \/ HaveCommit \/ ObjectMissing \/ FetchFail
    PROVE  Typed'
<1> USE DEF Typed, StateOK, TempsCount, Refused, InTemp, Ended
<1>1. CASE DetermineTarget
  BY <1>1, BoundsAssumption DEF DetermineTarget, Goto, Fault, NoFault, bounds, history, world, disk
<1>2. CASE OpenFolder
  BY <1>2 DEF OpenFolder, world, disk, bounds, history
<1>3. CASE HaveCommit
  BY <1>3 DEF HaveCommit, Goto, NoFault, bounds, history, world, disk
<1>4. CASE ObjectMissing
  BY <1>4 DEF ObjectMissing, Fetching, Goto, AttemptFailed, NoFault, bounds, history, world, disk
<1>5. CASE FetchFail
  BY <1>5, BoundsAssumption
     DEF FetchFail, Fetching, AttemptFailed, Goto, Fault, NoFault, bounds, history, world, disk
<1>. QED
  BY <1>1, <1>2, <1>3, <1>4, <1>5

\* Steps of a clone, into either place.
LEMMA TypedClone ==
    ASSUME Typed, InitRepo \/ AddOrigin \/ CloneFetch \/ CloneFail
    PROVE  Typed'
<1> USE DEF Typed, StateOK, TempsCount, Refused, InTemp, Ended
<1>0. Dest \in Repository
  BY DEF Dest
<1>1. ASSUME NEW r \in Repository, Write(r)
      PROVE  folder' \in Repository /\ temp' \in Repository /\ temps' = temps
  BY <1>1 DEF Write
<1>2. CASE InitRepo
  <2>1. [Absent EXCEPT !.repo = TRUE] \in Repository
    BY AbsentTyped DEF Repository
  <2>. QED
    BY <1>1, <1>2, <2>1 DEF InitRepo, Goto, NoFault, bounds, history, world
<1>3. CASE AddOrigin
  <2>1. [Dest EXCEPT !.origin = "this"] \in Repository
    BY <1>0 DEF Repository
  <2>. QED
    BY <1>1, <1>3, <2>1 DEF AddOrigin, Goto, NoFault, bounds, history, world
<1>4. CASE CloneFetch
  <2>1. Downloaded(Dest, Wanted) \in Repository
    BY <1>0, <1>4, WantedTyped, DownloadedTyped DEF CloneFetch
  <2>. QED
    BY <1>1, <1>4, <2>1 DEF CloneFetch, Goto, NoFault, bounds, history, world
<1>5. CASE CloneFail
  <2>1. /\ runs' = runs /\ kills' = kills /\ moves' = moves
        /\ seen' = seen /\ begun' = begun
        /\ faults' \in 0 .. MaxFaults /\ faults' >= faults
    BY <1>5, BoundsAssumption DEF CloneFail, Fault, NoFault, bounds, history
  <2>2. pc \in {"init", "origin", "clone"}
    BY <1>5 DEF CloneFail
  <2>3. CASE dst = "folder"
    <3>1. /\ folder' \in Repository /\ temp' = temp /\ temps' = temps
          /\ pc' = "failed" /\ UNCHANGED <<remote, owned, managed, req, dst, retried>>
      BY <1>5, <2>3, AbsentTyped DEF CloneFail, Goto, world
    <3>. QED
      BY <2>1, <2>2, <2>3, <3>1
  <2>4. CASE dst = "temp"
    <3>1. /\ folder' = folder /\ temp' = Absent /\ temps' = temps - 1
          /\ retried' = TRUE /\ pc' = IF retried THEN "failed" ELSE "fetch"
          /\ UNCHANGED <<remote, owned, managed, req, dst>>
      BY <1>5, <2>4 DEF CloneFail, AttemptFailed, world
    <3>. QED
      BY <2>1, <2>2, <2>4, <3>1, AbsentTyped
  <2>. QED
    BY <2>3, <2>4
<1>. QED
  BY <1>2, <1>3, <1>4, <1>5

\* Steps of the fetch and of the swap.
LEMMA TypedFetch ==
    ASSUME Typed, Fetch \/ MakeTemp \/ RefuseRemoval \/ RemoveOld \/ Activate
    PROVE  Typed'
<1> USE DEF Typed, StateOK, TempsCount, Refused, InTemp, Ended
<1>1. CASE Fetch
  <2>1. folder' \in Repository
    BY <1>1, WantedTyped, DownloadedTyped DEF Fetch
  <2>. QED
    BY <1>1, <2>1 DEF Fetch, Fetching, Goto, NoFault, bounds, history, world
<1>2. CASE MakeTemp
  BY <1>2, AbsentTyped DEF MakeTemp, AttemptFailed, NoFault, bounds, history, world, disk
<1>3. CASE RemoveOld
  <2>1. CASE AttemptFailed
    <3>1. folder' \in Repository /\ temp' = Absent /\ temps' = temps - 1
      BY <1>3, <2>1, AbsentTyped, PartlyRemovedTyped
         DEF RemoveOld, DropTemp, Goto, AttemptFailed
    <3>2. pc = "remove" /\ (Fault \/ NoFault)
      BY <1>3 DEF RemoveOld
    <3>. QED
      BY <2>1, <3>1, <3>2, AbsentTyped, BoundsAssumption
         DEF AttemptFailed, Fault, NoFault, bounds, history, world
  <2>2. CASE ~AttemptFailed
    BY <1>3, <2>2, AbsentTyped DEF RemoveOld, Goto, NoFault, bounds, history, world
  <2>. QED
    BY <2>1, <2>2
<1>4. CASE Activate
  BY <1>4, AbsentTyped, BoundsAssumption
     DEF Activate, AttemptFailed, DropTemp, Goto, Fault, NoFault, bounds, history, world
<1>5. CASE RefuseRemoval
  BY <1>5 DEF RefuseRemoval, AttemptFailed, NoFault, bounds, history, world, disk
<1>. QED
  BY <1>1, <1>2, <1>3, <1>4, <1>5

\* The checkout, a new run, and the environment.
LEMMA TypedRest ==
    ASSUME Typed,
           \/ Checkout \/ CheckoutFail \/ Killed
           \/ \E q \in Requests : Start(q)
           \/ \E k \in Kinds : Move(k)
    PROVE  Typed'
<1> USE DEF Typed, StateOK, TempsCount, Refused, InTemp, Ended
<1>0. \A t \in Commits \cup {Mixed} : [folder EXCEPT !.tree = t] \in Repository
  BY DEF Repository
<1>1. CASE Checkout
  <2>1. Resolved \in Commits
    BY <1>1 DEF Checkout, Repository
  <2>2. folder' \in Repository
    BY <1>1, <2>1 DEF Checkout, Repository
  <2>. QED
    BY <1>1, <2>2 DEF Checkout, Goto, NoFault, bounds, history, world
<1>2. CASE CheckoutFail
  <2>1. folder.tree \in Commits \cup {Mixed} /\ Mixed \in Commits \cup {Mixed}
    BY DEF Repository
  <2>2. folder' \in Repository
    BY <1>0, <1>2, <2>1 DEF CheckoutFail
  <2>. QED
    BY <1>2, <2>2, BoundsAssumption
       DEF CheckoutFail, Goto, Fault, NoFault, bounds, history, world
<1>3. CASE Killed
  <2>1. folder' \in Repository
    BY <1>0, <1>3, PartlyRemovedTyped DEF Killed
  <2>. QED
    BY <1>3, <2>1, BoundsAssumption DEF Killed, Goto, history, world
<1>4. ASSUME NEW q \in Requests, Start(q) PROVE Typed'
  <2>1. q \in Request
    BY InputsAssumption
  <2>2. seen' \subseteq Commits \cup {Gone}
    BY <1>4, <2>1 DEF Start, Request
  <2>. QED
    BY <1>4, <2>1, <2>2, AbsentTyped, BoundsAssumption DEF Start, world
<1>5. ASSUME NEW k \in Kinds, Move(k) PROVE Typed'
  BY <1>5, BoundsAssumption DEF Move, disk
<1>. QED
  BY <1>1, <1>2, <1>3, <1>4, <1>5

LEMMA TypedInvariant == Spec => []Typed
<1>1. Typed /\ [Next]_vars => Typed'
  <2> SUFFICES ASSUME Typed, [Next]_vars PROVE Typed'
    OBVIOUS
  <2>1. CASE UNCHANGED vars
    BY <2>1 DEF vars, world, disk, bounds, history, Typed, StateOK, TempsCount, Refused, InTemp
  <2>. QED
    BY <2>1, TypedPlain, TypedClone, TypedFetch, TypedRest DEF Next, Run
<1>. QED
  BY <1>1, TypedInit, PTL DEF Spec

-----------------------------------------------------------------------------
(***************************************************************************)
(* References lead to objects, in the folder and in the temporary          *)
(* directory; so what was fetched can be checked out.                      *)
(***************************************************************************)

BothSound == Sound(folder) /\ Sound(temp)

LEMMA SoundInvariant == Spec => []BothSound
<1>1. Init => BothSound
  BY AbsentTyped, InputsAssumption DEF Init, BothSound
<1>2. Typed /\ BothSound /\ [Next]_vars => BothSound'
  <2> SUFFICES ASSUME Typed, BothSound, [Next]_vars PROVE BothSound'
    OBVIOUS
  <2> USE DEF BothSound, Typed
  <2>1. /\ folder \in Repository /\ temp \in Repository
        /\ Dest \in Repository /\ Sound(Dest)
    BY DEF StateOK, Dest
  <2>2. ASSUME NEW r, Sound(r), Write(r) PROVE BothSound'
    BY <2>2 DEF Write
  <2>3. \A f \in Repository, t \in Commits \cup {Mixed} :
           Sound(f) => Sound([f EXCEPT !.tree = t])
    BY DEF Sound, Repository
  <2>4. CASE UNCHANGED folder /\ temp' \in {temp, Absent}
    BY <2>4, AbsentTyped
  <2>5. CASE InitRepo
    <3>1. Sound([Absent EXCEPT !.repo = TRUE])
      BY AbsentTyped DEF Sound, Absent
    <3>. QED
      BY <2>2, <2>5, <3>1 DEF InitRepo
  <2>6. CASE AddOrigin
    <3>1. Sound([Dest EXCEPT !.origin = "this"])
      BY <2>1 DEF Sound, Repository
    <3>. QED
      BY <2>2, <2>6, <3>1 DEF AddOrigin
  <2>7. CASE CloneFetch
    BY <2>1, <2>2, <2>7, WantedTyped, DownloadedTyped DEF CloneFetch
  <2>8. CASE CloneFail
    BY <2>8, AbsentTyped DEF CloneFail
  <2>9. CASE Fetch
    BY <2>1, <2>9, WantedTyped, DownloadedTyped DEF Fetch
  <2>10. CASE RemoveOld \/ Activate
    BY <2>1, <2>10, AbsentTyped, PartlyRemovedTyped DEF RemoveOld, Activate, DropTemp
  <2>11. CASE Checkout
    <3>1. folder' = [folder EXCEPT
                        !.tree = Resolved,
                        !.tmpRefs = IF req.kind = "commit" THEN @ \ {Resolved} ELSE @]
          /\ temp' = temp
      BY <2>11 DEF Checkout
    <3>2. /\ folder'.refs = folder.refs /\ folder'.objects = folder.objects
          /\ folder'.tmpRefs \subseteq folder.tmpRefs
      BY <2>1, <3>1 DEF Repository
    <3>. QED
      BY <3>1, <3>2 DEF Sound
  <2>12. CASE CheckoutFail
    <3>1. folder.tree \in Commits \cup {Mixed} /\ Mixed \in Commits \cup {Mixed}
      BY <2>1 DEF Repository
    <3>. QED
      BY <2>1, <2>3, <2>12, <3>1 DEF CheckoutFail
  <2>13. CASE Killed
    BY <2>1, <2>3, <2>13, PartlyRemovedTyped DEF Killed
  <2>14. CASE RefuseRemoval \/ DetermineTarget \/ OpenFolder \/ HaveCommit \/ ObjectMissing
              \/ FetchFail \/ MakeTemp \/ (\E q \in Requests : Start(q))
              \/ (\E k \in Kinds : Move(k)) \/ UNCHANGED vars
    BY <2>4, <2>14
       DEF RefuseRemoval, DetermineTarget, OpenFolder, HaveCommit, ObjectMissing,
           FetchFail, MakeTemp, Start, Move, vars, disk
  <2>. QED
    BY <2>5, <2>6, <2>7, <2>8, <2>9, <2>10, <2>11, <2>12, <2>13, <2>14 DEF Next, Run
<1>. QED
  BY <1>1, <1>2, TypedInvariant, PTL DEF Spec

-----------------------------------------------------------------------------
(***************************************************************************)
(* What is checked out was on the remote during the run.                   *)
(***************************************************************************)

\* The repository has what the run asked for, as the run saw it.
Has(f) ==
    IF req.kind = "commit" THEN req.commit \in f.tmpRefs
    ELSE f.refs[req.kind] \in seen \ {Gone}

\* The remote's present answer was seen, and a commit is only ever itself.
SeenNow ==
    /\ pc \notin Ended => Wanted \in seen
    /\ pc # "idle" /\ req.kind = "commit" => seen = {req.commit}

Placed ==
    /\ pc \in {"origin", "clone"} => Dest.repo
    /\ pc = "clone" => Dest.origin = "this"
    /\ pc = "fetch" /\ ~retried => folder.repo

Ready == pc \in {"remove", "rename"} => temp.repo /\ temp.origin = "this" /\ Has(temp)

CheckoutReady ==
    pc = "checkout" => folder.repo /\ Resolved \in folder.objects \cap seen

DoneFresh ==
    pc = "done" =>
        /\ folder.repo /\ folder.tree \in seen \ {Gone}
        /\ req.kind = "commit" => req.commit \notin folder.tmpRefs

Fresh == SeenNow /\ Placed /\ Ready /\ CheckoutReady /\ DoneFresh

Known == Typed /\ BothSound

\* A run changes neither its request nor the remote, nor what it has seen.
LEMMA RunKeeps ==
    ASSUME Run
    PROVE  /\ pc \notin Ended
           /\ UNCHANGED <<remote, owned, managed, req, seen, begun>>
<1> USE DEF Ended, Goto, AttemptFailed, Fault, NoFault, bounds, history, world
<1>1. CASE DetermineTarget \/ OpenFolder \/ InitRepo \/ AddOrigin \/ CloneFetch
  BY <1>1 DEF DetermineTarget, OpenFolder, InitRepo, AddOrigin, CloneFetch
<1>2. CASE CloneFail
  BY <1>2 DEF CloneFail
<1>3. CASE HaveCommit \/ Fetch \/ ObjectMissing \/ FetchFail
  BY <1>3 DEF HaveCommit, Fetch, ObjectMissing, FetchFail, Fetching
<1>4. CASE MakeTemp \/ RefuseRemoval \/ RemoveOld \/ Activate
  BY <1>4 DEF MakeTemp, RefuseRemoval, RemoveOld, Activate
<1>5. CASE Checkout \/ CheckoutFail
  BY <1>5 DEF Checkout, CheckoutFail
<1>. QED
  BY <1>1, <1>2, <1>3, <1>4, <1>5 DEF Run

LEMMA SeenNowStep ==
    ASSUME Known, SeenNow, [Next]_vars
    PROVE  SeenNow'
<1> USE DEF SeenNow, Ended, Wanted
<1>1. CASE UNCHANGED vars
  BY <1>1 DEF vars, world, history
<1>2. CASE Run
  BY <1>2, RunKeeps
<1>3. ASSUME NEW q \in Requests, Start(q) PROVE SeenNow'
  BY <1>3 DEF Start, world
<1>4. CASE Killed
  BY <1>4 DEF Killed, Goto, world, history
<1>5. ASSUME NEW k \in Kinds, Move(k) PROVE SeenNow'
  <2>1. req.kind = k \/ remote'[req.kind] = remote[req.kind] \/ req.kind = "commit"
    BY <1>5 DEF Move, Known, Typed, StateOK, Request
  <2>2. /\ pc' = pc /\ req' = req
        /\ \E c \in (Commits \cup {Gone}) : remote' = [remote EXCEPT ![k] = c] /\
              seen' = IF pc \notin Ended /\ req.kind = k THEN seen \cup {c} ELSE seen
    BY <1>5 DEF Move
  <2>3. k # "commit" /\ remote \in [Kinds -> Commits \cup {Gone}]
    BY DEF Kinds, Known, Typed, StateOK
  <2>. QED
    BY <2>1, <2>2, <2>3
<1>. QED
  BY <1>1, <1>2, <1>3, <1>4, <1>5 DEF Next

LEMMA PlacedStep ==
    ASSUME Known, Fresh, [Next]_vars
    PROVE  Placed' /\ Ready'
<1> USE DEF Fresh, Placed, Ready, Ended, Dest, Has, Known, Typed
<1>1. CASE UNCHANGED vars
  BY <1>1 DEF vars, world, history, disk
<1>2. CASE InitRepo
  <2>1. [Absent EXCEPT !.repo = TRUE].repo
    BY DEF Absent
  <2>2. dst \in {"folder", "temp"} /\ dst' = dst
    BY <1>2 DEF InitRepo, Goto, StateOK
  <2>3. Dest' = [Absent EXCEPT !.repo = TRUE]
    BY <1>2, <2>2 DEF InitRepo, Write
  <2>. QED
    BY <1>2, <2>1, <2>3 DEF InitRepo, Goto
<1>3. CASE AddOrigin
  <2>1. /\ folder \in Repository /\ temp \in Repository /\ dst \in {"folder", "temp"}
    BY DEF StateOK
  <2>. QED
    BY <1>3, <2>1 DEF AddOrigin, Goto, Write, Repository
<1>4. CASE CloneFetch
  <2>1. /\ Dest \in Repository /\ Wanted \in Commits
    BY <1>4, WantedTyped DEF CloneFetch, StateOK
  <2>2. /\ Downloaded(Dest, Wanted).repo /\ Downloaded(Dest, Wanted).origin = "this"
        /\ req.kind \in Kinds => Downloaded(Dest, Wanted).refs[req.kind] = Wanted
        /\ req.kind = "commit" => Wanted \in Downloaded(Dest, Wanted).tmpRefs
    BY <1>4, <2>1, DownloadedTyped DEF CloneFetch
  <2>3. Wanted \in seen \ {Gone} /\ req.kind \in Kinds \cup {"commit"}
    BY <1>4, RunKeeps DEF CloneFetch, Run, SeenNow, StateOK, Request
  <2>4. UNCHANGED <<req, seen>> /\ pc' = (IF dst = "temp" THEN "remove" ELSE "checkout")
    BY <1>4, RunKeeps DEF CloneFetch, Run, Goto
  <2>5. dst = "temp" => temp' = Downloaded(Dest, Wanted)
    BY <1>4 DEF CloneFetch, Write
  <2>6. req.kind = "commit" => Wanted = req.commit
    BY DEF Wanted
  <2>. QED
    BY <2>2, <2>3, <2>4, <2>5, <2>6
<1>5. CASE RefuseRemoval \/ RemoveOld
  BY <1>5, RunKeeps DEF Run, RefuseRemoval, RemoveOld, Goto, AttemptFailed
<1>6. CASE DetermineTarget \/ OpenFolder \/ HaveCommit \/ Fetch \/ ObjectMissing
           \/ FetchFail \/ MakeTemp \/ Activate \/ Checkout \/ CheckoutFail
           \/ CloneFail \/ Killed
  <2>1. pc' \notin {"origin", "clone", "remove", "rename"}
    BY <1>6
       DEF DetermineTarget, OpenFolder, HaveCommit, Fetch, ObjectMissing, FetchFail,
           MakeTemp, Activate, Checkout, CheckoutFail, CloneFail, Killed, Goto,
           AttemptFailed
  <2>2. pc' = "fetch" => retried' \/ (folder' = folder /\ folder.repo)
    BY <1>6
       DEF DetermineTarget, OpenFolder, HaveCommit, Fetch, ObjectMissing, FetchFail,
           MakeTemp, Activate, Checkout, CheckoutFail, CloneFail, Killed, Goto,
           AttemptFailed, disk
  <2>. QED
    BY <2>1, <2>2
<1>7. ASSUME NEW q \in Requests, Start(q) PROVE Placed' /\ Ready'
  BY <1>7 DEF Start
<1>8. ASSUME NEW k \in Kinds, Move(k) PROVE Placed' /\ Ready'
  BY <1>8 DEF Move, disk
<1>. QED
  BY <1>1, <1>2, <1>3, <1>4, <1>5, <1>6, <1>7, <1>8 DEF Next, Run

\* Whatever precedes a checkout has fetched what is checked out.
LEMMA CheckoutReadyStep ==
    ASSUME Known, Fresh, [Next]_vars
    PROVE  CheckoutReady'
<1> USE DEF Fresh, CheckoutReady, Ended, Known, Typed
<1>0. /\ folder \in Repository /\ temp \in Repository /\ dst \in {"folder", "temp"}
      /\ req.kind \in Kinds \cup {"commit"} /\ req.commit \in Commits
      /\ Sound(folder) /\ Sound(temp) /\ "commit" \notin Kinds
  BY DEF StateOK, Request, BothSound, Kinds
<1>1. CASE UNCHANGED vars
  BY <1>1 DEF vars, world, history, disk, Resolved
<1>2. ASSUME Run, Wanted # Gone, NEW f \in Repository, f.repo,
             folder' = Downloaded(f, Wanted)
      PROVE  CheckoutReady'
  <2>1. Wanted \in Commits /\ Wanted \in seen /\ UNCHANGED <<req, seen>>
    BY <1>2, WantedTyped, RunKeeps DEF SeenNow
  <2>2. Resolved' = Wanted
    BY <1>0, <1>2, <2>1, DownloadedTyped DEF Resolved, Wanted
  <2>. QED
    BY <1>2, <2>1, <2>2, DownloadedTyped
<1>3. CASE CloneFetch
  <2>1. Wanted # Gone /\ Dest \in Repository /\ Dest.repo /\ dst' = dst
    BY <1>0, <1>3 DEF CloneFetch, Dest, Goto, Placed
  <2>2. CASE dst = "folder"
    BY <1>2, <1>3, <2>1, <2>2 DEF CloneFetch, Write, Run
  <2>3. CASE dst = "temp"
    BY <1>3, <2>3 DEF CloneFetch, Goto
  <2>. QED
    BY <1>0, <2>2, <2>3
<1>4. CASE HaveCommit
  <2>1. /\ pc = "fetch" /\ req.kind = "commit" /\ req.commit \in folder.objects
        /\ folder' = folder /\ UNCHANGED <<req, seen>>
    BY <1>4, RunKeeps DEF HaveCommit, HasCommit, Run, disk
  <2>2. folder.repo
    BY <1>4 DEF HaveCommit, Placed
  <2>. QED
    BY <2>1, <2>2 DEF SeenNow, Resolved
<1>5. CASE Fetch
  <2>1. CASE UpToDate
    <3>1. folder' = folder /\ folder.repo /\ Wanted # Gone /\ UNCHANGED <<req, seen>>
      BY <1>5, <2>1, RunKeeps DEF Fetch, Run
    <3>2. Resolved' = Wanted /\ Wanted \in folder.objects
      BY <1>0, <2>1, <3>1 DEF UpToDate, Resolved, Wanted, Sound
    <3>3. Wanted \in seen
      BY <1>5, RunKeeps DEF SeenNow, Run
    <3>. QED
      BY <3>1, <3>2, <3>3
  <2>2. CASE ~UpToDate
    BY <1>0, <1>2, <1>5, <2>2 DEF Fetch, Run
  <2>. QED
    BY <2>1, <2>2
<1>6. CASE Activate
  <2>1. CASE folder' = temp
    <3>1. temp.repo /\ Has(temp) /\ UNCHANGED <<req, seen>> /\ pc # "idle"
      BY <1>6, RunKeeps DEF Activate, Run, Ready
    <3>2. CASE req.kind = "commit"
      BY <1>0, <2>1, <3>1, <3>2 DEF Has, Resolved, Sound, SeenNow
    <3>3. CASE req.kind \in Kinds
      BY <1>0, <2>1, <3>1, <3>3 DEF Has, Resolved, Sound
    <3>. QED
      BY <1>0, <3>2, <3>3
  <2>2. CASE AttemptFailed
    BY <2>2 DEF AttemptFailed
  <2>. QED
    BY <1>6, <2>1, <2>2 DEF Activate
<1>7. CASE DetermineTarget \/ OpenFolder \/ InitRepo \/ AddOrigin \/ CloneFail
           \/ ObjectMissing \/ FetchFail \/ MakeTemp \/ RefuseRemoval \/ RemoveOld
           \/ Checkout \/ CheckoutFail \/ Killed \/ \E q \in Requests : Start(q)
  <2>1. pc' # "checkout"
    BY <1>7
       DEF DetermineTarget, OpenFolder, InitRepo, AddOrigin, CloneFail,
           ObjectMissing, FetchFail, MakeTemp, RefuseRemoval, RemoveOld, Checkout, CheckoutFail,
           Killed, Start, Goto, AttemptFailed
  <2>. QED
    BY <2>1
<1>8. ASSUME NEW k \in Kinds, Move(k) PROVE CheckoutReady'
  BY <1>8 DEF Move, disk, Resolved
<1>. QED
  BY <1>1, <1>3, <1>4, <1>5, <1>6, <1>7, <1>8 DEF Next, Run

LEMMA DoneFreshStep ==
    ASSUME Known, Fresh, [Next]_vars
    PROVE  DoneFresh'
<1> USE DEF Fresh, DoneFresh, Ended, Known, Typed
<1>1. CASE UNCHANGED vars
  BY <1>1 DEF vars, world, history, disk
<1>2. CASE Checkout
  <2>1. /\ folder.repo /\ Resolved \in seen /\ Resolved \in Commits
        /\ folder \in Repository /\ UNCHANGED <<req, seen>>
    BY <1>2, RunKeeps DEF Checkout, CheckoutReady, Run, StateOK, Repository
  <2>2. /\ folder'.repo = folder.repo /\ folder'.tree = Resolved
        /\ req.kind = "commit" => folder'.tmpRefs = folder.tmpRefs \ {Resolved}
    BY <1>2, <2>1 DEF Checkout, Repository
  <2>3. Resolved # Gone
    BY <2>1 DEF Commits, Gone
  <2>. QED
    BY <2>1, <2>2, <2>3 DEF Resolved
<1>3. CASE DetermineTarget \/ OpenFolder \/ InitRepo \/ AddOrigin \/ CloneFetch
           \/ CloneFail \/ HaveCommit \/ Fetch \/ ObjectMissing \/ FetchFail
           \/ MakeTemp \/ RefuseRemoval \/ RemoveOld \/ Activate \/ CheckoutFail \/ Killed
           \/ \E q \in Requests : Start(q)
  <2>1. pc' # "done"
    BY <1>3
       DEF DetermineTarget, OpenFolder, InitRepo, AddOrigin, CloneFetch, CloneFail,
           HaveCommit, Fetch, ObjectMissing, FetchFail, MakeTemp, RefuseRemoval, RemoveOld,
           Activate, CheckoutFail, Killed, Start, Goto, AttemptFailed
  <2>. QED
    BY <2>1
<1>4. ASSUME NEW k \in Kinds, Move(k) PROVE DoneFresh'
  BY <1>4 DEF Move, disk
<1>. QED
  BY <1>1, <1>2, <1>3, <1>4 DEF Next, Run

LEMMA FreshInvariant == Spec => []Fresh
<1>1. Init => Fresh
  BY DEF Init, Fresh, SeenNow, Placed, Ready, CheckoutReady, DoneFresh, Ended
<1>2. Known /\ Fresh /\ [Next]_vars => Fresh'
  BY SeenNowStep, PlacedStep, CheckoutReadyStep, DoneFreshStep DEF Fresh
<1>. QED
  BY <1>1, <1>2, TypedInvariant, SoundInvariant, PTL DEF Spec, Known

-----------------------------------------------------------------------------
(***************************************************************************)
(* Why a run may fail.                                                     *)
(***************************************************************************)

Excused ==
    disturbed \/ NotFetchable \/ OtherRepository \/ NotRepaired \/ begun.torn

\* Up to its first attempt a run has not touched the folder; only a cut history
\* leads to a reclone; only a folder without a repository is cloned into; what
\* is checked out is whole.
Causes ==
    /\ pc = "failed" => Excused
    /\ pc \notin Ended /\ retried => Excused
    /\ pc \in {"list", "open"} => folder = begun
    /\ pc = "fetch" => Excused \/ folder = begun
    /\ pc = "mktemp" \/ InTemp => Excused \/ begun.shallow
    /\ pc \in {"init", "origin", "clone"} /\ dst = "folder" => ~begun.repo
    /\ ~temp.torn
    /\ pc \in {"origin", "clone"} /\ dst = "folder" => ~folder.torn
    /\ pc = "checkout" => Excused \/ ~folder.torn

\* What excuses a run goes on excusing it until it ends.
LEMMA ExcusedKept ==
    ASSUME Run, Excused
    PROVE  Excused'
<1>1. UNCHANGED <<remote, owned, managed, req, seen, begun>>
  BY RunKeeps
<1>2. disturbed => disturbed'
  BY DEF Run, DetermineTarget, OpenFolder, InitRepo, AddOrigin, CloneFetch,
         CloneFail, HaveCommit, Fetch, ObjectMissing, FetchFail, MakeTemp,
         RefuseRemoval, RemoveOld, Activate, Checkout, CheckoutFail, Fault, NoFault, history
<1>. QED
  BY <1>1, <1>2 DEF Excused, NotFetchable, OtherRepository, NotRepaired

\* Every way to give up an attempt, or the run, has its excuse.
LEMMA GivingUp ==
    ASSUME Known, Fresh, Causes, Run,
           pc' = "failed" \/ AttemptFailed
    PROVE  Excused'
<1>1. CASE Excused
  BY <1>1, ExcusedKept
<1>2. CASE ~Excused
  <2> USE <1>2 DEF Causes, Ended
  <2>1. UNCHANGED <<remote, owned, managed, req, seen, begun>> /\ pc \notin Ended
    BY RunKeeps
  <2>2. Wanted = Gone => NotFetchable
    BY <2>1 DEF Fresh, SeenNow, NotFetchable
  <2>3. CASE Fault
    BY <2>3 DEF Fault, Excused
  <2>4. CASE DetermineTarget
    BY <2>2, <2>3, <2>4 DEF DetermineTarget, Goto, AttemptFailed, Excused
  <2>5. CASE OpenFolder
    BY <2>5 DEF OpenFolder, AttemptFailed, Excused, OtherRepository
  <2>6. CASE CloneFail
    BY <2>2, <2>3, <2>6 DEF CloneFail, Excused
  <2>7. CASE ObjectMissing
    <3>1. ~retried /\ folder = begun /\ begun.shallow /\ pc = "fetch"
      BY <2>7 DEF ObjectMissing, Fetching, Excused
    <3>2. ~req.repair
      BY <2>7, <3>1 DEF ObjectMissing, Goto, AttemptFailed
    <3>. QED
      BY <3>1, <3>2 DEF Excused, NotRepaired
  <2>8. CASE FetchFail
    <3>1. ~retried /\ pc = "fetch" /\ folder.repo /\ ~folder.torn
      BY <2>8 DEF FetchFail, Fetching, Fresh, Placed, Excused
    <3>. QED
      BY <2>2, <2>3, <2>8, <3>1 DEF FetchFail, Excused
  <2>9. CASE MakeTemp
    <3>1. pc = "mktemp" /\ ~retried
      BY <2>9 DEF MakeTemp
    <3>2. owned
      BY <2>9, <3>1 DEF MakeTemp, AttemptFailed
    <3>. QED
      BY <3>1, <3>2 DEF Excused, NotRepaired
  <2>10. CASE RemoveOld \/ Activate
    BY <2>3, <2>10 DEF RemoveOld, Activate, Goto, AttemptFailed
  <2>11. CASE CheckoutFail
    BY <2>3, <2>11 DEF CheckoutFail, Fresh, CheckoutReady
  <2>13. CASE RefuseRemoval
    BY <2>13 DEF RefuseRemoval, InTemp, Excused, NotRepaired
  <2>12. CASE InitRepo \/ AddOrigin \/ CloneFetch \/ HaveCommit \/ Fetch \/ Checkout
    BY <2>12 DEF InitRepo, AddOrigin, CloneFetch, HaveCommit, Fetch, Checkout,
         Goto, AttemptFailed, Fetching
  <2>. QED
    BY <2>4, <2>5, <2>6, <2>7, <2>8, <2>9, <2>10, <2>11, <2>12,
       <2>13 DEF Run
<1>. QED
  BY <1>1, <1>2

\* A step leaves the temporary directory whole, and the folder as whole as it
\* was when it is not being removed.
LEMMA TornKept ==
    ASSUME Known, Causes, Run
    PROVE  /\ ~temp'.torn
           /\ pc # "remove" => (folder'.torn => folder.torn)
           /\ pc = "rename" /\ folder' # folder => ~folder'.torn
<1> USE DEF Causes, Known, Typed, StateOK
<1>0. ~Absent.torn /\ folder \in Repository /\ temp \in Repository /\ Dest \in Repository
  BY DEF Absent, Dest
<1>1. CASE InitRepo
  <2>1. ~[Absent EXCEPT !.repo = TRUE].torn
    BY DEF Absent
  <2>. QED
    BY <1>1, <2>1 DEF InitRepo, Write
<1>2. CASE AddOrigin
  <2>1. [Dest EXCEPT !.origin = "this"].torn = Dest.torn
    BY <1>0 DEF Repository
  <2>. QED
    BY <1>2, <2>1 DEF AddOrigin, Write, Dest
<1>3. CASE CloneFetch
  <2>1. Downloaded(Dest, Wanted).torn = Dest.torn
    BY <1>0, <1>3, WantedTyped, DownloadedTyped DEF CloneFetch
  <2>. QED
    BY <1>3, <2>1 DEF CloneFetch, Write, Dest
<1>4. CASE Fetch
  <2>1. Downloaded(folder, Wanted).torn = folder.torn
    BY <1>0, <1>4, WantedTyped, DownloadedTyped DEF Fetch
  <2>. QED
    BY <1>4, <2>1 DEF Fetch, Fetching
<1>5. CASE CloneFail
  BY <1>0, <1>5 DEF CloneFail
<1>8. CASE RefuseRemoval \/ MakeTemp
  BY <1>0, <1>8 DEF RefuseRemoval, MakeTemp, disk
<1>9. CASE RemoveOld
  BY <1>0, <1>9 DEF RemoveOld, DropTemp
<1>10. CASE Activate
  BY <1>0, <1>10 DEF Activate, DropTemp
<1>6. CASE Checkout \/ CheckoutFail
  BY <1>0, <1>6 DEF Checkout, CheckoutFail, Repository
<1>7. CASE DetermineTarget \/ OpenFolder \/ HaveCommit \/ ObjectMissing \/ FetchFail
  BY <1>7 DEF DetermineTarget, OpenFolder, HaveCommit, ObjectMissing, FetchFail, Fetching, disk
<1>. QED
  BY <1>1, <1>2, <1>3, <1>4, <1>5, <1>6, <1>7, <1>8, <1>9, <1>10 DEF Run

\* A step of a run either gives up or moves on inside the run.
LEMMA CausesRun ==
    ASSUME Known, Fresh, Causes, Run
    PROVE  Causes'
<1> USE DEF Causes, Ended, InTemp
<1>0. UNCHANGED <<remote, owned, managed, req, seen, begun>> /\ pc \notin Ended
  BY RunKeeps
<1>4. ~temp'.torn
  BY TornKept
<1>5. Excused => Excused'
  BY ExcusedKept
<1>1. CASE AttemptFailed
  <2>1. Excused'
    BY <1>1, GivingUp
  <2>2. pc' \in {"failed", "fetch"}
    BY <1>1 DEF AttemptFailed
  <2>. QED
    BY <1>4, <2>1, <2>2
<1>2. CASE pc' = "failed"
  BY <1>2, <1>4, GivingUp
<1>3. CASE ~AttemptFailed /\ pc' # "failed"
  <2>1. retried' = retried
    BY <1>3
       DEF Run, DetermineTarget, OpenFolder, InitRepo, AddOrigin, CloneFetch,
           CloneFail, HaveCommit, Fetch, ObjectMissing, FetchFail, MakeTemp,
           RefuseRemoval, RemoveOld, Activate, Checkout, CheckoutFail, Goto
  <2>2. retried /\ pc \notin Ended => Excused'
    BY ExcusedKept
  <2>3. CASE DetermineTarget
    BY <1>0, <1>3, <1>4, <2>1, <2>2, <2>3 DEF DetermineTarget, Goto, disk
  <2>4. CASE OpenFolder
    BY <1>0, <1>3, <1>4, <1>5, <2>1, <2>2, <2>4 DEF OpenFolder, disk
  <2>5. CASE InitRepo \/ AddOrigin
    <3>1. dst = "folder" => ~folder'.torn
      <4>1. ~[Absent EXCEPT !.repo = TRUE].torn
        BY DEF Absent
      <4>2. CASE InitRepo
        BY <4>1, <4>2 DEF InitRepo, Write
      <4>3. CASE AddOrigin
        BY <4>3, TornKept DEF AddOrigin
      <4>. QED
        BY <2>5, <4>2, <4>3
    <3>. QED
      BY <1>0, <1>4, <1>5, <2>1, <2>2, <2>5, <3>1 DEF InitRepo, AddOrigin, Goto
  <2>6. CASE ObjectMissing
    <3>1. pc' = "mktemp" /\ pc = "fetch" /\ (folder.torn \/ folder.shallow)
      BY <1>3, <2>6 DEF ObjectMissing, Goto, Fetching
    <3>2. Excused' \/ begun'.shallow
      BY <1>0, <1>5, <3>1 DEF Excused
    <3>. QED
      BY <1>4, <2>1, <2>2, <3>1, <3>2
  <2>7. CASE MakeTemp
    BY <1>0, <1>3, <1>4, <1>5, <2>1, <2>2, <2>7 DEF MakeTemp
  <2>8. CASE CloneFetch
    <3>1. /\ pc = "clone" /\ pc' = IF dst = "temp" THEN "remove" ELSE "checkout"
          /\ dst \in {"folder", "temp"}
      BY <2>8 DEF CloneFetch, Goto, Known, Typed, StateOK
    <3>. QED
      BY <1>0, <1>4, <1>5, <2>1, <2>2, <3>1, TornKept
  <2>10. CASE HaveCommit \/ Fetch
    <3>1. pc = "fetch" /\ pc' = "checkout"
      BY <2>10 DEF HaveCommit, Fetch, Fetching, Goto
    <3>2. Excused' \/ ~folder'.torn
      BY <1>5, <3>1, TornKept DEF Excused
    <3>. QED
      BY <1>4, <2>1, <2>2, <3>1, <3>2
  <2>11. CASE RemoveOld
    BY <1>0, <1>3, <1>4, <1>5, <2>1, <2>2, <2>11 DEF RemoveOld, Goto
  <2>12. CASE Activate
    <3>1. pc = "rename" /\ pc' = "checkout" /\ folder' = temp
      BY <1>3, <2>12 DEF Activate, Goto
    <3>. QED
      BY <1>4, <2>1, <2>2, <3>1
  <2>13. CASE Checkout
    BY <1>4, <2>1, <2>2, <2>13 DEF Checkout, Goto
  <2>9. CASE CloneFail \/ RefuseRemoval \/ FetchFail \/ CheckoutFail
    BY <1>3, <2>9 DEF CloneFail, RefuseRemoval, FetchFail, CheckoutFail, Goto
  <2>. QED
    BY <2>3, <2>4, <2>5, <2>6, <2>7, <2>8, <2>9, <2>10, <2>11, <2>12,
       <2>13 DEF Run
<1>. QED
  BY <1>1, <1>2, <1>3

LEMMA CausesInvariant == Spec => []Causes
<1> USE DEF Causes, Ended, InTemp
<1>1. Init => Causes
  BY DEF Init, Absent
<1>2. Known /\ Fresh /\ Causes /\ [Next]_vars => Causes'
  <2> SUFFICES ASSUME Known, Fresh, Causes, [Next]_vars PROVE Causes'
    OBVIOUS
  <2> USE DEF Excused, NotFetchable, OtherRepository, NotRepaired
  <2>1. CASE UNCHANGED vars
    BY <2>1 DEF vars, world, disk, history
  <2>2. CASE Run
    BY <2>2, CausesRun
  <2>3. ASSUME NEW q \in Requests, Start(q) PROVE Causes'
    BY <2>3 DEF Start, world, Absent
  <2>4. CASE Killed
    BY <2>4 DEF Killed, Goto
  <2>5. ASSUME NEW k \in Kinds, Move(k) PROVE Causes'
    BY <2>5 DEF Move, disk
  <2>. QED
    BY <2>1, <2>2, <2>3, <2>4, <2>5 DEF Next
<1>. QED
  BY <1>1, <1>2, TypedInvariant, SoundInvariant, FreshInvariant, PTL DEF Spec, Known

-----------------------------------------------------------------------------
(***************************************************************************)
(* The theorems.                                                           *)
(***************************************************************************)

(***************************************************************************)
(* Every variable keeps its type; the number of temporary directories is   *)
(* never negative.                                                         *)
(***************************************************************************)
THEOREM TypeCorrect == Spec => []TypeOK
BY TypedInvariant, FlagsInvariant, PTL DEF Typed, TypeOK

(***************************************************************************)
(* Success means fresh: the files are those of a commit the wanted         *)
(* reference had during the run, for every number of runs and faults.      *)
(***************************************************************************)
THEOREM SuccessFresh == Spec => []SuccessIsFresh
<1>1. Fresh => SuccessIsFresh
  BY DEF Fresh, DoneFresh, SuccessIsFresh
<1>. QED
  BY <1>1, FreshInvariant, PTL

(***************************************************************************)
(* A successful run on a commit leaves no temporary reference to it.       *)
(***************************************************************************)
THEOREM TmpRefGone == Spec => []TmpRefRemoved
<1>1. Fresh => TmpRefRemoved
  BY DEF Fresh, DoneFresh, TmpRefRemoved
<1>. QED
  BY <1>1, FreshInvariant, PTL

(***************************************************************************)
(* Only killed runs leave a temporary directory behind.                    *)
(***************************************************************************)
THEOREM TempsGone == Spec => []NoTempLeft
<1>1. Typed => NoTempLeft
  BY DEF Typed, StateOK, TempsCount, Refused, InTemp, NoTempLeft
<1>. QED
  BY <1>1, TypedInvariant, PTL

(***************************************************************************)
(* Runs recover by themselves: a run fails only for one of the causes, not *)
(* because of what earlier runs, failed or killed anywhere, left behind.   *)
(***************************************************************************)
THEOREM FailuresHaveCause == Spec => []FailsForCause
<1>1. Causes => FailsForCause
  BY DEF Causes, Excused, FailsForCause
<1>. QED
  BY <1>1, CausesInvariant, PTL

(***************************************************************************)
(* A repository a run found is only removed when its replacement, complete *)
(* for the request, lies in the temporary directory.                       *)
(***************************************************************************)
THEOREM OldUntilReplacement == Spec => ReplacedWhenReady
<1> DEFINE Complete ==
        /\ temp.origin = "this"
        /\ \E c \in seen \cap temp.objects :
              IF req.kind = "commit" THEN c \in temp.tmpRefs
              ELSE temp.refs[req.kind] = c
<1>1. Known /\ Fresh /\ pc = "remove" => Complete
  <2> SUFFICES ASSUME Known, Fresh, pc = "remove" PROVE Complete
    OBVIOUS
  <2>1. temp.origin = "this" /\ Has(temp) /\ Sound(temp)
    BY DEF Fresh, Ready, Known, BothSound
  <2>2. CASE req.kind = "commit"
    <3>1. seen = {req.commit} /\ req.commit \in temp.tmpRefs
      BY <2>1, <2>2 DEF Has, Fresh, SeenNow
    <3>. QED
      BY <2>1, <2>2, <3>1 DEF Sound
  <2>3. CASE req.kind \in Kinds
    <3>1. temp.refs[req.kind] \in seen \ {Gone} /\ req.kind # "commit"
      BY <2>1, <2>3 DEF Has, Kinds
    <3>. QED
      BY <2>1, <2>3, <3>1 DEF Sound
  <2>. QED
    BY <2>2, <2>3 DEF Known, Typed, StateOK, Request
<1>2. Known /\ Fresh /\ Causes /\ [Next]_vars
        => [begun.repo /\ folder.repo /\ (~folder'.repo \/ (folder'.torn /\ ~folder.torn))
               => Complete]_vars
  <2> SUFFICES ASSUME Known, Fresh, Causes, [Next]_vars,
                      begun.repo, folder.repo,
                      ~folder'.repo \/ (folder'.torn /\ ~folder.torn)
               PROVE  pc = "remove" \/ UNCHANGED vars
    BY <1>1
  <2>0. /\ folder \in Repository /\ dst \in {"folder", "temp"}
        /\ dst = "folder" => pc \notin {"init", "origin", "clone"}
    BY DEF Known, Typed, StateOK, Causes
  <2>1. folder' # folder
    OBVIOUS
  <2>2. CASE InitRepo \/ AddOrigin \/ CloneFetch \/ CloneFail
    BY <2>0, <2>1, <2>2 DEF InitRepo, AddOrigin, CloneFetch, CloneFail, Write
  <2>3. CASE Fetch
    <3>1. Wanted \in Commits
      BY <2>3, WantedTyped DEF Fetch, Known, Typed
    <3>. QED
      BY <2>0, <2>3, <3>1, DownloadedTyped DEF Fetch, Known, Typed
  <2>4. CASE Activate
    BY <2>4 DEF Activate, Fresh, Ready, Causes
  <2>5. CASE Checkout \/ CheckoutFail \/ Killed
    <3>1. CASE Checkout
      BY <2>0, <3>1 DEF Checkout, Repository
    <3>2. CASE CheckoutFail
      BY <2>0, <3>2 DEF CheckoutFail, Repository
    <3>3. CASE Killed
      BY <2>0, <3>3 DEF Killed, Repository
    <3>. QED
      BY <2>5, <3>1, <3>2, <3>3
  <2>6. CASE RefuseRemoval \/ RemoveOld
    BY <2>6 DEF RefuseRemoval, RemoveOld
  <2>7. CASE DetermineTarget \/ OpenFolder \/ HaveCommit \/ ObjectMissing
             \/ FetchFail \/ MakeTemp \/ (\E q \in Requests : Start(q))
             \/ (\E k \in Kinds : Move(k))
    BY <2>1, <2>7
       DEF DetermineTarget, OpenFolder, HaveCommit, ObjectMissing, FetchFail,
           MakeTemp, Start, Move, disk
  <2>. QED
    BY <2>2, <2>3, <2>4, <2>5, <2>6, <2>7 DEF Next, Run
<1>. QED
  BY <1>2, TypedInvariant, SoundInvariant, FreshInvariant, CausesInvariant, PTL
     DEF Spec, Known, ReplacedWhenReady
=============================================================================
