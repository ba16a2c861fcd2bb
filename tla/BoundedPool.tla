----------------------------- MODULE BoundedPool -----------------------------
(***************************************************************************)
(* The fetch and analyse commands working through a list of requests:      *)
(* ForEveryStringWithBoundedGoroutines (pkg/shared/common.go) driven by    *)
(* Fetcher.FetchRepos and Scanner.ScanRepos, each request in a plugin      *)
(* process of its own (shared.WithPlugin).                                 *)
(*                                                                         *)
(* Processes are the main goroutine and one worker goroutine per request;  *)
(* they share the guard channel, the wait group and the two buffered       *)
(* channels for results and errors.  The plugin call itself (Fetch, Scan)  *)
(* is a step that succeeds or fails.                                       *)
(***************************************************************************)
EXTENDS Integers, Sequences, FiniteSets

CONSTANTS
    MaxRequests,   \* bound: requests of one command
    Options        \* command lines considered

Tasks == 1 .. MaxRequests

(***************************************************************************)
(* A command line: which command, kind of authentication ("http" stands    *)
(* for ssh-agent too, "ssh-key" for a readable key, "bad" for anything     *)
(* refused), whether a single target and an input file are given, the      *)
(* threads flag, and the number of requests it leads to, if the request    *)
(* list can be prepared.  The plugin call of a request in `hangs` may      *)
(* never return.                                                           *)
(***************************************************************************)
CommandLine ==
    [command : {"fetch", "analyse"}, auth : {"http", "ssh-key", "bad"},
     target : BOOLEAN, file : BOOLEAN, threads : Int,
     requests : 0 .. MaxRequests, prepares : BOOLEAN, hangs : SUBSET Tasks]

ASSUME PoolAssumption ==
    /\ MaxRequests \in Nat
    /\ Options \subseteq { o \in CommandLine : o.target => o.requests = 1 }

VARIABLES
    opts,       \* the command line
    main,       \* where the main goroutine is, or how the command ended
    next,       \* next request of the loop
    guard,      \* tokens in the guard channel, whose capacity is the limit
    wg,         \* counter of the wait group
    worker,     \* request -> where its goroutine is
    plugin,     \* request -> its plugin process
    failed,     \* request -> WithPlugin returned an error
    results,    \* channel of results, filled by the workers
    errors,     \* channel of errors, filled by the workers
    closed,     \* both channels are closed
    launches    \* what the command returns as its result

vars == <<opts, main, next, guard, wg, worker, plugin, failed, results,
          errors, closed, launches>>

Requests == 1 .. opts.requests

-----------------------------------------------------------------------------
(***************************************************************************)
(* The main goroutine.                                                     *)
(***************************************************************************)

\* validateFetchArgs.  A usable key ends the validation at once.
FetchValid(o) ==
    \/ o.auth = "ssh-key"
    \/ o.auth = "http" /\ o.target /\ ~o.file
    \/ o.auth = "http" /\ ~o.target /\ o.file /\ o.threads > 0

\* validateAnalyseArgs
AnalyseValid(o) ==
    \/ o.target /\ ~o.file
    \/ ~o.target /\ o.file /\ o.threads > 0

\* prepareFetchTargets and PrepFetchReqList, prepareScanTargets and
\* PrepareScanArgs: a target or a readable input file, and no bad entry.
Preparable(o) == o.prepares /\ (o.target \/ o.file)

Accepted(o) ==
    /\ IF o.command = "fetch" THEN FetchValid(o) ELSE AnalyseValid(o)
    /\ Preparable(o)

Begin ==
    /\ main = "start"
    /\ main' = IF Accepted(opts) THEN "make" ELSE "rejected"
    /\ UNCHANGED <<opts, next, guard, wg, worker, plugin, failed, results,
                   errors, closed, launches>>

\* make(chan struct{}, limit) panics on a negative limit.
MakeGuard ==
    /\ main = "make"
    /\ main' = IF opts.threads < 0 THEN "panicked" ELSE "loop"
    /\ UNCHANGED <<opts, next, guard, wg, worker, plugin, failed, results,
                   errors, closed, launches>>

\* Plausible bug: one more than the limit.
HasSlotTooMany == guard <= opts.threads

HasSlot == guard < opts.threads

\* guard <- struct{}{}: blocks while the channel is full.
AcquireSlot ==
    /\ main = "loop" /\ next <= opts.requests
    /\ HasSlot
    /\ guard' = guard + 1
    /\ main' = "spawn"
    /\ UNCHANGED <<opts, next, wg, worker, plugin, failed, results, errors,
                   closed, launches>>

\* wg.Add(1) and the go statement.
Spawn ==
    /\ main = "spawn"
    /\ wg' = wg + 1
    /\ worker' = [worker EXCEPT ![next] = "connect"]
    /\ next' = next + 1
    /\ main' = "loop"
    /\ UNCHANGED <<opts, guard, plugin, failed, results, errors, closed, launches>>

\* Plausible bug: wg.Wait() is missing.
NoWait == TRUE

AllDone == wg = 0

\* wg.Wait(), then both channels are closed.
CloseChannels ==
    /\ main = "loop" /\ next > opts.requests
    /\ AllDone
    /\ closed' = TRUE
    /\ main' = "collect"
    /\ UNCHANGED <<opts, next, guard, wg, worker, plugin, failed, results,
                   errors, launches>>

\* Both channels are drained; any error makes the command fail.
Collect ==
    /\ main = "collect"
    /\ launches' = results
    /\ results' = << >> /\ errors' = << >>
    /\ main' = IF errors = << >> THEN "success" ELSE "failure"
    /\ UNCHANGED <<opts, next, guard, wg, worker, plugin, failed, closed>>

-----------------------------------------------------------------------------
(***************************************************************************)
(* A worker goroutine.                                                     *)
(***************************************************************************)

Goto(i, there) == worker' = [worker EXCEPT ![i] = there]

\* Plausible bug: an error path that leaves WithPlugin without client.Kill().
FailWithoutKill(i) ==
    /\ failed' = [failed EXCEPT ![i] = TRUE]
    /\ Goto(i, "result")

\* WithPlugin returns an error: the deferred client.Kill() is next.
Fail(i) ==
    /\ failed' = [failed EXCEPT ![i] = TRUE]
    /\ Goto(i, "kill")

Succeed(i, there) == Goto(i, there) /\ UNCHANGED failed

\* client.Client(): starts the plugin process; it may still run after an error.
Connect(i) ==
    /\ worker[i] = "connect"
    /\ \/ plugin' = [plugin EXCEPT ![i] = "running"] /\ Succeed(i, "dispense")
       \/ plugin' = [plugin EXCEPT ![i] = "running"] /\ Fail(i)
       \/ UNCHANGED plugin /\ Fail(i)
    /\ UNCHANGED <<opts, main, next, guard, wg, results, errors, closed, launches>>

\* rpcClient.Dispense
Dispense(i) ==
    /\ worker[i] = "dispense"
    /\ Succeed(i, "setup") \/ Fail(i)
    /\ UNCHANGED <<opts, main, next, guard, wg, plugin, results, errors,
                   closed, launches>>

\* setupPlugin
Setup(i) ==
    /\ worker[i] = "setup"
    /\ Succeed(i, "call") \/ Fail(i)
    /\ UNCHANGED <<opts, main, next, guard, wg, plugin, results, errors,
                   closed, launches>>

\* The plugin's Fetch or Scan returns.
Call(i) ==
    /\ worker[i] = "call"
    /\ Succeed(i, "kill") \/ Fail(i)
    /\ UNCHANGED <<opts, main, next, guard, wg, plugin, results, errors,
                   closed, launches>>

\* The deferred client.Kill().
Kill(i) ==
    /\ worker[i] = "kill"
    /\ plugin' = [plugin EXCEPT ![i] = "gone"]
    /\ Goto(i, "result")
    /\ UNCHANGED <<opts, main, next, guard, wg, failed, results, errors,
                   closed, launches>>

Status(i) == IF failed[i] THEN "FAILED" ELSE "OK"

\* resultsChannel <- GenericResult{...}: blocks while the buffer is full.
SendResult(i) ==
    /\ worker[i] = "result" /\ Len(results) < opts.requests
    /\ results' = Append(results, <<i, Status(i)>>)
    /\ Goto(i, IF failed[i] THEN "error" ELSE "release")
    /\ UNCHANGED <<opts, main, next, guard, wg, plugin, failed, errors,
                   closed, launches>>

\* Plausible bug: the error of a failed request is dropped.
DropError(i) ==
    /\ worker[i] = "error"
    /\ Goto(i, "release")
    /\ UNCHANGED <<opts, main, next, guard, wg, plugin, failed, results,
                   errors, closed, launches>>

\* errorChannel <- err
SendError(i) ==
    /\ worker[i] = "error" /\ Len(errors) < opts.requests
    /\ errors' = Append(errors, i)
    /\ Goto(i, "release")
    /\ UNCHANGED <<opts, main, next, guard, wg, plugin, failed, results,
                   closed, launches>>

\* Plausible bug: the goroutine returns without giving its slot back.
ReleaseForgotten(i) ==
    /\ worker[i] = "release"
    /\ Goto(i, "done")
    /\ UNCHANGED <<opts, main, next, guard, wg, plugin, failed, results,
                   errors, closed, launches>>

\* <-guard
Release(i) ==
    /\ worker[i] = "release"
    /\ guard' = guard - 1
    /\ Goto(i, "done")
    /\ UNCHANGED <<opts, main, next, wg, plugin, failed, results, errors,
                   closed, launches>>

\* The deferred wg.Done().
Done(i) ==
    /\ worker[i] = "done"
    /\ wg' = wg - 1
    /\ Goto(i, "ended")
    /\ UNCHANGED <<opts, main, next, guard, plugin, failed, results, errors,
                   closed, launches>>

-----------------------------------------------------------------------------

Init ==
    /\ opts \in Options
    /\ main = "start" /\ next = 1 /\ guard = 0 /\ wg = 0
    /\ worker = [i \in Tasks |-> "none"]
    /\ plugin = [i \in Tasks |-> "none"]
    /\ failed = [i \in Tasks |-> FALSE]
    /\ results = << >> /\ errors = << >> /\ closed = FALSE
    /\ launches = << >>

Main == Begin \/ MakeGuard \/ AcquireSlot \/ Spawn \/ CloseChannels \/ Collect

\* Steps of a worker that do not wait for the answer of a Fetch or Scan.
Local(i) ==
    \/ Connect(i) \/ Dispense(i) \/ Setup(i) \/ Kill(i)
    \/ SendResult(i) \/ SendError(i) \/ Release(i) \/ Done(i)

Worker(i) == Local(i) \/ Call(i)

Ended == main \in {"rejected", "panicked", "success", "failure"}

Finished == Ended /\ UNCHANGED vars

Next == Main \/ (\E i \in Tasks : Worker(i)) \/ Finished

Spec == Init /\ [][Next]_vars

(***************************************************************************)
(* The Go scheduler runs every goroutine that can run, and a plugin call   *)
(* that does not hang returns.  The code has no timeout of its own around  *)
(* a call.                                                                 *)
(***************************************************************************)
FairSpec ==
    /\ Spec
    /\ WF_vars(Main)
    /\ \A i \in Tasks : WF_vars(Local(i) \/ (i \notin opts.hangs /\ Call(i)))

-----------------------------------------------------------------------------
(***************************************************************************)
(* Correctness.                                                            *)
(***************************************************************************)

WorkerStates == {"none", "connect", "dispense", "setup", "call", "kill",
                 "result", "error", "release", "done", "ended"}

(***************************************************************************)
(* Type invariant; the guard never holds more tokens than its capacity.    *)
(***************************************************************************)
TypeOK ==
    /\ opts \in Options
    /\ main \in {"start", "make", "loop", "spawn", "collect", "rejected",
                 "panicked", "success", "failure"}
    /\ next \in 1 .. opts.requests + 1
    /\ guard \in Nat /\ (guard = 0 \/ guard <= opts.threads)
    /\ wg \in Nat
    /\ worker \in [Tasks -> WorkerStates]
    /\ plugin \in [Tasks -> {"none", "running", "gone"}]
    /\ failed \in [Tasks -> BOOLEAN]
    /\ results \in Seq(Tasks \X {"OK", "FAILED"})
    /\ errors \in Seq(Tasks)
    /\ closed \in BOOLEAN
    /\ launches \in Seq(Tasks \X {"OK", "FAILED"})

Running == { i \in Tasks : plugin[i] = "running" }

(***************************************************************************)
(* The threads flag bounds the plugin processes alive at any time, also    *)
(* while others are being started, fail or are killed.                     *)
(***************************************************************************)
AtMostLimit == Running = {} \/ Cardinality(Running) <= opts.threads

(***************************************************************************)
(* A worker about to send finds the channel open and with room: no send    *)
(* panics on a closed channel, and none blocks, which would keep its slot. *)
(***************************************************************************)
SendsAreSafe ==
    \A i \in Tasks :
        /\ worker[i] = "result" => ~closed /\ Len(results) < opts.requests
        /\ worker[i] = "error" => ~closed /\ Len(errors) < opts.requests

(***************************************************************************)
(* No plugin process outlives the command, whichever step failed.          *)
(***************************************************************************)
NoPluginLeft == Ended => Running = {}

-----------------------------------------------------------------------------
(***************************************************************************)
(* Why: what the four shared objects count.                                *)
(***************************************************************************)

HoldsSlot == {"connect", "dispense", "setup", "call", "kill", "result",
              "error", "release"}

Holders == { i \in Tasks : worker[i] \in HoldsSlot }
Live    == { i \in Tasks : worker[i] \in HoldsSlot \cup {"done"} }
Sent    == { i \in Tasks : worker[i] \in {"error", "release", "done", "ended"} }
SentErr == { i \in Tasks : failed[i] /\ worker[i] \in {"release", "done", "ended"} }

\* A token per worker that has not given it back, and one for the worker that
\* is being spawned.
GuardCounts ==
    /\ guard = Cardinality(Holders) + (IF main = "spawn" THEN 1 ELSE 0)
    /\ guard = 0 \/ guard <= opts.threads

WaitGroupCounts == wg = Cardinality(Live)

SpawnedInOrder == \A i \in Tasks : i >= next => worker[i] = "none"

PluginsInCall ==
    \A i \in Tasks :
        plugin[i] = "running" => worker[i] \in {"dispense", "setup", "call", "kill"}

ErrorsHaveCause == \A i \in Tasks : worker[i] = "error" => failed[i]

ClosedAfterWait ==
    /\ main \in {"collect", "success", "failure"} => Live = {}
    /\ closed => main \in {"collect", "success", "failure"}
    /\ main \in {"start", "make", "rejected", "panicked"} => next = 1

ChannelsCount ==
    main \notin {"success", "failure"} =>
        /\ Len(results) = Cardinality(Sent)
        /\ Len(errors) = Cardinality(SentErr)

(***************************************************************************)
(* The accounting behind the limit and the safe sends: the guard channel,  *)
(* the wait group and the lengths of both channels always count workers.   *)
(***************************************************************************)
Accounting ==
    /\ GuardCounts /\ WaitGroupCounts /\ SpawnedInOrder
    /\ PluginsInCall /\ ErrorsHaveCause /\ ClosedAfterWait /\ ChannelsCount

-----------------------------------------------------------------------------
\* The outcome of a request is its result, from the channel or as returned.
Reports == results \o launches
OutcomeOf(i) ==
    IF \E k \in DOMAIN Reports : Reports[k][1] = i
    THEN Reports[CHOOSE k \in DOMAIN Reports : Reports[k][1] = i][2]
    ELSE "pending"

Outcomes == [i \in Requests |-> OutcomeOf(i)]

\* How the command ended, as far as FanOut tells the ways apart.
Verdict == CASE main \in {"rejected", "panicked"} -> "rejected"
             [] main \in {"success", "failure"} -> main
             [] OTHER -> "none"

Abstract == INSTANCE FanOut WITH
    AllTasks <- Tasks, tasks <- Requests, outcome <- Outcomes, verdict <- Verdict

(***************************************************************************)
(* The pool implements FanOut: a refused or panicking command started      *)
(* nothing, each request is settled once and never changes its status, and *)
(* the command fails exactly when a request did.                           *)
(***************************************************************************)
ImplementsFanOut == Abstract!Spec

(***************************************************************************)
(* The command ends, provided every plugin call returns.  With no thread   *)
(* at all, which validation lets through, it would wait for ever.          *)
(***************************************************************************)
CommandEnds == opts.threads # 0 /\ opts.hangs = {} ~> Ended

(***************************************************************************)
(* A plugin call that never returns holds up its own request only, as long *)
(* as there are more threads than such calls.                              *)
(***************************************************************************)
OthersProgress ==
    \A i \in Tasks :
        /\ main = "loop" /\ i \in Requests \ opts.hangs
        /\ opts.threads > Cardinality(opts.hangs)
        ~> worker[i] = "ended"
=============================================================================
