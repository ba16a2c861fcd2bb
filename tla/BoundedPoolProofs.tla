-------------------------- MODULE BoundedPoolProofs --------------------------
(***************************************************************************)
(* Proofs about BoundedPool for every set of command lines, every number   *)
(* of requests and every limit.                                            *)
(***************************************************************************)
EXTENDS BoundedPool, FiniteSetTheorems, SequenceTheorems, TLAPS

LEMMA OptionsTyped ==
    ASSUME opts \in Options
    PROVE  opts.threads \in Int /\ opts.requests \in 0 .. MaxRequests
BY PoolAssumption DEF CommandLine

LEMMA TasksFinite == IsFiniteSet(Tasks) /\ Tasks \subseteq Nat
BY PoolAssumption, FS_Interval DEF Tasks

\* The part of the type invariant that needs no counting.
Shape ==
    /\ opts \in Options
    /\ main \in {"start", "make", "loop", "spawn", "collect", "rejected",
                 "panicked", "success", "failure"}
    /\ next \in 1 .. opts.requests + 1
    /\ guard \in Int
    /\ wg \in Int
    /\ worker \in [Tasks -> WorkerStates]
    /\ plugin \in [Tasks -> {"none", "running", "gone"}]
    /\ failed \in [Tasks -> BOOLEAN]
    /\ results \in Seq(Tasks \X {"OK", "FAILED"})
    /\ errors \in Seq(Tasks)
    /\ closed \in BOOLEAN
    /\ launches \in Seq(Tasks \X {"OK", "FAILED"})
    /\ main = "spawn" => next <= opts.requests

LEMMA ShapeInvariant == Spec => []Shape
<1>1. Init => Shape
  <2> SUFFICES ASSUME Init PROVE Shape
    OBVIOUS
  <2>1. opts.requests \in Nat /\ next \in 1 .. opts.requests + 1
    BY OptionsTyped, PoolAssumption DEF Init
  <2>2. failed \in [Tasks -> BOOLEAN]
    BY DEF Init
  <2>4. closed \in BOOLEAN
    BY DEF Init
  <2>3. worker \in [Tasks -> WorkerStates] /\ plugin \in [Tasks -> {"none", "running", "gone"}]
    BY DEF Init, WorkerStates
  <2>. QED
    BY <2>1, <2>2, <2>3, <2>4 DEF Init, Shape
<1>2. Shape /\ [Next]_vars => Shape'
  <2> SUFFICES ASSUME Shape, [Next]_vars PROVE Shape'
    OBVIOUS
  <2>0. opts.requests \in Nat /\ opts.threads \in Int /\ next \in Nat
    BY OptionsTyped, PoolAssumption DEF Shape
  <2> USE <2>0 DEF Shape, WorkerStates, Goto, Fail, Succeed
  <2>1. CASE Begin
    BY <2>1 DEF Begin
  <2>2. CASE MakeGuard
    BY <2>2 DEF MakeGuard
  <2>3. CASE AcquireSlot
    BY <2>3 DEF AcquireSlot
  <2>4. CASE Spawn
    <3>1. next' \in 1 .. opts'.requests + 1
      BY <2>4 DEF Spawn
    <3>2. worker' \in [Tasks -> WorkerStates]
      BY <2>4 DEF Spawn
    <3>. QED
      BY <2>4, <3>1, <3>2 DEF Spawn
  <2>5. CASE CloseChannels
    BY <2>5 DEF CloseChannels
  <2>6. CASE Collect
    BY <2>6 DEF Collect
  <2>7. ASSUME NEW i \in Tasks, Connect(i) PROVE Shape'
    BY <2>7 DEF Connect
  <2>8. ASSUME NEW i \in Tasks, Dispense(i) PROVE Shape'
    BY <2>8 DEF Dispense
  <2>9. ASSUME NEW i \in Tasks, Setup(i) PROVE Shape'
    BY <2>9 DEF Setup
  <2>10. ASSUME NEW i \in Tasks, Call(i) PROVE Shape'
    BY <2>10 DEF Call
  <2>11. ASSUME NEW i \in Tasks, Kill(i) PROVE Shape'
    BY <2>11 DEF Kill
  <2>12. ASSUME NEW i \in Tasks, SendResult(i) PROVE Shape'
    BY <2>12 DEF SendResult, Status
  <2>13. ASSUME NEW i \in Tasks, SendError(i) PROVE Shape'
    BY <2>13 DEF SendError
  <2>14. ASSUME NEW i \in Tasks, Release(i) PROVE Shape'
    BY <2>14 DEF Release
  <2>15. ASSUME NEW i \in Tasks, Done(i) PROVE Shape'
    BY <2>15 DEF Done
  <2>16. CASE UNCHANGED vars
    BY <2>16 DEF vars
  <2>. QED
    BY <2>1, <2>2, <2>3, <2>4, <2>5, <2>6, <2>7, <2>8, <2>9, <2>10, <2>11,
       <2>12, <2>13, <2>14, <2>15, <2>16
       DEF Next, Main, Worker, Local, Finished
<1>. QED
  BY <1>1, <1>2, PTL DEF Spec

-----------------------------------------------------------------------------
(***************************************************************************)
(* Counting.                                                               *)
(***************************************************************************)

\* The sets the accounting counts are finite.
LEMMA CountedFinite ==
    /\ IsFiniteSet(Holders) /\ IsFiniteSet(Live)
    /\ IsFiniteSet(Sent) /\ IsFiniteSet(SentErr)
<1>1. /\ Holders \subseteq Tasks /\ Live \subseteq Tasks
      /\ Sent \subseteq Tasks /\ SentErr \subseteq Tasks
  BY DEF Holders, Live, Sent, SentErr
<1>. QED
  BY <1>1, TasksFinite, FS_Subset

\* A set of requests that gains or loses one member counts one more or less.
LEMMA CountOneMore ==
    ASSUME NEW S, IsFiniteSet(S), NEW i, i \notin S, NEW T, T = S \cup {i}
    PROVE  Cardinality(T) = Cardinality(S) + 1 /\ Cardinality(S) \in Nat
BY FS_AddElement, FS_CardinalityType

LEMMA CountOneLess ==
    ASSUME NEW S, IsFiniteSet(S), NEW i \in S, NEW T, T = S \ {i}
    PROVE  Cardinality(T) = Cardinality(S) - 1 /\ Cardinality(S) \in Nat
BY FS_RemoveElement, FS_CardinalityType

\* Nothing is counted initially.
LEMMA AccountingInit == Init => Accounting
<1> SUFFICES ASSUME Init PROVE Accounting
  OBVIOUS
<1>1. Holders = {} /\ Live = {} /\ Sent = {} /\ SentErr = {}
  BY DEF Init, Holders, Live, Sent, SentErr, HoldsSlot
<1>2. Cardinality({}) = 0
  BY FS_EmptySet
<1>. QED
  BY <1>1, <1>2 DEF Init, Accounting, GuardCounts, WaitGroupCounts, SpawnedInOrder,
       PluginsInCall, ErrorsHaveCause, ClosedAfterWait, ChannelsCount

\* Cardinalities the accounting speaks of are numbers.
LEMMA CountsAreNat ==
    /\ Cardinality(Holders) \in Nat /\ Cardinality(Live) \in Nat
    /\ Cardinality(Sent) \in Nat /\ Cardinality(SentErr) \in Nat
BY CountedFinite, FS_CardinalityType

\* Steps of the main goroutine that move no worker.
LEMMA AccountingMain ==
    ASSUME Shape, Accounting,
           Begin \/ MakeGuard \/ AcquireSlot \/ CloseChannels \/ Collect
    PROVE  Accounting'
<1> USE DEF Accounting, GuardCounts, WaitGroupCounts, SpawnedInOrder, PluginsInCall,
        ErrorsHaveCause, ClosedAfterWait, ChannelsCount
<1>1. /\ Holders' = Holders /\ Live' = Live /\ Sent' = Sent /\ SentErr' = SentErr
      /\ UNCHANGED <<opts, worker, plugin, failed, wg, next>>
  BY DEF Begin, MakeGuard, AcquireSlot, CloseChannels, Collect, Holders, Live,
         Sent, SentErr
<1>2. opts.threads \in Int /\ guard \in Int
  BY OptionsTyped DEF Shape
<1>3. CASE Begin
  BY <1>1, <1>3 DEF Begin
<1>4. CASE MakeGuard
  BY <1>1, <1>4 DEF MakeGuard
<1>5. CASE AcquireSlot
  <2>1. guard' = guard + 1 /\ guard + 1 <= opts.threads
    BY <1>2, <1>5 DEF AcquireSlot, HasSlot
  <2>. QED
    BY <1>1, <1>2, <1>5, <2>1, CountsAreNat DEF AcquireSlot
<1>6. CASE CloseChannels
  <2>1. Live = {}
    BY <1>6, CountedFinite, FS_EmptySet DEF CloseChannels, AllDone
  <2>. QED
    BY <1>1, <1>6, <2>1 DEF CloseChannels
<1>7. CASE Collect
  BY <1>1, <1>7 DEF Collect
<1>. QED
  BY <1>3, <1>4, <1>5, <1>6, <1>7

\* A new worker takes the token acquired for it.
LEMMA AccountingSpawn ==
    ASSUME Shape, Accounting, Spawn
    PROVE  Accounting'
<1> USE DEF Accounting, GuardCounts, WaitGroupCounts, SpawnedInOrder, PluginsInCall,
        ErrorsHaveCause, ClosedAfterWait, ChannelsCount, HoldsSlot
<1>1. next \in Tasks /\ next \in Nat /\ opts.requests \in Nat
  BY OptionsTyped, PoolAssumption DEF Shape, Spawn, Tasks
<1>2. worker[next] = "none"
  BY <1>1
<1>3. worker' = [worker EXCEPT ![next] = "connect"] /\ worker \in [Tasks -> WorkerStates]
  BY DEF Spawn, Shape
<1>4. /\ Holders' = Holders \cup {next} /\ next \notin Holders
      /\ Live' = Live \cup {next} /\ next \notin Live
  BY <1>1, <1>2, <1>3 DEF Holders, Live
<1>5. Sent' = Sent /\ SentErr' = SentErr
  BY <1>1, <1>2, <1>3 DEF Sent, SentErr, Spawn
<1>6. /\ Cardinality(Holders') = Cardinality(Holders) + 1
      /\ Cardinality(Live') = Cardinality(Live) + 1
  BY <1>4, CountedFinite, CountOneMore
<1>7. GuardCounts' /\ WaitGroupCounts'
  BY <1>6, CountsAreNat DEF Spawn
<1>8. SpawnedInOrder'
  BY <1>1, <1>3, TasksFinite DEF Spawn
<1>9. PluginsInCall' /\ ErrorsHaveCause'
  BY <1>2, <1>3 DEF Spawn
<1>10. ClosedAfterWait' /\ ChannelsCount'
  BY <1>5 DEF Spawn
<1>. QED
  BY <1>7, <1>8, <1>9, <1>10

\* A worker inside WithPlugin keeps its slot and has sent nothing.
LEMMA AccountingInPlugin ==
    ASSUME Shape, Accounting, NEW i \in Tasks,
           Connect(i) \/ Dispense(i) \/ Setup(i) \/ Call(i) \/ Kill(i)
    PROVE  Accounting'
<1> USE DEF Accounting, GuardCounts, WaitGroupCounts, SpawnedInOrder, PluginsInCall,
        ErrorsHaveCause, ClosedAfterWait, ChannelsCount, HoldsSlot
<1> DEFINE inside == {"connect", "dispense", "setup", "call", "kill"}
           after  == {"dispense", "setup", "call", "kill", "result"}
<1>1. /\ worker[i] \in inside
      /\ \E there \in after : worker' = [worker EXCEPT ![i] = there]
      /\ failed' = failed \/ failed' = [failed EXCEPT ![i] = TRUE]
      /\ worker \in [Tasks -> WorkerStates] /\ failed \in [Tasks -> BOOLEAN]
      /\ UNCHANGED <<opts, main, next, guard, wg, results, errors, closed>>
  BY DEF Connect, Dispense, Setup, Call, Kill, Goto, Fail, Succeed, Shape
<1>2. \A j \in Tasks \ {i} : worker'[j] = worker[j] /\ failed'[j] = failed[j]
  BY <1>1
<1>3. worker'[i] \in after
  BY <1>1
<1>4. Holders' = Holders /\ Live' = Live
  BY <1>1, <1>2, <1>3 DEF Holders, Live
<1>5. Sent' = Sent /\ SentErr' = SentErr
  BY <1>1, <1>2, <1>3 DEF Sent, SentErr
<1>6. PluginsInCall'
  <2>1. plugin \in [Tasks -> {"none", "running", "gone"}]
    BY DEF Shape
  <2>. QED
    BY <1>2, <2>1, <1>1
       DEF Connect, Dispense, Setup, Call, Kill, Goto, Fail, Succeed, Shape
<1>7. SpawnedInOrder' /\ ErrorsHaveCause'
  BY <1>1, <1>2, <1>3
<1>. QED
  BY <1>1, <1>4, <1>5, <1>6, <1>7

\* A result and an error are counted when they are sent.
LEMMA AccountingSend ==
    ASSUME Shape, Accounting, NEW i \in Tasks, SendResult(i) \/ SendError(i)
    PROVE  Accounting'
<1> USE DEF Accounting, GuardCounts, WaitGroupCounts, SpawnedInOrder, PluginsInCall,
        ErrorsHaveCause, ClosedAfterWait, ChannelsCount, HoldsSlot
<1>1. /\ worker[i] \in {"result", "error"}
      /\ \E there \in {"error", "release"} : worker' = [worker EXCEPT ![i] = there]
      /\ worker \in [Tasks -> WorkerStates]
      /\ UNCHANGED <<opts, main, next, guard, wg, plugin, failed, closed>>
  BY DEF SendResult, SendError, Goto, Shape
<1>2. \A j \in Tasks \ {i} : worker'[j] = worker[j]
  BY <1>1
<1>3. worker'[i] \in {"error", "release"}
  BY <1>1
<1>4. Holders' = Holders /\ Live' = Live
  BY <1>1, <1>2, <1>3 DEF Holders, Live
<1>5. i \in Live /\ main \notin {"collect", "success", "failure"}
  BY <1>1 DEF Live
<1>6. ChannelsCount'
  <2>1. CASE SendResult(i)
    <3>1. Sent' = Sent \cup {i} /\ i \notin Sent
      BY <2>1, <1>1, <1>2, <1>3 DEF Sent, SendResult
    <3>2. SentErr' = SentErr
      BY <2>1, <1>1, <1>2 DEF SentErr, SendResult, Goto
    <3>3. Len(results') = Len(results) + 1 /\ errors' = errors
      BY <2>1 DEF SendResult, Shape
    <3>4. Cardinality(Sent') = Cardinality(Sent) + 1
      BY <3>1, CountedFinite, CountOneMore
    <3>. QED
      BY <1>5, <3>2, <3>3, <3>4
  <2>2. CASE SendError(i)
    <3>1. SentErr' = SentErr \cup {i} /\ i \notin SentErr
      BY <2>2, <1>1, <1>2 DEF SentErr, SendError, Goto
    <3>2. Sent' = Sent
      BY <2>2, <1>1, <1>2, <1>3 DEF Sent, SendError
    <3>3. Len(errors') = Len(errors) + 1 /\ results' = results
      BY <2>2 DEF SendError, Shape
    <3>4. Cardinality(SentErr') = Cardinality(SentErr) + 1
      BY <3>1, CountedFinite, CountOneMore
    <3>. QED
      BY <1>5, <3>2, <3>3, <3>4
  <2>. QED
    BY <2>1, <2>2
<1>7. PluginsInCall' /\ SpawnedInOrder'
  BY <1>1, <1>2, <1>3
<1>8. ErrorsHaveCause'
  BY <1>1, <1>2 DEF SendResult, SendError, Goto
<1>. QED
  BY <1>1, <1>4, <1>5, <1>6, <1>7, <1>8

\* The slot is given back before the wait group is told.
LEMMA AccountingLeave ==
    ASSUME Shape, Accounting, NEW i \in Tasks, Release(i) \/ Done(i)
    PROVE  Accounting'
<1> USE DEF Accounting, GuardCounts, WaitGroupCounts, SpawnedInOrder, PluginsInCall,
        ErrorsHaveCause, ClosedAfterWait, ChannelsCount, HoldsSlot
<1>1. /\ worker[i] \in {"release", "done"}
      /\ \E there \in {"done", "ended"} : worker' = [worker EXCEPT ![i] = there]
      /\ worker \in [Tasks -> WorkerStates]
      /\ UNCHANGED <<opts, main, next, plugin, failed, results, errors, closed>>
  BY DEF Release, Done, Goto, Shape
<1>2. \A j \in Tasks \ {i} : worker'[j] = worker[j]
  BY <1>1
<1>3. worker'[i] \in {"done", "ended"}
  BY <1>1
<1>4. Sent' = Sent /\ SentErr' = SentErr
  BY <1>1, <1>2, <1>3 DEF Sent, SentErr
<1>5. i \in Live /\ main \notin {"collect", "success", "failure"}
  BY <1>1 DEF Live
<1>6. GuardCounts' /\ WaitGroupCounts'
  <2>1. CASE Release(i)
    <3>1. Holders' = Holders \ {i} /\ i \in Holders
      BY <2>1, <1>1, <1>2, <1>3 DEF Holders, Release, Goto
    <3>2. Live' = Live
      BY <2>1, <1>1, <1>2 DEF Live, Release, Goto
    <3>3. Cardinality(Holders') = Cardinality(Holders) - 1
      BY <3>1, CountedFinite, CountOneLess
    <3>4. guard \in Int /\ opts.threads \in Int
      BY OptionsTyped DEF Shape
    <3>5. guard' = guard - 1 /\ wg' = wg
      BY <2>1 DEF Release
    <3>6. guard' = Cardinality(Holders') + (IF main' = "spawn" THEN 1 ELSE 0)
      BY <1>1, <3>3, <3>4, <3>5, CountsAreNat
    <3>7. guard' = 0 \/ guard' <= opts'.threads
      <4>1. guard # 0
        BY <3>1, <3>3, <3>4, <3>6, <3>5, CountsAreNat, CountedFinite, FS_EmptySet
      <4>. QED
        BY <1>1, <3>4, <3>5, <4>1
    <3>. QED
      BY <1>1, <3>2, <3>5, <3>6, <3>7
  <2>2. CASE Done(i)
    <3>1. Live' = Live \ {i}
      BY <2>2, <1>1, <1>2, <1>3 DEF Live, Done, Goto
    <3>2. Holders' = Holders
      BY <2>2, <1>1, <1>2, <1>3 DEF Holders, Done, Goto
    <3>3. Cardinality(Live') = Cardinality(Live) - 1
      BY <1>5, <3>1, CountedFinite, CountOneLess
    <3>. QED
      BY <1>1, <2>2, <3>2, <3>3, CountsAreNat DEF Done
  <2>. QED
    BY <2>1, <2>2
<1>7. PluginsInCall' /\ SpawnedInOrder' /\ ErrorsHaveCause'
  BY <1>1, <1>2, <1>3
<1>. QED
  BY <1>1, <1>4, <1>5, <1>6, <1>7

\* The accounting holds in every reachable state.
LEMMA AccountingInvariant == Spec => []Accounting
<1>1. Shape /\ Accounting /\ [Next]_vars => Accounting'
  <2> SUFFICES ASSUME Shape, Accounting, [Next]_vars PROVE Accounting'
    OBVIOUS
  <2>1. CASE UNCHANGED vars
    BY <2>1 DEF vars, Accounting, GuardCounts, WaitGroupCounts, SpawnedInOrder,
         PluginsInCall, ErrorsHaveCause, ClosedAfterWait, ChannelsCount,
         Holders, Live, Sent, SentErr
  <2>2. CASE Main
    BY <2>2, AccountingMain, AccountingSpawn DEF Main
  <2>3. ASSUME NEW i \in Tasks, Worker(i) PROVE Accounting'
    BY <2>3, AccountingInPlugin, AccountingSend, AccountingLeave DEF Worker, Local
  <2>. QED
    BY <2>1, <2>2, <2>3 DEF Next, Finished
<1>. QED
  BY <1>1, AccountingInit, ShapeInvariant, PTL DEF Spec

-----------------------------------------------------------------------------
(***************************************************************************)
(* The pool implements FanOut.  The results, sent or already returned, are *)
(* a table with one entry for each request whose worker has sent it.       *)
(***************************************************************************)

IsOver == main \in {"success", "failure"}

\* The table is the channel until it is drained and the returned list from
\* then on; a request is in it once its worker has sent, with its own status.
Told ==
    /\ ~IsOver => launches = << >>
    /\ IsOver => results = << >>
    /\ \A k \in DOMAIN Reports :
          Reports[k][1] \in Sent /\ Reports[k][2] = Status(Reports[k][1])
    /\ \A i \in Sent : \E k \in DOMAIN Reports : Reports[k][1] = i

\* The loop has started every request before it collects.
AllStarted ==
    /\ \A i \in Tasks : i < next => worker[i] # "none"
    /\ main = "collect" => next > opts.requests

LEMMA ReportsAre ==
    ASSUME Shape, Shape'
    PROVE  /\ launches = << >> => Reports = results
           /\ launches' = << >> => Reports' = results'
           /\ results' = << >> => Reports' = launches'
<1>1. ASSUME NEW s \in Seq(Tasks \X {"OK", "FAILED"})
      PROVE  s \o << >> = s /\ << >> \o s = s
  BY ConcatEmptySeq
<1>. QED
  BY <1>1 DEF Shape, Reports

\* A worker that can still act runs before the channels are drained.
LEMMA LiveBeforeEnd ==
    ASSUME Accounting, NEW i \in Tasks, worker[i] \notin {"none", "ended"}, Shape
    PROVE  main \notin {"collect", "success", "failure"}
<1>1. i \in Live
  BY DEF Live, HoldsSlot, Shape, WorkerStates
<1>. QED
  BY <1>1 DEF Accounting, ClosedAfterWait

LEMMA ToldInit == Init => Told /\ AllStarted
<1> SUFFICES ASSUME Init PROVE Told /\ AllStarted
  OBVIOUS
<1>1. Sent = {} /\ Reports = << >> /\ ~IsOver /\ launches = << >>
  BY DEF Init, Sent, Reports, IsOver
<1>2. next = 1 /\ \A i \in Tasks : i >= 1
  BY DEF Init, Tasks
<1>. QED
  BY <1>1, <1>2, PoolAssumption DEF Told, AllStarted, Init, Tasks

\* The only worker's step that tells anything is SendResult.
LEMMA ToldBySend ==
    ASSUME Shape, Shape', Accounting, Told, NEW i \in Tasks, SendResult(i)
    PROVE  Told'
<1>1. /\ worker[i] = "result" /\ results' = Append(results, <<i, Status(i)>>)
      /\ worker' = [worker EXCEPT ![i] = IF failed[i] THEN "error" ELSE "release"]
      /\ UNCHANGED <<main, failed, launches>>
  BY DEF SendResult, Goto
<1>2. ~IsOver /\ launches = << >>
  BY <1>1, LiveBeforeEnd DEF Told, IsOver
<1>3. Reports = results /\ Reports' = Append(results, <<i, Status(i)>>)
  BY <1>1, <1>2, ReportsAre
<1>4. /\ DOMAIN Reports' = 1 .. Len(results) + 1 /\ DOMAIN Reports = 1 .. Len(results)
      /\ \A k \in 1 .. Len(results) : Reports'[k] = Reports[k]
      /\ Reports'[Len(results) + 1] = <<i, Status(i)>> /\ Len(results) \in Nat
  BY <1>3 DEF Shape
<1>5. Sent' = Sent \cup {i}
  BY <1>1 DEF Sent, Shape
<1>6. \A k \in DOMAIN Reports : /\ Reports[k][1] \in Sent
                                  /\ Reports[k][2] = Status(Reports[k][1])
  BY DEF Told
<1>7. ASSUME NEW k \in DOMAIN Reports'
      PROVE  Reports'[k][1] \in Sent' /\ Reports'[k][2] = Status(Reports'[k][1])
  <2>1. CASE k = Len(results) + 1
    BY <1>4, <1>5, <2>1
  <2>2. CASE k # Len(results) + 1
    <3>1. k \in DOMAIN Reports /\ Reports'[k] = Reports[k]
      BY <1>4, <1>7, <2>2
    <3>. QED
      BY <1>5, <1>6, <3>1
  <2>. QED
    BY <2>1, <2>2
<1>8. ASSUME NEW j \in Sent' PROVE \E k \in DOMAIN Reports' : Reports'[k][1] = j
  <2>1. CASE j = i
    BY <1>4, <2>1
  <2>2. CASE j # i
    <3>1. PICK k \in DOMAIN Reports : Reports[k][1] = j
      BY <1>5, <1>8, <2>2 DEF Told
    <3>. QED
      BY <1>4, <3>1
  <2>. QED
    BY <2>1, <2>2
<1>. QED
  BY <1>1, <1>2, <1>7, <1>8 DEF Told, IsOver, Status

\* What leaves the table alone, and who has sent, keeps what was told.
LEMMA ToldKept ==
    ASSUME Told, Reports' = Reports, Sent' = Sent,
           \A i \in Sent : failed'[i] = failed[i],
           ~IsOver' => launches' = << >>, IsOver' => results' = << >>
    PROVE  Told'
BY DEF Told, Status

LEMMA ToldStep ==
    ASSUME Shape, Shape', Accounting, Told, [Next]_vars
    PROVE  Told'
<1>1. ASSUME NEW i \in Tasks, Connect(i) \/ Dispense(i) \/ Setup(i) \/ Call(i) \/ Kill(i)
      PROVE  Told'
  <2>0. UNCHANGED Reports
    BY <1>1 DEF Connect, Dispense, Setup, Call, Kill, Reports
  <2>1. /\ worker[i] \in {"connect", "dispense", "setup", "call", "kill"}
        /\ \E there \in {"dispense", "setup", "call", "kill", "result"} :
              worker' = [worker EXCEPT ![i] = there]
        /\ failed' = failed \/ failed' = [failed EXCEPT ![i] = TRUE]
        /\ UNCHANGED <<main, results, launches>>
    BY <1>1 DEF Connect, Dispense, Setup, Call, Kill, Goto, Fail, Succeed
  <2>2. Sent' = Sent /\ i \notin Sent
    BY <2>1 DEF Sent, Shape
  <2>3. \A j \in Sent : failed'[j] = failed[j]
    BY <2>1, <2>2 DEF Shape, Sent
  <2>. QED
    BY <2>0, <2>1, <2>2, <2>3, ToldKept DEF Told, IsOver
<1>2. ASSUME NEW i \in Tasks, SendError(i) \/ Release(i) \/ Done(i) PROVE Told'
  <2>1. /\ worker[i] \in {"error", "release", "done"}
        /\ \E there \in {"release", "done", "ended"} : worker' = [worker EXCEPT ![i] = there]
        /\ UNCHANGED <<main, results, launches, failed>>
    BY <1>2 DEF SendError, Release, Done, Goto
  <2>2. Sent' = Sent
    BY <2>1 DEF Sent, Shape
  <2>. QED
    BY <2>1, <2>2, ToldKept DEF Reports, Told, IsOver
<1>3. CASE Begin \/ MakeGuard \/ AcquireSlot \/ CloseChannels \/ UNCHANGED vars
  <2>1. UNCHANGED <<worker, failed, results, launches>> /\ (IsOver' <=> IsOver)
    BY <1>3 DEF Begin, MakeGuard, AcquireSlot, CloseChannels, vars, IsOver
  <2>. QED
    BY <2>1, ToldKept DEF Reports, Told, Sent
<1>4. CASE Spawn
  <2>1. worker[next] = "none" /\ next \in Nat
    BY <1>4 DEF Accounting, SpawnedInOrder, Spawn, Shape, Tasks
  <2>2. Sent' = Sent
    BY <1>4, <2>1 DEF Sent, Spawn, Shape
  <2>. QED
    BY <1>4, <2>2, ToldKept DEF Spawn, Reports, Told, IsOver
<1>5. CASE Collect
  <2>1. ~IsOver /\ IsOver' /\ launches = << >> /\ launches' = results /\ results' = << >>
    BY <1>5 DEF Collect, IsOver, Told
  <2>2. Reports' = results /\ Reports = results
    BY <2>1, ReportsAre
  <2>3. Sent' = Sent /\ failed' = failed
    BY <1>5 DEF Collect, Sent
  <2>. QED
    BY <2>1, <2>2, <2>3, ToldKept
<1>. QED
  BY <1>1, <1>2, <1>3, <1>4, <1>5, ToldBySend DEF Next, Main, Worker, Local, Finished

LEMMA StartedStep ==
    ASSUME Shape, Accounting, AllStarted, [Next]_vars
    PROVE  AllStarted'
<1>0. next \in Nat /\ opts.requests \in Nat /\ Tasks \subseteq Nat
  BY OptionsTyped, PoolAssumption, TasksFinite DEF Shape
<1>1. ASSUME NEW i \in Tasks, Worker(i) PROVE AllStarted'
  <2>1. /\ \E there \in WorkerStates \ {"none"} : worker' = [worker EXCEPT ![i] = there]
        /\ UNCHANGED <<main, next, opts>>
    BY <1>1 DEF Worker, Local, Connect, Dispense, Setup, Call, Kill, SendResult, SendError,
         Release, Done, Goto, Fail, Succeed, WorkerStates
  <2>. QED
    BY <2>1 DEF AllStarted, Shape
<1>2. CASE Spawn
  <2>1. /\ worker' = [worker EXCEPT ![next] = "connect"] /\ next' = next + 1
        /\ main' = "loop"
    BY <1>2 DEF Spawn
  <2>. QED
    BY <1>0, <2>1 DEF AllStarted, Shape
<1>3. CASE CloseChannels
  BY <1>3 DEF CloseChannels, AllStarted
<1>4. CASE Begin \/ MakeGuard \/ AcquireSlot \/ Collect \/ UNCHANGED vars
  <2>1. UNCHANGED <<worker, next, opts>> /\ (main' = "collect" => main = "collect")
    BY <1>4 DEF Begin, MakeGuard, AcquireSlot, Collect, vars
  <2>. QED
    BY <2>1 DEF AllStarted
<1>. QED
  BY <1>1, <1>2, <1>3, <1>4 DEF Next, Main, Finished

LEMMA ToldInvariant == Spec => [](Told /\ AllStarted)
<1>1. Shape /\ Shape' /\ Accounting /\ Told /\ AllStarted /\ [Next]_vars
        => (Told /\ AllStarted)'
  BY ToldStep, StartedStep
<1>. QED
  BY <1>1, ToldInit, ShapeInvariant, AccountingInvariant, PTL DEF Spec

-----------------------------------------------------------------------------
(***************************************************************************)
(* The theorems.                                                           *)
(***************************************************************************)

(***************************************************************************)
(* Every variable keeps its type; in particular the guard channel is never *)
(* over its capacity and neither counter is ever negative.                 *)
(***************************************************************************)
THEOREM TypeCorrect == Spec => []TypeOK
<1>1. Shape /\ Accounting => TypeOK
  <2> SUFFICES ASSUME Shape, Accounting PROVE TypeOK
    OBVIOUS
  <2>1. guard \in Nat /\ wg \in Nat
    BY CountsAreNat DEF Accounting, GuardCounts, WaitGroupCounts
  <2>. QED
    BY <2>1 DEF Shape, Accounting, GuardCounts, TypeOK
<1>. QED
  BY <1>1, ShapeInvariant, AccountingInvariant, PTL

(***************************************************************************)
(* For every number of requests and every threads flag, no more plugin     *)
(* processes are alive than the flag allows: a running plugin belongs to a *)
(* worker that holds one of the tokens the guard channel counts.           *)
(***************************************************************************)
THEOREM LimitHolds == Spec => []AtMostLimit
<1>1. Shape /\ Accounting => AtMostLimit
  <2> SUFFICES ASSUME Shape, Accounting, Running # {}
               PROVE  Cardinality(Running) <= opts.threads
    BY DEF AtMostLimit
  <2>1. Running \subseteq Holders
    BY DEF Running, Holders, HoldsSlot, Accounting, PluginsInCall
  <2>2. Cardinality(Running) <= Cardinality(Holders) /\ IsFiniteSet(Running)
    BY <2>1, CountedFinite, FS_Subset
  <2>3. Cardinality(Running) \in Nat /\ Cardinality(Running) # 0
    BY <2>2, FS_CardinalityType, FS_EmptySet
  <2>4. guard \in Int /\ opts.threads \in Int /\ Cardinality(Holders) <= guard
    BY OptionsTyped, CountsAreNat DEF Shape, Accounting, GuardCounts
  <2>5. guard # 0 /\ guard <= opts.threads
    BY <2>2, <2>3, <2>4, CountsAreNat DEF Accounting, GuardCounts
  <2>. QED
    BY <2>2, <2>3, <2>4, <2>5, CountsAreNat
<1>. QED
  BY <1>1, ShapeInvariant, AccountingInvariant, PTL

(***************************************************************************)
(* For every number of requests, no worker sends on a closed channel and   *)
(* none blocks on a full one: the buffers hold one entry per request and   *)
(* the channels are closed only once the wait group counts no worker.      *)
(***************************************************************************)
THEOREM SendsSafe == Spec => []SendsAreSafe
<1>1. Shape /\ Accounting => SendsAreSafe
  <2> SUFFICES ASSUME Shape, Accounting, NEW i \in Tasks,
                      worker[i] \in {"result", "error"}
               PROVE  /\ ~closed
                      /\ worker[i] = "result" => Len(results) < opts.requests
                      /\ worker[i] = "error" => Len(errors) < opts.requests
    BY DEF SendsAreSafe
  <2> USE DEF Accounting
  <2>1. i \in Live
    BY DEF Live, HoldsSlot
  <2>2. ~closed /\ main \notin {"success", "failure"}
    BY <2>1 DEF ClosedAfterWait
  <2>3. opts.requests \in Nat /\ next \in 1 .. opts.requests + 1
    BY OptionsTyped, PoolAssumption DEF Shape
  <2>4. /\ i \in 1 .. opts.requests
        /\ Sent \subseteq 1 .. opts.requests /\ SentErr \subseteq 1 .. opts.requests
    BY <2>3, PoolAssumption DEF SpawnedInOrder, Sent, SentErr, Tasks
  <2>5. ASSUME NEW S, S \subseteq 1 .. opts.requests, i \notin S
        PROVE  Cardinality(S) < opts.requests
    <3>1. /\ IsFiniteSet(1 .. opts.requests)
          /\ Cardinality(1 .. opts.requests) = opts.requests
      <4>1. 1 \in Int /\ opts.requests \in Int
        BY <2>3
      <4>2. IsFiniteSet(1 .. opts.requests)
        BY <4>1, FS_Interval
      <4>3. Cardinality(1 .. opts.requests)
              = IF 1 > opts.requests THEN 0 ELSE opts.requests - 1 + 1
        BY <4>1, FS_Interval
      <4>. QED
        BY <2>3, <4>2, <4>3
    <3>2. S # 1 .. opts.requests /\ IsFiniteSet(S)
      BY <2>4, <2>5, <3>1, FS_Subset
    <3>3. Cardinality(S) <= opts.requests /\ Cardinality(S) # opts.requests
      BY <2>5, <3>1, <3>2, FS_Subset
    <3>. QED
      BY <2>3, <3>2, <3>3, FS_CardinalityType
  <2>6. worker[i] = "result" => i \notin Sent
    BY DEF Sent
  <2>7. worker[i] = "error" => i \notin SentErr
    BY DEF SentErr
  <2>. QED
    BY <2>2, <2>4, <2>5, <2>6, <2>7 DEF ChannelsCount
<1>. QED
  BY <1>1, ShapeInvariant, AccountingInvariant, PTL

(***************************************************************************)
(* When the command has ended no plugin process is left.                   *)
(***************************************************************************)
THEOREM PluginsGone == Spec => []NoPluginLeft
<1>1. Shape /\ Accounting => NoPluginLeft
  <2> SUFFICES ASSUME Shape, Accounting, Ended, NEW i \in Running PROVE FALSE
    BY DEF NoPluginLeft
  <2>1. i \in Live /\ worker[i] # "none"
    BY DEF Accounting, PluginsInCall, Running, Live, HoldsSlot
  <2>2. main \in {"rejected", "panicked"}
    BY <2>1 DEF Ended, Accounting, ClosedAfterWait
  <2>3. next = 1 /\ i \in Nat /\ i >= 1
    BY <2>2, PoolAssumption DEF Accounting, ClosedAfterWait, Running, Tasks
  <2>. QED
    BY <2>1, <2>3 DEF Accounting, SpawnedInOrder, Running
<1>. QED
  BY <1>1, ShapeInvariant, AccountingInvariant, PTL

(***************************************************************************)
(* The refinement.                                                         *)
(***************************************************************************)

\* The outcome of a request is the status its worker has sent.
LEMMA OutcomeIs ==
    ASSUME Told, Told', NEW i
    PROVE  /\ OutcomeOf(i) = IF i \in Sent THEN Status(i) ELSE "pending"
           /\ OutcomeOf(i)' = IF i \in Sent' THEN Status(i)' ELSE "pending"
<1>1. ASSUME i \in Sent PROVE OutcomeOf(i) = Status(i)
  <2> DEFINE at == CHOOSE k \in DOMAIN Reports : Reports[k][1] = i
  <2>1. \E k \in DOMAIN Reports : Reports[k][1] = i
    BY <1>1 DEF Told
  <2>2. at \in DOMAIN Reports /\ Reports[at][1] = i
    BY <2>1
  <2>3. Reports[at][2] = Status(i)
    BY <2>2 DEF Told
  <2>. QED
    BY <2>1, <2>3 DEF OutcomeOf
<1>2. ASSUME i \notin Sent PROVE OutcomeOf(i) = "pending"
  BY <1>2 DEF Told, OutcomeOf
<1>3. ASSUME i \in Sent' PROVE OutcomeOf(i)' = Status(i)'
  <2> DEFINE at == CHOOSE k \in DOMAIN Reports' : Reports'[k][1] = i
  <2>1. \E k \in DOMAIN Reports' : Reports'[k][1] = i
    BY <1>3 DEF Told
  <2>2. at \in DOMAIN Reports' /\ Reports'[at][1] = i
    BY <2>1
  <2>3. Reports'[at][2] = Status(i)'
    BY <2>2 DEF Told, Status
  <2>. QED
    BY <2>1, <2>3 DEF OutcomeOf
<1>4. ASSUME i \notin Sent' PROVE OutcomeOf(i)' = "pending"
  BY <1>4 DEF Told, OutcomeOf
<1>. QED
  BY <1>1, <1>2, <1>3, <1>4

\* Before the loop nothing has been started, and so nothing sent.
LEMMA NothingSentYet ==
    ASSUME Shape, Accounting, main \in {"start", "make", "rejected", "panicked"}
    PROVE  Sent = {} /\ \A i \in Tasks : worker[i] = "none"
<1>1. next = 1 /\ \A i \in Tasks : i >= 1
  BY TasksFinite DEF Accounting, ClosedAfterWait, Tasks
<1>2. \A i \in Tasks : worker[i] = "none"
  BY <1>1 DEF Accounting, SpawnedInOrder
<1>. QED
  BY <1>2 DEF Sent

\* After the wait every request has been sent, and an error with each failure.
LEMMA AllSentAtLast ==
    ASSUME Shape, Accounting, AllStarted, main = "collect"
    PROVE  /\ Requests \subseteq Sent
           /\ errors = << >> <=> \A i \in Requests : Status(i) = "OK"
<1>1. /\ opts.requests \in Nat /\ opts.requests <= MaxRequests /\ next \in Nat
      /\ Requests \subseteq Tasks /\ Tasks \subseteq Nat
  BY OptionsTyped, PoolAssumption, TasksFinite DEF Shape, Requests, Tasks
<1>2. ASSUME NEW i \in Requests PROVE worker[i] = "ended"
  <2>1. i < next
    BY <1>1 DEF AllStarted, Requests
  <2>2. worker[i] \in WorkerStates \ {"none"} /\ i \in Tasks
    BY <1>1, <2>1 DEF AllStarted, Shape
  <2>3. i \notin Live
    BY DEF Accounting, ClosedAfterWait
  <2>. QED
    BY <2>2, <2>3 DEF Live, HoldsSlot, WorkerStates
<1>3. Requests \subseteq Sent
  BY <1>1, <1>2 DEF Sent
<1>4. SentErr = { i \in Requests : failed[i] }
  <2>1. ASSUME NEW i \in SentErr PROVE i \in Requests
    <3>1. i \in Tasks /\ worker[i] # "none"
      BY DEF SentErr
    <3>2. i \in Nat /\ i < next /\ next \in 1 .. opts.requests + 1
      BY <1>1, <3>1 DEF Accounting, SpawnedInOrder, Shape
    <3>. QED
      BY <1>1, <3>1, <3>2 DEF Requests, Tasks
  <2>. QED
    BY <1>1, <1>2, <2>1 DEF SentErr
<1>5. errors = << >> <=> Cardinality(SentErr) = 0
  BY DEF Shape, Accounting, ChannelsCount
<1>6. Cardinality(SentErr) = 0 <=> SentErr = {}
  BY CountedFinite, FS_EmptySet
<1>7. SentErr = {} <=> \A i \in Requests : Status(i) = "OK"
  BY <1>4 DEF Status
<1>. QED
  BY <1>3, <1>5, <1>6, <1>7

\* A step that leaves the table and the verdict alone is none for FanOut.
LEMMA TableKept ==
    ASSUME Reports' = Reports, opts' = opts, Verdict' = Verdict
    PROVE  UNCHANGED Abstract!vars
BY DEF Abstract!vars, Outcomes, OutcomeOf, Requests

LEMMA SendSettles ==
    ASSUME Shape, Shape', Accounting, Told, Told', NEW i \in Tasks, SendResult(i)
    PROVE  Abstract!Settle(i)
<1>1. /\ worker[i] = "result" /\ failed' = failed /\ main' = main /\ opts' = opts
      /\ worker' = [worker EXCEPT ![i] = IF failed[i] THEN "error" ELSE "release"]
  BY DEF SendResult, Goto
<1>2. Sent' = Sent \cup {i} /\ i \notin Sent
  BY <1>1 DEF Sent, Shape
<1>3. i \in Requests
  <2>1. opts.requests \in Nat /\ next \in 1 .. opts.requests + 1 /\ i \in Nat /\ i >= 1
    BY OptionsTyped, PoolAssumption, TasksFinite DEF Shape, Tasks
  <2>2. i < next
    BY <1>1, <2>1 DEF Accounting, SpawnedInOrder
  <2>. QED
    BY <2>1, <2>2 DEF Requests
<1>4. Verdict = "none" /\ Verdict' = Verdict
  <2>1. main \notin {"collect", "success", "failure"}
    BY <1>1, LiveBeforeEnd
  <2>2. main \notin {"rejected", "panicked"}
    BY <1>1, NothingSentYet
  <2>. QED
    BY <1>1, <2>1, <2>2 DEF Verdict
<1>5. Requests' = Requests /\ \A j : Status(j)' = Status(j)
  BY <1>1 DEF Requests, Status
<1>6. Outcomes' = [Outcomes EXCEPT ![i] = Status(i)]
  <2>1. \A j \in Requests : OutcomeOf(j)' = IF j = i THEN Status(i) ELSE OutcomeOf(j)
    BY <1>2, <1>5, OutcomeIs
  <2>. QED
    BY <1>3, <1>5, <2>1 DEF Outcomes
<1>7. Outcomes[i] = "pending"
  BY <1>2, <1>3, OutcomeIs DEF Outcomes
<1>8. Status(i) \in {"OK", "FAILED"}
  BY DEF Status
<1>. QED
  BY <1>3, <1>4, <1>5, <1>6, <1>7, <1>8 DEF Abstract!Settle, Abstract!Pending

LEMMA CollectConcludes ==
    ASSUME Shape, Shape', Accounting, Told, Told', AllStarted, Collect
    PROVE  Abstract!Conclude
<1>1. /\ main = "collect" /\ main' = IF errors = << >> THEN "success" ELSE "failure"
      /\ opts' = opts /\ launches' = results /\ results' = << >>
  BY DEF Collect
<1>2. Reports' = Reports
  BY <1>1, ReportsAre DEF Told, IsOver
<1>3. Outcomes' = Outcomes /\ Requests' = Requests
  BY <1>1, <1>2 DEF Outcomes, OutcomeOf, Requests
<1>4. \A i \in Requests : Outcomes[i] = Status(i) /\ Status(i) \in {"OK", "FAILED"}
  BY <1>1, AllSentAtLast, OutcomeIs DEF Outcomes, Status
<1>5. Verdict = "none" /\ Verdict' = main'
  BY <1>1 DEF Verdict
<1>6. errors = << >> <=> \A i \in Requests : Outcomes[i] = "OK"
  BY <1>1, <1>4, AllSentAtLast
<1>. QED
  BY <1>1, <1>3, <1>4, <1>5, <1>6 DEF Abstract!Conclude, Abstract!Pending

\* Giving up before the loop is a rejection: no request has an outcome.
LEMMA GivingUpRejects ==
    ASSUME Shape, Accounting, Told, Told', Begin \/ MakeGuard
    PROVE  Abstract!Reject \/ UNCHANGED Abstract!vars
<1>1. /\ main \in {"start", "make"} /\ main' \in {"make", "loop", "rejected", "panicked"}
      /\ UNCHANGED <<opts, results, launches>>
  BY DEF Begin, MakeGuard
<1>2. Reports' = Reports
  BY <1>1 DEF Reports
<1>3. CASE main' \in {"make", "loop"}
  <2>1. Verdict' = Verdict
    BY <1>1, <1>3 DEF Verdict
  <2>. QED
    BY <1>1, <1>2, <2>1, TableKept
<1>4. CASE main' \in {"rejected", "panicked"}
  <2>1. Verdict = "none" /\ Verdict' = "rejected"
    BY <1>1, <1>4 DEF Verdict
  <2>2. Outcomes' = Outcomes /\ Requests' = Requests
    BY <1>1, <1>2 DEF Outcomes, OutcomeOf, Requests
  <2>3. \A i \in Requests : Outcomes[i] = "pending"
    BY <1>1, NothingSentYet, OutcomeIs DEF Outcomes
  <2>. QED
    BY <2>1, <2>2, <2>3 DEF Abstract!Reject, Abstract!Pending
<1>. QED
  BY <1>1, <1>3, <1>4

LEMMA StepRefines ==
    ASSUME Shape, Shape', Accounting, Told, Told', AllStarted, [Next]_vars
    PROVE  [Abstract!Next]_(Abstract!vars)
<1>1. CASE Begin \/ MakeGuard
  BY <1>1, GivingUpRejects DEF Abstract!Next
<1>2. CASE AcquireSlot \/ Spawn \/ CloseChannels \/ UNCHANGED vars
  <2>1. /\ Reports' = Reports /\ opts' = opts
        /\ \/ main' = main
           \/ main \in {"loop", "spawn"} /\ main' \in {"loop", "spawn", "collect"}
    BY <1>2 DEF AcquireSlot, Spawn, CloseChannels, vars, Reports
  <2>2. Verdict' = Verdict
    BY <2>1 DEF Verdict
  <2>. QED
    BY <2>1, <2>2, TableKept
<1>3. CASE Collect
  BY <1>3, CollectConcludes DEF Abstract!Next
<1>4. ASSUME NEW i \in Tasks, SendResult(i) PROVE Abstract!Next
  BY <1>4, SendSettles DEF Abstract!Next
<1>5. ASSUME NEW i \in Tasks, \/ Connect(i) \/ Dispense(i) \/ Setup(i) \/ Call(i) \/ Kill(i)
                              \/ SendError(i) \/ Release(i) \/ Done(i)
      PROVE  UNCHANGED Abstract!vars
  <2>1. UNCHANGED <<opts, main, results, launches>>
    BY <1>5 DEF Connect, Dispense, Setup, Call, Kill, SendError, Release, Done
  <2>2. Reports' = Reports /\ Verdict' = Verdict
    BY <2>1 DEF Reports, Verdict
  <2>. QED
    BY <2>1, <2>2, TableKept
<1>. QED
  BY <1>1, <1>2, <1>3, <1>4, <1>5 DEF Next, Main, Worker, Local, Finished

(***************************************************************************)
(* The pool implements FanOut, for every number of requests, every threads *)
(* flag, every order of the workers and whichever step of a plugin fails:  *)
(* a command that is refused or panics has started nothing, a request is   *)
(* settled once, and the command fails exactly when a request did.         *)
(***************************************************************************)
THEOREM PoolImplementsFanOut == Spec => ImplementsFanOut
<1>1. Init => Abstract!Init
  <2> SUFFICES ASSUME Init PROVE Abstract!Init
    OBVIOUS
  <2>1. Reports = << >> /\ Verdict = "none"
    BY DEF Init, Reports, Verdict
  <2>2. Outcomes = [i \in Requests |-> "pending"]
    BY <2>1 DEF Outcomes, OutcomeOf
  <2>3. Requests \subseteq Tasks
    BY OptionsTyped, PoolAssumption DEF Init, Requests, Tasks
  <2>. QED
    BY <2>1, <2>2, <2>3 DEF Abstract!Init
<1>2. Shape /\ Shape' /\ Accounting /\ (Told /\ AllStarted) /\ (Told /\ AllStarted)' /\ [Next]_vars
        => [Abstract!Next]_(Abstract!vars)
  BY StepRefines
<1>. QED
  BY <1>1, <1>2, ShapeInvariant, AccountingInvariant, ToldInvariant, PTL
     DEF Spec, ImplementsFanOut, Abstract!Spec
=============================================================================
