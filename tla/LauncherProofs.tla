--------------------------- MODULE LauncherProofs ---------------------------
(* What the launcher promises of its processes, for every set of shards.    *)
EXTENDS Launcher, FiniteSetTheorems, TLAPS

\* Type correctness: the state of the main thread, of the managers and of the
\* processes stays what TypeOK says.
THEOREM TypeCorrect == Spec => []TypeOK
<1>1. Init => TypeOK
  <2> SUFFICES ASSUME Init PROVE TypeOK
    OBVIOUS
  <2>1. status \in Seq({Ready, Failed})
    BY DEF Init
  <2>2. running \in BOOLEAN /\ shutdown \in BOOLEAN
    BY DEF Init
  <2>3. /\ ready \in [Shards -> BOOLEAN]
        /\ uds \in [Shards -> {"absent", "previous", "bound"}]
    BY DEF Init
  <2>. QED BY <2>1, <2>2, <2>3 DEF Init, TypeOK, Locations, Outcomes, Alive
<1>2. TypeOK /\ [Next]_vars => TypeOK'
  <2> SUFFICES ASSUME TypeOK, [Next]_vars PROVE TypeOK'
    OBVIOUS
  <2> USE DEF TypeOK, Locations, Outcomes, Alive, mainVars, shardVars, Ready, Failed,
              Return, Fail, Report
  <2>1. CASE Main
    <3>1. CASE TakeStatus
      <4>1. status # <<>> /\ status \in Seq({Ready, Failed})
        BY <3>1 DEF TakeStatus
      <4>2. Tail(status) \in Seq({Ready, Failed})
        BY <4>1
      <4>3. status' \in Seq({Ready, Failed})
        BY <3>1, <4>2 DEF TakeStatus
      <4>. QED BY <3>1, <4>3 DEF TakeStatus
    <3>2. CASE SeeShardFailed
      <4>1. status # <<>> /\ status \in Seq({Ready, Failed})
        BY <3>2 DEF SeeShardFailed
      <4>2. Tail(status) \in Seq({Ready, Failed})
        BY <4>1
      <4>3. status' \in Seq({Ready, Failed})
        BY <3>2, <4>2 DEF SeeShardFailed
      <4>. QED BY <3>2, <4>3 DEF SeeShardFailed
    <3>3. CASE StartDownload \/ SeeDownloadExit \/ InterruptDownload \/ TerminateDownload
      BY <3>3 DEF StartDownload, SeeDownloadExit, InterruptDownload, TerminateDownload
    <3>4. CASE SpawnShards \/ InterruptStart \/ StartWebserver
      BY <3>4 DEF SpawnShards, InterruptStart, StartWebserver
    <3>5. CASE SeeWebserverExit \/ InterruptServing \/ TerminateWebserver
      BY <3>5 DEF SeeWebserverExit, InterruptServing, TerminateWebserver
    <3>6. CASE ShutdownShards \/ ShardsGone
      BY <3>6 DEF ShutdownShards, ShardsGone
    <3>. QED BY <2>1, <3>1, <3>2, <3>3, <3>4, <3>5, <3>6 DEF Main
  <2>2. ASSUME NEW s \in Shards, Manager(s) PROVE TypeOK'
    <3>1. CASE StartShard(s)
      BY <3>1 DEF StartShard
    <3>2. CASE StartShardFails(s)
      BY <3>2 DEF StartShardFails
    <3>3. CASE CleanupFails(s)
      BY <3>3 DEF CleanupFails
    <3>4. CASE SeeExit(s)
      BY <3>4 DEF SeeExit
    <3>5. CASE SeeShutdown(s)
      BY <3>5 DEF SeeShutdown
    <3>6. CASE SeeReady(s)
      BY <3>6 DEF SeeReady
    <3>7. CASE TerminateShard(s)
      BY <3>7 DEF TerminateShard
    <3>. QED BY <2>2, <3>1, <3>2, <3>3, <3>4, <3>5, <3>6, <3>7 DEF Manager
  <2>3. CASE World
    <3>1. CASE Interrupt
      BY <3>1 DEF Interrupt
    <3>3. CASE DownloadExits
      BY <3>3 DEF DownloadExits
    <3>4. CASE WebserverExits
      BY <3>4 DEF WebserverExits
    <3>2. ASSUME NEW s \in Shards, ShardListens(s) \/ ShardExits(s) PROVE TypeOK'
      BY <3>2 DEF ShardListens, ShardExits
    <3>. QED BY <2>3, <3>1, <3>2, <3>3, <3>4 DEF World
  <2>4. CASE Exited \/ UNCHANGED vars
    BY <2>4 DEF Exited, vars
  <2>. QED BY <2>1, <2>2, <2>3, <2>4 DEF Next
<1>. QED BY <1>1, <1>2, PTL DEF Spec

\* Which process may be alive when: a shard only while its manager watches or
\* ends it, the webserver and the download only where main deals with them; no
\* manager exists before main starts them, and all are gone when it exits.
Watched ==
    /\ \A s \in Shards : shard[s] \in Alive => manager[s] \in {"polling", "terminating"}
    /\ download = "up" => main \in {"download", "terminateDownload"}
    /\ web = "up" => main \in {"serving", "terminateWebserver"}
    /\ main \in {"start", "download", "terminateDownload", "downloaded"} =>
         \A s \in Shards : manager[s] = "none"
    /\ main = "exited" => \A s \in Shards : manager[s] \in {"none", "done"}
    /\ shutdown => main \in {"waitShards", "exited"}

\* Every step keeps the processes watched.
LEMMA WatchedInductive == TypeOK /\ Watched /\ [Next]_vars => Watched'
<1> SUFFICES ASSUME TypeOK, Watched, [Next]_vars PROVE Watched'
  OBVIOUS
<1> USE DEF TypeOK, Watched, Alive, Locations, mainVars, shardVars, Return, Fail, Report
<1>1. CASE Main
  <2>1. CASE StartDownload \/ SeeDownloadExit \/ InterruptDownload \/ TerminateDownload
    BY <2>1 DEF StartDownload, SeeDownloadExit, InterruptDownload, TerminateDownload
  <2>2. CASE SpawnShards
    BY <2>2 DEF SpawnShards
  <2>3. CASE TakeStatus \/ InterruptStart \/ StartWebserver
    BY <2>3 DEF TakeStatus, InterruptStart, StartWebserver
  <2>4. CASE SeeShardFailed \/ SeeWebserverExit \/ InterruptServing \/ TerminateWebserver
    BY <2>4 DEF SeeShardFailed, SeeWebserverExit, InterruptServing, TerminateWebserver
  <2>5. CASE ShutdownShards \/ ShardsGone
    BY <2>5 DEF ShutdownShards, ShardsGone
  <2>. QED BY <1>1, <2>1, <2>2, <2>3, <2>4, <2>5 DEF Main
<1>2. ASSUME NEW s \in Shards, Manager(s) PROVE Watched'
  <2>1. CASE StartShard(s) \/ StartShardFails(s) \/ CleanupFails(s)
    BY <2>1 DEF StartShard, StartShardFails, CleanupFails
  <2>2. CASE SeeExit(s) \/ SeeShutdown(s) \/ SeeReady(s)
    BY <2>2 DEF SeeExit, SeeShutdown, SeeReady
  <2>3. CASE TerminateShard(s)
    BY <2>3 DEF TerminateShard
  <2>. QED BY <1>2, <2>1, <2>2, <2>3 DEF Manager
<1>3. CASE World
  <2>1. CASE Interrupt \/ DownloadExits \/ WebserverExits
    BY <2>1 DEF Interrupt, DownloadExits, WebserverExits
  <2>2. ASSUME NEW s \in Shards, ShardListens(s) \/ ShardExits(s) PROVE Watched'
    BY <2>2 DEF ShardListens, ShardExits
  <2>. QED BY <1>3, <2>1, <2>2 DEF World
<1>4. CASE Exited \/ UNCHANGED vars
  BY <1>4 DEF Exited, vars
<1>. QED BY <1>1, <1>2, <1>3, <1>4 DEF Next

\* Processes are always watched.
LEMMA WatchedCorrect == Spec => []Watched
<1>1. Init => Watched
  BY DEF Init, Watched, Alive
<1>. QED BY <1>1, WatchedInductive, TypeCorrect, PTL DEF Spec

\* However main returns, no download, shard or webserver process is left: for
\* any number of shards, any failure and a signal at any time.
THEOREM NoOrphanProcessCorrect == Spec => []NoOrphanProcess
<1>1. Watched => NoOrphanProcess
  BY DEF Watched, NoOrphanProcess
<1>. QED BY <1>1, WatchedCorrect, PTL

\* No shard is asked to stop while the webserver runs, on any path to the end.
THEOREM WebserverStopsFirstCorrect == Spec => []WebserverStopsFirst
<1>1. Watched => WebserverStopsFirst
  BY DEF Watched, WebserverStopsFirst
<1>. QED BY <1>1, WatchedCorrect, PTL

\* What main will return, and why.
Explained == main \in {"shutdown", "waitShards", "exited", "terminateWebserver"} /\ outcome = "Ok"
                 => ~running

\* The launcher returns Ok only after a signal.
THEOREM SuccessOnlyWhenAskedCorrect == Spec => []SuccessOnlyWhenAsked
<1>1. Init => Explained
  BY DEF Init, Explained
<1>2. Explained /\ [Next]_vars => Explained'
  <2> SUFFICES ASSUME Explained, [Next]_vars PROVE Explained'
    OBVIOUS
  <2> USE DEF Explained, mainVars, Return, Fail
  <2>1. CASE Main
    BY <2>1 DEF Main, StartDownload, SeeDownloadExit, InterruptDownload, TerminateDownload,
                SpawnShards, TakeStatus, InterruptStart, StartWebserver, SeeShardFailed,
                SeeWebserverExit, InterruptServing, TerminateWebserver, ShutdownShards,
                ShardsGone
  <2>2. ASSUME NEW s \in Shards, Manager(s) PROVE Explained'
    BY <2>2 DEF Manager, StartShard, StartShardFails, CleanupFails, SeeExit, SeeShutdown,
                SeeReady, TerminateShard
  <2>3. CASE World
    BY <2>3 DEF World, Interrupt, DownloadExits, WebserverExits, ShardListens, ShardExits
  <2>4. CASE Exited \/ UNCHANGED vars
    BY <2>4 DEF Exited, vars
  <2>. QED BY <2>1, <2>2, <2>3, <2>4 DEF Next
<1>3. Explained => SuccessOnlyWhenAsked
  BY DEF Explained, SuccessOnlyWhenAsked
<1>. QED BY <1>1, <1>2, <1>3, PTL DEF Spec

-----------------------------------------------------------------------------
(* The webserver starts after every shard: a count of Ready reports stands *)
(* for "all of them", which takes the reports still in the channel into    *)
(* the account.                                                            *)

Reports(q) == {i \in DOMAIN q : q[i] = Ready}
ReadyShards == {s \in Shards : ready[s]}

\* A channel holds finitely many reports.
LEMMA ReportsFinite ==
    ASSUME NEW q \in Seq({Ready, Failed})
    PROVE  IsFiniteSet(Reports(q)) /\ Cardinality(Reports(q)) \in Nat
<1>1. Reports(q) \in SUBSET (1..Len(q))
  BY DEF Reports
<1>2. IsFiniteSet(1..Len(q))
  BY FS_Interval
<1>3. IsFiniteSet(Reports(q))
  BY <1>1, <1>2, FS_Subset
<1>. QED BY <1>3, FS_CardinalityType

\* Sending Ready adds one report, sending Failed none.
LEMMA ReportsSent ==
    ASSUME NEW q \in Seq({Ready, Failed}), NEW m \in {Ready, Failed}
    PROVE  Cardinality(Reports(Append(q, m)))
             = Cardinality(Reports(q)) + (IF m = Ready THEN 1 ELSE 0)
<1>1. CASE m = Ready
  <2>1. Reports(Append(q, m)) = Reports(q) \cup {Len(q) + 1}
    BY <1>1 DEF Reports
  <2>2. Len(q) + 1 \notin Reports(q)
    BY DEF Reports
  <2>3. IsFiniteSet(Reports(q))
    BY ReportsFinite
  <2>. QED BY <1>1, <2>1, <2>2, <2>3, FS_AddElement
<1>2. CASE m = Failed
  <2>1. Reports(Append(q, m)) = Reports(q)
    BY <1>2 DEF Reports, Ready, Failed
  <2>2. Cardinality(Reports(q)) \in Nat
    BY ReportsFinite
  <2>. QED BY <1>2, <2>1, <2>2 DEF Ready, Failed
<1>. QED BY <1>1, <1>2

\* Receiving a report takes one away.
LEMMA ReportsReceived ==
    ASSUME NEW q \in Seq({Ready, Failed}), q # <<>>
    PROVE  Cardinality(Reports(Tail(q))) + (IF Head(q) = Ready THEN 1 ELSE 0)
             <= Cardinality(Reports(q))
<1> DEFINE R == Reports(q) \ {1}
           f == [i \in R |-> i - 1]
<1>1. /\ IsFiniteSet(R)
      /\ Cardinality(R) = IF 1 \in Reports(q) THEN Cardinality(Reports(q)) - 1
                          ELSE Cardinality(Reports(q))
  BY ReportsFinite, FS_RemoveElement
<1>2. f \in Surjection(R, Reports(Tail(q)))
  <2>1. \A i \in R : i - 1 \in Reports(Tail(q))
    BY DEF Reports
  <2>2. \A j \in Reports(Tail(q)) : j + 1 \in R /\ f[j + 1] = j
    BY DEF Reports
  <2>. QED BY <2>1, <2>2 DEF Surjection
<1>3. Cardinality(Reports(Tail(q))) <= Cardinality(R)
  BY <1>1, <1>2, FS_Surjection
<1>4. 1 \in Reports(q) <=> Head(q) = Ready
  BY DEF Reports
<1>5. Cardinality(Reports(q)) \in Nat /\ Cardinality(Reports(Tail(q))) \in Nat
  <2>1. Tail(q) \in Seq({Ready, Failed})
    OBVIOUS
  <2>. QED BY <2>1, ReportsFinite
<1>. QED BY <1>1, <1>3, <1>4, <1>5

\* A shard that starts reporting is one more ready shard.
LEMMA OneMoreReady ==
    ASSUME TypeOK, NEW s \in Shards, ~ready[s], ready' = [ready EXCEPT ![s] = TRUE]
    PROVE  /\ Cardinality(ReadyShards') = Cardinality(ReadyShards) + 1
           /\ Cardinality(ReadyShards) \in Nat
<1>1. ReadyShards' = ReadyShards \cup {s}
  BY DEF ReadyShards, TypeOK
<1>2. IsFiniteSet(ReadyShards)
  BY LauncherAssumption, FS_Subset DEF ReadyShards
<1>3. s \notin ReadyShards
  BY DEF ReadyShards
<1>. QED BY <1>1, <1>2, <1>3, FS_AddElement, FS_CardinalityType

\* Reports taken and reports under way are of different shards; a reported shard
\* has bound its socket; the webserver needs a report of every shard.
Counted ==
    /\ shard_ready + Cardinality(Reports(status)) <= Cardinality(ReadyShards)
    /\ \A s \in Shards : ready[s] => uds[s] = "bound" /\ manager[s] \notin {"none", "begin"}
    /\ \A s \in Shards : manager[s] \in {"polling", "terminating"} => uds[s] # "previous"
    /\ main = "started" => ~running \/ shard_ready = Cardinality(Shards)
    /\ main \in {"serving", "terminateWebserver"} => shard_ready = Cardinality(Shards)
    /\ web # "none" => shard_ready = Cardinality(Shards)
    /\ web # "none" => main \in {"serving", "terminateWebserver", "shutdown", "waitShards",
                                 "exited"}

\* Every step keeps the count.
LEMMA CountedInductive == TypeOK /\ Watched /\ Counted /\ [Next]_vars => Counted'
<1> SUFFICES ASSUME TypeOK, Watched, Counted, [Next]_vars PROVE Counted'
  OBVIOUS
<1>0. /\ Cardinality(Reports(status)) \in Nat
      /\ Cardinality(ReadyShards) \in Nat /\ shard_ready \in Nat
  <2>1. IsFiniteSet(ReadyShards)
    BY LauncherAssumption, FS_Subset DEF ReadyShards
  <2>. QED BY <2>1, ReportsFinite, FS_CardinalityType DEF TypeOK
<1> USE DEF mainVars, shardVars
<1>1. ASSUME UNCHANGED <<status, ready, shard_ready>>
      PROVE  (shard_ready + Cardinality(Reports(status)) <= Cardinality(ReadyShards))'
  BY <1>1 DEF Counted, ReadyShards
<1>2. CASE Main
  <2> USE DEF TypeOK, Watched, Locations, Return, Fail
  <2>1. CASE StartDownload \/ SeeDownloadExit \/ InterruptDownload \/ TerminateDownload
    <3>1. UNCHANGED <<status, ready, shard_ready>>
      BY <2>1 DEF StartDownload, SeeDownloadExit, InterruptDownload, TerminateDownload
    <3>. QED BY <1>1, <2>1, <3>1 DEF Counted, StartDownload, SeeDownloadExit,
                                     InterruptDownload, TerminateDownload
  <2>2. CASE SpawnShards
    <3>1. UNCHANGED <<status, ready, shard_ready>>
      BY <2>2 DEF SpawnShards
    <3>. QED BY <1>1, <2>2, <3>1 DEF Counted, SpawnShards
  <2>3. CASE TakeStatus
    <3>1. /\ status # <<>> /\ status' = Tail(status) /\ UNCHANGED ready
          /\ shard_ready' = shard_ready + (IF Head(status) = Ready THEN 1 ELSE 0)
      <4>1. Head(status) \in {Ready, Failed}
        BY <2>3 DEF TakeStatus
      <4>. QED BY <2>3, <4>1, <1>0 DEF TakeStatus, Ready, Failed
    <3>2. Cardinality(Reports(status')) + (IF Head(status) = Ready THEN 1 ELSE 0)
            <= Cardinality(Reports(status))
      BY <3>1, ReportsReceived
    <3>3. Cardinality(Reports(status')) \in Nat
      <4>1. status' \in Seq({Ready, Failed})
        BY <3>1
      <4>. QED BY <4>1, ReportsFinite
    <3>4. (shard_ready + Cardinality(Reports(status)) <= Cardinality(ReadyShards))'
      <4>1. ReadyShards' = ReadyShards
        BY <3>1 DEF ReadyShards
      <4>. QED BY <1>0, <3>1, <3>2, <3>3, <4>1 DEF Counted
    <3>. QED BY <2>3, <3>4 DEF Counted, TakeStatus
  <2>4. CASE InterruptStart \/ StartWebserver
    <3>1. UNCHANGED <<status, ready, shard_ready>>
      BY <2>4 DEF InterruptStart, StartWebserver
    <3>. QED BY <1>1, <2>4, <3>1 DEF Counted, InterruptStart, StartWebserver
  <2>5. CASE SeeShardFailed
    <3>1. status # <<>> /\ status' = Tail(status) /\ UNCHANGED <<ready, shard_ready>>
      BY <2>5 DEF SeeShardFailed
    <3>2. Cardinality(Reports(status')) + (IF Head(status) = Ready THEN 1 ELSE 0)
            <= Cardinality(Reports(status))
      BY <3>1, ReportsReceived
    <3>3. Cardinality(Reports(status')) \in Nat
      <4>1. status' \in Seq({Ready, Failed})
        BY <3>1
      <4>. QED BY <4>1, ReportsFinite
    <3>4. (shard_ready + Cardinality(Reports(status)) <= Cardinality(ReadyShards))'
      <4>1. ReadyShards' = ReadyShards
        BY <3>1 DEF ReadyShards
      <4>. QED BY <1>0, <3>1, <3>2, <3>3, <4>1 DEF Counted
    <3>. QED BY <2>5, <3>4 DEF Counted, SeeShardFailed
  <2>6. CASE SeeWebserverExit \/ InterruptServing \/ TerminateWebserver
    <3>1. UNCHANGED <<status, ready, shard_ready>>
      BY <2>6 DEF SeeWebserverExit, InterruptServing, TerminateWebserver
    <3>. QED BY <1>1, <2>6, <3>1 DEF Counted, SeeWebserverExit, InterruptServing,
                                     TerminateWebserver
  <2>7. CASE ShutdownShards \/ ShardsGone
    <3>1. UNCHANGED <<status, ready, shard_ready>>
      BY <2>7 DEF ShutdownShards, ShardsGone
    <3>. QED BY <1>1, <2>7, <3>1 DEF Counted, ShutdownShards, ShardsGone
  <2>. QED BY <1>2, <2>1, <2>2, <2>3, <2>4, <2>5, <2>6, <2>7 DEF Main
<1>3. ASSUME NEW s \in Shards, Manager(s) PROVE Counted'
  <2> USE DEF TypeOK
  <2>1. CASE StartShard(s) \/ CleanupFails(s) \/ SeeShutdown(s) \/ TerminateShard(s)
    <3>1. UNCHANGED <<status, ready, shard_ready>>
      BY <2>1 DEF StartShard, CleanupFails, SeeShutdown, TerminateShard
    <3>. QED BY <1>1, <2>1, <3>1 DEF Counted, StartShard, CleanupFails, SeeShutdown,
                                     TerminateShard
  <2>2. CASE StartShardFails(s) \/ SeeExit(s)
    <3>1. status' = Append(status, Failed) /\ UNCHANGED <<ready, shard_ready>>
      BY <2>2 DEF StartShardFails, SeeExit, Report
    <3>2. Cardinality(Reports(status')) = Cardinality(Reports(status))
      BY <1>0, <3>1, ReportsSent DEF Ready, Failed
    <3>3. (shard_ready + Cardinality(Reports(status)) <= Cardinality(ReadyShards))'
      BY <3>1, <3>2 DEF Counted, ReadyShards
    <3>. QED BY <2>2, <3>1, <3>3 DEF Counted, StartShardFails, SeeExit
  <2>3. CASE SeeReady(s)
    <3>1. /\ status' = Append(status, Ready) /\ UNCHANGED shard_ready
          /\ ~ready[s] /\ ready' = [ready EXCEPT ![s] = TRUE]
      BY <2>3 DEF SeeReady, Report
    <3>2. Cardinality(Reports(status')) = Cardinality(Reports(status)) + 1
      BY <3>1, ReportsSent
    <3>3. Cardinality(ReadyShards') = Cardinality(ReadyShards) + 1
      BY <3>1, OneMoreReady
    <3>4. (shard_ready + Cardinality(Reports(status)) <= Cardinality(ReadyShards))'
      BY <1>0, <3>1, <3>2, <3>3 DEF Counted
    <3>5. uds[s] = "bound"
      BY <2>3 DEF SeeReady, Counted
    <3>. QED BY <2>3, <3>1, <3>4, <3>5 DEF Counted, SeeReady
  <2>. QED BY <1>3, <2>1, <2>2, <2>3 DEF Manager
<1>4. CASE World
  <2>1. UNCHANGED <<status, ready, shard_ready>>
    BY <1>4 DEF World, Interrupt, DownloadExits, WebserverExits, ShardListens, ShardExits
  <2>2. CASE Interrupt \/ DownloadExits
    BY <1>1, <2>1, <2>2 DEF Counted, Interrupt, DownloadExits
  <2>3. CASE WebserverExits
    BY <1>1, <2>1, <2>3 DEF Counted, WebserverExits
  <2>4. ASSUME NEW s \in Shards, ShardListens(s) \/ ShardExits(s) PROVE Counted'
    BY <1>1, <2>1, <2>4 DEF Counted, ShardListens, ShardExits, TypeOK
  <2>. QED BY <1>4, <2>2, <2>3, <2>4 DEF World
<1>5. CASE Exited \/ UNCHANGED vars
  BY <1>1, <1>5 DEF Exited, vars, Counted
<1>. QED BY <1>2, <1>3, <1>4, <1>5 DEF Next

\* The webserver never starts before every shard of this run has bound its
\* socket, whatever a previous run left behind and whenever a signal comes.
THEOREM WebserverAfterShardsCorrect == Spec => []WebserverAfterShards
<1>1. Init => Counted
  <2> SUFFICES ASSUME Init PROVE Counted
    OBVIOUS
  <2>1. Reports(status) = {} /\ ReadyShards = {}
    BY DEF Init, Reports, ReadyShards
  <2>. QED BY <2>1, FS_EmptySet DEF Init, Counted
<1>2. TypeOK /\ Counted => WebserverAfterShards
  <2> SUFFICES ASSUME TypeOK, Counted, web # "none" PROVE \A s \in Shards : uds[s] = "bound"
    BY DEF WebserverAfterShards
  <2>1. Cardinality(Reports(status)) \in Nat /\ Cardinality(Shards) \in Nat
    BY ReportsFinite, LauncherAssumption, FS_CardinalityType DEF TypeOK
  <2>2. ReadyShards \in SUBSET Shards
    BY DEF ReadyShards
  <2>3. /\ IsFiniteSet(ReadyShards) /\ Cardinality(ReadyShards) <= Cardinality(Shards)
        /\ Cardinality(Shards) = Cardinality(ReadyShards) => Shards = ReadyShards
    BY <2>2, LauncherAssumption, FS_Subset
  <2>4. Cardinality(ReadyShards) \in Nat
    BY <2>3, FS_CardinalityType
  <2>5. Shards = ReadyShards
    BY <2>1, <2>3, <2>4 DEF Counted
  <2>. QED BY <2>5 DEF Counted, ReadyShards
<1>. QED BY <1>1, <1>2, CountedInductive, WatchedCorrect, TypeCorrect, PTL DEF Spec
=============================================================================
