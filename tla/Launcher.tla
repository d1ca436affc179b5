------------------------------ MODULE Launcher ------------------------------
(***************************************************************************)
(* The launcher: the main thread downloads the weights, starts one manager *)
(* thread per shard, waits until every shard listens, starts the webserver *)
(* and watches all of them; a signal or the death of a process ends it.    *)
(*                                                                         *)
(* Every loop of the code polls: it looks at one thing after the other and *)
(* sleeps.  A loop is one location here and each of its checks an action,  *)
(* so a check may see what happened after the check before it.             *)
(***************************************************************************)
EXTENDS Integers, Sequences, FiniteSets

CONSTANT Shards

ASSUME LauncherAssumption == IsFiniteSet(Shards) /\ Shards # {}

VARIABLES
    running,    \* FALSE once the signal handler has run
    main,       \* where the main thread is
    outcome,    \* what main will return
    download,   \* the download process
    shard_ready,
    status,     \* the channel from the managers to main
    shutdown,   \* the shared flag that asks the managers to stop
    web,        \* the webserver process
    manager,    \* Shards -> where its manager thread is
    ready,      \* Shards -> has its manager reported it?
    shard,      \* Shards -> the shard process
    uds         \* Shards -> its socket: absent, of a previous run, or bound

mainVars == <<main, outcome, download, shard_ready, web>>
shardVars == <<manager, ready, shard, uds>>
vars == <<running, mainVars, status, shutdown, shardVars>>

Locations == {"start", "download", "terminateDownload", "downloaded", "starting",
              "started", "serving", "terminateWebserver", "shutdown", "waitShards",
              "exited"}
Outcomes == {"Ok", "DownloadError", "ShardCannotStart", "ShardFailed",
             "WebserverCannotStart", "WebserverFailed"}
Alive == {"loading", "listening"}
Ready == "Ready"
Failed == "Failed"

Init ==
    /\ running = TRUE /\ main = "start" /\ outcome = "Ok"
    /\ download = "none" /\ shard_ready = 0 /\ status = <<>>
    /\ shutdown = FALSE /\ web = "none"
    /\ manager = [s \in Shards |-> "none"]
    /\ ready = [s \in Shards |-> FALSE]
    /\ shard = [s \in Shards |-> "none"]
    /\ uds \in [Shards -> {"absent", "previous"}]
-----------------------------------------------------------------------------
(* The world: signals and processes                                        *)

Interrupt ==
    /\ running /\ main # "exited"
    /\ running' = FALSE
    /\ UNCHANGED <<mainVars, status, shutdown, shardVars>>

DownloadExits ==
    /\ download = "up"
    /\ download' \in {"succeeded", "failed"}
    /\ UNCHANGED <<running, main, outcome, shard_ready, web, status, shutdown, shardVars>>

\* The model is loaded: the shard binds its socket and serves.
ShardListens(s) ==
    /\ shard[s] = "loading"
    /\ shard' = [shard EXCEPT ![s] = "listening"]
    /\ uds' = [uds EXCEPT ![s] = "bound"]
    /\ UNCHANGED <<running, mainVars, status, shutdown, manager, ready>>

\* A crash, or the exit after SIGTERM.
ShardExits(s) ==
    /\ shard[s] \in Alive
    /\ shard' = [shard EXCEPT ![s] = "dead"]
    /\ UNCHANGED <<running, mainVars, status, shutdown, manager, ready, uds>>

WebserverExits ==
    /\ web = "up"
    /\ web' = "dead"
    /\ UNCHANGED <<running, main, outcome, download, shard_ready, status, shutdown, shardVars>>
-----------------------------------------------------------------------------
(* Shard managers                                                          *)

\* status_sender.send
Report(what) == status' = Append(status, what)

\* Mutant: the socket of a previous run is left where it is.
StartShardUncleaned(s) ==
    /\ manager[s] = "begin"
    /\ manager' = [manager EXCEPT ![s] = "polling"]
    /\ shard' = [shard EXCEPT ![s] = "loading"]
    /\ UNCHANGED <<running, mainVars, status, shutdown, ready, uds>>

StartShard(s) ==
    /\ manager[s] = "begin"
    /\ uds' = [uds EXCEPT ![s] = "absent"]
    /\ manager' = [manager EXCEPT ![s] = "polling"]
    /\ shard' = [shard EXCEPT ![s] = "loading"]
    /\ UNCHANGED <<running, mainVars, status, shutdown, ready>>

StartShardFails(s) ==
    /\ manager[s] = "begin"
    /\ uds' = [uds EXCEPT ![s] = "absent"]
    /\ manager' = [manager EXCEPT ![s] = "done"]
    /\ Report(Failed)
    /\ UNCHANGED <<running, mainVars, shutdown, ready, shard>>

\* remove_file(uds).unwrap() panics: the thread is gone and nobody is told.
CleanupFails(s) ==
    /\ manager[s] = "begin" /\ uds[s] = "previous"
    /\ manager' = [manager EXCEPT ![s] = "done"]
    /\ UNCHANGED <<running, mainVars, status, shutdown, ready, shard, uds>>

\* Mutant: the manager returns without a report.
SeeExitSilently(s) ==
    /\ manager[s] = "polling" /\ shard[s] = "dead"
    /\ manager' = [manager EXCEPT ![s] = "done"]
    /\ UNCHANGED <<running, mainVars, status, shutdown, ready, shard, uds>>

SeeExit(s) ==
    /\ manager[s] = "polling" /\ shard[s] = "dead"
    /\ Report(Failed)
    /\ manager' = [manager EXCEPT ![s] = "done"]
    /\ UNCHANGED <<running, mainVars, shutdown, ready, shard, uds>>

\* Mutant: the manager returns without waiting for the process.
SeeShutdownLeaves(s) ==
    /\ manager[s] = "polling" /\ shutdown
    /\ manager' = [manager EXCEPT ![s] = "done"]
    /\ UNCHANGED <<running, mainVars, status, shutdown, ready, shard, uds>>

\* SIGTERM is sent.
SeeShutdown(s) ==
    /\ manager[s] = "polling" /\ shutdown
    /\ manager' = [manager EXCEPT ![s] = "terminating"]
    /\ UNCHANGED <<running, mainVars, status, shutdown, ready, shard, uds>>

SeeReady(s) ==
    /\ manager[s] = "polling" /\ uds[s] # "absent" /\ ~ready[s]
    /\ Report(Ready)
    /\ ready' = [ready EXCEPT ![s] = TRUE]
    /\ UNCHANGED <<running, mainVars, shutdown, manager, shard, uds>>

\* Mutant: no SIGKILL when the time is over.
TerminateShardPatiently(s) ==
    /\ manager[s] = "terminating" /\ shard[s] = "dead"
    /\ manager' = [manager EXCEPT ![s] = "done"]
    /\ UNCHANGED <<running, mainVars, status, shutdown, ready, shard, uds>>

\* terminate: the process is gone, or it is killed when the time is over.
TerminateShard(s) ==
    /\ manager[s] = "terminating"
    /\ shard' = [shard EXCEPT ![s] = "dead"]
    /\ manager' = [manager EXCEPT ![s] = "done"]
    /\ UNCHANGED <<running, mainVars, status, shutdown, ready, uds>>
-----------------------------------------------------------------------------
(* The main thread                                                         *)

Return(code) == main' = "exited" /\ outcome' = code
Fail(code) == main' = "shutdown" /\ outcome' = code

StartDownload ==
    /\ main = "start"
    /\ \/ download' = "up" /\ main' = "download" /\ UNCHANGED outcome
       \/ UNCHANGED download /\ Return("DownloadError")
    /\ UNCHANGED <<running, shard_ready, web, status, shutdown, shardVars>>

SeeDownloadExit ==
    /\ main = "download" /\ download # "up"
    /\ IF download = "succeeded" THEN main' = "downloaded" /\ UNCHANGED outcome
       ELSE Return("DownloadError")
    /\ UNCHANGED <<running, download, shard_ready, web, status, shutdown, shardVars>>

InterruptDownload ==
    /\ main = "download" /\ ~running
    /\ main' = "terminateDownload"
    /\ UNCHANGED <<running, outcome, download, shard_ready, web, status, shutdown, shardVars>>

TerminateDownload ==
    /\ main = "terminateDownload"
    /\ download' = IF download = "up" THEN "failed" ELSE download
    /\ main' = "downloaded"
    /\ UNCHANGED <<running, outcome, shard_ready, web, status, shutdown, shardVars>>

SpawnShards ==
    /\ main = "downloaded"
    /\ IF running
       THEN /\ main' = "starting"
            /\ manager' = [s \in Shards |-> "begin"]
            /\ UNCHANGED outcome
       ELSE Return("Ok") /\ UNCHANGED manager
    /\ UNCHANGED <<running, download, shard_ready, web, status, shutdown, ready, shard, uds>>

\* Mutant: the reports are counted down.
TakeStatusDown ==
    /\ main = "starting" /\ status # <<>>
    /\ status' = Tail(status)
    /\ IF Head(status) = Failed
       THEN Fail("ShardCannotStart") /\ UNCHANGED shard_ready
       ELSE /\ shard_ready' = shard_ready - 1
            /\ UNCHANGED <<main, outcome>>
    /\ UNCHANGED <<running, download, web, shutdown, shardVars>>

\* The next status while the shards start.
TakeStatus ==
    /\ main = "starting" /\ status # <<>>
    /\ status' = Tail(status)
    /\ IF Head(status) = Failed
       THEN Fail("ShardCannotStart") /\ UNCHANGED shard_ready
       ELSE /\ shard_ready' = shard_ready + 1
            /\ main' = IF shard_ready' = Cardinality(Shards) THEN "started" ELSE main
            /\ UNCHANGED outcome
    /\ UNCHANGED <<running, download, web, shutdown, shardVars>>

InterruptStart ==
    /\ main = "starting" /\ ~running
    /\ main' = "started"
    /\ UNCHANGED <<running, outcome, download, shard_ready, web, status, shutdown, shardVars>>

\* Mutant: "We might have received a termination signal" is not considered.
StartWebserverAnyway ==
    /\ main = "started"
    /\ web' = "up" /\ main' = "serving"
    /\ UNCHANGED <<running, outcome, download, shard_ready, status, shutdown, shardVars>>

\* A signal ends it here; otherwise the webserver is started, or cannot be.
StartWebserver ==
    /\ main = "started"
    /\ IF ~running THEN Fail("Ok") /\ UNCHANGED web
       ELSE \/ web' = "up" /\ main' = "serving" /\ UNCHANGED outcome
            \/ Fail("WebserverCannotStart") /\ UNCHANGED web
    /\ UNCHANGED <<running, download, shard_ready, status, shutdown, shardVars>>

\* Mutant: the exit code stays Ok.
SeeShardFailedOk ==
    /\ main = "serving" /\ status # <<>>
    /\ status' = Tail(status)
    /\ main' = IF Head(status) = Failed THEN "terminateWebserver" ELSE main
    /\ UNCHANGED <<running, outcome, download, shard_ready, web, shutdown, shardVars>>

SeeShardFailed ==
    /\ main = "serving" /\ status # <<>>
    /\ status' = Tail(status)
    /\ IF Head(status) = Failed
       THEN main' = "terminateWebserver" /\ outcome' = "ShardFailed"
       ELSE UNCHANGED <<main, outcome>>
    /\ UNCHANGED <<running, download, shard_ready, web, shutdown, shardVars>>

SeeWebserverExit ==
    /\ main = "serving" /\ web = "dead"
    /\ Fail("WebserverFailed")
    /\ UNCHANGED <<running, download, shard_ready, web, status, shutdown, shardVars>>

\* Mutant: the shards are shut down first.
InterruptServingShardsFirst ==
    /\ main = "serving" /\ ~running
    /\ main' = "terminateWebserver"
    /\ shutdown' = TRUE
    /\ UNCHANGED <<running, outcome, download, shard_ready, web, status, shardVars>>

InterruptServing ==
    /\ main = "serving" /\ ~running
    /\ main' = "terminateWebserver"
    /\ UNCHANGED <<running, outcome, download, shard_ready, web, status, shutdown, shardVars>>

TerminateWebserver ==
    /\ main = "terminateWebserver"
    /\ web' = "dead"
    /\ main' = "shutdown"
    /\ UNCHANGED <<running, outcome, download, shard_ready, status, shutdown, shardVars>>

\* shutdown_shards, called twice when the webserver cannot start: the second
\* call finds nothing to wait for.
ShutdownShards ==
    /\ main = "shutdown"
    /\ shutdown' = TRUE
    /\ main' = "waitShards"
    /\ UNCHANGED <<running, outcome, download, shard_ready, web, status, shardVars>>

\* recv returns when the last manager has dropped its sender.
ShardsGone ==
    /\ main = "waitShards" /\ \A s \in Shards : manager[s] = "done"
    /\ main' = "exited"
    /\ UNCHANGED <<running, outcome, download, shard_ready, web, status, shutdown, shardVars>>
-----------------------------------------------------------------------------
Main ==
    \/ StartDownload \/ SeeDownloadExit \/ InterruptDownload \/ TerminateDownload
    \/ SpawnShards \/ TakeStatus \/ InterruptStart \/ StartWebserver
    \/ SeeShardFailed \/ SeeWebserverExit \/ InterruptServing \/ TerminateWebserver
    \/ ShutdownShards \/ ShardsGone

Manager(s) ==
    \/ StartShard(s) \/ StartShardFails(s) \/ CleanupFails(s) \/ SeeExit(s)
    \/ SeeShutdown(s) \/ SeeReady(s) \/ TerminateShard(s)

World ==
    \/ Interrupt \/ DownloadExits \/ WebserverExits
    \/ \E s \in Shards : ShardListens(s) \/ ShardExits(s)

Exited == main = "exited" /\ UNCHANGED vars

Next == Main \/ (\E s \in Shards : Manager(s)) \/ World \/ Exited

\* Threads are scheduled and every check of a polling loop is reached again and
\* again.  Nothing is assumed of the processes.
Fairness ==
    /\ WF_vars(StartDownload) /\ WF_vars(SeeDownloadExit) /\ WF_vars(InterruptDownload)
    /\ WF_vars(TerminateDownload) /\ WF_vars(SpawnShards) /\ WF_vars(TakeStatus)
    /\ WF_vars(InterruptStart) /\ WF_vars(StartWebserver) /\ WF_vars(SeeShardFailed)
    /\ WF_vars(SeeWebserverExit) /\ WF_vars(InterruptServing)
    /\ WF_vars(TerminateWebserver) /\ WF_vars(ShutdownShards) /\ WF_vars(ShardsGone)
    /\ \A s \in Shards :
         /\ WF_vars(StartShard(s) \/ StartShardFails(s) \/ CleanupFails(s))
         /\ WF_vars(SeeExit(s)) /\ WF_vars(SeeShutdown(s)) /\ WF_vars(SeeReady(s))
         /\ WF_vars(TerminateShard(s))

Spec == Init /\ [][Next]_vars
LiveSpec == Spec /\ Fairness
-----------------------------------------------------------------------------
TypeOK ==
    /\ running \in BOOLEAN /\ main \in Locations /\ outcome \in Outcomes
    /\ download \in {"none", "up", "succeeded", "failed"}
    /\ shard_ready \in Nat /\ status \in Seq({Ready, Failed})
    /\ shutdown \in BOOLEAN /\ web \in {"none", "up", "dead"}
    /\ manager \in [Shards -> {"none", "begin", "polling", "terminating", "done"}]
    /\ ready \in [Shards -> BOOLEAN]
    /\ shard \in [Shards -> Alive \cup {"none", "dead"}]
    /\ uds \in [Shards -> {"absent", "previous", "bound"}]

\* "the main thread will wait for all senders to be dropped": the launcher
\* leaves no process behind, however it ends.
NoOrphanProcess ==
    main = "exited" =>
        /\ download # "up" /\ web # "up"
        /\ \A s \in Shards : shard[s] \notin Alive

\* "Graceful termination": shards are only asked to stop once no webserver can
\* send them requests.
WebserverStopsFirst == shutdown => web # "up"

\* "Wait for shard to start": the webserver starts after every shard of this run
\* has bound its socket, whatever a previous run left and whenever a signal
\* comes.
WebserverAfterShards == web # "none" => \A s \in Shards : uds[s] = "bound"

\* The launcher only reports success when it was asked to stop.
SuccessOnlyWhenAsked == main = "exited" /\ outcome = "Ok" => ~running

\* A signal always ends the launcher, even if no process obeys its own.
StopsWhenAsked == ~running ~> main = "exited"

\* The death of the webserver or of any shard ends the launcher, whatever the
\* other managers do.
FailureEndsLauncher ==
    (web = "dead" \/ \E s \in Shards : shard[s] = "dead") ~> main = "exited"
=============================================================================
