------------------------------- MODULE McpJobs -------------------------------
(***************************************************************************)
(* The job manager of the MCP server (pmetal-mcp/src/jobs.rs): pmetal      *)
(* subcommands run as child processes, each watched by a background task   *)
(* that records how it ended, while tool handlers stop jobs and read their *)
(* summaries.  A job's status, its finish time and its stop flag are three *)
(* separate cells, each behind a lock or an atomic of its own.             *)
(*                                                                         *)
(* Log lines and metrics are left out: they are data of the readers, which *)
(* appear only as the wait for the end of the output.  A child has no      *)
(* children of its own that keep its pipes open, and waiting for a child   *)
(* of one's own does not fail.                                             *)
(***************************************************************************)
EXTENDS Naturals

CONSTANTS Jobs,       \* the jobs that may be spawned
          Stops,      \* the calls of the tool stop_job
          Views       \* the calls of job_status (or one job of list_jobs)

Terminal == {"Completed", "Failed", "Stopped"}
Statuses == {"Running", "Stopping"} \cup Terminal
Exits    == {"success", "failure", "signal"}

VARIABLES
  process,        \* the child: "none", "alive" or how it has ended
  signals,        \* the signals sent to the child
  watcher,        \* where the background task of the job stands
  status,         \* Job::status
  finishedAt,     \* whether Job::finished_at is set
  stopRequested,  \* Job::stop_requested
  timer,          \* the task that stop leaves behind
  stop,           \* each call of stop: its job and the statement it is at
  view            \* each summary: its job, what it has read, and where it is

vars == <<process, signals, watcher, status, finishedAt, stopRequested, timer,
          stop, view>>
jobVars == <<process, signals, watcher, status, finishedAt, stopRequested, timer>>

(* A summary is given the fields of the JobSummary; "none" is not read yet. *)
NoStop == [job |-> "none", at |-> "idle"]
NoView == [job |-> "none", at |-> "idle", status |-> "none", finished |-> FALSE]

-----------------------------------------------------------------------------
(* Locks. *)

(* A plausible slip: drop the guard as soon as the status is written. *)
StatusFreeDropped(j) == j \in Jobs

(* The watcher takes the write lock on the status before it decides on the *)
(* outcome and its guard lives to the end of the task, so everyone else    *)
(* finds the status free only before or after.                             *)
StatusFree(j) == watcher[j] # "recording"

(* A plausible slip: decide on the exit status alone. *)
OutcomeByExit(j) == IF process[j] = "success" THEN "Completed" ELSE "Failed"

(* The background task reads the flag after the child has been reaped.     *)
Outcome(j) == IF stopRequested[j] THEN "Stopped"
              ELSE IF process[j] = "success" THEN "Completed" ELSE "Failed"

(* Handlers hold the manager's read lock for the whole of their call, and  *)
(* the handlers that spawn hold its write lock.                            *)
NoHandler == /\ \A s \in Stops : stop[s].at \in {"idle", "ok", "refused"}
             /\ \A v \in Views : view[v].at \in {"idle", "done"}

(* Another slip: escalate only for a job that is still Running, the status *)
(* that stop itself has replaced by Stopping.                              *)
AllowsForceKillRunning(x) == x = "Running"

AllowsForceKill(x) == x \in {"Running", "Stopping"}

-----------------------------------------------------------------------------
(* The manager, the child and its watcher. *)

Init == /\ process = [j \in Jobs |-> "none"]
        /\ signals = [j \in Jobs |-> {}]
        /\ watcher = [j \in Jobs |-> "none"]
        /\ status = [j \in Jobs |-> "Running"]
        /\ finishedAt = [j \in Jobs |-> FALSE]
        /\ stopRequested = [j \in Jobs |-> FALSE]
        /\ timer = [j \in Jobs |-> "off"]
        /\ stop = [s \in Stops |-> NoStop]
        /\ view = [v \in Views |-> NoView]

(* JobManager::spawn: it awaits nothing, so it is one step. *)
Spawn(j) == /\ NoHandler
            /\ process[j] = "none"
            /\ process' = [process EXCEPT ![j] = "alive"]
            /\ watcher' = [watcher EXCEPT ![j] = "waiting"]
            /\ UNCHANGED <<signals, status, finishedAt, stopRequested, timer,
                           stop, view>>

(* The child ends by itself, which includes a child that handles SIGTERM,  *)
(* or one killed by somebody else (its code is then -1, a failure).        *)
Exit(j, how) == /\ process[j] = "alive"
                /\ how \in {"success", "failure"}
                /\ process' = [process EXCEPT ![j] = how]
                /\ UNCHANGED <<signals, watcher, status, finishedAt,
                               stopRequested, timer, stop, view>>

(* The child dies of a signal of the manager. *)
DieOf(j, signal) == /\ process[j] = "alive"
                    /\ signal \in signals[j]
                    /\ process' = [process EXCEPT ![j] = "signal"]
                    /\ UNCHANGED <<signals, watcher, status, finishedAt,
                                   stopRequested, timer, stop, view>>

(* child.wait() returns; from here on the pid is free. *)
Reap(j) == /\ watcher[j] = "waiting"
           /\ process[j] \in Exits
           /\ watcher' = [watcher EXCEPT ![j] = "draining"]
           /\ UNCHANGED <<process, signals, status, finishedAt, stopRequested,
                          timer, stop, view>>

(* The readers have seen the end of both pipes; the watcher takes the lock *)
(* on the status and writes the outcome.                                   *)
Record(j) == /\ watcher[j] = "draining"
             /\ watcher' = [watcher EXCEPT ![j] = "recording"]
             /\ status' = [status EXCEPT ![j] = Outcome(j)]
             /\ UNCHANGED <<process, signals, finishedAt, stopRequested, timer,
                            stop, view>>

(* It writes the finish time, still under the lock on the status, and ends. *)
Finish(j) == /\ watcher[j] = "recording"
             /\ watcher' = [watcher EXCEPT ![j] = "ended"]
             /\ finishedAt' = [finishedAt EXCEPT ![j] = TRUE]
             /\ UNCHANGED <<process, signals, status, stopRequested, timer,
                            stop, view>>

-----------------------------------------------------------------------------
(* JobManager::stop. *)

(* A job that nobody has spawned is not found. *)
Spawned(j) == process[j] # "none"

(* Check and replace under one write guard. *)
StopAccept(s, j) == /\ stop[s].at = "idle"
                    /\ Spawned(j) /\ StatusFree(j)
                    /\ status[j] = "Running"
                    /\ status' = [status EXCEPT ![j] = "Stopping"]
                    /\ stop' = [stop EXCEPT ![s] = [job |-> j, at |-> "flag"]]
                    /\ UNCHANGED <<process, signals, watcher, finishedAt,
                                   stopRequested, timer, view>>

StopRefuse(s, j) == /\ stop[s].at = "idle"
                    /\ Spawned(j) /\ StatusFree(j)
                    /\ status[j] # "Running"
                    /\ stop' = [stop EXCEPT ![s] = [job |-> j, at |-> "refused"]]
                    /\ UNCHANGED <<jobVars, view>>

(* stop_requested is stored after the guard is dropped. *)
StopFlag(s) == /\ stop[s].at = "flag"
               /\ stopRequested' = [stopRequested EXCEPT ![stop[s].job] = TRUE]
               /\ stop' = [stop EXCEPT ![s].at = "term"]
               /\ UNCHANGED <<process, signals, watcher, status, finishedAt,
                              timer, view>>

(* A kill reaches the child as long as its pid is its own.  Later it fails *)
(* or reaches whoever has the pid now, whom the manager does not know.     *)
Signalled(j, signal) ==
  IF watcher[j] = "waiting" THEN [signals EXCEPT ![j] = @ \cup {signal}]
                            ELSE signals

StopTerm(s) == /\ stop[s].at = "term"
               /\ signals' = Signalled(stop[s].job, "TERM")
               /\ stop' = [stop EXCEPT ![s].at = "arm"]
               /\ UNCHANGED <<process, watcher, status, finishedAt,
                              stopRequested, timer, view>>

(* The escalation is spawned and the call returns Ok. *)
StopArm(s) == /\ stop[s].at = "arm"
              /\ timer' = [timer EXCEPT ![stop[s].job] = "armed"]
              /\ stop' = [stop EXCEPT ![s].at = "ok"]
              /\ UNCHANGED <<process, signals, watcher, status, finishedAt,
                             stopRequested, view>>

(* Five seconds later: SIGKILL, with the status read-locked meanwhile. *)
Escalate(j) ==
  /\ timer[j] = "armed" /\ StatusFree(j)
  /\ timer' = [timer EXCEPT ![j] = "fired"]
  /\ signals' = IF AllowsForceKill(status[j]) THEN Signalled(j, "KILL") ELSE signals
  /\ UNCHANGED <<process, watcher, status, finishedAt, stopRequested, stop, view>>

-----------------------------------------------------------------------------
(* JobManager::get_summary: the status is read and cloned, then the finish *)
(* time, each under a lock of its own.                                     *)

ViewStatus(v, j) ==
  /\ view[v].at = "idle"
  /\ Spawned(j) /\ StatusFree(j)
  /\ view' = [view EXCEPT ![v] = [job |-> j, at |-> "status",
                                  status |-> status[j], finished |-> FALSE]]
  /\ UNCHANGED <<jobVars, stop>>

ViewFinished(v) ==
  /\ view[v].at = "status"
  /\ view' = [view EXCEPT ![v].at = "done",
                          ![v].finished = finishedAt[view[v].job]]
  /\ UNCHANGED <<jobVars, stop>>

-----------------------------------------------------------------------------
Child(j)   == \/ \E how \in {"success", "failure"} : Exit(j, how)
              \/ DieOf(j, "TERM")
              \/ DieOf(j, "KILL")
Watch(j)   == Reap(j) \/ Record(j) \/ Finish(j)
StopStep(s) == StopFlag(s) \/ StopTerm(s) \/ StopArm(s)

(* Nothing is left to do once every job has ended and every call returned. *)
Quiet == /\ \A j \in Jobs : watcher[j] = "ended" /\ timer[j] # "armed"
         /\ \A s \in Stops : stop[s].at \in {"ok", "refused"}
         /\ \A v \in Views : view[v].at = "done"
Done == Quiet /\ UNCHANGED vars

Next == \/ \E j \in Jobs : Spawn(j) \/ Child(j) \/ Watch(j) \/ Escalate(j)
        \/ \E s \in Stops : StopStep(s) \/ \E j \in Jobs : StopAccept(s, j) \/ StopRefuse(s, j)
        \/ \E v \in Views : ViewFinished(v) \/ \E j \in Jobs : ViewStatus(v, j)
        \/ Done

(* Tokio runs every task that is ready, a thread in stop goes on, and the  *)
(* system delivers SIGKILL; nothing makes a child heed SIGTERM or exit.    *)
JobsSpec == /\ Init /\ [][Next]_vars
            /\ \A j \in Jobs : WF_vars(Watch(j)) /\ WF_vars(Escalate(j))
                               /\ WF_vars(DieOf(j, "KILL"))
            /\ \A s \in Stops : WF_vars(StopStep(s))

-----------------------------------------------------------------------------
(* Properties. *)

JobsTypeOK ==
  /\ process \in [Jobs -> {"none", "alive"} \cup Exits]
  /\ signals \in [Jobs -> SUBSET {"TERM", "KILL"}]
  /\ watcher \in [Jobs -> {"none", "waiting", "draining", "recording", "ended"}]
  /\ status \in [Jobs -> Statuses]
  /\ finishedAt \in [Jobs -> BOOLEAN]
  /\ stopRequested \in [Jobs -> BOOLEAN]
  /\ timer \in [Jobs -> {"off", "armed", "fired"}]
  /\ stop \in [Stops -> [job : Jobs \cup {"none"},
                         at : {"idle", "flag", "term", "arm", "ok", "refused"}]]
  /\ view \in [Views -> [job : Jobs \cup {"none"}, at : {"idle", "status", "done"},
                         status : Statuses \cup {"none"}, finished : BOOLEAN]]
  /\ \A v \in Views : view[v].at # "idle" => view[v].job \in Jobs

Accepted(s) == stop[s].at \in {"flag", "term", "arm", "ok"}

(* Of all the calls that stop one job at most one is accepted, and none of *)
(* a job that still counts as Running.                                     *)
OneStop == /\ \A s, t \in Stops :
                Accepted(s) /\ Accepted(t) /\ stop[s].job = stop[t].job => s = t
           /\ \A s \in Stops :
                Accepted(s) => stop[s].job \in Jobs /\ status[stop[s].job] # "Running"

(* No signal is sent before the flag that explains it is up. *)
FlagFirst == /\ \A s \in Stops : stop[s].at \in {"term", "arm", "ok"} =>
                                   stopRequested[stop[s].job]
             /\ \A j \in Jobs : signals[j] # {} => stopRequested[j]
             /\ \A j \in Jobs : timer[j] = "armed" => stopRequested[j]

(* The recorded outcome tells the truth: a child that died of a signal of  *)
(* the manager is Stopped, never Failed; Completed needs a clean exit, and *)
(* Stopped needs a caller who asked for it.                                *)
RecordsTold ==
  \A j \in Jobs :
    /\ process[j] = "signal" => signals[j] # {}
    /\ watcher[j] \in {"draining", "recording", "ended"} => process[j] \in Exits
    /\ status[j] \in Terminal <=> watcher[j] \in {"recording", "ended"}
    /\ status[j] \in Terminal /\ process[j] = "signal" => status[j] = "Stopped"
    /\ status[j] = "Completed" => process[j] = "success"
    /\ status[j] = "Stopped" => stopRequested[j]
    /\ finishedAt[j] <=> watcher[j] = "ended"

(* The invariant of the job manager, strong enough to be inductive. *)
JobsInv == JobsTypeOK /\ OneStop /\ FlagFirst /\ RecordsTold

(* A summary that shows a job as ended shows when it ended, although the   *)
(* two are read from different cells while the watcher may be writing them *)
(* (list_jobs and job_status, which otherwise would count elapsed time on).*)
SummaryAgrees == \A v \in Views :
                   view[v].at = "done" /\ view[v].status \in Terminal => view[v].finished

(* A job whose stop was accepted ends up in a terminal status, however the *)
(* child treats SIGTERM: the escalation still applies while it is Stopping.*)
StopEnds == \A s \in Stops, j \in Jobs :
              Accepted(s) /\ stop[s].job = j ~> status[j] \in Terminal
=============================================================================
