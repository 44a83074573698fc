--------------------------- MODULE McpJobs_proofs ---------------------------
(***************************************************************************)
(* Proofs about the job manager, for any set of jobs, stops and summaries. *)
(* JobsInv is inductive: what makes RecordsTold so is FlagFirst, the order *)
(* "flag, then signal" of stop.  SummaryAgrees needs one fact more, that a *)
(* status read as terminal was read after the finish time was written.     *)
(***************************************************************************)
EXTENDS McpJobs, TLAPS

(* A summary under way that has read a terminal status has read it from a  *)
(* job whose finish time is set already.                                   *)
ViewsFollow ==
  \A v \in Views :
    view[v].at # "idle" /\ view[v].status \in Terminal =>
      /\ finishedAt[view[v].job]
      /\ view[v].at = "done" => view[v].finished

-----------------------------------------------------------------------------
(* JobsInv, one lemma per action of the manager. *)

LEMMA InitJobs == Init => JobsInv
BY DEF Init, JobsInv, NoStop, NoView, JobsTypeOK, OneStop, FlagFirst, RecordsTold, Accepted,
       Terminal, Statuses, Exits

LEMMA SpawnStep ==
  ASSUME NEW j \in Jobs, JobsInv, Spawn(j)
  PROVE  JobsInv'
<1> USE DEF JobsTypeOK, OneStop, FlagFirst, RecordsTold, Accepted, Terminal, Statuses, Exits
<1>1. JobsTypeOK'
  BY DEF JobsInv, Spawn
<1>2. OneStop'
  BY DEF JobsInv, Spawn
<1>3. FlagFirst'
  BY DEF JobsInv, Spawn
<1>4. RecordsTold'
  BY DEF JobsInv, Spawn
<1> QED
  BY <1>1, <1>2, <1>3, <1>4 DEF JobsInv

LEMMA ExitStep ==
  ASSUME NEW j \in Jobs, NEW how, JobsInv, Exit(j, how)
  PROVE  JobsInv'
<1> USE DEF JobsTypeOK, OneStop, FlagFirst, RecordsTold, Accepted, Terminal, Statuses, Exits
<1>1. JobsTypeOK'
  BY DEF JobsInv, Exit
<1>2. OneStop'
  BY DEF JobsInv, Exit
<1>3. FlagFirst'
  BY DEF JobsInv, Exit
<1>4. RecordsTold'
  BY DEF JobsInv, Exit
<1> QED
  BY <1>1, <1>2, <1>3, <1>4 DEF JobsInv

LEMMA DieStep ==
  ASSUME NEW j \in Jobs, NEW signal, JobsInv, DieOf(j, signal)
  PROVE  JobsInv'
<1> USE DEF JobsTypeOK, OneStop, FlagFirst, RecordsTold, Accepted, Terminal, Statuses, Exits
<1>1. JobsTypeOK'
  BY DEF JobsInv, DieOf
<1>2. OneStop'
  BY DEF JobsInv, DieOf
<1>3. FlagFirst'
  BY DEF JobsInv, DieOf
<1>4. RecordsTold'
  BY DEF JobsInv, DieOf
<1> QED
  BY <1>1, <1>2, <1>3, <1>4 DEF JobsInv

LEMMA ReapStep ==
  ASSUME NEW j \in Jobs, JobsInv, Reap(j)
  PROVE  JobsInv'
<1> USE DEF JobsTypeOK, OneStop, FlagFirst, RecordsTold, Accepted, Terminal, Statuses, Exits
<1>1. JobsTypeOK'
  BY DEF JobsInv, Reap
<1>2. OneStop'
  BY DEF JobsInv, Reap
<1>3. FlagFirst'
  BY DEF JobsInv, Reap
<1>4. RecordsTold'
  BY DEF JobsInv, Reap
<1> QED
  BY <1>1, <1>2, <1>3, <1>4 DEF JobsInv

LEMMA RecordStep ==
  ASSUME NEW j \in Jobs, JobsInv, Record(j)
  PROVE  JobsInv'
<1> USE DEF JobsTypeOK, OneStop, FlagFirst, RecordsTold, Accepted, Terminal, Statuses, Exits
<1>1. JobsTypeOK'
  BY DEF JobsInv, Record, Outcome
<1>2. OneStop'
  BY DEF JobsInv, Record, Outcome
<1>3. FlagFirst'
  BY DEF JobsInv, Record, Outcome
<1>4. RecordsTold'
  BY DEF JobsInv, Record, Outcome
<1> QED
  BY <1>1, <1>2, <1>3, <1>4 DEF JobsInv

LEMMA FinishStep ==
  ASSUME NEW j \in Jobs, JobsInv, Finish(j)
  PROVE  JobsInv'
<1> USE DEF JobsTypeOK, OneStop, FlagFirst, RecordsTold, Accepted, Terminal, Statuses, Exits
<1>1. JobsTypeOK'
  BY DEF JobsInv, Finish
<1>2. OneStop'
  BY DEF JobsInv, Finish
<1>3. FlagFirst'
  BY DEF JobsInv, Finish
<1>4. RecordsTold'
  BY DEF JobsInv, Finish
<1> QED
  BY <1>1, <1>2, <1>3, <1>4 DEF JobsInv

LEMMA AcceptStep ==
  ASSUME NEW s \in Stops, NEW j \in Jobs, JobsInv, StopAccept(s, j)
  PROVE  JobsInv'
<1> USE DEF JobsTypeOK, OneStop, FlagFirst, RecordsTold, Accepted, Terminal, Statuses, Exits
<1>1. JobsTypeOK'
  BY DEF JobsInv, StopAccept, StatusFree, Spawned
<1>2. OneStop'
  BY DEF JobsInv, StopAccept, StatusFree, Spawned
<1>3. FlagFirst'
  BY DEF JobsInv, StopAccept, StatusFree, Spawned
<1>4. RecordsTold'
  BY DEF JobsInv, StopAccept, StatusFree, Spawned
<1> QED
  BY <1>1, <1>2, <1>3, <1>4 DEF JobsInv

LEMMA RefuseStep ==
  ASSUME NEW s \in Stops, NEW j \in Jobs, JobsInv, StopRefuse(s, j)
  PROVE  JobsInv'
<1> USE DEF JobsTypeOK, OneStop, FlagFirst, RecordsTold, Accepted, Terminal, Statuses, Exits
<1>1. JobsTypeOK'
  BY DEF JobsInv, StopRefuse, jobVars
<1>2. OneStop'
  BY DEF JobsInv, StopRefuse, jobVars
<1>3. FlagFirst'
  BY DEF JobsInv, StopRefuse, jobVars
<1>4. RecordsTold'
  BY DEF JobsInv, StopRefuse, jobVars
<1> QED
  BY <1>1, <1>2, <1>3, <1>4 DEF JobsInv

LEMMA FlagStep ==
  ASSUME NEW s \in Stops, JobsInv, StopFlag(s)
  PROVE  JobsInv'
<1> USE DEF JobsTypeOK, OneStop, FlagFirst, RecordsTold, Accepted, Terminal, Statuses, Exits
<1>1. JobsTypeOK'
  BY DEF JobsInv, StopFlag
<1>2. OneStop'
  BY DEF JobsInv, StopFlag
<1>3. FlagFirst'
  BY DEF JobsInv, StopFlag
<1>4. RecordsTold'
  BY DEF JobsInv, StopFlag
<1> QED
  BY <1>1, <1>2, <1>3, <1>4 DEF JobsInv

LEMMA TermStep ==
  ASSUME NEW s \in Stops, JobsInv, StopTerm(s)
  PROVE  JobsInv'
<1> USE DEF JobsTypeOK, OneStop, FlagFirst, RecordsTold, Accepted, Terminal, Statuses, Exits
<1>1. JobsTypeOK'
  BY DEF JobsInv, StopTerm, Signalled
<1>2. OneStop'
  BY DEF JobsInv, StopTerm, Signalled
<1>3. FlagFirst'
  BY DEF JobsInv, StopTerm, Signalled
<1>4. RecordsTold'
  BY DEF JobsInv, StopTerm, Signalled
<1> QED
  BY <1>1, <1>2, <1>3, <1>4 DEF JobsInv

LEMMA ArmStep ==
  ASSUME NEW s \in Stops, JobsInv, StopArm(s)
  PROVE  JobsInv'
<1> USE DEF JobsTypeOK, OneStop, FlagFirst, RecordsTold, Accepted, Terminal, Statuses, Exits
<1>1. JobsTypeOK'
  BY DEF JobsInv, StopArm
<1>2. OneStop'
  BY DEF JobsInv, StopArm
<1>3. FlagFirst'
  BY DEF JobsInv, StopArm
<1>4. RecordsTold'
  BY DEF JobsInv, StopArm
<1> QED
  BY <1>1, <1>2, <1>3, <1>4 DEF JobsInv

LEMMA EscalateStep ==
  ASSUME NEW j \in Jobs, JobsInv, Escalate(j)
  PROVE  JobsInv'
<1> USE DEF JobsTypeOK, OneStop, FlagFirst, RecordsTold, Accepted, Terminal, Statuses, Exits
<1>1. JobsTypeOK'
  BY DEF JobsInv, Escalate, Signalled
<1>2. OneStop'
  BY DEF JobsInv, Escalate, Signalled
<1>3. FlagFirst'
  BY DEF JobsInv, Escalate, Signalled
<1>4. RecordsTold'
  BY DEF JobsInv, Escalate, Signalled
<1> QED
  BY <1>1, <1>2, <1>3, <1>4 DEF JobsInv

LEMMA ViewStatusStep ==
  ASSUME NEW v \in Views, NEW j \in Jobs, JobsInv, ViewStatus(v, j)
  PROVE  JobsInv'
<1> USE DEF JobsTypeOK, OneStop, FlagFirst, RecordsTold, Accepted, Terminal, Statuses, Exits
<1>1. JobsTypeOK'
  BY DEF JobsInv, ViewStatus, jobVars
<1>2. OneStop'
  BY DEF JobsInv, ViewStatus, jobVars
<1>3. FlagFirst'
  BY DEF JobsInv, ViewStatus, jobVars
<1>4. RecordsTold'
  BY DEF JobsInv, ViewStatus, jobVars
<1> QED
  BY <1>1, <1>2, <1>3, <1>4 DEF JobsInv

LEMMA ViewFinishedStep ==
  ASSUME NEW v \in Views, JobsInv, ViewFinished(v)
  PROVE  JobsInv'
<1> USE DEF JobsTypeOK, OneStop, FlagFirst, RecordsTold, Accepted, Terminal, Statuses, Exits
<1>1. JobsTypeOK'
  <2> DEFINE R == [job : Jobs \cup {"none"}, at : {"idle", "status", "done"},
                    status : Statuses \cup {"none"}, finished : BOOLEAN]
             b == finishedAt[view[v].job]
  <2>1. view[v].job \in Jobs /\ view[v] \in R /\ view \in [Views -> R]
    BY DEF JobsInv, ViewFinished
  <2>2. b \in BOOLEAN
    BY <2>1 DEF JobsInv
  <2>3. view' = [view EXCEPT ![v] = [@ EXCEPT !.at = "done", !.finished = b]]
    BY <2>1 DEF ViewFinished
  <2> HIDE DEF b
  <2>4. [view[v] EXCEPT !.at = "done", !.finished = b] \in R
    BY <2>1, <2>2
  <2>5. [view[v] EXCEPT !.at = "done", !.finished = b].job = view[v].job
    BY <2>1
  <2> HIDE DEF R
  <2>6. view' \in [Views -> R]
    BY <2>1, <2>3, <2>4
  <2>7. \A w \in Views : view'[w].at # "idle" => view'[w].job \in Jobs
    BY <2>1, <2>3, <2>5 DEF JobsInv
  <2> QED
    BY <2>6, <2>7 DEF JobsInv, ViewFinished, jobVars, R
<1>2. OneStop'
  BY DEF JobsInv, ViewFinished, jobVars
<1>3. FlagFirst'
  BY DEF JobsInv, ViewFinished, jobVars
<1>4. RecordsTold'
  BY DEF JobsInv, ViewFinished, jobVars
<1> QED
  BY <1>1, <1>2, <1>3, <1>4 DEF JobsInv

(* What a stuttering step changes. *)
LEMMA StutterStep == JobsInv /\ UNCHANGED vars => JobsInv'
BY DEF JobsInv, vars, JobsTypeOK, OneStop, FlagFirst, RecordsTold, Accepted, Terminal,
       Statuses, Exits

LEMMA JobsInductive == JobsInv /\ [Next]_vars => JobsInv'
<1> SUFFICES ASSUME JobsInv, [Next]_vars PROVE JobsInv'
  OBVIOUS
<1>1. ASSUME NEW j \in Jobs, Spawn(j) PROVE JobsInv'
  BY <1>1, SpawnStep
<1>2. ASSUME NEW j \in Jobs, Child(j) PROVE JobsInv'
  <2>1. ASSUME NEW how \in {"success", "failure"}, Exit(j, how) PROVE JobsInv'
    BY <2>1, ExitStep
  <2>2. ASSUME NEW signal \in {"TERM", "KILL"}, DieOf(j, signal) PROVE JobsInv'
    BY <2>2, DieStep
  <2> QED
    BY <1>2, <2>1, <2>2 DEF Child
<1>3. ASSUME NEW j \in Jobs, Watch(j) PROVE JobsInv'
  BY <1>3, ReapStep, RecordStep, FinishStep DEF Watch
<1>4. ASSUME NEW j \in Jobs, Escalate(j) PROVE JobsInv'
  BY <1>4, EscalateStep
<1>5. ASSUME NEW s \in Stops, StopStep(s) PROVE JobsInv'
  BY <1>5, FlagStep, TermStep, ArmStep DEF StopStep
<1>6. ASSUME NEW s \in Stops, NEW j \in Jobs, StopAccept(s, j) \/ StopRefuse(s, j)
      PROVE JobsInv'
  BY <1>6, AcceptStep, RefuseStep
<1>7. ASSUME NEW v \in Views, ViewFinished(v) PROVE JobsInv'
  BY <1>7, ViewFinishedStep
<1>8. ASSUME NEW v \in Views, NEW j \in Jobs, ViewStatus(v, j) PROVE JobsInv'
  BY <1>8, ViewStatusStep
<1>9. CASE UNCHANGED vars
  BY <1>9, StutterStep
<1> QED
  BY <1>1, <1>2, <1>3, <1>4, <1>5, <1>6, <1>7, <1>8, <1>9 DEF Next, Done

(* In every reachable state, for every set of jobs and of calls: at most   *)
(* one stop of a job is accepted, no signal precedes its flag, and what is *)
(* recorded of a job is how its child ended (jobs.rs, spawn and stop).     *)
THEOREM JobsInvariance == JobsSpec => []JobsInv
<1>1. Init => JobsInv
  BY InitJobs
<1>2. JobsInv /\ [Next]_vars => JobsInv'
  BY JobsInductive
<1> QED
  BY <1>1, <1>2, PTL DEF JobsSpec

-----------------------------------------------------------------------------
(* Summaries. *)

(* No step takes back a finish time. *)
LEMMA FinishStays ==
  ASSUME JobsInv, [Next]_vars
  PROVE  \A j \in Jobs : finishedAt[j] => finishedAt'[j]
<1> USE DEF JobsInv, JobsTypeOK
<1>1. ASSUME NEW j \in Jobs, Finish(j)
      PROVE  \A k \in Jobs : finishedAt[k] => finishedAt'[k]
  BY <1>1 DEF Finish
<1>2. CASE UNCHANGED finishedAt
  BY <1>2
<1>3. UNCHANGED finishedAt \/ \E j \in Jobs : Finish(j)
  BY DEF Next, vars, Done, Child, Watch, StopStep, Spawn, Exit, DieOf, Reap,
         Record, Escalate, StopAccept, StopRefuse, StopFlag, StopTerm, StopArm,
         ViewStatus, ViewFinished, jobVars
<1> QED
  BY <1>1, <1>2, <1>3

LEMMA ViewsStep ==
  ASSUME JobsInv, ViewsFollow, [Next]_vars
  PROVE  ViewsFollow'
<1> USE DEF ViewsFollow, Terminal
<1>1. \A j \in Jobs : finishedAt[j] => finishedAt'[j]
  BY FinishStays
<1>2. ASSUME NEW v \in Views, NEW j \in Jobs, ViewStatus(v, j) PROVE ViewsFollow'
  BY <1>2 DEF ViewStatus, jobVars, StatusFree, JobsInv, JobsTypeOK, RecordsTold
<1>3. ASSUME NEW v \in Views, ViewFinished(v) PROVE ViewsFollow'
  BY <1>3 DEF ViewFinished, jobVars, JobsInv, JobsTypeOK
<1>4. CASE UNCHANGED view
  BY <1>1, <1>4 DEF JobsInv, JobsTypeOK
<1>5. \/ UNCHANGED view
      \/ \E v \in Views : ViewFinished(v)
      \/ \E v \in Views, j \in Jobs : ViewStatus(v, j)
  BY DEF Next, vars, Done, Child, Watch, StopStep, Spawn, Exit, DieOf, Reap,
         Record, Finish, Escalate, StopAccept, StopRefuse, StopFlag, StopTerm,
         StopArm
<1> QED
  BY <1>2, <1>3, <1>4, <1>5

(* A summary that shows a terminal status always carries the finish time,  *)
(* although get_summary reads the two cells one after the other while the  *)
(* watcher writes them.                                                    *)
THEOREM SummariesAgree == JobsSpec => []SummaryAgrees
<1>1. Init => JobsInv /\ ViewsFollow
  BY InitJobs DEF Init, ViewsFollow, NoView, Terminal
<1>2. JobsInv /\ ViewsFollow /\ [Next]_vars => JobsInv' /\ ViewsFollow'
  BY JobsInductive, ViewsStep
<1>3. ViewsFollow => SummaryAgrees
  BY DEF ViewsFollow, SummaryAgrees
<1> QED
  BY <1>1, <1>2, <1>3, PTL DEF JobsSpec
=============================================================================
