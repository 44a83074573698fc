------------------------------ MODULE MCMcpJobs ------------------------------
(* Instances of McpJobs for TLC: jobs and calls are named by strings.       *)
EXTENDS McpJobs

MCJobs  == {"job1", "job2"}
MCStops == {"stop1", "stop2"}
MCViews == {"view1"}
=============================================================================
