---------------------------- MODULE MCJobPlatform ----------------------------
(* Constant values for checking JobPlatform with TLC.                       *)
EXTENDS JobPlatformProps, TLC

CONSTANTS j1

\* The kind with every outcome, for all jobs.
TextJobs == [j \in Jobs |-> "text"]

\* One job of each of two kinds.
MixedJobs == [j \in Jobs |-> IF j = j1 THEN "compile" ELSE "text"]

\* Nothing but plain render jobs, which can only fail.
RenderJobs == [j \in Jobs |-> "render"]

\* Processes and requests are interchangeable.  For runs without liveness
\* properties only.
ProcessSymmetry == Permutations(Workers) \cup Permutations(Requests)
=============================================================================
