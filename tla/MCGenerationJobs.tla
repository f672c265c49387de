-------------------------- MODULE MCGenerationJobs --------------------------
(* Instances of GenerationJobs for TLC: two or three jobs, one or two       *)
(* Gateway processes, with distinct or with equal worker ids.               *)
EXTENDS GenerationJobs

\* Jobs 1 and 2 are generations of one asset, job 3 renders a scene.
MCItemOf == [j \in Job |-> IF j = 3 THEN "scene" ELSE "asset"]
MCKindOf == [j \in Job |-> IF j = 3 THEN "video" ELSE "image"]
MCCreatedAt == [j \in Job |-> j]

\* Processes of one host have their own pid; the main process of every
\* container has the same one.
OwnWorkerId == [p \in Process |-> p]
SameWorkerId == [p \in Process |-> "gateway-generation-job:1"]
=============================================================================
