------------------------ MODULE MCGenerationWriteBack ------------------------
(* Instances of GenerationWriteBack for TLC: two jobs of one asset, of two   *)
(* assets, of one scene or of two scenes.                                    *)
EXTENDS GenerationWriteBack

OneItem == [j \in Job |-> "x"]
TwoItems == [j \in Job |-> IF j = 1 THEN "x" ELSE "y"]
AllImages == [j \in Job |-> "image"]
AllVideos == [j \in Job |-> "video"]
InOrder == [j \in Job |-> j]
OwnWorkerId == [p \in Process |-> p]
=============================================================================
