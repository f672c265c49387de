------------------------- MODULE GenerationWriteBack -------------------------
(***************************************************************************)
(* GenerationJobs composed with the workspace the results are written to.  *)
(*                                                                         *)
(* Two writers share one workspace.  The Tool that submits a job reads the *)
(* workspace, inserts the job and only then patches the workspace, from    *)
(* what it had read.  The worker that decides a job patches it from a      *)
(* fresh read.  Both patch under a revision check; the Tool answers a      *)
(* conflict by sending the same patch with the newer revision, the worker  *)
(* rebuilds its patch.  asset_registry is replaced as a whole, scenes are  *)
(* merged one scene at a time.  Tools that edit scenes patch them the same *)
(* way.                                                                    *)
(***************************************************************************)
EXTENDS GenerationJobs

CONSTANTS
    MaxContention,   \* writes that lose three revision races in a row (model bound)
    MaxEdits         \* edits of the storyboard (model bound)

VARIABLES
    asset,       \* asset[i]: state of an image asset in asset_registry
    scene,       \* scene[i][j]: entry of job j in the scene's generation_jobs
    tool,        \* tool[j]: the Tool call that submits j, with what it read
    replan,      \* replan[i]: the Tool call that sends asset i back to planned
    edit,        \* the Tool call that edits the storyboard, with what it read
    edits,       \* edits so far
    contention,  \* three-fold revision conflicts so far
    lost         \* history: decided jobs whose entry nobody will correct any more

wvars == <<asset, scene, tool, replan, edit, edits, contention, lost>>
allVars == <<row, accepted, creds, puts, providers, scan, batch, call, late, crashes,
             asset, scene, tool, replan, edit, edits, contention, lost>>

Entry == {"absent", "waiting", "succeeded", "failed"}

NoTool == [phase |-> "none"]

IsImage(j) == KindOf[j] = "image"
Assets == {ItemOf[j] : j \in {k \in Job : IsImage(k)}}
Scenes == {ItemOf[j] : j \in {k \in Job : ~IsImage(k)}}
NoEntries == [j \in Job |-> "absent"]

WInit ==
    /\ Init
    /\ asset = [i \in Item |-> "planned"]
    /\ scene = [i \in Item |-> NoEntries]
    /\ tool = [j \in Job |-> NoTool]
    /\ replan = [i \in Item |-> NoTool]
    /\ edit = NoTool /\ edits = 0
    /\ contention = 0
    /\ lost = {}

-----------------------------------------------------------------------------
(* The submitting Tool: generate_image_assets and create_video.             *)

\* Only planned assets may be generated; scenes are not restricted.
OpenTool(p, j) ==
    /\ IsImage(j) => asset[ItemOf[j]] = "planned"
    /\ Create(p, j)
    /\ tool' = [tool EXCEPT ![j] =
                  [phase |-> "open", proc |-> p, assets |-> asset, entries |-> scene[ItemOf[j]]]]
    /\ UNCHANGED <<asset, scene, replan, edit, edits, contention, lost>>

StoreCredential(p, j) == PutCredential(p, j) /\ UNCHANGED wvars

MergedReplacingAll(i, entries) ==
    [k \in Item |-> IF k = i THEN entries ELSE NoEntries]

\* _merge_scenes_by_id: the incoming scene replaces the one with its id.
Merged(i, entries) == [scene EXCEPT ![i] = entries]

Returned(j) == tool' = [tool EXCEPT ![j] = NoTool]

\* Finished entries of the same scene that the Tool had not read as finished.
Undone(j) == {k \in Job : /\ scene[ItemOf[j]][k] \in {"succeeded", "failed"}
                          /\ tool[j].entries[k] # scene[ItemOf[j]][k]}

\* apply_tool_patch: up to three attempts, the same patch each time, so what
\* is written depends only on what the Tool read when it started.
PatchFromTool(j) ==
    /\ tool[j].phase = "open"
    /\ <<tool[j].proc, j>> \notin puts
    /\ \/ /\ IsImage(j)
          /\ asset' = [tool[j].assets EXCEPT ![ItemOf[j]] = "generating"]
          /\ UNCHANGED <<scene, lost>>
       \/ /\ ~IsImage(j)
          /\ scene' = Merged(ItemOf[j], [tool[j].entries EXCEPT ![j] = "waiting"])
          /\ lost' = lost \cup Undone(j)
          /\ UNCHANGED asset
    /\ Returned(j)
    /\ UNCHANGED <<vars, replan, edit, edits, contention>>

\* All three attempts met another writer: the Tool call fails, the job stays.
PatchAbandoned(j) ==
    /\ tool[j].phase = "open"
    /\ <<tool[j].proc, j>> \notin puts
    /\ contention < MaxContention
    /\ contention' = contention + 1
    /\ Returned(j)
    /\ lost' = lost \cup {j}
    /\ UNCHANGED <<vars, asset, scene, replan, edit, edits>>

\* retry_failed_image_assets and revise_image_assets: the asset is sent back
\* to planned, or kept so, again in a patch of the whole registry as read.
OpenReplan(p, i) ==
    /\ scan[p] # "down"
    /\ replan[i].phase = "none"
    /\ i \in Assets /\ asset[i] # "generating"
    /\ replan' = [replan EXCEPT ![i] = [phase |-> "open", proc |-> p, assets |-> asset]]
    /\ UNCHANGED <<vars, asset, scene, tool, edit, edits, contention, lost>>

PatchReplan(i) ==
    /\ replan[i].phase = "open"
    /\ asset' = [replan[i].assets EXCEPT ![i] = "planned"]
    /\ replan' = [replan EXCEPT ![i] = NoTool]
    /\ UNCHANGED <<vars, scene, tool, edit, edits, contention, lost>>

ReplanAbandoned(i) ==
    /\ replan[i].phase = "open"
    /\ contention < MaxContention
    /\ contention' = contention + 1
    /\ replan' = [replan EXCEPT ![i] = NoTool]
    /\ UNCHANGED <<vars, asset, scene, tool, edit, edits, lost>>

-----------------------------------------------------------------------------
(* The Tools that edit the storyboard.  Each sends the scenes it names as   *)
(* it read them, with all their entries.                                    *)
Reads(p) == scan[p] # "down" /\ edit.phase = "none" /\ edits < MaxEdits

Sends(p, named) ==
    edit' = [phase |-> "open", proc |-> p, named |-> named, entries |-> scene]

PatchScene(p) == \E i \in Scenes : Sends(p, {i})

\* Selects or rejects one of the finished versions of a scene.
ReviewGeneratedScene(p) ==
    \E i \in Scenes : (\E j \in Job : scene[i][j] = "succeeded") /\ Sends(p, {i})

\* The scenes that refer to a material; without one the Tool fails.
ReplaceProjectAssets(p) == \E S \in SUBSET Scenes \ {{}} : Sends(p, S)

\* The scenes that mention a generated asset, possibly none.
ReplaceSceneAsset(p) == \E S \in SUBSET Scenes : Sends(p, S)

\* Every scene is sent, also those that are not revised.
ReviseStoryboard(p) == Scenes # {} /\ Sends(p, Scenes)

\* A confirmed rebuild: new scenes without entries replace all, and the
\* registry is sent as read.
PrepareScenePackages(p) ==
    edit' = [phase |-> "rebuild", proc |-> p, named |-> Scenes,
             entries |-> [i \in Item |-> NoEntries], assets |-> asset]

OpenEdit(p) ==
    /\ Reads(p) /\ edits' = edits + 1
    /\ \/ PatchScene(p) \/ ReviewGeneratedScene(p) \/ ReplaceProjectAssets(p)
       \/ ReplaceSceneAsset(p) \/ ReviseStoryboard(p) \/ PrepareScenePackages(p)
    /\ UNCHANGED <<vars, asset, scene, tool, replan, contention, lost>>

Edited(i) == IF i \in edit.named THEN edit.entries[i] ELSE scene[i]

PatchEdit ==
    /\ edit.phase # "none"
    /\ scene' = [i \in Item |-> Edited(i)]
    /\ asset' = IF edit.phase = "rebuild" THEN edit.assets ELSE asset
    /\ lost' = lost \cup {k \in Job : /\ scene[ItemOf[k]][k] \in {"succeeded", "failed"}
                                     /\ Edited(ItemOf[k])[k] # scene[ItemOf[k]][k]}
    /\ edit' = NoTool
    /\ UNCHANGED <<vars, tool, replan, edits, contention>>

\* Invalid arguments, a caller that has left, or three conflicts.
EditAbandoned ==
    /\ edit.phase # "none"
    /\ edit' = NoTool
    /\ UNCHANGED <<vars, asset, scene, tool, replan, edits, contention, lost>>

-----------------------------------------------------------------------------
(* The worker: _project after complete.                                     *)

Shown(status) == IF status = "succeeded" THEN "succeeded" ELSE "failed"

WriteAssetIgnoringStatus(c) ==
    /\ IsImage(JobOf(c))
    /\ asset' = [asset EXCEPT ![ItemOf[JobOf(c)]] = "ready"]
    /\ UNCHANGED <<scene, lost>>

\* An asset entry has no job identity: whichever job is decided last wins.
WriteAsset(c) ==
    /\ IsImage(JobOf(c))
    /\ asset' = [asset EXCEPT ![ItemOf[JobOf(c)]] =
                   IF call[c].status = "succeeded" THEN "ready" ELSE "failed"]
    /\ UNCHANGED <<scene, lost>>

\* A scene without the job's entry gets no patch at all.
WriteScene(c) ==
    LET j == JobOf(c)
    IN /\ ~IsImage(j)
       /\ \/ /\ scene[ItemOf[j]][j] = "absent"
             /\ lost' = lost \cup {j}
             /\ UNCHANGED scene
          \/ /\ scene[ItemOf[j]][j] # "absent"
             /\ scene' = [scene EXCEPT ![ItemOf[j]][j] = Shown(call[c].status)]
             /\ UNCHANGED lost
       /\ UNCHANGED asset

WriteBack(c) ==
    /\ Project(c)
    /\ WriteAsset(c) \/ WriteScene(c)
    /\ UNCHANGED <<tool, replan, edit, edits, contention>>

WriteBackAbandoned(c) ==
    /\ Project(c)
    /\ contention < MaxContention
    /\ contention' = contention + 1
    /\ lost' = lost \cup {JobOf(c)}
    /\ UNCHANGED <<asset, scene, tool, replan, edit, edits>>

\* A crash between complete and _project loses the projection, a crash inside
\* the Tool its patch.
CrashAll(p) ==
    /\ Crash(p)
    /\ tool' = [j \in Job |-> IF tool[j].phase = "open" /\ tool[j].proc = p
                                THEN NoTool ELSE tool[j]]
    /\ replan' = [i \in Item |-> IF replan[i].phase = "open" /\ replan[i].proc = p
                                   THEN NoTool ELSE replan[i]]
    /\ edit' = IF edit.phase # "none" /\ edit.proc = p THEN NoTool ELSE edit
    /\ lost' = lost \cup {j \in Job : \/ tool[j].phase = "open" /\ tool[j].proc = p
                                      \/ \E c \in Call : /\ ProcOf(c) = p /\ JobOf(c) = j
                                                         /\ call[c].phase = "project"}
    /\ UNCHANGED <<asset, scene, edits, contention>>

-----------------------------------------------------------------------------
Working == \/ Scanning
           \/ \E c \in Call : CallStep(c)
           \/ Passing
           \/ \E p \in Process : Restart(p)

WNext ==
    \/ \E p \in Process, j \in Job : OpenTool(p, j) \/ StoreCredential(p, j)
    \/ \E j \in Job : PatchFromTool(j) \/ PatchAbandoned(j)
    \/ \E i \in Item : PatchReplan(i) \/ ReplanAbandoned(i)
    \/ \E p \in Process, i \in Item : OpenReplan(p, i)
    \/ \E p \in Process : OpenEdit(p)
    \/ PatchEdit \/ EditAbandoned
    \/ \E c \in Call : WriteBack(c) \/ WriteBackAbandoned(c)
    \/ \E p \in Process : CrashAll(p)
    \/ Working /\ UNCHANGED wvars

WSpec == WInit /\ [][WNext]_allVars

-----------------------------------------------------------------------------
\* The workspace never shows a success the provider did not deliver, whatever
\* stale answer, replayed job or overwriting patch comes in between.
ShownSuccessIsReal ==
    /\ \A i \in Item : asset[i] = "ready" => HasSuccess(i)
    /\ \A i \in Item, j \in Job : scene[i][j] = "succeeded" => row[j].status = "succeeded"

Settled(j) == /\ row[j].status \in Terminal
              /\ tool[j].phase = "none"
              /\ \A c \in Call : JobOf(c) = j => call[c].phase = "free"

\* Except for the cases counted in lost, a decided video job is shown as
\* decided once its Tool and its worker are done with it.
DecidedIsShown ==
    \A j \in Job : Settled(j) /\ ~IsImage(j) /\ j \notin lost
                     => scene[ItemOf[j]][j] = Shown(row[j].status)

-----------------------------------------------------------------------------
(* What the documentation says and the code does not do.                    *)

\* apply_patch "modifies the workspace by the caller's explicit revision and
\* never silently overwrites an update", and a stale revision does not overwrite
\* the latest workspace.  A finished image is set back by a stale registry.
FinishedImageKept ==
    [][\A i \in Item : asset[i] = "ready" => asset'[i] # "generating"]_allVars
=============================================================================
