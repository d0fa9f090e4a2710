------------------------------ MODULE NodeWork ------------------------------
(***************************************************************************)
(* What the nodes of pipeline runs do (execute_pipeline_node,              *)
(* apps/pipeline_management/tasks.py): a clone fills the workspace of the  *)
(* run, a build makes an image of it and records it as an artifact, and a  *)
(* deployment takes the image of the run or files of the workspace.  When  *)
(* a node may start is PipelineEngine's subject; here the nodes of a run   *)
(* stand in a line.                                                        *)
(***************************************************************************)
EXTENDS Integers, FiniteSets

CONSTANTS
    Run,          \* ids of the runs that may be created (a bound)
    First,        \* those that execute creates; the others are retries
    Fixed,        \* image tags that are no run's, such as 'latest'
    WorkPlans     \* bounds: [runs, targets of the deployment, tags that nodes
                  \* may name, faults (timeouts, failed records), rounds
                  \* (days, clean-ups)]

NodeNo == 1..3          \* the clone, the build and the deployment
NoRun  == "none"
NoTag  == "none"
Tag    == Run \cup Fixed  \* v{run_id} is the run's own
Target == {"k8s", "hosts", "ansible", "webhook"}

VARIABLES
    run,          \* PipelineRun: status, parent, what its deployment is
    node,         \* PipelineNodeRun: per run and node the status
    image,        \* output_data of the build: the tag, if there is one
    dir,          \* /tmp/ansflow_workspaces/run_{id}: its source, its mtime
    pushed,       \* the image registry: the run whose image a tag leads to
    artifact,     \* Artifact.latest_tag and its versions: tag, pipeline_run
    temp,         \* temporary AnsibleTasks of host deployments, by run
    built,        \* history: the source a run's build was made from
    shipped,      \* history: the run whose image a run has deployed
    stated,       \* history: runs that deployed a tag their node names
    mixed,        \* history: workspaces two writers used at once
    plan, workFaults, rounds

vars == <<run, node, image, dir, pushed, artifact, temp, built, shipped,
          stated, mixed, plan, workFaults, rounds>>
bounds == <<plan, workFaults, rounds>>

NoRow == [status |-> "none", parent |-> NoRun, target |-> "k8s"]
NoDir == [source |-> "none", age |-> "none"]

Init ==
    /\ run = [r \in Run |-> NoRow]
    /\ node = [r \in Run |-> [n \in NodeNo |-> "none"]]
    /\ image = [r \in Run |-> NoTag]
    /\ dir = [r \in Run |-> NoDir]
    /\ pushed = [t \in Tag |-> NoRun]
    /\ artifact = [latest |-> NoTag, versions |-> {}]
    /\ temp = {} /\ stated = {}
    /\ built = [r \in Run |-> "none"] /\ shipped = [r \in Run |-> "none"]
    /\ mixed = {}
    /\ plan \in WorkPlans
    /\ workFaults = plan.faults /\ rounds = plan.rounds

Live(r) == run[r].status \in {"pending", "running"}

\* The executor works in the workspace of the run that is retried, not in
\* that of the retry.
Base(r) == IF run[r].parent = NoRun THEN r ELSE run[r].parent

NodeIs(r, n, status) == node' = [node EXCEPT ![r][n] = status]

-----------------------------------------------------------------------------
(* Runs.                                                                   *)

\* PipelineViewSet.execute, execute_pipeline_cron
Execute(r, target) ==
    /\ target \in plan.targets
    /\ r \in First \cap plan.runs /\ run[r].status = "none"
    /\ run' = [run EXCEPT ![r] = [status |-> "pending", parent |-> NoRun,
                                  target |-> target]]
    /\ node' = [node EXCEPT ![r] = [n \in NodeNo |-> "pending"]]
    /\ UNCHANGED <<image, dir, pushed, artifact, temp, built, shipped, stated,
                   mixed, bounds>>

\* PipelineRunViewSet.retry: nodes before the chosen one are skipped; their
\* logs are copied, their output_data is not.
Retry(r, parent, start) ==
    /\ r \in plan.runs \ First /\ run[r].status = "none"
    /\ run[parent].status = "failed"
    /\ run' = [run EXCEPT ![r] = [status |-> "pending", parent |-> parent,
                                  target |-> run[parent].target]]
    /\ node' = [node EXCEPT ![r] =
                  [n \in NodeNo |->
                     IF n < start THEN "skipped" ELSE "pending"]]
    /\ mixed' = IF \E q \in Run : Live(q) /\ Base(q) = parent
                THEN mixed \cup {parent} ELSE mixed
    /\ UNCHANGED <<image, dir, pushed, artifact, temp, built, shipped, stated,
                   bounds>>

\* The engine of a retry copies the parent's workspace to its own, once.
AdvanceCopy(r) ==
    /\ Live(r) /\ run[r].parent # NoRun
    /\ dir[r] = NoDir /\ dir[run[r].parent] # NoDir
    /\ dir' = [dir EXCEPT ![r] = dir[run[r].parent]]
    /\ UNCHANGED <<run, node, image, pushed, artifact, temp, built, shipped,
                   stated, mixed, bounds>>

\* The node's own directory is made in the workspace.
NodeBegin(r, n) ==
    /\ Live(r) /\ node[r][n] = "pending"
    /\ \A m \in 1..(n - 1) : node[r][m] \in {"success", "skipped"}
    /\ run' = [run EXCEPT ![r].status = "running"]
    /\ NodeIs(r, n, "running")
    /\ dir' = [dir EXCEPT ![Base(r)] = [@ EXCEPT !.age = "fresh"]]
    /\ UNCHANGED <<image, pushed, artifact, temp, built, shipped, stated,
                   mixed, bounds>>

\* No node is left to run: the verdict, and the run's own workspace goes.
\* rmtree ignores errors: files somebody still writes stay.
Finalize(r) ==
    /\ run[r].status = "running"
    /\ \A n \in NodeNo : node[r][n] \notin {"running", "cloning", "recording",
                                      "versioning"}
    /\ \/ /\ \E n \in NodeNo : node[r][n] = "failed"
          /\ run' = [run EXCEPT ![r].status = "failed"]
       \/ /\ \A n \in NodeNo : node[r][n] \in {"success", "skipped"}
          /\ run' = [run EXCEPT ![r].status = "success"]
    /\ dir' = [dir EXCEPT ![r] = IF @.source = "part" /\ r \in mixed THEN @
                                 ELSE NoDir]
    /\ UNCHANGED <<node, image, pushed, artifact, temp, built, shipped, stated,
                   mixed, bounds>>

-----------------------------------------------------------------------------
(* execute_pipeline_node, by type.                                         *)

\* git_clone: the old source goes, the clone begins.
Clone(r) ==
    /\ node[r][1] = "running" /\ NodeIs(r, 1, "cloning")
    /\ dir' = [dir EXCEPT ![Base(r)] = [source |-> "part", age |-> "fresh"]]
    /\ UNCHANGED <<run, image, pushed, artifact, temp, built, shipped, stated,
                   mixed, bounds>>

\* git needs an empty place: it writes where nothing else was cloned.
CloneEnd(r) ==
    /\ node[r][1] = "cloning"
    /\ \/ /\ dir[Base(r)].source = "part"
          /\ dir' = [dir EXCEPT ![Base(r)].source = r]
          /\ NodeIs(r, 1, "success")
       \/ /\ dir' = [dir EXCEPT ![Base(r)].source =
                       IF @ = "part" THEN "none" ELSE @]
          /\ NodeIs(r, 1, "failed")
    /\ UNCHANGED <<run, image, pushed, artifact, temp, built, shipped, stated,
                   mixed, bounds>>

\* The node's time is up: it fails, but the git process is left behind.
CloneTimeout(r) ==
    /\ node[r][1] = "cloning" /\ workFaults > 0
    /\ workFaults' = workFaults - 1
    /\ NodeIs(r, 1, "failed")
    /\ mixed' = mixed \cup {Base(r)}
    /\ UNCHANGED <<run, image, dir, pushed, artifact, temp, built, shipped,
                   stated, rounds, plan>>

\* docker_build and kaniko_build: without a source the build fails; kaniko
\* pushes the image under the run's own tag or the one that the node names,
\* and notes it in output_data.
Named == Tag \cap plan.tags
Build(r) ==
    /\ node[r][2] = "running"
    /\ \/ /\ dir[Base(r)].source # "none"
          /\ built' = [built EXCEPT ![r] = dir[Base(r)].source]
          /\ \/ /\ NodeIs(r, 2, "success")
                /\ UNCHANGED <<image, pushed>>
             \/ \E tag \in {r} \cup Named :
                /\ NodeIs(r, 2, "recording")
                /\ pushed' = [pushed EXCEPT ![tag] = r]
                /\ image' = [image EXCEPT ![r] = tag]
       \/ NodeIs(r, 2, "failed") /\ UNCHANGED <<image, pushed, built>>
    /\ UNCHANGED <<run, dir, artifact, temp, shipped, stated, mixed, bounds>>

\* The artifact's row is found or created, then a version is inserted, where
\* the artifact has none of this tag; an error is only logged.
RecordArtifact(r) ==
    /\ node[r][2] = "recording" /\ NodeIs(r, 2, "versioning")
    /\ artifact' = [artifact EXCEPT !.latest = image[r]]
    /\ UNCHANGED <<run, image, dir, pushed, temp, built, shipped, stated, mixed,
                   bounds>>
RecordVersion(r) ==
    /\ node[r][2] = "versioning" /\ NodeIs(r, 2, "success")
    /\ IF \E v \in artifact.versions : v.tag = image[r] THEN UNCHANGED artifact
       ELSE artifact' = [artifact EXCEPT !.versions =
                           @ \cup {[tag |-> image[r], run |-> r]}]
    /\ UNCHANGED <<run, image, dir, pushed, temp, built, shipped, stated, mixed,
                   bounds>>
RecordFails(r) ==
    /\ node[r][2] \in {"recording", "versioning"} /\ NodeIs(r, 2, "success")
    /\ workFaults > 0 /\ workFaults' = workFaults - 1
    /\ UNCHANGED <<run, image, dir, pushed, artifact, temp, built, shipped,
                   stated, mixed, rounds, plan>>

\* k8s_deploy: the tag is the one that the node names, else that of a
\* successful node of the same run, else the chart's own.  What is shipped is
\* behind the tag now; a tag that is named may be nobody's.
ScanAnyRun(r) ==               \* variant: nodes of any run
    {image[q] : q \in {q \in Run : node[q][2] = "success"}} \ {NoTag}
Scan(r) == {image[q] : q \in {q \in {r} : node[q][2] = "success"}} \ {NoTag}

Ship(r, tag) ==
    shipped' = [shipped EXCEPT ![r] =
                  IF pushed[tag] = NoRun THEN "missing" ELSE pushed[tag]]
DeployK8s(r) ==
    /\ node[r][3] = "running" /\ run[r].target = "k8s"
    /\ \/ /\ NodeIs(r, 3, "success")
          /\ \/ /\ \E tag \in Named : Ship(r, tag)
                /\ stated' = stated \cup {r}
             \/ \E tag \in Scan(r) : Ship(r, tag) /\ UNCHANGED stated
             \/ /\ Scan(r) = {} /\ UNCHANGED stated
                /\ shipped' = [shipped EXCEPT ![r] = "default"]
       \/ NodeIs(r, 3, "failed") /\ UNCHANGED <<shipped, stated>>
    /\ UNCHANGED <<run, image, dir, pushed, artifact, temp, built, mixed,
                   bounds>>

\* ansible: the task runs inside the node; http_webhook: a request.  Both end
\* as what they called does.
EndsAs(r, target) ==
    /\ node[r][3] = "running" /\ run[r].target = target
    /\ \E status \in {"success", "failed"} : NodeIs(r, 3, status)
    /\ UNCHANGED <<run, image, dir, pushed, artifact, temp, built, shipped,
                   stated, mixed, bounds>>
RunAnsible(r)  == EndsAs(r, "ansible")
HttpWebhook(r) == EndsAs(r, "webhook")

\* host_deploy: a temporary task distributes files of the workspace.  The
\* name TaskLog is only bound in the branch of 'ansible' nodes, so collecting
\* the result raises: the node fails and the temporary task stays.
DeployHosts(r) ==
    /\ node[r][3] = "running" /\ run[r].target = "hosts"
    /\ NodeIs(r, 3, "failed")
    /\ \/ /\ dir[Base(r)].source # "none"
          /\ temp' = temp \cup {r}
          /\ shipped' = [shipped EXCEPT ![r] = dir[Base(r)].source]
       \/ /\ dir[Base(r)].source = "none" /\ UNCHANGED <<temp, shipped>>
    /\ UNCHANGED <<run, image, dir, pushed, artifact, built, stated, mixed,
                   bounds>>

-----------------------------------------------------------------------------
(* cleanup_old_workspaces: a day is "old", three days are "ancient".       *)

Days ==
    /\ rounds > 0 /\ rounds' = rounds - 1
    /\ dir' = [r \in Run |-> [dir[r] EXCEPT !.age =
                 CASE @ = "none" -> @ [] @ = "fresh" -> "old"
                   [] OTHER -> "ancient"]]
    /\ UNCHANGED <<run, node, image, pushed, artifact, temp, built, shipped,
                   stated, mixed, workFaults, plan>>

CleanupOldWorkspaces ==
    /\ rounds > 0 /\ rounds' = rounds - 1
    /\ dir' = [r \in Run |->
                 IF \/ dir[r].age = "ancient"
                    \/ dir[r].age = "old" /\ run[r].status # "running"
                 THEN NoDir ELSE dir[r]]
    /\ UNCHANGED <<run, node, image, pushed, artifact, temp, built, shipped,
                   stated, mixed, workFaults, plan>>

Next ==
    \/ \E r \in Run :
          \/ \E target \in Target : Execute(r, target)
          \/ \E parent \in Run, start \in NodeNo : Retry(r, parent, start)
          \/ AdvanceCopy(r) \/ Finalize(r)
          \/ \E n \in NodeNo : NodeBegin(r, n)
          \/ Clone(r) \/ CloneEnd(r) \/ CloneTimeout(r)
          \/ Build(r) \/ RecordArtifact(r) \/ RecordVersion(r)
          \/ RecordFails(r) \/ DeployK8s(r)
          \/ RunAnsible(r) \/ HttpWebhook(r) \/ DeployHosts(r)
    \/ Days \/ CleanupOldWorkspaces

Spec == Init /\ [][Next]_vars

-----------------------------------------------------------------------------
(* Properties.                                                             *)

WorkTypeOK ==
    /\ run \in [Run -> [status : {"none", "pending", "running", "failed",
                                  "success"},
                        parent : Run \cup {NoRun}, target : Target]]
    /\ node \in [Run -> [NodeNo -> {"none", "pending", "skipped", "running",
                          "cloning", "recording", "versioning", "failed",
                          "success"}]]
    /\ image \in [Run -> Tag \cup {NoTag}]
    /\ dir \in [Run -> [source : Run \cup {"none", "part"},
                        age : {"none", "fresh", "old", "ancient"}]]
    /\ pushed \in [Tag -> Run \cup {NoRun}]
    /\ temp \subseteq Run /\ mixed \subseteq Run /\ stated \subseteq Run
    /\ artifact \in [latest : Tag \cup {NoTag},
                    versions : SUBSET [tag : Tag, run : Run]]
    /\ built \in [Run -> Run \cup {"none", "part"}]
    /\ shipped \in [Run -> Run \cup {"none", "part", "default", "missing"}]
    /\ plan \in WorkPlans
    /\ workFaults \in 0..plan.faults /\ rounds \in 0..plan.rounds

\* A build is made from a source that was cloned completely: by the run
\* itself, or, when the clone was skipped, by an earlier retry of the same
\* run.  Code: a retry works in its parent's workspace, clones remove what is
\* there, finished runs and a periodic task delete.  Exceptions: two retries
\* of a run at the same time, and a git process left behind by a timeout.
OwnSource(r) ==
    built[r] # "none" =>
        \/ Base(r) \in mixed
        \/ IF node[r][1] = "skipped"
           THEN built[r] \in Run /\ Base(built[r]) = Base(r) /\ built[r] # r
           ELSE built[r] = r

\* What a tag leads to is the image of a run that has pushed under this tag.
\* A Helm deployment whose node names no tag ships the image of its own run,
\* or of one that has pushed the same tag since, and the chart's default when
\* the run has built none.
OwnImage(r) ==
    /\ image[r] # NoTag => pushed[image[r]] # NoRun
    /\ run[r].target = "k8s" /\ shipped[r] # "none" /\ r \notin stated =>
          IF image[r] = NoTag THEN shipped[r] = "default"
          ELSE \/ shipped[r] = r
               \/ /\ shipped[r] \in Run /\ image[shipped[r]] = image[r]
                  /\ pushed[image[r]] # r
Registry ==
    \A t \in Tag : pushed[t] # NoRun => image[pushed[t]] = t

\* Every recorded version of the artifact names a run that has pushed its tag,
\* one run for a tag, and the latest tag is one that was pushed.
Recorded ==
    /\ \A v \in artifact.versions : image[v.run] = v.tag
    /\ \A v, w \in artifact.versions : v.tag = w.tag => v = w
    /\ artifact.latest # NoTag => pushed[artifact.latest] # NoRun

WorkSound ==
    /\ \A r \in Run : OwnSource(r) /\ OwnImage(r)
    /\ Registry /\ Recorded
=============================================================================
