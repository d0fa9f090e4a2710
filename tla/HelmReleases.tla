---------------------------- MODULE HelmReleases ----------------------------
(***************************************************************************)
(* Helm releases of a cluster: the views that install, upgrade, roll back  *)
(* and remove them, the charts they keep under media/helm_charts for later *)
(* upgrades, and the GitOps task that compares a release with a branch and *)
(* puts it right.  Every view looks the release up again, by a process of  *)
(* its own, after it has deployed; nothing locks a release meanwhile.      *)
(*                                                                         *)
(* A chart is its contents; Name gives the name and version helm lists.    *)
(***************************************************************************)
EXTENDS Naturals, FiniteSets

CONSTANTS
    Release,      \* release names in one namespace
    App,          \* the release a K8sApplication stands for
    Chart,        \* uploaded charts
    Revision,     \* charts at the commits of the application's branch
    Name(_),      \* name and version of a chart
    Handler,      \* requests of K8sClusterViewSet
    Syncer,       \* executions of sync_k8s_application
    Budgets       \* bounds: records of requests, syncs, commits, edits, faults

VARIABLES
    store,        \* charts_dir: the chart kept under each name
    release,      \* the chart each release is deployed with
    past,         \* charts of the release's earlier revisions
    handler,
    branch,       \* chart at the head of the branch
    row,          \* the K8sApplication: status, auto_sync, last_sync_revision
    syncer,
    meant,        \* auto_sync as it was last edited
    last,         \* the commit that the sync which last saved had cloned
    excused,      \* names stored by a request another deployment overtook
    crossed,      \* something else wrote what a running sync works on
    drifted,      \* it was deployed by hand since that save
    left

helm == <<store, release, past>>
apps == <<branch, row, syncer, meant, last>>
vars == <<helm, apps, handler, excused, crossed, drifted, left>>

None  == "none"
AnyChart == Chart \cup Revision
Names == {Name(c) : c \in AnyChart}
Idle  == [pc |-> "idle", release |-> None, chart |-> None, name |-> None,
          upgrade |-> FALSE, keep |-> FALSE, overtaken |-> FALSE]
Asleep == [pc |-> "idle", force |-> FALSE, row |-> None, rev |-> None]

Init ==
    /\ store = [n \in Names |-> None]
    /\ release = [r \in Release |-> None] /\ past = [r \in Release |-> {}]
    /\ handler = [h \in Handler |-> Idle]
    /\ branch \in Revision
    /\ \E auto \in BOOLEAN :
         /\ row = [status |-> "Unknown", auto |-> auto, revision |-> None]
         /\ meant = auto
    /\ syncer = [s \in Syncer |-> Asleep] /\ last = None
    /\ excused = {} /\ crossed = FALSE /\ drifted = FALSE
    /\ left \in Budgets

Spend(budget) == /\ left[budget] > 0
                 /\ left' = [left EXCEPT ![budget] = @ - 1]
Syncing == \E s \in Syncer : syncer[s].pc # "idle"

-----------------------------------------------------------------------------
\* A deployment of r: requests that deployed it before and have not looked it
\* up yet, and syncs of it, are overtaken.
Overtake(h, r, state) ==
    handler' = [g \in Handler |->
        IF g = h THEN state
        ELSE IF handler[g].pc = "list" /\ handler[g].release = r
        THEN [handler[g] EXCEPT !.overtaken = TRUE] ELSE handler[g]]
ByHand(r) ==
    /\ crossed' = (crossed \/ (r = App /\ Syncing))
    /\ drifted' = (drifted \/ r = App)
Deploy(r, c) ==
    /\ release' = [release EXCEPT ![r] = c]
    /\ past' = [past EXCEPT ![r] = IF release[r] = None THEN {}
                                   ELSE @ \cup {release[r]}]

\* chart_upload with a file and chart_create, which keep the chart;
\* helm_install and helm_upgrade of a chart of a repository, which do not.
Request(h) ==
    /\ handler[h].pc = "idle" /\ Spend("requests")
    /\ \E r \in Release, c \in Chart, upgrade, keep \in BOOLEAN :
         handler' = [handler EXCEPT ![h] =
           [Idle EXCEPT !.pc = "deploy", !.release = r, !.chart = c,
                        !.upgrade = upgrade, !.keep = keep]]
    /\ UNCHANGED <<helm, apps, excused, crossed, drifted>>

\* helm install fails on a release that is there.  helm_upgrade passes
\* --install, chart_upload does not.
Possible(h) ==
    IF handler[h].upgrade
    THEN ~handler[h].keep \/ release[handler[h].release] # None
    ELSE release[handler[h].release] = None
HelmDeploy(h) ==
    /\ handler[h].pc = "deploy"
    /\ LET r == handler[h].release IN
       \/ /\ Possible(h) /\ Deploy(r, handler[h].chart) /\ ByHand(r)
          /\ Overtake(h, r, IF handler[h].keep
                            THEN [handler[h] EXCEPT !.pc = "list"] ELSE Idle)
          /\ UNCHANGED <<store, left>>
       \/ /\ IF Possible(h) THEN Spend("faults") ELSE UNCHANGED left
          /\ handler' = [handler EXCEPT ![h] = Idle]
          /\ UNCHANGED <<helm, crossed, drifted>>
    /\ UNCHANGED <<apps, excused>>

\* helm list: the name the release has now; its file is replaced.
\* Variant: the name is that of the chart deployed before.
ListStalePast(h) ==
    /\ handler[h].pc = "list"
    /\ \E c \in past[handler[h].release] \cup {None} :
         handler' = [handler EXCEPT ![h] =
           IF c = None THEN Idle
           ELSE [@ EXCEPT !.pc = "copy", !.name = Name(c)]]
    /\ UNCHANGED <<helm, apps, excused, crossed, drifted, left>>
ListDeployed(h) ==
    /\ handler[h].pc = "list"
    /\ LET c == release[handler[h].release] IN
         handler' = [handler EXCEPT ![h] =
           IF c = None THEN Idle
           ELSE [@ EXCEPT !.pc = "copy", !.name = Name(c)]]
    /\ UNCHANGED <<helm, apps, excused, crossed, drifted, left>>
CopyChart(h) ==
    /\ handler[h].pc = "copy"
    /\ store' = [store EXCEPT ![handler[h].name] = handler[h].chart]
    /\ excused' = IF handler[h].overtaken
                  THEN excused \cup {handler[h].name}
                  ELSE excused \ {handler[h].name}
    /\ handler' = [handler EXCEPT ![h] = Idle]
    /\ UNCHANGED <<release, past, apps, crossed, drifted, left>>

\* helm_upgrade and chart_upload without a chart: the one kept for the name
\* the release has is deployed again, with other values.
FindKept(h) ==
    /\ handler[h].pc = "idle" /\ Spend("requests")
    /\ \E r \in Release :
         /\ release[r] # None /\ store[Name(release[r])] # None
         /\ handler' = [handler EXCEPT ![h] =
              [Idle EXCEPT !.pc = "again", !.release = r,
                           !.name = Name(release[r])]]
    /\ UNCHANGED <<helm, apps, excused, crossed, drifted>>
DeployKept(h) ==
    /\ handler[h].pc = "again"
    /\ LET r == handler[h].release IN
         /\ Deploy(r, store[handler[h].name])
         /\ ByHand(r) /\ Overtake(h, r, Idle)
    /\ UNCHANGED <<store, apps, excused, left>>

Rollback(h) ==
    /\ handler[h].pc = "idle" /\ Spend("requests")
    /\ \E r \in Release : \E c \in past[r] :
         Deploy(r, c) /\ ByHand(r) /\ Overtake(h, r, Idle)
    /\ UNCHANGED <<store, apps, excused>>
Uninstall(h) ==
    /\ handler[h].pc = "idle" /\ Spend("requests")
    /\ \E r \in Release :
         /\ release[r] # None
         /\ release' = [release EXCEPT ![r] = None]
         /\ past' = [past EXCEPT ![r] = {}]
         /\ ByHand(r) /\ Overtake(h, r, Idle)
    /\ UNCHANGED <<store, apps, excused>>

-----------------------------------------------------------------------------
Commit == /\ Spend("commits") /\ branch' \in Revision \ {branch}
          /\ UNCHANGED <<helm, row, syncer, meant, last, handler, excused,
                         crossed, drifted>>
\* The serializer writes the configuration; a running sync has the old one.
EditApp ==
    /\ Spend("edits") /\ meant' = ~row.auto
    /\ row' = [row EXCEPT !.auto = ~@]
    /\ crossed' = (crossed \/ Syncing)
    /\ UNCHANGED <<helm, branch, syncer, last, handler, excused, drifted>>

\* K8sApplicationViewSet.sync, and the pipeline's own calls without force.
SyncBegin(s) ==
    /\ syncer[s].pc = "idle" /\ Spend("syncs")
    /\ \E force \in BOOLEAN :
         syncer' = [syncer EXCEPT ![s] = [pc |-> "clone", force |-> force,
                                          row |-> row, rev |-> None]]
    /\ crossed' = (Syncing \/ (crossed /\ row.auto # meant))
    /\ UNCHANGED <<helm, branch, row, meant, last, handler, excused, drifted>>

SaveRow(s, copy) ==
    row' = copy /\ last' = syncer[s].rev /\ drifted' = crossed
Goto(s, pc, copy) == syncer' = [syncer EXCEPT ![s].pc = pc, ![s].row = copy]
Rest(s) == syncer' = [syncer EXCEPT ![s] = Asleep]
Clone(s) ==
    /\ syncer[s].pc = "clone"
    /\ syncer' = [syncer EXCEPT ![s].pc = "compare", ![s].rev = branch]
    /\ UNCHANGED <<helm, branch, row, meant, last, handler, excused, crossed,
                   drifted, left>>
\* git, helm template or the cluster fail: the copy is saved with the error.
SyncRaises(s) ==
    /\ syncer[s].pc \in {"clone", "compare"} /\ Spend("faults")
    /\ SaveRow(s, [syncer[s].row EXCEPT !.status = "Error"]) /\ Rest(s)
    /\ UNCHANGED <<helm, branch, meant, handler, excused, crossed>>
\* Equal manifests are only noted in the copy; a difference is saved at once,
\* and if the task may put it right, 'Syncing' after it.
Wanted(s) == syncer[s].force \/ syncer[s].row.auto
Compare(s) ==
    /\ syncer[s].pc = "compare"
    /\ LET copy == syncer[s].row
           equal == release[App] = syncer[s].rev
           status == IF equal THEN "Synced"
                     ELSE IF Wanted(s) THEN "Syncing" ELSE "OutOfSync" IN
         /\ Goto(s, IF ~equal /\ Wanted(s) THEN "upgrade" ELSE "save",
                 [copy EXCEPT !.status = status])
         /\ IF equal THEN UNCHANGED <<row, last, drifted>>
            ELSE SaveRow(s, [row EXCEPT !.status = status])
    /\ UNCHANGED <<helm, branch, meant, handler, excused, crossed, left>>

\* run_helm_upgrade with the cloned chart, and the save of its outcome.
\* Variant: the status is set before the outcome is known.
SyncUpgradeBlind(s) ==
    /\ syncer[s].pc = "upgrade"
    /\ \/ /\ Deploy(App, syncer[s].rev) /\ Overtake(None, App, Idle)
          /\ UNCHANGED left
       \/ Spend("faults") /\ UNCHANGED <<release, past, handler>>
    /\ Goto(s, "record", [syncer[s].row EXCEPT !.status = "Synced",
                                               !.revision = syncer[s].rev])
    /\ UNCHANGED <<store, branch, row, meant, last, excused, crossed, drifted>>
SyncUpgrade(s) ==
    /\ syncer[s].pc = "upgrade"
    /\ \/ /\ Deploy(App, syncer[s].rev) /\ Overtake(None, App, Idle)
          /\ Goto(s, "record",
                  [syncer[s].row EXCEPT !.status = "Synced",
                                        !.revision = syncer[s].rev])
          /\ UNCHANGED left
       \/ /\ Spend("faults")
          /\ Goto(s, "record", [syncer[s].row EXCEPT !.status = "Error"])
          /\ UNCHANGED <<release, past, handler>>
    /\ UNCHANGED <<store, branch, row, meant, last, excused, crossed, drifted>>
SyncRecord(s) ==
    /\ syncer[s].pc = "record"
    /\ SaveRow(s, syncer[s].row) /\ Goto(s, "save", syncer[s].row)
    /\ UNCHANGED <<helm, branch, meant, handler, excused, crossed, left>>
\* The last save, with the error message cleared whatever happened.
SyncSave(s) ==
    /\ syncer[s].pc = "save"
    /\ SaveRow(s, syncer[s].row) /\ Rest(s)
    /\ UNCHANGED <<helm, branch, meant, handler, excused, crossed, left>>
SyncerDies(s) ==
    /\ syncer[s].pc # "idle" /\ Spend("faults") /\ Rest(s)
    /\ UNCHANGED <<helm, branch, row, meant, last, handler, excused, crossed,
                   drifted>>

Next ==
    \/ \E h \in Handler : Request(h) \/ HelmDeploy(h) \/ ListDeployed(h)
                          \/ CopyChart(h) \/ FindKept(h) \/ DeployKept(h)
                          \/ Rollback(h) \/ Uninstall(h)
    \/ Commit \/ EditApp
    \/ \E s \in Syncer : SyncBegin(s) \/ Clone(s) \/ SyncRaises(s)
                         \/ Compare(s) \/ SyncUpgrade(s) \/ SyncRecord(s)
                         \/ SyncSave(s) \/ SyncerDies(s)

Spec == Init /\ [][Next]_vars

-----------------------------------------------------------------------------
\* Types.
HelmTypeOK ==
    /\ store \in [Names -> AnyChart \cup {None}]
    /\ release \in [Release -> AnyChart \cup {None}]
    /\ past \in [Release -> SUBSET AnyChart]
    /\ \A h \in Handler :
         handler[h].pc \in {"idle", "deploy", "list", "copy", "again"}
    /\ row.status \in {"Unknown", "Synced", "OutOfSync", "Syncing", "Error"}
    /\ \A s \in Syncer : syncer[s].pc \in {"idle", "clone", "compare",
                                           "upgrade", "record", "save"}

\* A chart is kept under its own name, so an upgrade without a chart deploys
\* the chart the release is listed with, unless another deployment of the
\* release came between the one of the upload and its look-up.
StoreNamed ==
    \A n \in Names \ excused : store[n] # None => Name(store[n]) = n

\* At rest, 'Synced' is true: the release has the commit the last sync cloned,
\* unless somebody deployed it by hand after the comparison or two syncs or
\* an edit crossed; and what the user set of auto_sync is still set.
SyncHonest ==
    ~Syncing /\ ~crossed =>
      /\ row.status = "Synced" /\ ~drifted => release[App] = last
      /\ row.auto = meant
ReleasesSound == StoreNamed /\ SyncHonest
=============================================================================
