------------------------------ MODULE TaskPulse ------------------------------
(***************************************************************************)
(* The task monitor (apps/task_pulse): a receiver of Celery events keeps   *)
(* one row per task and one per worker node, views revoke tasks, and a     *)
(* periodic task marks silent nodes offline and prunes them.               *)
(***************************************************************************)
EXTENDS Integers, Sequences

CONSTANTS
    Pulse,        \* ids of Celery tasks
    Node,         \* hostnames of workers
    PulseFaults   \* bound: times the receiver is down and misses an event

VARIABLES
    track,        \* TaskPulse rows: the state shown, has it an end time
    wire,         \* events of a task sent and not yet handled, in order
    real,         \* what Celery has done with the task
    node,         \* WorkerNode rows and the age of their last heartbeat
    told,         \* revoke commands sent to the workers and not yet obeyed
    unheard,      \* history: revoke commands that could not be sent
    up,           \* nodes whose worker process is alive
    pulseFaults

vars == <<track, wire, real, told, unheard, node, up, pulseFaults>>

Untracked == [state |-> "none", ended |-> FALSE]
NoNode    == [status |-> "absent", age |-> "fresh"]

\* on_task_event names the state after the event: 'task-succeeded' gives
\* SUCCEEDED, which is not the SUCCESS of TaskPulse.STATE_CHOICES, and only
\* SUCCESS, FAILURE and REVOKED get an end time.
StateOf(event) ==
    CASE event = "received"  -> "RECEIVED"
      [] event = "started"   -> "STARTED"
      [] event = "succeeded" -> "SUCCEEDED"
      [] event = "failed"    -> "FAILED"
      [] event = "retried"   -> "RETRIED"
      [] event = "revoked"   -> "REVOKED"
Shown == {"none", "RECEIVED", "STARTED", "SUCCEEDED", "FAILED", "RETRIED",
          "REVOKED"}

\* The events Celery may send after one.
Follow(event) ==
    CASE event = "none"     -> {"received"}
      [] event = "received" -> {"started", "revoked"}
      [] event = "started"  -> {"succeeded", "failed", "retried", "revoked"}
      [] event = "retried"  -> {"received"}
      [] OTHER              -> {}

Init ==
    /\ track = [p \in Pulse |-> Untracked]
    /\ wire = [p \in Pulse |-> <<>>]
    /\ real = [p \in Pulse |-> "none"]
    /\ node = [n \in Node |-> NoNode]
    /\ told = {} /\ unheard = {} /\ up = {}
    /\ pulseFaults = PulseFaults

\* A worker goes on with a task and sends the event.
Send(p, event) ==
    /\ up # {} /\ event \in Follow(real[p])
    /\ real' = [real EXCEPT ![p] = event]
    /\ wire' = [wire EXCEPT ![p] = Append(@, event)]
    /\ UNCHANGED <<track, told, unheard, node, up, pulseFaults>>

\* PulseMonitor.on_task_event: get_or_create of the node (a new row is
\* 'offline'), update_or_create of the task's row.
OnTaskEvent(p, n) ==
    LET event == Head(wire[p])
    IN  /\ wire[p] # <<>>
        /\ wire' = [wire EXCEPT ![p] = Tail(@)]
        /\ track' = [track EXCEPT ![p] =
                       [state |-> StateOf(event),
                        ended |-> @.ended \/ StateOf(event) = "REVOKED"]]
        /\ node' = IF node[n].status = "absent"
                   THEN [node EXCEPT ![n] = [status |-> "offline",
                                             age |-> "fresh"]]
                   ELSE node
        /\ UNCHANGED <<told, unheard, real, up, pulseFaults>>

\* Nobody listens: events are broadcast, not stored.
MissEvent(p) ==
    /\ wire[p] # <<>> /\ pulseFaults > 0
    /\ pulseFaults' = pulseFaults - 1
    /\ wire' = [wire EXCEPT ![p] = Tail(@)]
    /\ UNCHANGED <<track, told, unheard, real, node, up>>

\* TaskPulseViewSet.revoke: Celery is told to kill the task, and the row is
\* REVOKED at once, also when the command could not be sent.
RevokeUntold(p) ==             \* variant: Celery is not told
    /\ track[p].state # "none"
    /\ track' = [track EXCEPT ![p] = [state |-> "REVOKED", ended |-> TRUE]]
    /\ UNCHANGED <<wire, real, told, unheard, node, up, pulseFaults>>
Revoke(p) ==
    /\ track[p].state # "none"
    /\ track' = [track EXCEPT ![p] = [state |-> "REVOKED", ended |-> TRUE]]
    /\ \/ /\ told' = told \cup {p} /\ UNCHANGED <<unheard, pulseFaults>>
       \/ /\ pulseFaults > 0 /\ pulseFaults' = pulseFaults - 1
          /\ unheard' = unheard \cup {p} /\ UNCHANGED told
    /\ UNCHANGED <<wire, real, node, up>>

\* The worker obeys: a task that has not ended is killed or discarded.
Obey(p) ==
    /\ p \in told /\ told' = told \ {p}
    /\ IF Follow(real[p]) # {}
       THEN /\ real' = [real EXCEPT ![p] = "revoked"]
            /\ wire' = [wire EXCEPT ![p] = Append(@, "revoked")]
       ELSE UNCHANGED <<real, wire>>
    /\ UNCHANGED <<track, unheard, node, up, pulseFaults>>

-----------------------------------------------------------------------------
(* Worker nodes: ages stand for "within 120 s", "within 24 h", "older".    *)

\* on_worker_online, and the ping of run() when the receiver starts.
OnWorkerOnlineMisspelt(n) ==   \* variant: a status WorkerNode does not have
    /\ up' = up \cup {n}
    /\ node' = [node EXCEPT ![n] = [status |-> "up", age |-> "fresh"]]
    /\ UNCHANGED <<track, wire, told, unheard, real, pulseFaults>>
OnWorkerOnline(n) ==
    /\ up' = up \cup {n}
    /\ node' = [node EXCEPT ![n] = [status |-> "online", age |-> "fresh"]]
    /\ UNCHANGED <<track, wire, told, unheard, real, pulseFaults>>

\* on_worker_offline: the worker says goodbye; or it dies without.
OnWorkerOffline(n) ==
    /\ n \in up /\ up' = up \ {n}
    /\ \/ node' = [node EXCEPT ![n].status =
                      IF @ = "absent" THEN @ ELSE "offline"]
       \/ UNCHANGED node
    /\ UNCHANGED <<track, wire, told, unheard, real, pulseFaults>>

\* on_worker_heartbeat is an UPDATE: it brings back no pruned row.
OnWorkerHeartbeatStatusKept(n) ==   \* variant: only the time is updated
    /\ n \in up /\ node[n].status # "absent"
    /\ node' = [node EXCEPT ![n].age = "fresh"]
    /\ UNCHANGED <<track, wire, told, unheard, real, up, pulseFaults>>
OnWorkerHeartbeat(n) ==
    /\ n \in up /\ node[n].status # "absent"
    /\ node' = [node EXCEPT ![n] = [status |-> "online", age |-> "fresh"]]
    /\ UNCHANGED <<track, wire, told, unheard, real, up, pulseFaults>>

\* Time passes without a heartbeat reaching the receiver.
Age(n) ==
    /\ node[n].status # "absent"
    /\ n \notin up \/ pulseFaults > 0
    /\ pulseFaults' = IF n \in up THEN pulseFaults - 1 ELSE pulseFaults
    /\ node' = [node EXCEPT ![n].age = IF @ = "fresh" THEN "stale"
                                       ELSE "expired"]
    /\ node' # node
    /\ UNCHANGED <<track, wire, told, unheard, real, up>>

\* refresh_worker_lifecycle, from the periodic task and from the views: first
\* all silent nodes are marked, then the long silent ones are deleted.
RefreshWorkerLifecycle ==
    /\ node' = [n \in Node |->
                  CASE node[n].age = "expired" -> NoNode
                    [] node[n].age = "stale" /\ node[n].status = "online" ->
                          [node[n] EXCEPT !.status = "offline"]
                    [] OTHER -> node[n]]
    /\ UNCHANGED <<track, wire, told, unheard, real, up, pulseFaults>>

\* pulse_maintenance_task deletes old rows; WorkerNodeViewSet.destroy a node.
PruneTracks(p) ==
    /\ track[p].state # "none"
    /\ track' = [track EXCEPT ![p] = Untracked]
    /\ UNCHANGED <<wire, told, unheard, real, node, up, pulseFaults>>
DestroyNode(n) ==
    /\ node[n].status # "absent"
    /\ node' = [node EXCEPT ![n] = NoNode]
    /\ UNCHANGED <<track, wire, told, unheard, real, up, pulseFaults>>

Events == {"received", "started", "succeeded", "failed", "retried", "revoked"}

Next ==
    \/ \E p \in Pulse :
          \/ \E event \in Events : Send(p, event) /\ Len(wire[p]) < 2
          \/ \E n \in Node : OnTaskEvent(p, n)
          \/ MissEvent(p) \/ Revoke(p) \/ Obey(p) \/ PruneTracks(p)
    \/ \E n \in Node :
          \/ OnWorkerOnline(n) \/ OnWorkerOffline(n) \/ OnWorkerHeartbeat(n)
          \/ Age(n) \/ DestroyNode(n)
    \/ RefreshWorkerLifecycle

Spec == Init /\ [][Next]_vars

\* Live workers send heartbeats and the receiver handles them, time passes,
\* and the beat runs the maintenance.
Fairness ==
    /\ \A n \in Node : WF_vars(OnWorkerHeartbeat(n)) /\ WF_vars(Age(n))
    /\ WF_vars(RefreshWorkerLifecycle)

FairSpec == Spec /\ Fairness

-----------------------------------------------------------------------------
(* Properties.                                                             *)

PulseTypeOK ==
    /\ track \in [Pulse -> [state : Shown, ended : BOOLEAN]]
    /\ wire \in [Pulse -> Seq(Events)]
    /\ real \in [Pulse -> Events \cup {"none"}]
    /\ node \in [Node -> [status : {"absent", "online", "offline"},
                          age : {"fresh", "stale", "expired"}]]
    /\ told \subseteq Pulse /\ unheard \subseteq Pulse /\ up \subseteq Node
    /\ pulseFaults \in 0..PulseFaults

\* A task shown as REVOKED by a view or an event does nothing more once the
\* workers have obeyed.  Code: revoke tells Celery before it saves the row;
\* the exception is a command that could not be sent, which revoke only logs.
RevokedIsOver ==
    \A p \in Pulse \ (told \cup unheard) :
        track[p].state = "REVOKED" => Follow(real[p]) = {}

\* A node is only shown as online while its worker is alive or until the next
\* round of the maintenance finds it silent; a dead worker's row disappears or
\* goes offline, and a live one whose row was not deleted comes back online.
NodesFollow ==
    \A n \in Node :
        /\ [](n \notin up /\ node[n].status = "online"
              => <>(n \in up \/ node[n].status # "online"))
        /\ [](n \in up /\ node[n].status = "offline"
              => <>(n \notin up \/ node[n].status # "offline"))
=============================================================================
