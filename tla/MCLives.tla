------------------------------ MODULE MCLives ------------------------------
(* What must eventually happen in five components that share no state, one *)
(* of them the DiagnosisRun this module extends: a behaviour is one of the *)
(* component that part names, the others stay as they are initially, where *)
(* their fairness demands nothing.                                         *)
EXTENDS DiagnosisRun, Sequences

VARIABLES part,
          alert, key, policy, handler, worker, analyses, run, ticket, left,
          windows, autoRuns, overtaken,
          execution, launch, task, terminate, lossesLeft, late, forsaken,
          track, wire, real, node, told, unheard, up, pulseFaults,
          item, categories, logged, cache, reader, writer, published,
          listening, level, stranded, marred, changesLeft, configFaultsLeft

alerts == <<alert, key, policy, handler, worker, analyses, run, ticket, left,
            windows, autoRuns, overtaken>>
executions == <<execution, launch, task, terminate, lossesLeft, late,
                forsaken>>
pulse == <<track, wire, real, node, told, unheard, up, pulseFaults>>
config == <<item, categories, logged, cache, reader, writer, published,
            listening, level, stranded, marred, changesLeft, configFaultsLeft>>
all == <<part, alerts, executions, pulse, config, vars>>

AlertBudgets == {[webhooks |-> 1, views |-> 1, faults |-> 1]}

Alerts == INSTANCE AlertHealing WITH
    Alert <- {"a1"}, Run <- {"r1", "r2"}, Ticket <- {"t1"}, Handler <- {"h1"},
    Worker <- {"w1"}, Kind <- {"none", "auto"}, Gate <- {"open", "closed"},
    BreakerLimit <- 2, Budgets <- AlertBudgets, queue <- analyses
Executions == INSTANCE AnsibleExecution WITH
    Exec <- {"e1"}, MaxFaults <- 1, row <- execution,
    faultsLeft <- lossesLeft
Pulse == INSTANCE TaskPulse WITH
    Pulse <- {"t1"}, Node <- {"n1"}, PulseFaults <- 1
Config == INSTANCE ConfigCenter WITH
    Item <- {"i1"}, Category <- {"c1"}, Key <- {"k1", "k2"}, System <- {},
    Reader <- {"r1"}, Writer <- {"w1"}, Process <- {"p1"}, Value <- {"v1"},
    Changes <- 2, ConfigFaults <- 1,
    row <- item, wire <- published
\* A worker may be killed twice at work, in otherwise calm conditions.
TwoCrashes == [crashed |-> 2, lost |-> 0, doubled |-> 0]

\* Two changes of the configuration, or one and a failure of Redis.
LivesInit ==
    /\ part \in {"alerts", "executions", "pulse", "config", "diagnosis"}
    /\ Init
    /\ Alerts!Init /\ Executions!Init /\ Pulse!Init /\ Config!Init
    /\ part # "alerts" =>
          policy = [kind |-> "none", gate |-> "open", ignored |-> FALSE]
    /\ categories = {"c1"} /\ changesLeft + configFaultsLeft = 2
    /\ part # "config" => changesLeft = 2

LivesNext ==
    /\ \/ /\ part = "alerts" /\ Alerts!Next
          /\ UNCHANGED <<executions, pulse, config, vars>>
       \/ /\ part = "executions" /\ Executions!Next
          /\ UNCHANGED <<alerts, pulse, config, vars>>
       \/ /\ part = "pulse" /\ Pulse!Next
          /\ UNCHANGED <<alerts, executions, config, vars>>
       \/ /\ part = "config" /\ Config!Next
          /\ UNCHANGED <<alerts, executions, pulse, vars>>
       \/ /\ part = "diagnosis" /\ Next
          /\ UNCHANGED <<alerts, executions, pulse, config>>
    /\ UNCHANGED part

LivesSpec ==
    /\ LivesInit /\ [][LivesNext]_all
    /\ Alerts!Fairness /\ Executions!Fairness /\ Pulse!Fairness
    /\ Config!Fairness
    /\ \A c \in Caller : WF_vars(part = "diagnosis" /\ CallStep(c))
    /\ \A w \in Worker : WF_vars(part = "diagnosis" /\ TaskStep(w))
    /\ WF_vars(part = "diagnosis" /\ GrowStale)

-----------------------------------------------------------------------------
\* The exceptions are named in the components.

\* No alert is shown as being analysed or healed for ever, no Ansible
\* execution as pending or running, and every diagnosis ends although workers
\* are killed.  Code: receive, analyze_alert_event, trigger_self_healing and
\* the signals; run_ansible_task, terminate; recover_stale_diagnosis_runs.
WorkEnds ==
    /\ Alerts!AnalysisEnds /\ Alerts!HealingEnds /\ Executions!ExecutionsEnd
    /\ part = "diagnosis" => DiagnosisEnds

\* What is shown of a worker's node follows the worker, and once the changes
\* are over no entry of the cache differs from its configuration item for
\* ever.  Code: PulseMonitor, refresh_worker_lifecycle; ConfigCache.
StateFollows == Pulse!NodesFollow /\ Config!StaleEnds
=============================================================================
