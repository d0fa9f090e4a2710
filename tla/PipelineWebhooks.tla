-------------------------- MODULE PipelineWebhooks --------------------------
(***************************************************************************)
(* PipelineWebhookViewSet: deliveries of a repository's events trigger     *)
(* runs of a pipeline.  Every delivery reads the webhook once and at last  *)
(* saves this copy whole, for the sake of its counter.                     *)
(***************************************************************************)
EXTENDS Naturals, FiniteSets

CONSTANTS
    Delivery,        \* requests to trigger
    Editor,          \* handlers of the webhook's PATCH
    HookEdits, HookFaults              \* bounds

VARIABLES
    hook,            \* the webhook's row
    delivery, edit,  \* what each handler has read, and where it is
    triggered,       \* runs by the delivery that created them
    off,             \* did an administrator disable the webhook last?
    crossed,         \* handlers that had the row while another one saved it
    hookEdits, hookFaults

vars == <<hook, delivery, edit, triggered, off, crossed, hookEdits,
          hookFaults>>

Fresh == [active |-> TRUE, filtered |-> FALSE, count |-> 0]
Idle  == [pc |-> "idle", copy |-> Fresh]

Init ==
    /\ hook \in {[Fresh EXCEPT !.filtered = f] : f \in BOOLEAN}
    /\ delivery = [d \in Delivery |-> Idle]
    /\ edit = [e \in Editor |-> Idle]
    /\ triggered = [d \in Delivery |-> "none"]
    /\ off = FALSE
    /\ crossed = {}
    /\ hookEdits = HookEdits /\ hookFaults = HookFaults

\* Saving the row outdates the copies the other handlers hold.
Holding(but) == {d \in Delivery \ but : delivery[d].pc \in {"create", "save"}}
                \cup {e \in Editor \ but : edit[e].pc = "save"}
SaveRow(row, by) == /\ hook' = row
                    /\ crossed' = crossed \cup Holding({by})

-----------------------------------------------------------------------------
(* trigger                                                                 *)

\* The signature, by GitHub's form or by its own, which also bounds the age of
\* the request, or the plain secret; then the switch and the branch filter.
Verified == {TRUE, FALSE}
Passes(row, known, branch) ==
    known /\ row.active /\ (row.filtered => branch)
Answer(d, pc) == delivery' = [delivery EXCEPT ![d].pc = pc]

\* Variant: the counter is saved before the branch is looked at.
ReceiveCounted(d) ==
    /\ delivery[d].pc = "idle"
    /\ \E known, branch \in Verified :
         IF Passes(hook, known, branch)
         THEN /\ delivery' = [delivery EXCEPT ![d] =
                                [pc |-> "create", copy |-> hook]]
              /\ UNCHANGED <<hook, crossed>>
         ELSE /\ Answer(d, "ended")
              /\ IF known /\ hook.active
                 THEN SaveRow([hook EXCEPT !.count = @ + 1], d)
                 ELSE UNCHANGED <<hook, crossed>>
    /\ UNCHANGED <<edit, triggered, off, hookEdits, hookFaults>>
Receive(d) ==
    /\ delivery[d].pc = "idle"
    /\ \E known, branch \in Verified :
         IF Passes(hook, known, branch)
         THEN delivery' = [delivery EXCEPT ![d] =
                             [pc |-> "create", copy |-> hook]]
         ELSE Answer(d, "ended")
    /\ UNCHANGED <<hook, edit, triggered, off, crossed, hookEdits, hookFaults>>

CreateRun(d) ==
    /\ delivery[d].pc = "create"
    /\ triggered' = [triggered EXCEPT ![d] = "pending"]
    /\ Answer(d, "save")
    /\ UNCHANGED <<hook, edit, off, crossed, hookEdits, hookFaults>>
\* The whole copy is saved, with the counter one up.
SaveHook(d) ==
    /\ delivery[d].pc = "save"
    /\ SaveRow([delivery[d].copy EXCEPT !.count = @ + 1], d)
    /\ Answer(d, "queue")
    /\ UNCHANGED <<edit, triggered, off, hookEdits, hookFaults>>
\* Without a broker the run stays 'pending' and the sender gets an error.
QueueEngine(d) ==
    /\ delivery[d].pc = "queue"
    /\ \/ /\ triggered' = [triggered EXCEPT ![d] = "queued"]
          /\ UNCHANGED hookFaults
       \/ /\ hookFaults > 0 /\ hookFaults' = hookFaults - 1
          /\ UNCHANGED triggered
    /\ Answer(d, "ended")
    /\ UNCHANGED <<hook, edit, off, crossed, hookEdits>>
\* A handler that is killed leaves what it has done.
DeliveryDies(d) ==
    /\ delivery[d].pc \notin {"idle", "ended"}
    /\ hookFaults > 0 /\ hookFaults' = hookFaults - 1
    /\ Answer(d, "ended")
    /\ UNCHANGED <<hook, edit, triggered, off, crossed, hookEdits>>

\* PATCH: counter and time are read only, but saved with the rest of the row.
EditRead(e) ==
    /\ edit[e].pc = "idle" /\ hookEdits > 0 /\ hookEdits' = hookEdits - 1
    /\ edit' = [edit EXCEPT ![e] = [pc |-> "save", copy |-> hook]]
    /\ UNCHANGED <<hook, delivery, triggered, off, crossed, hookFaults>>
EditSave(e) ==
    /\ edit[e].pc = "save"
    /\ \E active \in BOOLEAN :
         /\ SaveRow([edit[e].copy EXCEPT !.active = active], e)
         /\ off' = ~active
    /\ edit' = [edit EXCEPT ![e] = Idle]
    /\ UNCHANGED <<delivery, triggered, hookEdits, hookFaults>>

Next == \/ \E d \in Delivery : \/ Receive(d) \/ CreateRun(d) \/ SaveHook(d)
                               \/ QueueEngine(d) \/ DeliveryDies(d)
        \/ \E e \in Editor : EditRead(e) \/ EditSave(e)

Spec == Init /\ [][Next]_vars

-----------------------------------------------------------------------------
\* Types.
HookTypeOK ==
    /\ hook.active \in BOOLEAN /\ hook.count \in 0..Cardinality(Delivery)
    /\ \A d \in Delivery : triggered[d] \in {"none", "pending", "queued"}
    /\ crossed \subseteq Delivery \cup Editor

\* The counter never names more deliveries than have created a run; it names
\* all that have been counted, and a webhook that was disabled is disabled,
\* unless a handler held the row while another one saved it.
Runs == {d \in Delivery : triggered[d] # "none"}
Counted == {d \in Delivery : \/ delivery[d].pc = "queue"
                             \/ triggered[d] = "queued"}
HookSound ==
    /\ hook.count <= Cardinality(Runs)
    /\ crossed = {} => /\ hook.count >= Cardinality(Counted)
                       /\ off = ~hook.active
=============================================================================
