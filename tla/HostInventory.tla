--------------------------- MODULE HostInventory ----------------------------
(***************************************************************************)
(* The hosts of a platform (apps/host_management).  Asset syncs write what *)
(* the provider reports, the connectivity check probes the hosts in use,   *)
(* administrators edit, import and delete; each from its own reading.      *)
(***************************************************************************)
EXTENDS Naturals, FiniteSets, Functions, Sequences

CONSTANTS
    Ip, HostName,
    Report,          \* what the provider may report: sequences of rows
    Syncer, Editor,
    MaxHosts,        \* bound: hosts ever created
    InventoryBudgets \* bounds: syncs, probes, edits

VARIABLES
    hosts,           \* rows by id: ip, name and status
    nextId,          \* the next row's id
    owned,           \* does the platform belong to a project?
    sync,            \* asset sync tasks
    probe,           \* the hosts a connectivity check still has to probe
    edit,            \* handlers of a host's PATCH
    taken,           \* hosts an administrator took out of use
    touched,         \* per sync: ips others have written since it began
    budget

vars == <<hosts, nextId, owned, sync, probe, edit, taken, touched, budget>>

Offline == 0  Online == 1  Faulty == 2  Standby == 3
Statuses == {Offline, Online, Faulty, Standby}
InUse    == {Online, Faulty}
NoHost   == 0
Row      == [ip : Ip, name : HostName, status : Statuses]
Idle     == [pc |-> "idle", given |-> <<>>, todo |-> <<>>]
Away     == [pc |-> "idle", host |-> NoHost, row |-> <<>>]

Init ==
    /\ hosts = <<>> /\ nextId = 1
    /\ owned \in BOOLEAN
    /\ sync = [s \in Syncer |-> Idle]
    /\ probe = <<>>
    /\ edit = [e \in Editor |-> Away]
    /\ taken = {}
    /\ touched = [s \in Syncer |-> {}]
    /\ budget \in InventoryBudgets

Spend(what) == /\ budget[what] > 0
               /\ budget' = [budget EXCEPT ![what] = @ - 1]
Ids       == DOMAIN hosts
With(ip)  == {h \in Ids : hosts[h].ip = ip}
Put(h, row) ==
    hosts' = [i \in Ids \cup {h} |-> IF i = h THEN row ELSE hosts[i]]
\* In a project no two hosts have one name or one ip.
Clash(row, others) ==
    owned /\ \E h \in others : \/ hosts[h].ip = row.ip
                               \/ hosts[h].name = row.name
Touch(ips, but) == touched' = [s \in Syncer |-> IF s = but THEN touched[s]
                                                ELSE touched[s] \cup ips]
Insert(row) == /\ nextId <= MaxHosts /\ nextId' = nextId + 1
               /\ Put(nextId, row)

-----------------------------------------------------------------------------
(* sync_platform_assets                                                    *)

SyncBegin(s) ==
    /\ sync[s].pc = "idle" /\ Spend("syncs")
    /\ \E report \in Report :
         sync' = [sync EXCEPT ![s] =
                    [pc |-> IF report = <<>> THEN "done" ELSE "find",
                     given |-> report, todo |-> report]]
    /\ touched' = [touched EXCEPT ![s] = {}]
    /\ UNCHANGED <<hosts, nextId, owned, probe, edit, taken>>

Asset(s) == Head(sync[s].todo)
Written(s) ==
    LET todo == Tail(sync[s].todo) IN
    sync' = [sync EXCEPT ![s].todo = todo,
                         ![s].pc = IF todo = <<>> THEN "done" ELSE "find"]
\* An error ends the task; the assets that follow are not looked at.
Aborts(s) == /\ sync' = [sync EXCEPT ![s] = Idle]
             /\ UNCHANGED <<hosts, taken, touched>>

\* The status, name and environment of a known host are overwritten.
Overwrite(s, h) ==
    IF Clash(Asset(s), Ids \ {h}) THEN Aborts(s)
    ELSE /\ Put(h, Asset(s))
         /\ taken' = taken \ {h}
         /\ Touch({Asset(s).ip}, s)
         /\ Written(s)
\* update_or_create looks for the ip: two rows end the task.
SyncFind(s) ==
    /\ sync[s].pc = "find"
    /\ LET known == With(Asset(s).ip) IN
         \/ /\ known = {}
            /\ sync' = [sync EXCEPT ![s].pc = "create"]
            /\ UNCHANGED <<hosts, taken, touched>>
         \/ /\ Cardinality(known) > 1 /\ Aborts(s)
         \/ \E h \in Ids : known = {h} /\ Overwrite(s, h)
    /\ UNCHANGED <<nextId, owned, probe, edit, budget>>
\* A refused insert looks for the ip again.
SyncCreate(s) ==
    /\ sync[s].pc = "create"
    /\ LET known == With(Asset(s).ip) IN
         \/ /\ ~Clash(Asset(s), Ids)
            /\ Insert(Asset(s))
            /\ Touch({Asset(s).ip}, s) /\ Written(s) /\ UNCHANGED taken
         \/ /\ Clash(Asset(s), Ids)
            /\ IF known = {} THEN Aborts(s)
               ELSE \E h \in known : Overwrite(s, h)
            /\ UNCHANGED nextId
    /\ UNCHANGED <<owned, probe, edit, budget>>
SyncEnd(s) ==
    /\ sync[s].pc = "done"
    /\ sync' = [sync EXCEPT ![s] = Idle]
    /\ UNCHANGED <<hosts, nextId, owned, probe, edit, taken, touched, budget>>

-----------------------------------------------------------------------------
(* check_host_connectivity: the hosts in use are read in one query.        *)

\* Variant: every host is probed.
ProbeBeginAll ==
    /\ probe = <<>> /\ Spend("probes")
    /\ probe' = [h \in Ids |-> hosts[h].status]
    /\ UNCHANGED <<hosts, nextId, owned, sync, edit, taken, touched>>
ProbeBegin ==
    /\ probe = <<>> /\ Spend("probes")
    /\ probe' = [h \in {i \in Ids : hosts[i].status \in InUse}
                   |-> hosts[h].status]
    /\ UNCHANGED <<hosts, nextId, owned, sync, edit, taken, touched>>

\* The outcome is saved, unless the host has no credential or was online and
\* still answers; saving a host that was deleted raises and ends the check.
Probed(h) == probe' = Restrict(probe, (DOMAIN probe) \ {h})
ProbeHost(h) ==
    /\ h \in DOMAIN probe
    /\ \/ /\ Probed(h)
          /\ UNCHANGED <<hosts, taken, touched>>
       \/ \E status \in {Online, Faulty} :
            /\ status = Faulty \/ probe[h] # Online
            /\ IF h \in Ids
               THEN /\ Put(h, [hosts[h] EXCEPT !.status = status])
                    /\ Touch({hosts[h].ip}, "none")
                    /\ Probed(h)
               ELSE /\ probe' = <<>>
                    /\ UNCHANGED <<hosts, touched>>
            /\ UNCHANGED taken
    /\ UNCHANGED <<nextId, owned, sync, edit, budget>>

-----------------------------------------------------------------------------
(* HostViewSet                                                             *)

\* bulk_import and create: one row of the request.
Import ==
    /\ Spend("edits")
    /\ \E row \in Row : ~Clash(row, Ids) /\ Insert(row)
                       /\ Touch({row.ip}, "none")
    /\ UNCHANGED <<owned, sync, probe, edit, taken>>
\* PATCH: the row that was read is saved whole with the new status, also
\* when the host has been deleted since.
EditRead(e) ==
    /\ edit[e].pc = "idle" /\ Spend("edits")
    /\ \E h \in Ids : edit' = [edit EXCEPT ![e] =
                         [pc |-> "save", host |-> h, row |-> hosts[h]]]
    /\ UNCHANGED <<hosts, nextId, owned, sync, probe, taken, touched>>
EditSave(e) ==
    /\ edit[e].pc = "save"
    /\ LET h == edit[e].host IN
         \/ /\ ~Clash(edit[e].row, Ids \ {h})
            /\ \E status \in Statuses :
                 /\ Put(h, [edit[e].row EXCEPT !.status = status])
                 /\ taken' = IF status \in InUse \/ h \in DOMAIN probe
                             THEN taken \ {h} ELSE taken \cup {h}
            /\ Touch({edit[e].row.ip}, "none")
         \/ /\ Clash(edit[e].row, Ids \ {h})
            /\ UNCHANGED <<hosts, taken, touched>>
    /\ edit' = [edit EXCEPT ![e] = Away]
    /\ UNCHANGED <<nextId, owned, sync, probe, budget>>
Delete(h) ==
    /\ h \in Ids /\ Spend("edits")
    /\ hosts' = Restrict(hosts, Ids \ {h})
    /\ taken' = taken \ {h}
    /\ Touch({hosts[h].ip}, "none")
    /\ UNCHANGED <<nextId, owned, sync, probe, edit>>

Next == \/ \E s \in Syncer : \/ SyncBegin(s) \/ SyncFind(s)
                             \/ SyncCreate(s) \/ SyncEnd(s)
        \/ ProbeBegin \/ \E h \in DOMAIN probe : ProbeHost(h)
        \/ \E e \in Editor : EditRead(e) \/ EditSave(e)
        \/ Import \/ \E h \in Ids : Delete(h)

Spec == Init /\ [][Next]_vars

-----------------------------------------------------------------------------
\* Types.
InventoryTypeOK ==
    /\ nextId \in 1..MaxHosts + 1 /\ Ids \subseteq 1..nextId - 1
    /\ \A h \in Ids : hosts[h] \in Row
    /\ \A s \in Syncer : sync[s].pc \in {"idle", "find", "create", "done"}
    /\ taken \subseteq Ids

\* A host an administrator took out of use stays out of it, unless a check
\* that had listed it was running, until it is edited or synced.
TakenStay == \A h \in taken : hosts[h].status \notin InUse

\* A sync that reaches its end has left every host as it was reported, those
\* somebody else wrote meanwhile apart.
SyncFaithful ==
    \A s \in Syncer : sync[s].pc = "done" =>
        \A a \in Range(sync[s].given) :
            \/ a.ip \in touched[s]
            \/ \E h \in With(a.ip) : hosts[h] = a
HostsSound == TakenStay /\ SyncFaithful
=============================================================================
