----------------------------- MODULE ConfigCenter -----------------------------
(***************************************************************************)
(* The configuration items (apps/config_center), their cached forms in     *)
(* Redis (utils/config_manager), and the messages that tell the processes  *)
(* of a change (utils/config_broadcast, utils/config_subscribers).         *)
(***************************************************************************)
EXTENDS Integers, Sequences

CONSTANTS
    Item,          \* ids of items
    Category, Key, \* names: an item is found by its place, a pair of them
    System,        \* categories of config_center/registry, their keys too
    Reader,        \* requests that read configuration values
    Writer,        \* requests that change an item
    Process,       \* server processes, each with a listener thread
    Value,         \* values of an item
    Changes,       \* bound: changes of items and categories
    ConfigFaults   \* bound: failures of Redis

VARIABLES
    row,           \* ConfigItem, by id: its state, its place, its value
    categories,    \* ConfigCategory: the names there are
    logged,        \* by id: old values in the item's ConfigChangeLog
    cache,         \* the entries of Redis: what each holds, or nothing
    reader, writer,
    wire,          \* per process: messages published and not yet handled
    listening,     \* processes whose subscriber loop runs
    level,         \* per process and place: what its subscribers were told
    stranded,      \* history: entries naming an item where it no longer is
    marred,        \* history: why cache or subscribers may be out of date
    changesLeft, configFaultsLeft

vars == <<row, categories, logged, cache, reader, writer, wire, listening,
          level, stranded, marred, changesLeft, configFaultsLeft>>

Place == Category \X Key
\* The entries that hold an item which is at place p.
Cleared(p) == {<<"item", p>>, <<"category", p[1]>>, <<"all", "all">>}
Entries == UNION {Cleared(p) : p \in Place}
Covered(e) == {p \in Place : e \in Cleared(p)}

\* The value at a place, none or one, as the three queries see it; what an
\* entry should hold of the items.
Current(p) == {row[i].value : i \in {j \in Item : /\ row[j].state = "live"
                                                  /\ row[j].place = p}}
Content(e) == [p \in Covered(e) |-> Current(p)]
Agrees(e)  == cache[e] \subseteq {Content(e)}

NoRow  == [state |-> "new", place |-> <<"none", "none">>, value |-> "none"]
Absent == {"new", "gone"}
\* A request that reads, or changes, nothing.
AtRest == [pc |-> "idle", entry |-> <<"all", "all">>, found |-> {}]
Free   == [pc |-> "idle", kind |-> "none", at |-> "none", item |-> "none",
           new |-> NoRow, old |-> "none", todo |-> {}, told |-> {}]

Init ==
    /\ row = [i \in Item |-> NoRow]
    /\ categories \in SUBSET Category
    /\ logged = [i \in Item |-> {}]
    /\ cache = [e \in Entries |-> {}]
    /\ reader = [r \in Reader |-> AtRest]
    /\ writer = [w \in Writer |-> Free]
    /\ wire = [p \in Process |-> <<>>]
    /\ listening = Process
    /\ level = [p \in Process |-> [q \in Place |-> {}]]
    /\ stranded = {} /\ marred = {}
    /\ changesLeft \in 0..Changes /\ configFaultsLeft \in 0..ConfigFaults

Fault == configFaultsLeft > 0 /\ configFaultsLeft' = configFaultsLeft - 1
Count == changesLeft > 0 /\ changesLeft' = changesLeft - 1

-----------------------------------------------------------------------------
(* Readers: get, get_category_items, get_all_configs.                      *)

\* A hit ends the read.  A miss, or a Redis that does not answer, leads to the
\* database.  Nothing is kept for an item or a category that is not found.
ReadLoad(r, e) ==
    /\ reader[r].pc = "idle"
    /\ \/ cache[e] = {} /\ UNCHANGED configFaultsLeft
       \/ cache[e] # {} /\ Fault
    /\ e[1] = "item" => Current(e[2]) # {}
    /\ e[1] = "category" => e[2] \in categories
    /\ reader' = [reader EXCEPT ![r] =
                    [pc |-> "loaded", entry |-> e, found |-> {Content(e)}]]
    /\ UNCHANGED <<row, categories, logged, cache, writer, wire, listening,
                   level, stranded, marred, changesLeft>>

\* What was read is cached for an hour, or the set fails and is only logged.
ReadFill(r) ==
    /\ reader[r].pc = "loaded"
    /\ \/ /\ cache' = [cache EXCEPT ![reader[r].entry] = reader[r].found]
          /\ stranded' = stranded \ {reader[r].entry}
          /\ UNCHANGED configFaultsLeft
       \/ Fault /\ UNCHANGED <<cache, stranded>>
    /\ reader' = [reader EXCEPT ![r] = AtRest]
    /\ UNCHANGED <<row, categories, logged, writer, wire, listening, level,
                   marred, changesLeft>>

\* CACHE_TIMEOUT: every entry is set with a time to live.
ExpireItems(e) ==              \* variant: get_all_configs sets none
    /\ cache[e] # {} /\ e[1] # "all"
    /\ cache' = [cache EXCEPT ![e] = {}]
    /\ stranded' = stranded \ {e}
    /\ UNCHANGED <<row, categories, logged, reader, writer, wire, listening,
                   level, marred, changesLeft, configFaultsLeft>>
Expire(e) ==
    /\ cache[e] # {}
    /\ cache' = [cache EXCEPT ![e] = {}]
    /\ stranded' = stranded \ {e}
    /\ UNCHANGED <<row, categories, logged, reader, writer, wire, listening,
                   level, marred, changesLeft, configFaultsLeft>>

-----------------------------------------------------------------------------
(* Writers: ConfigItemViewSet and ConfigCache.set, run by a process.       *)

\* A change while others hold what they read, or are telling of their own.
Overlap(w) ==
    IF \/ \E r \in Reader : reader[r].pc # "idle"
       \/ \E x \in Writer \ {w} : writer[x].pc # "idle"
    THEN {"overlap"} ELSE {}

\* What a request makes of the row it read.  PATCH and PUT may change the
\* value, the place and is_active; the new place, not the old one, must lie
\* outside the registered categories.  A rollback returns to the old value of
\* a logged change; one without (a creation) is refused.
Makes(kind, i, new) ==
    LET old == row[i]
    IN  \/ /\ kind = "update"
           /\ \/ new.place = old.place
              \/ new.place[1] \in categories \ System
        \/ /\ kind = "destroy" /\ old.place[1] \notin System
           /\ new = [old EXCEPT !.state = "off"]
        \/ /\ kind \in {"rollback", "set"}
           /\ new = [old EXCEPT !.value = new.value]
           /\ kind = "rollback" => new.value \in logged[i]

\* The handlers read the row first; one that was switched off is not found.
ChangeRead(w, p, kind, i, new) ==
    /\ writer[w].pc = "idle" /\ row[i].state = "live" /\ Makes(kind, i, new)
    /\ writer' = [writer EXCEPT ![w] =
                    [pc |-> "save", kind |-> kind, at |-> p, item |-> i,
                     new |-> new, old |-> row[i].value, todo |-> {},
                     told |-> {}]]
    /\ Count
    /\ UNCHANGED <<row, categories, logged, cache, reader, wire, listening,
                   level, stranded, marred, configFaultsLeft>>

\* (category, key) is unique, for rows that are switched off too.
Taken(i, p) == \E j \in Item \ {i} : row[j].state \notin Absent
                                     /\ row[j].place = p

\* The entries that hold an item and are not cleared when it is saved at p.
LeftBehind(i, p) == IF row[i].state = "live"
                    THEN Cleared(row[i].place) \ Cleared(p) ELSE {}

\* The whole row is saved and, except by set, the change logged with the value
\* read before.  Only the entries of the new place will be cleared: those of
\* the old one stay.  A save of a row deleted meanwhile inserts it again.
ChangeSave(w) ==
    LET i == writer[w].item   new == writer[w].new   kind == writer[w].kind
    IN  /\ writer[w].pc = "save"
        /\ IF Taken(i, new.place)
           THEN /\ writer' = [writer EXCEPT ![w] = Free]
                /\ UNCHANGED <<row, logged, stranded, marred>>
           ELSE /\ row' = [row EXCEPT ![i] = new]
                /\ logged' = [logged EXCEPT ![i] =
                                IF kind = "set" THEN @
                                ELSE @ \cup {writer[w].old}]
                /\ writer' = [writer EXCEPT
                     ![w].pc = IF kind = "set" THEN "put" ELSE "clear",
                     ![w].todo = Cleared(new.place) \
                        (IF kind = "set" THEN {<<"item", new.place>>} ELSE {})]
                /\ stranded' = stranded \cup LeftBehind(i, new.place)
                /\ marred' = marred \cup Overlap(w)
                                    \cup (IF kind = "set" THEN {"set"} ELSE {})
        /\ UNCHANGED <<categories, cache, reader, wire, listening, level,
                       changesLeft, configFaultsLeft>>

\* perform_create, with is_active as sent.  The place of an item that was
\* destroyed stays taken: the row is only switched off.
PerformCreate(w, p, i, new) ==
    /\ writer[w].pc = "idle" /\ row[i].state = "new"
    /\ new.place[1] \in categories /\ ~Taken(i, new.place)
    /\ row' = [row EXCEPT ![i] = new]
    /\ writer' = [writer EXCEPT ![w] =
                    [pc |-> "clear", kind |-> "create", at |-> p, item |-> i,
                     new |-> new, old |-> "none",
                     todo |-> Cleared(new.place), told |-> {}]]
    /\ marred' = marred \cup Overlap(w)
    /\ Count
    /\ UNCHANGED <<categories, logged, cache, reader, wire, listening, level,
                   stranded, configFaultsLeft>>

\* ConfigCache.set writes the item's entry, and clears the other two.
ConfigSetPut(w) ==
    LET new == writer[w].new   e == <<"item", new.place>>
    IN  /\ writer[w].pc = "put"
        /\ \/ /\ cache' = [cache EXCEPT ![e] =
                             {[p \in Covered(e) |-> {new.value}]}]
              /\ stranded' = stranded \ {e}
              /\ UNCHANGED <<configFaultsLeft, marred>>
           \/ /\ Fault /\ marred' = marred \cup {"redis"}
              /\ UNCHANGED <<cache, stranded>>
        /\ writer' = [writer EXCEPT ![w].pc = "clear"]
        /\ UNCHANGED <<row, categories, logged, reader, wire, listening, level,
                       changesLeft>>

\* ConfigCache.invalidate deletes the entries one after the other; a failure is
\* logged and the next one is tried.
InvalidateTwo(w, e) ==         \* variant: the entry of all items is kept
    /\ writer[w].pc = "clear" /\ e \in writer[w].todo
    /\ cache' = [cache EXCEPT ![e] = IF e[1] = "all" THEN @ ELSE {}]
    /\ writer' = [writer EXCEPT ![w].todo = @ \ {e}]
    /\ UNCHANGED <<row, categories, logged, reader, wire, listening, level,
                   stranded, marred, changesLeft, configFaultsLeft>>
Invalidate(w, e) ==
    /\ writer[w].pc = "clear" /\ e \in writer[w].todo
    /\ \/ /\ cache' = [cache EXCEPT ![e] = {}]
          /\ stranded' = stranded \ {e}
          /\ UNCHANGED <<configFaultsLeft, marred>>
       \/ /\ Fault /\ marred' = marred \cup {"redis"}
          /\ UNCHANGED <<cache, stranded>>
    /\ writer' = [writer EXCEPT ![w].todo = @ \ {e}]
    /\ UNCHANGED <<row, categories, logged, reader, wire, listening, level,
                   changesLeft>>

\* _notify_config_changed reads the value again and tells the subscribers of
\* its own process, unless there is none.  ConfigCache.set tells nobody.
Tell(p, place, told) ==
    level' = IF told = {} THEN level
             ELSE [level EXCEPT ![p] = [@ EXCEPT ![place] = told]]
NotifySelf(w) ==
    LET place == writer[w].new.place
    IN  /\ writer[w].pc = "clear" /\ writer[w].todo = {}
        /\ IF writer[w].kind = "set"
           THEN writer' = [writer EXCEPT ![w] = Free] /\ UNCHANGED level
           ELSE /\ writer' = [writer EXCEPT ![w].pc = "publish",
                                            ![w].told = Current(place)]
                /\ Tell(writer[w].at, place, Current(place))
        /\ UNCHANGED <<row, categories, logged, cache, reader, wire, listening,
                       stranded, marred, changesLeft, configFaultsLeft>>

\* broadcast_config_change: every process that listens gets the message, the
\* publisher's own listener too; a failure is logged.
Broadcast(w) ==
    LET message == [place |-> writer[w].new.place, told |-> writer[w].told]
    IN  /\ writer[w].pc = "publish"
        /\ \/ /\ wire' = [p \in Process |->
                            IF p \in listening THEN Append(wire[p], message)
                            ELSE wire[p]]
              /\ UNCHANGED <<marred, configFaultsLeft>>
           \/ Fault /\ marred' = marred \cup {"redis"} /\ UNCHANGED wire
        /\ writer' = [writer EXCEPT ![w] = Free]
        /\ UNCHANGED <<row, categories, logged, cache, reader, listening, level,
                       stranded, changesLeft>>

-----------------------------------------------------------------------------
(* ConfigCategoryViewSet: nothing is cleared and nobody is told.           *)

In(i, c) == row[i].state \notin Absent /\ row[i].place[1] = c
Saving(w, c) == writer[w].pc = "save" /\ writer[w].new.place[1] = c

CreateCategory(c) ==
    /\ c \notin categories /\ categories' = categories \cup {c} /\ Count
    /\ UNCHANGED <<row, logged, cache, reader, writer, wire, listening, level,
                   stranded, marred, configFaultsLeft>>

\* PATCH of the name, a registered one too.  The items follow, and what is
\* saved with the category's id.
RenameCategory(c, d) ==
    LET Follow(r) == [r EXCEPT !.place = <<d, r.place[2]>>]
    IN  /\ c \in categories /\ d \notin categories
        /\ categories' = (categories \ {c}) \cup {d}
        /\ row' = [i \in Item |-> IF In(i, c) THEN Follow(row[i]) ELSE row[i]]
        /\ writer' = [w \in Writer |->
                        IF Saving(w, c)
                        THEN [writer[w] EXCEPT !.new = Follow(writer[w].new)]
                        ELSE writer[w]]
        /\ marred' = marred \cup {"category"}
        /\ Count
        /\ UNCHANGED <<logged, cache, reader, wire, listening, level, stranded,
                       configFaultsLeft>>

\* destroy: the database deletes the items, their logs lose them, and what is
\* saved with the category's id is refused.
DestroyCategory(c) ==
    /\ c \in categories \ System
    /\ categories' = categories \ {c}
    /\ row' = [i \in Item |-> IF In(i, c) THEN [NoRow EXCEPT !.state = "gone"]
                              ELSE row[i]]
    /\ logged' = [i \in Item |-> IF In(i, c) THEN {} ELSE logged[i]]
    /\ writer' = [w \in Writer |-> IF Saving(w, c) THEN Free ELSE writer[w]]
    /\ marred' = marred \cup {"category"}
    /\ Count
    /\ UNCHANGED <<cache, reader, wire, listening, level, stranded,
                   configFaultsLeft>>

-----------------------------------------------------------------------------
(* The listener thread of a process.                                       *)

\* on_config_broadcast_received: the entries are cleared once more, and the
\* subscribers told; a subscriber refuses None and its error is logged.
OnBroadcast(p) ==
    LET message == Head(wire[p])   cleared == Cleared(message.place)
    IN  /\ wire[p] # <<>>
        /\ cache' = [e \in Entries |-> IF e \in cleared THEN {} ELSE cache[e]]
        /\ stranded' = stranded \ cleared
        /\ Tell(p, message.place, message.told)
        /\ wire' = [wire EXCEPT ![p] = Tail(@)]
        /\ UNCHANGED <<row, categories, logged, reader, writer, listening,
                       marred, changesLeft, configFaultsLeft>>

\* _subscribe_loop: an error of the connection ends it for good.
ListenerEnds(p) ==
    /\ p \in listening /\ Fault
    /\ listening' = listening \ {p}
    /\ wire' = [wire EXCEPT ![p] = <<>>]
    /\ marred' = marred \cup {"deaf"}
    /\ UNCHANGED <<row, categories, logged, cache, reader, writer, level,
                   stranded, changesLeft>>

-----------------------------------------------------------------------------
RowAt == [state : {"live", "off"}, place : Place, value : Value]
WriterStep(w) ==
    \/ ChangeSave(w) \/ ConfigSetPut(w) \/ NotifySelf(w) \/ Broadcast(w)
    \/ \E e \in Entries : Invalidate(w, e)

Next ==
    \/ \E r \in Reader : ReadFill(r) \/ \E e \in Entries : ReadLoad(r, e)
    \/ \E w \in Writer :
          \/ WriterStep(w)
          \/ \E p \in Process, i \in Item, new \in RowAt :
                \/ PerformCreate(w, p, i, new)
                \/ \E kind \in {"update", "destroy", "rollback", "set"} :
                      ChangeRead(w, p, kind, i, new)
    \/ \E c \in Category : \/ CreateCategory(c) \/ DestroyCategory(c)
                           \/ \E d \in Category : RenameCategory(c, d)
    \/ \E e \in Entries : Expire(e)
    \/ \E p \in Process : OnBroadcast(p) \/ ListenerEnds(p)

Spec == Init /\ [][Next]_vars

\* Requests go on, and Redis drops an entry when its time is over.
Fairness ==
    /\ \A r \in Reader : WF_vars(ReadFill(r))
    /\ \A w \in Writer : WF_vars(WriterStep(w))
    /\ \A e \in Entries : WF_vars(Expire(e))

FairSpec == Spec /\ Fairness

-----------------------------------------------------------------------------
(* Properties.                                                             *)

Rows == RowAt \cup {NoRow, [NoRow EXCEPT !.state = "gone"]}
Contents(e) == [Covered(e) -> SUBSET Value]

ConfigTypeOK ==
    /\ row \in [Item -> Rows] /\ categories \subseteq Category
    /\ logged \in [Item -> SUBSET Value]
    /\ DOMAIN cache = Entries
    /\ \A e \in Entries : \A c \in cache[e] : c \in Contents(e)
    /\ \A r \in Reader :
          /\ reader[r].pc \in {"idle", "loaded"} /\ reader[r].entry \in Entries
          /\ \A c \in reader[r].found : c \in Contents(reader[r].entry)
    /\ writer \in [Writer ->
                     [pc : {"idle", "save", "put", "clear", "publish"},
                      kind : {"none", "create", "update", "destroy",
                              "rollback", "set"},
                      at : Process \cup {"none"}, item : Item \cup {"none"},
                      new : Rows, old : Value \cup {"none"},
                      todo : SUBSET Entries, told : SUBSET Value]]
    /\ wire \in [Process -> Seq([place : Place, told : SUBSET Value])]
    /\ listening \subseteq Process
    /\ level \in [Process -> [Place -> SUBSET Value]]
    /\ stranded \subseteq Entries
    /\ marred \subseteq {"overlap", "redis", "deaf", "set", "category"}
    /\ changesLeft \in 0..Changes /\ configFaultsLeft \in 0..ConfigFaults

\* When no writer is at work, what Redis holds agrees with the database, and
\* the subscribers of every process that has no message waiting were told the
\* value of each item there is.  The exceptions: an entry that names an item
\* at the place it was moved from, until it expires or that place changes
\* again; and the causes kept in marred: a change that overlapped a read or
\* another change, a Redis that failed, a listener that ended, a set that tells
\* nobody, a category renamed or deleted with its items.
ConfigAgrees ==
    (\A w \in Writer : writer[w].pc \in {"idle", "save"}) =>
        /\ marred \cap {"overlap", "redis", "category"} = {}
           => \A e \in Entries \ stranded : Agrees(e)
        /\ marred = {}
           => \A p \in Process, q \in Place :
                 wire[p] = <<>> /\ Current(q) # {} => level[p][q] = Current(q)

\* Whatever went wrong, once the changes are over no entry of Redis differs
\* from the database for ever: the time to live repairs what the deletions
\* missed.
StaleEnds == <>[](\A e \in Entries : Agrees(e))
=============================================================================
