---------------------------- MODULE BackupRestore ----------------------------
(***************************************************************************)
(* Restoring a backup (system_management.backup): records are matched with *)
(* the rows of the database or created, references by id are rewritten to  *)
(* the ids the records have here, in one transaction that survives the     *)
(* failure of single records.                                              *)
(*                                                                         *)
(* One table of assets stands for the rows others refer to.  What          *)
(* unique_fields says of the table decides how a record finds its row:     *)
(*   key    a natural key the database keeps unique (projects, clusters)   *)
(*   loose  one it does not (hosts by name), perhaps with a foreign key    *)
(*          that may be null (Ansible tasks)                               *)
(*   none   nothing: every restore makes new rows (platforms, baselines)   *)
(*   id     the old id (runs, schedules, tickets)                          *)
(* A pipeline with its versions stands for the rows that refer: by a       *)
(* foreign key and by ids embedded in its graph; a share between projects  *)
(* for those whose natural key holds the old id of an asset.               *)
(***************************************************************************)
EXTENDS Integers, FiniteSetsExt

CONSTANTS
    Key,           \* natural keys of assets
    MaxId,         \* bound: ids of assets, where the backup was made and here
    RestoreFaults  \* bound: records whose import raises an exception

VARIABLES
    backup,      \* the file: assets by their old id, a pipeline, a share
    db,          \* the database here, ids are given out in order
    saved,       \* the database when the transaction began
    sharing,     \* the assets two shares lead to: one here, one created
    sharingHere, \* sharing when the transaction began
    idMap,       \* old id of an asset -> its id here, 0 when not imported
    shareMap,    \* the row of the share imported, 0 when none is
    todo,        \* asset records phase 1 has still to import
    mapped,      \* was the pipeline's record imported, and which versions
    errors,      \* was an error recorded: the restore is no success
    unresolved,  \* references reported as unresolved
    file,        \* the file in media/backups: made here, uploaded, or none
    phase,
    restoreFaults

vars == <<backup, db, saved, sharing, sharingHere, idMap, shareMap, todo,
          mapped, errors, unresolved, file, phase, restoreFaults>>

Ids     == 1..MaxId
Olds    == {1, 3}              \* ids the assets had where the file was made
Tables  == {"key", "loose", "none", "id"}
NoAsset == "none"
NoPipe  == [there |-> FALSE, fk |-> 0, ref |-> 0]
Old(number, ref, current) ==
    [number |-> number, ref |-> ref, current |-> current]

\* A row of the table; one made from a record whose foreign key could not be
\* mapped is not whole, and has not the record's natural key.
Row(key, whole) == [key |-> key, whole |-> whole]
NoRow   == Row(NoAsset, TRUE)
Made(o) == Row(backup.assets[o], o \notin backup.orphans)

Distinct(assets) ==
    \A a, b \in DOMAIN assets :
        assets[a] = assets[b] /\ a # b => assets[a] = NoAsset

\* BackupExporter.export reads model after model without a transaction: the
\* assets a pipeline refers to, and those that are part of an asset's natural
\* key, may be missing in the file.  Here, the same pipeline (by name), its
\* version 1, some of the assets and a share may exist already.
Init ==
    /\ \E match \in Tables, assets \in [Olds -> Key \cup {NoAsset}],
          orphans \in SUBSET Olds, fk, ref \in Olds, share \in Olds \cup {0} :
          /\ match = "key" => Distinct(assets)
          /\ match # "loose" => orphans = {}
          /\ backup = [match |-> match, assets |-> assets, orphans |-> orphans,
                       fk |-> fk, ref |-> ref, share |-> share,
                       versions |-> {Old(1, ref, TRUE)}]
    /\ \E assets \in [1..2 -> Key \cup {NoAsset}], there \in BOOLEAN :
          /\ backup.match = "key" => Distinct(assets)
          /\ db = [assets |-> [i \in Ids |-> IF i \in 1..2
                                             THEN Row(assets[i], TRUE)
                                             ELSE NoRow],
                   nextId |-> 3,
                   pipe |-> IF there THEN [there |-> TRUE, fk |-> 0, ref |-> 1]
                            ELSE NoPipe,
                   versions |-> IF there THEN {Old(1, 1, TRUE)} ELSE {}]
    /\ \E a \in 0..2 : sharing = [s \in 1..2 |-> IF s = 1 THEN a ELSE 0]
    /\ saved = db /\ sharingHere = sharing
    /\ idMap = [o \in Olds |-> 0] /\ shareMap = 0
    /\ todo = {o \in Olds : backup.assets[o] # NoAsset}
    /\ mapped = [pipe |-> FALSE, versions |-> {}]
    /\ errors = FALSE /\ unresolved = {}
    /\ file = "none" /\ phase = "idle" /\ restoreFaults = RestoreFaults

-----------------------------------------------------------------------------
(* BackupViewSet: the file.                                                *)

Generate ==
    /\ phase = "idle" /\ file = "none" /\ file' = "made"
    /\ UNCHANGED <<backup, db, saved, sharing, sharingHere, idMap, shareMap,
                   todo, mapped, errors, unresolved, phase, restoreFaults>>
RestoreFile ==
    /\ phase = "idle" /\ file = "made" /\ phase' = "shares"
    /\ UNCHANGED <<backup, db, saved, sharing, sharingHere, idMap, shareMap,
                   todo, mapped, errors, unresolved, file, restoreFaults>>
\* An upload is stored and restored; one that cannot be read stays stored.
Upload ==
    /\ phase = "idle" /\ file = "none" /\ file' = "uploaded"
    /\ phase' \in {"shares", "unread"}
    /\ UNCHANGED <<backup, db, saved, sharing, sharingHere, idMap, shareMap,
                   todo, mapped, errors, unresolved, restoreFaults>>
UploadEnd ==
    /\ phase \in {"committed", "rolledback"} /\ file = "uploaded"
    /\ file' = "none"
    /\ UNCHANGED <<backup, db, saved, sharing, sharingHere, idMap, shareMap,
                   todo, mapped, errors, unresolved, phase, restoreFaults>>
\* The file was read as a whole, so it may be deleted at any time.
Delete ==
    /\ file # "none" /\ file' = "none"
    /\ UNCHANGED <<backup, db, saved, sharing, sharingHere, idMap, shareMap,
                   todo, mapped, errors, unresolved, phase, restoreFaults>>

-----------------------------------------------------------------------------
(* Phase 1: the rows, with those foreign keys that can be mapped already.  *)

\* A share is looked up with the asset's old id: a share here of the row that
\* happens to have this id is taken for it.
ImportShare ==
    LET s == IF sharing[1] = backup.share THEN 1 ELSE 2
    IN  /\ phase = "shares" /\ phase' = "assets"
        /\ IF backup.share = 0 THEN UNCHANGED <<sharing, shareMap>>
           ELSE /\ sharing' = [sharing EXCEPT ![s] = backup.share]
                /\ shareMap' = s
        /\ UNCHANGED <<backup, db, saved, sharingHere, idMap, todo, mapped,
                       errors, unresolved, file, restoreFaults>>
SkipShare ==
    /\ phase = "shares" /\ backup.share # 0 /\ restoreFaults > 0
    /\ phase' = "assets" /\ errors' = TRUE
    /\ restoreFaults' = restoreFaults - 1
    /\ UNCHANGED <<backup, db, saved, sharing, sharingHere, idMap, shareMap,
                   todo, mapped, unresolved, file>>

\* _build_lookup: the rows a record may update; without any it is created.
Found(o) ==
    CASE backup.match = "none" -> {}
      [] backup.match = "id" -> {i \in Ids : i = o /\ db.assets[i] # NoRow}
      [] OTHER -> {i \in Ids : /\ o \notin backup.orphans
                              /\ db.assets[i] = Made(o)}
ImportAsset(o) ==
    /\ phase = "assets" /\ o \in todo
    /\ \E i \in IF Found(o) # {} THEN Found(o) ELSE {db.nextId} :
          /\ db' = [db EXCEPT !.assets[i] = Made(o),
                              !.nextId = IF i = @ THEN i + 1 ELSE @]
          /\ idMap' = [idMap EXCEPT ![o] = i]
    /\ todo' = todo \ {o}
    /\ UNCHANGED <<backup, saved, sharing, sharingHere, shareMap, mapped,
                   errors, unresolved, file, phase, restoreFaults>>

\* An exception is recorded and the next record imported; what else fails in
\* the transaction is recorded too.
SkipAsset(o) ==
    /\ phase = "assets" /\ o \in todo /\ restoreFaults > 0
    /\ todo' = todo \ {o} /\ errors' = TRUE
    /\ restoreFaults' = restoreFaults - 1
    /\ UNCHANGED <<backup, db, saved, sharing, sharingHere, idMap, shareMap,
                   mapped, unresolved, file, phase>>

Mapped(old, else) == IF old \in Olds /\ idMap[old] # 0 THEN idMap[old] ELSE else

\* The graph still holds the old ids.  Updating an existing pipeline calls
\* Pipeline.save: a snapshot of it becomes the current version.
ImportPipeline ==
    LET fk    == Mapped(backup.fk, db.pipe.fk)
        next  == Max({v.number : v \in db.versions} \cup {0}) + 1
        marks == {[v EXCEPT !.current = FALSE] : v \in db.versions}
    IN  /\ phase = "assets" /\ todo = {}
        /\ phase' = "versions"
        /\ db' = [db EXCEPT
                    !.pipe = [there |-> TRUE, fk |-> fk, ref |-> backup.ref],
                    !.versions = IF db.pipe.there
                                 THEN marks \cup {Old(next, backup.ref, TRUE)}
                                 ELSE {}]
        /\ mapped' = [mapped EXCEPT !.pipe = TRUE]
        /\ UNCHANGED <<backup, saved, sharing, sharingHere, idMap, shareMap,
                       todo, errors, unresolved, file, restoreFaults>>
SkipPipeline ==
    /\ phase = "assets" /\ todo = {} /\ restoreFaults > 0
    /\ phase' = "versions" /\ errors' = TRUE
    /\ restoreFaults' = restoreFaults - 1
    /\ UNCHANGED <<backup, db, saved, sharing, sharingHere, idMap, shareMap,
                   todo, mapped, unresolved, file>>

\* A version is matched by (pipeline, version_number) and written as it is in
\* the file; without its pipeline it cannot be created.
ImportVersions ==
    LET numbers == {v.number : v \in backup.versions}
    IN  /\ phase = "versions"
        /\ phase' = "keys"
        /\ IF mapped.pipe
           THEN /\ db' = [db EXCEPT !.versions =
                            {v \in @ : v.number \notin numbers}
                            \cup backup.versions]
                /\ mapped' = [mapped EXCEPT !.versions = numbers]
                /\ UNCHANGED errors
           ELSE errors' = TRUE /\ UNCHANGED <<db, mapped>>
        /\ UNCHANGED <<backup, saved, sharing, sharingHere, idMap, shareMap,
                       todo, unresolved, file, restoreFaults>>

-----------------------------------------------------------------------------
(* Phases 2 to 4: references.                                              *)

\* Foreign keys (and many-to-many rows) are mapped or reported, those an asset
\* was created without as well.
ImportKeys ==
    /\ phase = "keys"
    /\ phase' = "links"
    /\ db' = IF mapped.pipe
             THEN [db EXCEPT !.pipe.fk = Mapped(backup.fk, @)] ELSE db
    /\ unresolved' = unresolved
          \cup {t \in {"fk"} : mapped.pipe /\ Mapped(backup.fk, 0) = 0}
          \cup {t \in {"parent"} : \E o \in backup.orphans : idMap[o] # 0}
    /\ UNCHANGED <<backup, saved, sharing, sharingHere, idMap, shareMap, todo,
                   mapped, errors, file, restoreFaults>>

\* The asset of the share, whose row has still the old id.  When the asset is
\* shared here already the database refuses the row, every later statement
\* fails and the transaction is rolled back.
Target == Mapped(sharing[shareMap], sharing[shareMap])
Refused == /\ shareMap # 0 /\ Target # sharing[shareMap]
           /\ \E s \in 1..2 : s # shareMap /\ sharing[s] = Target
RemapShares ==
    /\ phase = "links" /\ ~Refused
    /\ phase' = "refs"
    /\ sharing' = IF shareMap = 0 THEN sharing
                 ELSE [sharing EXCEPT ![shareMap] = Target]
    /\ unresolved' = unresolved
          \cup {t \in {"share"} : /\ shareMap # 0
                                  /\ Mapped(sharing[shareMap], 0) = 0}
    /\ UNCHANGED <<backup, db, saved, sharingHere, idMap, shareMap, todo,
                   mapped, errors, file, restoreFaults>>
RefuseShare ==
    /\ phase = "links" /\ Refused
    /\ db' = saved /\ sharing' = sharingHere /\ errors' = TRUE
    /\ phase' = "rolledback"
    /\ UNCHANGED <<backup, saved, sharingHere, idMap, shareMap, todo, mapped,
                   unresolved, file, restoreFaults>>

\* Ids embedded in the graphs of the imported pipelines and versions; the
\* snapshot made in phase 1 is not among them.
RemapRefsTwice ==              \* variant: an id that was mapped is mapped again
    /\ phase = "refs"
    /\ phase' = "commit"
    /\ db' = [db EXCEPT
                !.pipe.ref = IF mapped.pipe
                             THEN Mapped(Mapped(@, @), Mapped(@, @)) ELSE @,
                !.versions = {[v EXCEPT !.ref = IF v.number \in mapped.versions
                                                THEN Mapped(@, @) ELSE @] :
                                v \in @}]
    /\ unresolved' = IF mapped.pipe /\ Mapped(db.pipe.ref, 0) = 0
                     THEN unresolved \cup {"ref"} ELSE unresolved
    /\ UNCHANGED <<backup, saved, sharing, sharingHere, idMap, shareMap, todo,
                   mapped, errors, file, restoreFaults>>
RemapRefs ==
    /\ phase = "refs"
    /\ phase' = "commit"
    /\ db' = [db EXCEPT
                !.pipe.ref = IF mapped.pipe THEN Mapped(@, @) ELSE @,
                !.versions = {[v EXCEPT !.ref = IF v.number \in mapped.versions
                                                THEN Mapped(@, @) ELSE @] :
                                v \in @}]
    /\ unresolved' = IF mapped.pipe /\ Mapped(db.pipe.ref, 0) = 0
                     THEN unresolved \cup {"ref"} ELSE unresolved
    /\ UNCHANGED <<backup, saved, sharing, sharingHere, idMap, shareMap, todo,
                   mapped, errors, file, restoreFaults>>

-----------------------------------------------------------------------------
(* The transaction.                                                        *)

Commit ==
    /\ phase = "commit" /\ phase' = "committed"
    /\ UNCHANGED <<backup, db, saved, sharing, sharingHere, idMap, shareMap,
                   todo, mapped, errors, unresolved, file, restoreFaults>>

\* A wrong passphrase aborts the import; an error of the database while a row
\* is updated is recorded, every later statement fails, and the transaction
\* cannot be committed.
RollBack ==
    /\ phase \in {"shares", "assets", "versions", "keys", "links", "refs"}
    /\ restoreFaults > 0
    /\ restoreFaults' = restoreFaults - 1
    /\ db' = saved /\ sharing' = sharingHere /\ errors' = TRUE
    /\ phase' = "rolledback"
    /\ UNCHANGED <<backup, saved, sharingHere, idMap, shareMap, todo, mapped,
                   unresolved, file>>

Next ==
    \/ Generate \/ RestoreFile \/ Upload \/ UploadEnd \/ Delete
    \/ ImportShare \/ SkipShare
    \/ \E o \in Olds : ImportAsset(o) \/ SkipAsset(o)
    \/ ImportPipeline \/ SkipPipeline \/ ImportVersions \/ ImportKeys
    \/ RemapShares \/ RefuseShare \/ RemapRefs \/ Commit \/ RollBack

Spec == Init /\ [][Next]_vars

-----------------------------------------------------------------------------
(* Properties.                                                             *)

Versions == [number : 1..2, ref : 0..MaxId, current : BOOLEAN]
Rows == [key : Key, whole : BOOLEAN] \cup {NoRow}
RestoreTypeOK ==
    /\ backup \in [match : Tables, assets : [Olds -> Key \cup {NoAsset}],
                   orphans : SUBSET Olds, fk : Olds, ref : Olds,
                   share : Olds \cup {0}, versions : SUBSET Versions]
    /\ {db, saved} \subseteq
           [assets : [Ids -> Rows], nextId : 1..(MaxId + 1),
            pipe : [there : BOOLEAN, fk : 0..MaxId, ref : 0..MaxId],
            versions : SUBSET Versions]
    /\ {sharing, sharingHere} \subseteq [1..2 -> 0..MaxId]
    /\ idMap \in [Olds -> 0..MaxId] /\ shareMap \in 0..2
    /\ todo \subseteq Olds
    /\ mapped \in [pipe : BOOLEAN, versions : SUBSET (1..2)]
    /\ errors \in BOOLEAN
    /\ unresolved \subseteq {"fk", "ref", "share", "parent"}
    /\ file \in {"none", "made", "uploaded"}
    /\ phase \in {"idle", "unread", "shares", "assets", "versions", "keys",
                  "links", "refs", "commit", "committed", "rolledback"}
    /\ restoreFaults \in 0..RestoreFaults

\* id is where the record with this old id was imported, and the row is the
\* record's.  In a table matched by old ids a later record may have taken the
\* row: ids given out here meet those of the file.
Refers(id, old) ==
    /\ id # 0 /\ id = idMap[old]
    /\ db.assets[id] = Made(old) \/ backup.match = "id"

\* Every reference of what was imported leads to its record's row, or is
\* reported.
Resolved ==
    /\ mapped.pipe =>
          /\ Refers(db.pipe.fk, backup.fk) \/ "fk" \in unresolved
          /\ \/ Refers(db.pipe.ref, backup.ref)
                /\ \A v \in db.versions :
                      v.number \in mapped.versions => v.ref = db.pipe.ref
             \/ "ref" \in unresolved
    /\ shareMap # 0 =>
          Refers(sharing[shareMap], backup.share) \/ "share" \in unresolved
    /\ \A o \in backup.orphans : idMap[o] # 0 => "parent" \in unresolved

\* Rows that were here are left as they were, except one whose id is that of a
\* record in a table matched by ids, and a share that is taken for another.
Left ==
    /\ \A i \in Ids : saved.assets[i] # NoRow =>
          \/ db.assets[i] = saved.assets[i]
          \/ /\ backup.match = "id" /\ i \in Olds
             /\ backup.assets[i] # NoAsset
    /\ sharingHere[1] \in {0, sharing[1], backup.share}

\* With a natural key no asset is doubled: two rows have one only if both were
\* here before.
Single ==
    backup.match \in {"key", "loose"} =>
       \A i, j \in Ids :
          /\ i # j /\ db.assets[i] = db.assets[j]
          /\ db.assets[i] # NoRow /\ db.assets[i].whole
          => saved.assets[i] = db.assets[i] /\ saved.assets[j] = db.assets[j]

\* When ids here are taken by other rows, references lead to what was imported
\* or are reported, and nothing is taken over or doubled where the tables have
\* natural keys; a success means that everything was imported, a roll-back
\* that nothing was.  Code: the id map, unique_fields, the recorded errors.
RestoreSound ==
    /\ phase = "committed" => Resolved
    /\ Left /\ Single
    /\ phase = "committed" /\ ~errors =>
          /\ mapped.pipe /\ (backup.share # 0 => shareMap # 0)
          /\ \A o \in Olds : backup.assets[o] # NoAsset =>
                 Refers(idMap[o], o)
    /\ phase = "rolledback" => db = saved /\ sharing = sharingHere /\ errors
=============================================================================
