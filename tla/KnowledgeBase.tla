---------------------------- MODULE KnowledgeBase ----------------------------
(***************************************************************************)
(* The knowledge base (ai_engine): documents in the database, their chunks *)
(* in the database, and the vectors of the chunks in a vector store that   *)
(* takes part in no transaction.  Tasks index a document or all documents; *)
(* views edit and delete documents and chunks meanwhile.                   *)
(*                                                                         *)
(* A vector is named by document and index, so adding it twice leaves one. *)
(* A document is split in one or two chunks, each time anew: its text comes *)
(* from a model or is edited, and the size of a chunk from the settings.   *)
(***************************************************************************)
EXTENDS Naturals

CONSTANTS
    Doc,         \* ids of documents
    Worker,      \* processes running the indexing tasks
    Messages,    \* bound: messages sent to the task queue
    KbEdits,     \* bound: edits and deletions
    KbFaults     \* bound: failed extractions, workers that die

VARIABLES
    doc,         \* KnowledgeDocument rows
    rows,        \* indexes of the KnowledgeChunk rows of a document, or 0
                 \* for a row that came without a vector of its own
    vec,         \* indexes of its vectors in the collection tasks write to
    ownHome,     \* does the knowledge base name that collection as its own
    job,         \* what each worker does
    queue,       \* queued messages: a document to index, or "all"
    doomed,      \* documents whose destroy has cleared the vectors only
    kb,          \* KnowledgeBase.reindex_status
    spoilt,      \* history: something failed or was deleted during indexing
    deleted,     \* history: documents deleted and not written again
    messages, kbEdits, kbFaults

vars == <<doc, rows, vec, ownHome, job, queue, doomed, kb, spoilt, deleted,
          messages, kbEdits, kbFaults>>

None    == "none"
NoDoc   == [there |-> FALSE, status |-> "ready", kind |-> "note"]
AtRest  == [pc |-> "rest", doc |-> None, parts |-> 1, all |-> FALSE,
            list |-> [d \in Doc |-> {}], left |-> {}]
Saved(d, status) == [doc EXCEPT ![d].status = status]
Busy(d) == \E w \in Worker :
               job[w].pc # "rest" /\ (job[w].doc = d \/ job[w].all)
Spoil(d) == spoilt' = IF Busy(d) THEN spoilt \cup {d} ELSE spoilt

Init ==
    /\ doc = [d \in Doc |-> NoDoc]
    /\ rows = [d \in Doc |-> {}] /\ vec = [d \in Doc |-> {}]
    /\ ownHome \in BOOLEAN
    /\ job = [w \in Worker |-> AtRest]
    /\ queue = {} /\ doomed = {} /\ kb = "idle" /\ spoilt = {} /\ deleted = {}
    /\ messages = Messages /\ kbEdits = KbEdits /\ kbFaults = KbFaults

-----------------------------------------------------------------------------
(* Views.                                                                  *)

\* KnowledgeDocumentViewSet.create: an uploaded file is stored 'pending' and
\* queued, a typed note is 'ready' at once, though not indexed.
Upload(d) ==
    /\ ~doc[d].there /\ d \notin deleted /\ messages > 0
    /\ doc' = [doc EXCEPT ![d] = [NoDoc EXCEPT !.there = TRUE, !.kind = "file",
                                               !.status = "pending"]]
    /\ queue' = queue \cup {d} /\ messages' = messages - 1
    /\ UNCHANGED <<rows, vec, ownHome, job, doomed, kb, spoilt, deleted,
                   kbEdits, kbFaults>>
CreateNote(d) ==
    /\ ~doc[d].there /\ d \notin deleted
    /\ doc' = [doc EXCEPT ![d].there = TRUE]
    /\ UNCHANGED <<rows, vec, ownHome, job, queue, doomed, kb, spoilt, deleted,
                   messages, kbEdits, kbFaults>>

\* save_to_knowledge, by RAGService.add_knowledge: a document of the default
\* knowledge base and its vectors, but no chunk rows.  The task that would sum
\* up a run calls a method RAGService does not have.
AddKnowledge(d) ==
    /\ ~doc[d].there /\ d \notin deleted
    /\ \E n \in 1..2, stored \in BOOLEAN :
          /\ stored \/ kbFaults > 0
          /\ doc' = [doc EXCEPT ![d] = [NoDoc EXCEPT !.there = TRUE,
                                                      !.kind = "export"]]
          /\ vec' = IF stored THEN [vec EXCEPT ![d] = 1..n] ELSE vec
          /\ kbFaults' = IF stored THEN kbFaults ELSE kbFaults - 1
    /\ UNCHANGED <<rows, ownHome, job, queue, doomed, kb, spoilt, deleted,
                   messages, kbEdits>>

\* A PATCH of a document, its status included, starts no indexing.
EditDocument(d) ==
    /\ doc[d].there /\ kbEdits > 0 /\ kbEdits' = kbEdits - 1
    /\ \E status \in {"pending", "ready", "error"} : doc' = Saved(d, status)
    /\ UNCHANGED <<rows, vec, ownHome, job, queue, doomed, kb, spoilt, deleted,
                   messages, kbFaults>>

\* KnowledgeChunkViewSet: a chunk that is posted, or that a PATCH brings from
\* another document, has no vector here.
CreateChunk(d) ==
    /\ doc[d].there /\ kbEdits > 0 /\ kbEdits' = kbEdits - 1
    /\ rows' = [rows EXCEPT ![d] = @ \cup {0}]
    /\ UNCHANGED <<doc, vec, ownHome, job, queue, doomed, kb, spoilt, deleted,
                   messages, kbFaults>>
\* A PATCH gives the chunk to another document.  Its vector keeps the id, and
\* goes with the chunk when that is deleted: this document is not followed on.
MoveChunk(d, i) ==
    /\ i \in rows[d] /\ kbEdits > 0 /\ kbEdits' = kbEdits - 1
    /\ rows' = [rows EXCEPT ![d] = @ \ {i}]
    /\ spoilt' = spoilt \cup {d}
    /\ UNCHANGED <<doc, vec, ownHome, job, queue, doomed, kb, deleted, messages,
                   kbFaults>>

\* update_chunk writes the vector of the chunk's id again; delete_chunk
\* removes vector and row, and neither if the chunk has no vector.
UpdateChunkRemoves(d, i) ==    \* variant: the old vector goes, none comes
    /\ i \in rows[d] /\ kbEdits > 0 /\ kbEdits' = kbEdits - 1
    /\ vec' = [vec EXCEPT ![d] = @ \ {i}]
    /\ UNCHANGED <<doc, rows, ownHome, job, queue, doomed, kb, spoilt, deleted,
                   messages, kbFaults>>
UpdateChunk(d, i) ==
    /\ i \in rows[d] /\ kbEdits > 0 /\ kbEdits' = kbEdits - 1
    /\ vec' = [vec EXCEPT ![d] = @ \cup {i}]
    /\ UNCHANGED <<doc, rows, ownHome, job, queue, doomed, kb, spoilt, deleted,
                   messages, kbFaults>>
DeleteChunk(d, i) ==
    /\ i \in rows[d] /\ kbEdits > 0 /\ kbEdits' = kbEdits - 1
    /\ vec' = [vec EXCEPT ![d] = @ \ {i}]
    /\ rows' = [rows EXCEPT ![d] = @ \ {i}]
    /\ Spoil(d)
    /\ UNCHANGED <<doc, ownHome, job, queue, doomed, kb, deleted, messages,
                   kbFaults>>

\* perform_destroy: the vectors listed in chunk rows are deleted from the
\* collection the knowledge base names, then the rows, then the document.
DestroyChunks(d) ==
    /\ doc[d].there /\ d \notin doomed /\ kbEdits > 0 /\ kbEdits' = kbEdits - 1
    /\ doomed' = doomed \cup {d}
    /\ vec' = IF ownHome \/ doc[d].kind = "export"
              THEN [vec EXCEPT ![d] = @ \ rows[d]] ELSE vec
    /\ rows' = [rows EXCEPT ![d] = {}]
    /\ Spoil(d)
    /\ UNCHANGED <<doc, ownHome, job, queue, kb, deleted, messages, kbFaults>>
DestroyDocument(d) ==
    /\ d \in doomed /\ doomed' = doomed \ {d}
    /\ doc' = [doc EXCEPT ![d].there = FALSE]
    /\ rows' = [rows EXCEPT ![d] = {}]
    /\ deleted' = deleted \cup {d}
    /\ Spoil(d)
    /\ UNCHANGED <<vec, ownHome, job, queue, kb, messages, kbEdits, kbFaults>>

\* KnowledgeBaseViewSet.reindex
Reindex ==
    /\ messages > 0 /\ messages' = messages - 1
    /\ queue' = queue \cup {"all"}
    /\ UNCHANGED <<doc, rows, vec, ownHome, job, doomed, kb, spoilt, deleted,
                   kbEdits, kbFaults>>

-----------------------------------------------------------------------------
(* ingest_document_task.                                                   *)

Go(w, pc) == job' = [job EXCEPT ![w].pc = pc]
\* What follows a document: the next one of a reindex, or the task's end.
Done(w) == job' = IF job[w].all
                  THEN [job EXCEPT ![w].pc = "next", ![w].doc = None]
                  ELSE [job EXCEPT ![w] = AtRest]

\* A message whose document is gone, or is no file, ends at once.
IngestTake(w, d) ==
    /\ job[w].pc = "rest" /\ d \in queue /\ queue' = queue \ {d}
    /\ IF doc[d].there
       THEN job' = [job EXCEPT ![w].pc = "parse", ![w].doc = d]
       ELSE UNCHANGED job
    /\ UNCHANGED <<doc, rows, vec, ownHome, doomed, kb, spoilt, deleted,
                   messages, kbEdits, kbFaults>>

\* A step at the document of a worker.  save(update_fields) on a deleted row
\* raises, and so does the save of status 'error' in the handler.
At(w, pc) == job[w].pc = pc
Gone(w, pc) ==
    /\ job[w].pc = pc /\ pc \in {"parse", "extract", "index", "create"}
    /\ ~doc[job[w].doc].there
    /\ IF job[w].all
       THEN job' = [job EXCEPT ![w] = AtRest] /\ kb' = "error"
       ELSE job' = [job EXCEPT ![w] = AtRest] /\ UNCHANGED kb
    /\ spoilt' = spoilt \cup (IF job[w].all THEN Doc ELSE {job[w].doc})
    /\ UNCHANGED <<doc, rows, vec, ownHome, queue, doomed, deleted, messages,
                   kbEdits, kbFaults>>

Parse(w) ==
    LET d == job[w].doc
    IN  /\ At(w, "parse") /\ doc[d].there
        /\ doc' = Saved(d, "parsing")
        /\ Go(w, "extract")
        /\ UNCHANGED <<rows, vec, ownHome, queue, doomed, kb, spoilt, deleted,
                       messages, kbEdits, kbFaults>>

\* Nothing is extracted, or the vision model, a library or the vector store
\* raises an exception.
IndexFails(w) ==
    LET d == job[w].doc
    IN  /\ job[w].pc \in {"extract", "add"}
        /\ kbFaults > 0 /\ kbFaults' = kbFaults - 1
        /\ doc[d].there
        /\ doc' = Saved(d, "error") /\ Done(w)
        /\ spoilt' = spoilt \cup {d}
        /\ UNCHANGED <<rows, vec, ownHome, queue, doomed, kb, deleted,
                       messages, kbEdits>>

\* The document is split anew; a pass that is at it already and split it
\* differently spoils it.
Splits(w, d) == /\ job[w].doc = d
                /\ job[w].pc \in {"index", "add", "replace", "create", "ready"}
Split(w, d, n) ==
    spoilt' = IF \E v \in Worker \ {w} : Splits(v, d) /\ job[v].parts # n
              THEN spoilt \cup {d} ELSE spoilt
\* The text that was extracted is cleaned and the whole row saved: a row that
\* is deleted between the two saves is inserted again.
Extract(w) ==
    LET d == job[w].doc
    IN  /\ At(w, "extract")
        /\ \E n \in 1..2 :
              /\ job' = [job EXCEPT ![w].pc = "index", ![w].parts = n]
              /\ Split(w, d, n)
        /\ doc' = [doc EXCEPT ![d] = [@ EXCEPT !.there = TRUE,
                                               !.status = "chunking"]]
        /\ deleted' = deleted \ {d}
        /\ UNCHANGED <<rows, vec, ownHome, queue, doomed, kb, messages,
                       kbEdits, kbFaults>>
Index(w) ==
    LET d == job[w].doc
    IN  /\ At(w, "index") /\ doc[d].there /\ Go(w, "add")
        /\ doc' = Saved(d, IF doc[d].kind = "file" THEN "indexing"
                           ELSE "chunking")
        /\ UNCHANGED <<rows, vec, ownHome, queue, doomed, kb, spoilt, deleted,
                       messages, kbEdits, kbFaults>>
AddTexts(w) ==
    LET d == job[w].doc
    IN  /\ At(w, "add") /\ Go(w, "replace")
        /\ vec' = [vec EXCEPT ![d] = @ \cup 1..job[w].parts]
        /\ UNCHANGED <<doc, rows, ownHome, queue, doomed, kb, spoilt, deleted,
                       messages, kbEdits, kbFaults>>
DropChunks(w) ==
    LET d == job[w].doc
    IN  /\ At(w, "replace") /\ Go(w, "create")
        /\ rows' = [rows EXCEPT ![d] = {}]
        /\ UNCHANGED <<doc, vec, ownHome, queue, doomed, kb, spoilt, deleted,
                       messages, kbEdits, kbFaults>>
CreateChunks(w) ==
    LET d == job[w].doc
    IN  /\ At(w, "create") /\ doc[d].there /\ Go(w, "ready")
        /\ rows' = [rows EXCEPT ![d] = @ \cup 1..job[w].parts]
        /\ UNCHANGED <<doc, vec, ownHome, queue, doomed, kb, spoilt, deleted,
                       messages, kbEdits, kbFaults>>
SaveReady(w) ==
    LET d == job[w].doc
    IN  /\ At(w, "ready") /\ Done(w)
        /\ doc' = [doc EXCEPT ![d] = [@ EXCEPT !.there = TRUE,
                                               !.status = "ready"]]
        /\ deleted' = deleted \ {d}
        /\ UNCHANGED <<rows, vec, ownHome, queue, doomed, kb, spoilt, messages,
                       kbEdits, kbFaults>>

-----------------------------------------------------------------------------
(* reindex_kb_task.                                                        *)

\* The ids of all vectors are listed, then deleted, then the documents read.
ReindexList(w) ==
    /\ job[w].pc = "rest" /\ "all" \in queue /\ queue' = queue \ {"all"}
    /\ kb' = "processing"
    /\ job' = [job EXCEPT ![w] = [AtRest EXCEPT !.pc = "clear", !.all = TRUE,
                                                !.list = rows]]
    /\ UNCHANGED <<doc, rows, vec, ownHome, doomed, spoilt, deleted, messages,
                   kbEdits, kbFaults>>
ReindexClear(w) ==
    /\ At(w, "clear")
    /\ vec' = [d \in Doc |-> vec[d] \ job[w].list[d]]
    /\ job' = [job EXCEPT ![w].pc = "next", ![w].list = AtRest.list,
                          ![w].left = {d \in Doc : doc[d].there}]
    /\ UNCHANGED <<doc, rows, ownHome, queue, doomed, kb, spoilt, deleted,
                   messages, kbEdits, kbFaults>>

\* A file is ingested again; another document is split at once, as it was
\* read when the loop began.
ReindexNext(w, d) ==
    /\ At(w, "next") /\ d \in job[w].left
    /\ \/ /\ doc[d].kind = "file"
          /\ job' = [job EXCEPT ![w].doc = d, ![w].left = @ \ {d},
                                ![w].pc = "parse"]
          /\ UNCHANGED spoilt
       \/ /\ doc[d].kind # "file"
          /\ \E n \in 1..2 :
                /\ job' = [job EXCEPT ![w].doc = d, ![w].left = @ \ {d},
                                      ![w].parts = n, ![w].pc = "index"]
                /\ Split(w, d, n)
    /\ UNCHANGED <<doc, rows, vec, ownHome, queue, doomed, kb, deleted,
                   messages, kbEdits, kbFaults>>
ReindexEnd(w) ==
    /\ At(w, "next") /\ job[w].left = {}
    /\ job' = [job EXCEPT ![w] = AtRest] /\ kb' = "success"
    /\ UNCHANGED <<doc, rows, vec, ownHome, queue, doomed, spoilt, deleted,
                   messages, kbEdits, kbFaults>>

\* The worker process is killed; Celery acknowledged the message long ago.
WorkerDies(w) ==
    /\ job[w].pc # "rest" /\ kbFaults > 0 /\ kbFaults' = kbFaults - 1
    /\ job' = [job EXCEPT ![w] = AtRest]
    /\ spoilt' = spoilt \cup (IF job[w].all THEN Doc ELSE {job[w].doc})
    /\ UNCHANGED <<doc, rows, vec, ownHome, queue, doomed, kb, deleted,
                   messages, kbEdits>>

Next ==
    \/ \E d \in Doc : \/ Upload(d) \/ CreateNote(d) \/ AddKnowledge(d)
                      \/ EditDocument(d) \/ DestroyChunks(d)
                      \/ DestroyDocument(d) \/ CreateChunk(d)
                      \/ \E i \in 1..2 : \/ UpdateChunk(d, i)
                                         \/ DeleteChunk(d, i) \/ MoveChunk(d, i)
    \/ Reindex
    \/ \E w \in Worker :
          \/ \E d \in Doc : IngestTake(w, d) \/ ReindexNext(w, d)
          \/ \E pc \in {"parse", "extract", "index", "create"} : Gone(w, pc)
          \/ Parse(w) \/ IndexFails(w) \/ Extract(w) \/ Index(w) \/ AddTexts(w)
          \/ DropChunks(w) \/ CreateChunks(w) \/ SaveReady(w)
          \/ ReindexList(w) \/ ReindexClear(w) \/ ReindexEnd(w)
          \/ WorkerDies(w)

Spec == Init /\ [][Next]_vars

-----------------------------------------------------------------------------
(* Properties.                                                             *)

Status == {"pending", "parsing", "chunking", "indexing", "ready", "error"}
KbTypeOK ==
    /\ doc \in [Doc -> [there : BOOLEAN, status : Status,
                        kind : {"file", "note", "export"}]]
    /\ rows \in [Doc -> SUBSET (0..2)] /\ vec \in [Doc -> SUBSET (1..2)]
    /\ ownHome \in BOOLEAN /\ queue \subseteq Doc \cup {"all"}
    /\ job \in [Worker -> [pc : {"rest", "parse", "extract", "index", "add",
                                "replace", "create", "ready", "clear", "next"},
                           doc : Doc \cup {None}, parts : 1..2, all : BOOLEAN,
                           list : [Doc -> SUBSET (0..2)], left : SUBSET Doc]]
    /\ {doomed, spoilt, deleted} \subseteq SUBSET Doc
    /\ kb \in {"idle", "processing", "success", "error"}
    /\ messages \in 0..Messages /\ kbEdits \in 0..KbEdits
    /\ kbFaults \in 0..KbFaults

\* When no task is at work on a ready document, each chunk a task has written
\* for it has its vector, however the indexing of an upload, reindexings and
\* edits overlapped and however the document was split each time; not if two
\* passes at it at a time split it differently, if it or a chunk was deleted
\* meanwhile, a chunk moved away, or something failed.  Code: a reindex clears
\* what it lists before it adds, ids depend on the index only.
IndexComplete ==
    \A d \in Doc :
        doc[d].there /\ doc[d].status = "ready" /\ ~Busy(d)
            /\ d \notin spoilt \cup doomed
        => rows[d] \ {0} \subseteq vec[d]
=============================================================================
