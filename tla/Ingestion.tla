------------------------------- MODULE Ingestion -------------------------------
(***************************************************************************)
(* Documents on their way into the knowledge bases of one tenant, from one *)
(* kind of source (services/company_brain/ingestion).  Webhooks and syncs  *)
(* add entries to one Redis stream per knowledge base (StreamProducer);    *)
(* Celery tasks, sent every 30 seconds, read them as one consumer group,   *)
(* drop what was seen, chunk, embed and index the rest, remember it as     *)
(* seen, and acknowledge the entries (StreamConsumer.consume).             *)
(*                                                                         *)
(* The search backend is one with an index of its own (Qdrant, the         *)
(* default), and upserts; what is seen is a Redis set per tenant and       *)
(* source, whatever the knowledge base.                                    *)
(***************************************************************************)
EXTENDS Naturals, Sequences

CONSTANTS
  Message,    \* entries pushed to the streams
  Doc,        \* external identifiers of documents
  Kb,         \* knowledge bases, each with its stream
  Worker,     \* runs of the consumer at the same time
  DocOf,      \* [Message -> Doc]
  KbOf,       \* [Message -> Kb]
  NoKb,       \* the run drains no stream
  Short,      \* messages too short to be indexed, or from a bot
  Malformed,  \* messages that do not parse
  Chunkless,  \* messages that pass the filter and of which chunk_document makes
              \* nothing, without an error: blank or missing `content`
  BatchSize,  \* company_brain_batch_size
  Budgets     \* bound: how much may happen, one of these records

\* Errors and lost workers; knowledge bases deleted.
Budget == [faults : Nat, deletions : Nat]

ASSUME IngestionAssumption ==
  /\ DocOf \in [Message -> Doc] /\ KbOf \in [Message -> Kb]
  /\ Short \subseteq Message /\ Malformed \subseteq Message
  /\ Chunkless \subseteq Message
  /\ NoKb \notin Kb /\ BatchSize \in Nat \ {0}
  /\ Budgets \subseteq Budget

VARIABLES
  unsent,     \* messages no source has pushed yet
  kbs,        \* rows of knowledge_bases
  \* Redis: entries not delivered, delivered and not acknowledged, acknowledged
  stream,     \* [Kb -> Seq(Message)]
  pending, acked,
  seen,       \* the documents in the dedup set
  indexed,    \* <<k, d>>: what the search backend holds
  \* a run of consume
  pc,
  kb,         \* [Worker -> the knowledge base it drains, or NoKb]
  batch,      \* the messages it has read and parsed
  unseen,     \* documents of them that filter_unseen returned
  ready,      \* those with chunks and embeddings
  failed,     \* whether anything failed
  \* history and bounds
  failures,   \* messages that failed in a batch that was finished
  duplicates, \* messages dropped as seen
  abandoned,  \* messages delivered to a run that left them
  vanished,   \* messages of which nothing was left to index, with no error
  budget

runVars     == <<pc, kb, batch, unseen, ready, failed>>
redisVars   == <<stream, pending, acked, seen>>
historyVars == <<failures, duplicates, abandoned, vanished>>
vars == <<unsent, kbs, redisVars, indexed, runVars, historyVars, budget>>

Label == {"idle", "read", "filtered", "embedded", "indexed", "done"}

TypeOK ==
  /\ unsent \in SUBSET Message
  /\ kbs \in SUBSET Kb
  /\ stream \in [Kb -> Seq(Message)]
  /\ \A k \in Kb : \A i \in 1..Len(stream[k]) : KbOf[stream[k][i]] = k
  /\ pending \in SUBSET Message
  /\ acked \in SUBSET Message
  /\ seen \in SUBSET Doc
  /\ indexed \in SUBSET (Kb \X Doc)
  /\ pc \in [Worker -> Label]
  /\ kb \in [Worker -> Kb \cup {NoKb}]
  /\ \A w \in Worker : pc[w] # "idle" => kb[w] \in Kb
  /\ batch \in [Worker -> SUBSET Message]
  /\ \A w \in Worker : \A m \in batch[w] : KbOf[m] = kb[w]
  /\ unseen \in [Worker -> SUBSET Doc]
  /\ ready \in [Worker -> SUBSET Doc]
  /\ failed \in [Worker -> BOOLEAN]
  /\ failures \in SUBSET Message
  /\ duplicates \in SUBSET Message
  /\ abandoned \in SUBSET Message
  /\ vanished \in SUBSET Message
  /\ budget \in Budget

Init ==
  /\ unsent = Message
  /\ kbs = Kb
  /\ stream = [k \in Kb |-> <<>>]
  /\ pending = {} /\ acked = {} /\ seen = {} /\ indexed = {}
  /\ pc = [w \in Worker |-> "idle"]
  /\ kb = [w \in Worker |-> NoKb]
  /\ batch = [w \in Worker |-> {}]
  /\ unseen = [w \in Worker |-> {}]
  /\ ready = [w \in Worker |-> {}]
  /\ failed = [w \in Worker |-> FALSE]
  /\ failures = {} /\ duplicates = {} /\ abandoned = {} /\ vanished = {}
  /\ budget \in Budgets

-------------------------------------------------------------------------------
Spend(kind) == /\ budget[kind] > 0
               /\ budget' = [budget EXCEPT ![kind] = @ - 1]

Goto(w, l) == pc' = [pc EXCEPT ![w] = l]

\* Messages of the batch about the documents ds.
About(w, ds) == {m \in batch[w] \ Short : DocOf[m] \in ds}

\* Mutant: the batch outlives the run.
LeaveBatch(w) == /\ Goto(w, "idle")
                 /\ kb' = [kb EXCEPT ![w] = NoKb]
                 /\ UNCHANGED <<batch, unseen, ready, failed>>

\* The run forgets its batch.
Leave(w) == /\ Goto(w, "idle")
            /\ kb' = [kb EXCEPT ![w] = NoKb]
            /\ batch' = [batch EXCEPT ![w] = {}]
            /\ unseen' = [unseen EXCEPT ![w] = {}]
            /\ ready' = [ready EXCEPT ![w] = {}]
            /\ failed' = [failed EXCEPT ![w] = FALSE]

-------------------------------------------------------------------------------
\* StreamProducer

\* XADD.
Push(m) ==
  /\ m \in unsent
  /\ unsent' = unsent \ {m}
  /\ stream' = [stream EXCEPT ![KbOf[m]] = Append(@, m)]
  /\ UNCHANGED <<kbs, pending, acked, seen, indexed, runVars, historyVars, budget>>

\* Redis cannot be reached: the document is skipped, and nobody is told.
PushFails(m) ==
  /\ m \in unsent
  /\ Spend("faults")
  /\ unsent' = unsent \ {m}
  /\ UNCHANGED <<kbs, redisVars, indexed, runVars, historyVars>>

-------------------------------------------------------------------------------
\* StreamConsumer.consume

\* The first entries of a stream that no consumer of the group was given.
Count(k)     == IF Len(stream[k]) < BatchSize THEN Len(stream[k]) ELSE BatchSize
Delivered(k) == {stream[k][i] : i \in 1..Count(k)}
Rest(k)      == SubSeq(stream[k], Count(k) + 1, Len(stream[k]))

\* XREADGROUP ">".  Entries that do not parse are left where they are; a batch
\* without any other ends the run.
Take(w, k) ==
  /\ pc[w] = "idle"
  /\ stream[k] # <<>>
  /\ stream' = [stream EXCEPT ![k] = Rest(k)]
  /\ batch' = [batch EXCEPT ![w] = Delivered(k) \ Malformed]
  /\ IF Delivered(k) \subseteq Malformed THEN UNCHANGED <<pc, kb>>
     ELSE Goto(w, "read") /\ kb' = [kb EXCEPT ![w] = k]
  /\ abandoned' = abandoned \cup (Delivered(k) \cap Malformed)
  /\ UNCHANGED <<unsent, kbs, seen, indexed, unseen, ready, failed, failures,
                 duplicates, vanished, budget>>

\* Mutant: entries are acknowledged as they are read.
ConsumeAndAck(w, k) ==
  /\ Take(w, k)
  /\ acked' = acked \cup Delivered(k)
  /\ UNCHANGED pending

\* Mutant: a run waits for a full batch.
ConsumeFull(w, k) ==
  /\ Len(stream[k]) >= BatchSize
  /\ Take(w, k)
  /\ pending' = pending \cup Delivered(k)
  /\ UNCHANGED acked

Consume(w, k) ==
  /\ Take(w, k)
  /\ pending' = pending \cup Delivered(k)
  /\ UNCHANGED acked

\* The knowledge base is gone: the batch is dropped.
DropBatch(w) ==
  /\ pc[w] = "read" /\ kb[w] \notin kbs
  /\ Goto(w, "done")
  /\ failures' = failures \cup batch[w]
  /\ UNCHANGED <<unsent, kbs, redisVars, indexed, kb, batch, unseen, ready, failed,
                 duplicates, abandoned, vanished, budget>>

\* Short content is skipped, and so is what was seen.
FilterUnseen(w) ==
  LET docs == {DocOf[m] : m \in batch[w] \ Short} IN
  /\ pc[w] = "read" /\ kb[w] \in kbs
  /\ unseen' = [unseen EXCEPT ![w] = docs \ seen]
  /\ duplicates' = duplicates \cup About(w, seen)
  /\ Goto(w, IF docs \subseteq seen THEN "done" ELSE "filtered")
  /\ UNCHANGED <<unsent, kbs, redisVars, indexed, kb, batch, ready, failed, failures,
                 abandoned, vanished, budget>>

\* The documents of which chunk_document makes chunks.
WithChunks(w) == {DocOf[m] : m \in About(w, unseen[w]) \ Chunkless}

\* Chunks and embeddings are made, except that the documents `bad` cannot be chunked
\* and that no embedding comes back for the documents `missing` (the zip stops at
\* the shorter list).  Without any chunk the run has nothing more to do.
MakeChunks(w, bad, missing) ==
  /\ pc[w] = "filtered"
  /\ ready' = [ready EXCEPT ![w] = WithChunks(w) \ (bad \cup missing)]
  /\ failures' = failures \cup (About(w, bad) \ Chunkless)
  /\ vanished' = vanished \cup About(w, missing)
                   \cup (About(w, unseen[w]) \cap Chunkless)
  /\ Goto(w, IF WithChunks(w) \subseteq bad THEN "done" ELSE "embedded")
  /\ UNCHANGED <<unsent, kbs, redisVars, indexed, kb, batch, unseen, duplicates,
                 abandoned>>

ChunkAndEmbed(w) ==
  /\ MakeChunks(w, {}, {})
  /\ UNCHANGED <<failed, budget>>

\* Only an error in the chunker is counted as a failure.
ChunkingFails(w) ==
  /\ Spend("faults")
  /\ \E bad, missing \in SUBSET WithChunks(w) :
       /\ bad \cup missing # {} /\ bad \cap missing = {}
       /\ MakeChunks(w, bad, missing)
       /\ failed' = [failed EXCEPT ![w] = bad # {}]

\* The embedding of the batch fails as a whole.
EmbeddingFails(w) ==
  /\ pc[w] = "filtered"
  /\ WithChunks(w) # {}
  /\ Spend("faults")
  /\ failures' = failures \cup (About(w, unseen[w]) \ Chunkless)
  /\ vanished' = vanished \cup (About(w, unseen[w]) \cap Chunkless)
  /\ failed' = [failed EXCEPT ![w] = TRUE]
  /\ Goto(w, "done")
  /\ UNCHANGED <<unsent, kbs, redisVars, indexed, kb, batch, unseen, ready, duplicates,
                 abandoned>>

IndexDocuments(w) ==
  /\ pc[w] = "embedded"
  /\ indexed' = indexed \cup ({kb[w]} \X ready[w])
  /\ Goto(w, "indexed")
  /\ UNCHANGED <<unsent, kbs, redisVars, kb, batch, unseen, ready, failed, historyVars,
                 budget>>

\* Documents without an embedding are left out, or the upsert fails.
IndexingFails(w) ==
  /\ pc[w] = "embedded"
  /\ Spend("faults")
  /\ \E ds \in SUBSET ready[w] \ {{}} :
       /\ indexed' = indexed \cup ({kb[w]} \X (ready[w] \ ds))
       /\ failures' = failures \cup About(w, ds)
  /\ failed' = [failed EXCEPT ![w] = TRUE]
  /\ Goto(w, "indexed")
  /\ UNCHANGED <<unsent, kbs, redisVars, kb, batch, unseen, ready, duplicates,
                 abandoned, vanished>>

\* Mutant: the batch is marked whatever failed.
MarkAnyway(w) ==
  /\ pc[w] = "indexed"
  /\ seen' = seen \cup unseen[w]
  /\ Goto(w, "done")
  /\ UNCHANGED <<unsent, kbs, stream, pending, acked, indexed, kb, batch, unseen, ready,
                 failed, historyVars, budget>>

\* What filter_unseen returned is marked if nothing of the batch failed, whatever
\* of it there was to index.
MarkSeenBatch(w) ==
  /\ pc[w] = "indexed"
  /\ seen' = IF failed[w] THEN seen ELSE seen \cup unseen[w]
  /\ Goto(w, "done")
  /\ UNCHANGED <<unsent, kbs, stream, pending, acked, indexed, kb, batch, unseen, ready,
                 failed, historyVars, budget>>

\* XACK of the whole batch, whatever became of it.
Acknowledge(w) ==
  /\ pc[w] = "done"
  /\ pending' = pending \ batch[w]
  /\ acked' = acked \cup batch[w]
  /\ Leave(w)
  /\ UNCHANGED <<unsent, kbs, stream, seen, indexed, historyVars, budget>>

\* An exception, or a lost worker.  The task is run again, and reads on after the
\* entries: they stay pending for good.
Interrupted(w) ==
  /\ pc[w] # "idle"
  /\ Spend("faults")
  /\ abandoned' = abandoned \cup batch[w]
  /\ Leave(w)
  /\ UNCHANGED <<unsent, kbs, redisVars, indexed, failures, duplicates, vanished>>

-------------------------------------------------------------------------------
\* The dedup set was not written to for its time to live.
SeenExpires ==
  /\ seen # {}
  /\ seen' = {}
  /\ UNCHANGED <<unsent, kbs, stream, pending, acked, indexed, runVars, historyVars,
                 budget>>

DeleteKb(k) ==
  /\ k \in kbs
  /\ Spend("deletions")
  /\ kbs' = kbs \ {k}
  /\ UNCHANGED <<unsent, redisVars, indexed, runVars, historyVars>>

RunStep(w) ==
  \/ \E k \in Kb : Consume(w, k)
  \/ DropBatch(w) \/ FilterUnseen(w) \/ ChunkAndEmbed(w) \/ IndexDocuments(w)
  \/ MarkSeenBatch(w) \/ Acknowledge(w)

RunFails(w) == ChunkingFails(w) \/ EmbeddingFails(w) \/ IndexingFails(w) \/ Interrupted(w)

Next ==
  \/ \E m \in Message : Push(m) \/ PushFails(m)
  \/ \E w \in Worker : RunStep(w) \/ RunFails(w)
  \/ SeenExpires
  \/ \E k \in Kb : DeleteKb(k)

Spec == Init /\ [][Next]_vars

\* Beat sends a run every 30 seconds, the runs drain every stream, and end.
Fairness == /\ \A w \in Worker : WF_vars(RunStep(w))
            /\ \A k \in Kb : WF_vars(\E w \in Worker : Consume(w, k))

FairSpec == Spec /\ Fairness

-------------------------------------------------------------------------------
\* Properties

InIndex(m) == <<KbOf[m], DocOf[m]>> \in indexed
Handled(m) == InIndex(m) \/ m \in Short \cup duplicates \cup failures \cup vanished
Pushed(m)  == \E i \in 1..Len(stream[KbOf[m]]) : stream[KbOf[m]][i] = m

\* Nothing was made of an entry with the document, and nobody was told.
Vanished(d) == \E m \in vanished : DocOf[m] = d

\* A document is remembered as seen only when it is in the index, or when nothing
\* could be made of an entry of its: one marked after it failed would be dropped
\* silently whenever it is pushed again.
SeenIsIndexed == \A d \in seen : Vanished(d) \/ \E k \in Kb : <<k, d>> \in indexed

\* Every entry that is acknowledged was indexed, dropped as seen, too short, counted
\* as failed, or one of which nothing was left to index; the entries of a run that is
\* cut off stay pending.
AckedIsHandled == \A m \in acked : Handled(m)

\* XREADGROUP hands an entry to one run, and no other run is given it again: until
\* it is acknowledged, it is in the batch of that run, or a run has left it.
EntriesHeld ==
  /\ \A v, w \in Worker : v # w => batch[v] \cap batch[w] = {}
  /\ \A m \in pending : m \in abandoned \/ \E w \in Worker : m \in batch[w]

\* An entry with a document gets into the index, unless nothing is made of it, its
\* batch failed or was cut off, or the document is taken for a seen one.
DocumentsIndexed ==
  \A m \in Message \ (Short \cup Malformed) :
    Pushed(m) ~> \/ InIndex(m)
                 \/ m \in duplicates \cup failures \cup abandoned \cup vanished
===============================================================================
