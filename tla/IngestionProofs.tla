---------------------------- MODULE IngestionProofs ----------------------------
(***************************************************************************)
(* Theorems about Ingestion for any messages, documents, knowledge bases,  *)
(* runs and bounds: its types, that a document is only remembered as seen  *)
(* when it is indexed or nothing could be made of it, and that only        *)
(* entries that were dealt with are acknowledged.                          *)
(*                                                                         *)
(* Both need to know what a run has done by the time it marks and          *)
(* acknowledges: what it has yet to index is what filter_unseen returned,  *)
(* less what failed and what left nothing to index, and the rest of its    *)
(* batch is dealt with.                                                    *)
(* The last part follows the entries themselves: one is never in the hands *)
(* of two runs, nor delivered and then in the hands of nobody.             *)
(***************************************************************************)
EXTENDS Ingestion, SequenceTheorems, TLAPS

LEMMA InitTypeOK == Init => TypeOK
  BY IngestionAssumption DEF Init, TypeOK, Label

\* Spending keeps the budget in its type.
LEMMA SpendType ==
  ASSUME NEW kind \in {"faults", "deletions"}, budget \in Budget, Spend(kind)
  PROVE  budget' \in Budget
  BY DEF Spend, Budget

LEMMA PushTypeOK ==
  ASSUME TypeOK, NEW m \in Message, Push(m) \/ PushFails(m)
  PROVE  TypeOK'
<1> USE IngestionAssumption
<1>1. CASE Push(m)
  <2> DEFINE k == KbOf[m]
  <2>1. k \in Kb /\ stream[k] \in Seq(Message)
    BY DEF TypeOK
  <2>2. /\ Append(stream[k], m) \in Seq(Message)
        /\ Len(Append(stream[k], m)) = Len(stream[k]) + 1
        /\ \A i \in 1..Len(stream[k]) : Append(stream[k], m)[i] = stream[k][i]
        /\ Append(stream[k], m)[Len(stream[k]) + 1] = m
    BY <2>1, AppendProperties
  <2>3. stream' = [stream EXCEPT ![k] = Append(stream[k], m)]
    BY <1>1 DEF Push
  <2>4. Len(stream[k]) \in Nat
    BY <2>1, LenProperties
  <2>5. \A i \in 1..Len(Append(stream[k], m)) : KbOf[Append(stream[k], m)[i]] = k
    BY <2>1, <2>2, <2>4 DEF TypeOK
  <2>6. /\ stream' \in [Kb -> Seq(Message)]
        /\ \A q \in Kb : \A i \in 1..Len(stream'[q]) : KbOf[stream'[q][i]] = q
    BY <2>1, <2>2, <2>3, <2>5 DEF TypeOK
  <2> QED
    BY <1>1, <2>6 DEF Push, TypeOK, runVars, historyVars
<1>2. CASE PushFails(m)
  <2>1. budget' \in Budget
    BY <1>2, SpendType DEF PushFails, TypeOK
  <2> QED
    BY <1>2, <2>1 DEF PushFails, TypeOK, redisVars, runVars, historyVars
<1> QED
  BY <1>1, <1>2

LEMMA ConsumeTypeOK ==
  ASSUME TypeOK, NEW w \in Worker, NEW k \in Kb, Consume(w, k)
  PROVE  TypeOK'
<1> USE IngestionAssumption
<1> DEFINE s == stream[k]  n == Count(k)
<1>1. s \in Seq(Message) /\ Len(s) \in Nat /\ n \in 0..Len(s)
  BY LenProperties DEF TypeOK, Count
<1>2. Delivered(k) \subseteq {m \in Message : KbOf[m] = k}
  <2>1. \A i \in 1..Len(s) : s[i] \in Message /\ KbOf[s[i]] = k
    BY <1>1, ElementOfSeq DEF TypeOK
  <2> QED
    BY <1>1, <2>1 DEF Delivered
<1>3. /\ Rest(k) \in Seq(Message)
      /\ \A i \in 1..Len(Rest(k)) : KbOf[Rest(k)[i]] = k
  <2>1. /\ SubSeq(s, n + 1, Len(s)) \in Seq(Message)
        /\ Len(SubSeq(s, n + 1, Len(s))) = Len(s) - n
        /\ \A i \in 1..(Len(s) - n) : SubSeq(s, n + 1, Len(s))[i] = s[n + i]
    BY <1>1
  <2>2. \A i \in 1..(Len(s) - n) : n + i \in 1..Len(s)
    BY <1>1
  <2>3. \A i \in 1..Len(s) : KbOf[s[i]] = k
    BY DEF TypeOK
  <2> DEFINE r == Rest(k)
  <2>4. /\ r \in Seq(Message) /\ Len(r) = Len(s) - n
        /\ \A i \in 1..(Len(s) - n) : r[i] = s[n + i]
    BY <2>1 DEF Rest
  <2> HIDE DEF r, s, n
  <2>5. \A i \in 1..Len(r) : KbOf[r[i]] = k
    BY <2>2, <2>3, <2>4
  <2> QED
    BY <2>4, <2>5 DEF r
<1>4. stream' = [stream EXCEPT ![k] = Rest(k)]
  BY DEF Consume, Take
<1>5. /\ stream' \in [Kb -> Seq(Message)]
      /\ \A q \in Kb : \A i \in 1..Len(stream'[q]) : KbOf[stream'[q][i]] = q
  BY <1>3, <1>4 DEF TypeOK
<1>6. /\ pc' \in [Worker -> Label] /\ kb' \in [Worker -> Kb \cup {NoKb}]
      /\ \A v \in Worker : pc'[v] # "idle" => kb'[v] \in Kb
  <2>1. \/ pc' = pc /\ kb' = kb
        \/ pc' = [pc EXCEPT ![w] = "read"] /\ kb' = [kb EXCEPT ![w] = k]
    BY DEF Consume, Take, Goto
  <2>2. CASE pc' = pc /\ kb' = kb
    BY <2>2 DEF TypeOK
  <2>3. CASE pc' = [pc EXCEPT ![w] = "read"] /\ kb' = [kb EXCEPT ![w] = k]
    BY <2>3 DEF TypeOK, Label
  <2> QED
    BY <2>1, <2>2, <2>3
<1>7. /\ batch' = [batch EXCEPT ![w] = Delivered(k) \ Malformed]
      /\ IF Delivered(k) \subseteq Malformed THEN kb' = kb
         ELSE kb' = [kb EXCEPT ![w] = k]
  BY DEF Consume, Take
<1>8. /\ batch' \in [Worker -> SUBSET Message]
      /\ \A v \in Worker : \A m \in batch'[v] : KbOf[m] = kb'[v]
  <2>1. batch' \in [Worker -> SUBSET Message]
    BY <1>2, <1>7 DEF TypeOK
  <2>2. \A m \in batch'[w] : KbOf[m] = kb'[w]
    <3>1. batch'[w] = Delivered(k) \ Malformed
      BY <1>7 DEF TypeOK
    <3>2. CASE Delivered(k) \subseteq Malformed
      BY <3>1, <3>2
    <3>3. CASE ~(Delivered(k) \subseteq Malformed)
      <4>1. kb'[w] = k
        BY <1>7, <3>3 DEF TypeOK
      <4> QED
        BY <1>2, <3>1, <4>1
    <3> QED
      BY <3>2, <3>3
  <2>3. \A v \in Worker \ {w} : batch'[v] = batch[v] /\ kb'[v] = kb[v]
    BY <1>7 DEF TypeOK
  <2> QED
    BY <2>1, <2>2, <2>3 DEF TypeOK
<1>9. pending' \in SUBSET Message /\ abandoned' \in SUBSET Message
  BY <1>2 DEF Consume, Take, TypeOK
<1> QED
  BY <1>5, <1>6, <1>8, <1>9 DEF Consume, Take, TypeOK

LEMMA RunTypeOK ==
  ASSUME TypeOK, NEW w \in Worker, RunStep(w) \/ RunFails(w)
  PROVE  TypeOK'
<1> USE IngestionAssumption
<1>1. CASE DropBatch(w)
  BY <1>1 DEF DropBatch, TypeOK, Goto, Label, redisVars
<1>2. CASE FilterUnseen(w)
  <2> DEFINE docs == {DocOf[m] : m \in batch[w] \ Short}
  <2>1. docs \subseteq Doc
    BY DEF TypeOK
  <2>2. duplicates' \in SUBSET Message
    BY <1>2 DEF FilterUnseen, TypeOK, About
  <2> QED
    BY <1>2, <2>1, <2>2 DEF FilterUnseen, TypeOK, Goto, Label, redisVars
<1>3. CASE ChunkAndEmbed(w) \/ ChunkingFails(w)
  <2>1. PICK bad, missing \in SUBSET WithChunks(w) : MakeChunks(w, bad, missing)
    BY <1>3 DEF ChunkAndEmbed, ChunkingFails
  <2>2. WithChunks(w) \subseteq Doc
    BY DEF WithChunks, About, TypeOK
  <2>3. failures' \in SUBSET Message /\ vanished' \in SUBSET Message
    BY <2>1 DEF MakeChunks, TypeOK, About
  <2>4. pc' \in [Worker -> Label] /\ (\A v \in Worker : pc'[v] # "idle" => kb'[v] \in Kb)
    BY <2>1 DEF MakeChunks, TypeOK, Goto, Label
  <2>5. budget' \in Budget
    BY <1>3, SpendType DEF ChunkAndEmbed, ChunkingFails, TypeOK
  <2>6. failed' \in [Worker -> BOOLEAN]
    BY <1>3 DEF ChunkAndEmbed, ChunkingFails, TypeOK
  <2>7. ready' \in [Worker -> SUBSET Doc]
    BY <2>1, <2>2 DEF MakeChunks, TypeOK
  <2> QED
    BY <2>1, <2>3, <2>4, <2>5, <2>6, <2>7 DEF MakeChunks, TypeOK, redisVars
<1>4. CASE IndexDocuments(w)
  BY <1>4 DEF IndexDocuments, TypeOK, Goto, Label, redisVars, historyVars
<1>5. CASE MarkSeenBatch(w)
  BY <1>5 DEF MarkSeenBatch, TypeOK, Goto, Label, historyVars
<1>6. CASE Acknowledge(w)
  BY <1>6 DEF Acknowledge, Leave, TypeOK, Goto, Label, historyVars
<1>7. CASE EmbeddingFails(w) \/ IndexingFails(w)
  <2>1. budget' \in Budget
    BY <1>7, SpendType DEF EmbeddingFails, IndexingFails, TypeOK
  <2>2. failures' \in SUBSET Message /\ vanished' \in SUBSET Message
    BY <1>7 DEF EmbeddingFails, IndexingFails, TypeOK, About
  <2>4. CASE EmbeddingFails(w)
    BY <2>1, <2>2, <2>4 DEF EmbeddingFails, TypeOK, Goto, Label, redisVars
  <2>5. CASE IndexingFails(w)
    BY <2>1, <2>2, <2>5 DEF IndexingFails, TypeOK, Goto, Label, redisVars
  <2> QED
    BY <1>7, <2>4, <2>5
<1>8. CASE Interrupted(w)
  <2>1. budget' \in Budget
    BY <1>8, SpendType DEF Interrupted, TypeOK
  <2> QED
    BY <1>8, <2>1 DEF Interrupted, Leave, TypeOK, Goto, Label, redisVars
<1> QED
  BY <1>1, <1>2, <1>3, <1>4, <1>5, <1>6, <1>7, <1>8, ConsumeTypeOK DEF RunStep, RunFails

LEMMA StepTypeOK == TypeOK /\ [Next]_vars => TypeOK'
<1> SUFFICES ASSUME TypeOK, [Next]_vars PROVE TypeOK'
  OBVIOUS
<1>1. CASE SeenExpires
  BY <1>1 DEF SeenExpires, TypeOK, runVars, historyVars
<1>2. ASSUME NEW k \in Kb, DeleteKb(k) PROVE TypeOK'
  <2>1. budget' \in Budget
    BY <1>2, SpendType DEF DeleteKb, TypeOK
  <2> QED
    BY <1>2, <2>1 DEF DeleteKb, TypeOK, redisVars, runVars, historyVars
<1>3. CASE UNCHANGED vars
  BY <1>3 DEF vars, TypeOK, redisVars, runVars, historyVars
<1> QED
  BY <1>1, <1>2, <1>3, PushTypeOK, RunTypeOK DEF Next

\* The type invariant of the ingestion.
THEOREM TypeCorrect == Spec => []TypeOK
  BY InitTypeOK, StepTypeOK, PTL DEF Spec

-------------------------------------------------------------------------------
\* What filter_unseen returned is about messages of the batch that pass the filter.
UnseenOfBatch(w) ==
  pc[w] = "filtered" =>
    \A d \in unseen[w] : \E m \in batch[w] \ Short : DocOf[m] = d

\* A run that has failed at nothing has indexed, once it is there, what it is to
\* mark, save what left nothing to index.
MarksIndexed(w) ==
  ~failed[w] =>
    /\ pc[w] = "embedded" => \A d \in unseen[w] : d \in ready[w] \/ Vanished(d)
    /\ pc[w] = "indexed" =>
         \A d \in unseen[w] : <<kb[w], d>> \in indexed \/ Vanished(d)

SeenInv ==
  SeenIsIndexed /\ \A w \in Worker : MarksIndexed(w) /\ UnseenOfBatch(w)

\* What the chunker and the embedding make of the documents of a batch: each is
\* ready, could not be chunked, or left nothing to index.
LEMMA MadeOrVanished ==
  ASSUME NEW w \in Worker, pc[w] = "filtered", UnseenOfBatch(w), TypeOK,
         NEW bad, NEW missing, MakeChunks(w, bad, missing), NEW d \in unseen[w],
         missing \subseteq WithChunks(w)
  PROVE  d \in ready'[w] \/ d \in bad \/ Vanished(d)'
<1>1. ready'[w] = WithChunks(w) \ (bad \cup missing)
  BY DEF MakeChunks, TypeOK
<1>2. PICK m \in batch[w] \ Short : DocOf[m] = d
  BY DEF UnseenOfBatch
<1>3. m \in About(w, unseen[w])
  BY <1>2 DEF About
<1>4. CASE m \in Chunkless
  BY <1>2, <1>3, <1>4 DEF MakeChunks, Vanished
<1>5. CASE m \notin Chunkless /\ d \in missing
  <2>1. m \in About(w, missing)
    BY <1>2, <1>5 DEF About
  <2> QED
    BY <1>2, <2>1 DEF MakeChunks, Vanished
<1>6. CASE m \notin Chunkless /\ d \notin missing
  <2>1. d \in WithChunks(w)
    BY <1>2, <1>3, <1>6 DEF WithChunks
  <2> QED
    BY <1>1, <1>6, <2>1
<1> QED
  BY <1>4, <1>5, <1>6

\* What is indexed or vanished stays so.
LEMMA SeenStays ==
  ASSUME SeenIsIndexed, indexed \subseteq indexed', vanished \subseteq vanished',
         seen' \subseteq seen
  PROVE  SeenIsIndexed'
BY DEF SeenIsIndexed, Vanished

LEMMA StepSeenInv == TypeOK /\ SeenInv /\ [Next]_vars => SeenInv'
<1> SUFFICES ASSUME TypeOK, SeenInv, [Next]_vars PROVE SeenInv'
  OBVIOUS
<1> USE DEF SeenInv
\* A step of run w alone that marks nothing.
<1>1. ASSUME NEW w \in Worker, indexed \subseteq indexed', vanished \subseteq vanished',
             seen' \subseteq seen,
             \A v \in Worker \ {w} : /\ pc'[v] = pc[v] /\ kb'[v] = kb[v]
                                     /\ batch'[v] = batch[v] /\ unseen'[v] = unseen[v]
                                     /\ ready'[v] = ready[v] /\ failed'[v] = failed[v],
             MarksIndexed(w)', UnseenOfBatch(w)'
      PROVE  SeenInv'
  <2>1. SeenIsIndexed'
    BY <1>1, SeenStays
  <2>2. ASSUME NEW v \in Worker \ {w} PROVE MarksIndexed(v)' /\ UnseenOfBatch(v)'
    BY <1>1, <2>2 DEF MarksIndexed, UnseenOfBatch, Vanished
  <2> QED
    BY <1>1, <2>1, <2>2
<1>2. ASSUME NEW w \in Worker, NEW k \in Kb, Consume(w, k) PROVE SeenInv'
  <2>1. /\ pc'[w] \in {"read", "idle"} /\ UNCHANGED <<indexed, vanished, seen>>
        /\ \A v \in Worker \ {w} : /\ pc'[v] = pc[v] /\ kb'[v] = kb[v]
                                   /\ batch'[v] = batch[v] /\ unseen'[v] = unseen[v]
                                   /\ ready'[v] = ready[v] /\ failed'[v] = failed[v]
    BY <1>2 DEF Consume, Take, Goto, TypeOK
  <2>2. MarksIndexed(w)' /\ UnseenOfBatch(w)'
    BY <2>1 DEF MarksIndexed, UnseenOfBatch
  <2> QED
    BY <1>1, <2>1, <2>2
<1>3. ASSUME NEW w \in Worker, DropBatch(w) \/ EmbeddingFails(w) PROVE SeenInv'
  <2>1. /\ pc'[w] = "done" /\ UNCHANGED <<indexed, seen>> /\ vanished \subseteq vanished'
        /\ \A v \in Worker \ {w} : /\ pc'[v] = pc[v] /\ kb'[v] = kb[v]
                                   /\ batch'[v] = batch[v] /\ unseen'[v] = unseen[v]
                                   /\ ready'[v] = ready[v] /\ failed'[v] = failed[v]
    BY <1>3 DEF DropBatch, EmbeddingFails, Goto, TypeOK, redisVars
  <2>2. MarksIndexed(w)' /\ UnseenOfBatch(w)'
    BY <2>1 DEF MarksIndexed, UnseenOfBatch
  <2> QED
    BY <1>1, <2>1, <2>2
<1>4. ASSUME NEW w \in Worker, FilterUnseen(w) PROVE SeenInv'
  <2>1. /\ pc'[w] \in {"done", "filtered"} /\ UNCHANGED <<indexed, seen, vanished>>
        /\ \A v \in Worker \ {w} : /\ pc'[v] = pc[v] /\ kb'[v] = kb[v]
                                   /\ batch'[v] = batch[v] /\ unseen'[v] = unseen[v]
                                   /\ ready'[v] = ready[v] /\ failed'[v] = failed[v]
    BY <1>4 DEF FilterUnseen, Goto, TypeOK, redisVars
  <2>2. unseen'[w] = {DocOf[m] : m \in batch[w] \ Short} \ seen /\ batch' = batch
    BY <1>4 DEF FilterUnseen, TypeOK
  <2>3. MarksIndexed(w)' /\ UnseenOfBatch(w)'
    BY <2>1, <2>2 DEF MarksIndexed, UnseenOfBatch
  <2> QED
    BY <1>1, <2>1, <2>3
<1>5. ASSUME NEW w \in Worker, ChunkAndEmbed(w) \/ ChunkingFails(w) PROVE SeenInv'
  <2>1. PICK bad, missing \in SUBSET WithChunks(w) :
          /\ MakeChunks(w, bad, missing)
          /\ bad # {} => failed' = [failed EXCEPT ![w] = TRUE]
          /\ \A v \in Worker \ {w} : failed'[v] = failed[v]
    BY <1>5 DEF ChunkAndEmbed, ChunkingFails, TypeOK
  <2>2. /\ pc[w] = "filtered" /\ pc'[w] \in {"done", "embedded"}
        /\ UNCHANGED <<indexed, seen, batch, unseen, kb>> /\ vanished \subseteq vanished'
        /\ \A v \in Worker \ {w} : pc'[v] = pc[v] /\ ready'[v] = ready[v]
    BY <2>1 DEF MakeChunks, Goto, TypeOK, redisVars
  <2>3. ~failed'[w] => bad = {}
    BY <2>1 DEF TypeOK
  <2>4. \A d \in unseen[w] : d \in ready'[w] \/ d \in bad \/ Vanished(d)'
    BY <2>1, <2>2, MadeOrVanished
  <2>5. MarksIndexed(w)'
    BY <2>2, <2>3, <2>4 DEF MarksIndexed
  <2>6. UnseenOfBatch(w)'
    BY <2>2 DEF UnseenOfBatch
  <2> QED
    BY <1>1, <2>1, <2>2, <2>5, <2>6
<1>6. ASSUME NEW w \in Worker, IndexDocuments(w) \/ IndexingFails(w) PROVE SeenInv'
  <2>1. /\ pc[w] = "embedded" /\ pc'[w] = "indexed" /\ indexed \subseteq indexed'
        /\ UNCHANGED <<seen, batch, unseen, kb, ready, vanished>>
        /\ \A v \in Worker \ {w} : pc'[v] = pc[v] /\ failed'[v] = failed[v]
    BY <1>6 DEF IndexDocuments, IndexingFails, Goto, TypeOK, redisVars, historyVars
  <2>2. UnseenOfBatch(w)'
    BY <2>1 DEF UnseenOfBatch
  <2>3. MarksIndexed(w)'
    <3>1. CASE IndexDocuments(w)
      <4>1. \A d \in ready[w] : <<kb[w], d>> \in indexed'
        BY <3>1 DEF IndexDocuments, TypeOK
      <4> QED
        BY <2>1, <3>1, <4>1 DEF IndexDocuments, MarksIndexed, Vanished
    <3>2. CASE IndexingFails(w)
      BY <3>2 DEF IndexingFails, MarksIndexed, TypeOK
    <3> QED
      BY <1>6, <3>1, <3>2
  <2> QED
    BY <1>1, <2>1, <2>2, <2>3
<1>7. ASSUME NEW w \in Worker, MarkSeenBatch(w) PROVE SeenInv'
  <2>1. /\ pc[w] = "indexed" /\ pc' = [pc EXCEPT ![w] = "done"]
        /\ UNCHANGED <<indexed, vanished, kb, batch, unseen, ready, failed>>
        /\ seen' = IF failed[w] THEN seen ELSE seen \cup unseen[w]
    BY <1>7 DEF MarkSeenBatch, Goto, historyVars
  <2>2. ASSUME NEW d \in seen' PROVE Vanished(d)' \/ \E k \in Kb : <<k, d>> \in indexed'
    <3>1. CASE d \in seen
      BY <2>1, <3>1 DEF SeenIsIndexed, Vanished
    <3>2. CASE ~failed[w] /\ d \in unseen[w]
      <4>1. kb[w] \in Kb
        BY <2>1 DEF TypeOK
      <4> QED
        BY <2>1, <3>2, <4>1 DEF MarksIndexed, Vanished
    <3> QED
      BY <2>1, <2>2, <3>1, <3>2
  <2>3. SeenIsIndexed'
    BY <2>2 DEF SeenIsIndexed
  <2>4. ASSUME NEW v \in Worker PROVE MarksIndexed(v)' /\ UnseenOfBatch(v)'
    <3>1. pc'[v] = pc[v] \/ pc'[v] = "done"
      BY <2>1 DEF TypeOK
    <3>2. CASE pc'[v] = "done"
      BY <3>2 DEF MarksIndexed, UnseenOfBatch
    <3>3. CASE pc'[v] = pc[v]
      BY <2>1, <3>3 DEF MarksIndexed, UnseenOfBatch, Vanished
    <3> QED
      BY <3>1, <3>2, <3>3
  <2> QED
    BY <2>3, <2>4
<1>8. ASSUME NEW w \in Worker, Acknowledge(w) \/ Interrupted(w) PROVE SeenInv'
  <2>1. Leave(w) /\ UNCHANGED <<indexed, seen, vanished>>
    BY <1>8 DEF Acknowledge, Interrupted, redisVars, historyVars
  <2>2. /\ pc'[w] = "idle"
        /\ \A v \in Worker \ {w} : /\ pc'[v] = pc[v] /\ kb'[v] = kb[v]
                                   /\ batch'[v] = batch[v] /\ unseen'[v] = unseen[v]
                                   /\ ready'[v] = ready[v] /\ failed'[v] = failed[v]
    BY <2>1 DEF Leave, Goto, TypeOK
  <2>3. MarksIndexed(w)' /\ UnseenOfBatch(w)'
    BY <2>2 DEF MarksIndexed, UnseenOfBatch
  <2> QED
    BY <1>1, <2>1, <2>2, <2>3
<1>9. ASSUME \/ \E m \in Message : Push(m) \/ PushFails(m)
             \/ SeenExpires \/ (\E k \in Kb : DeleteKb(k)) \/ UNCHANGED vars
      PROVE  SeenInv'
  <2>1. UNCHANGED <<indexed, runVars, vanished>> /\ seen' \subseteq seen
    BY <1>9 DEF Push, PushFails, SeenExpires, DeleteKb, vars, redisVars, historyVars
  <2>2. SeenIsIndexed'
    BY <2>1, SeenStays
  <2> QED
    BY <2>1, <2>2 DEF runVars, MarksIndexed, UnseenOfBatch, Vanished
<1> QED
  BY <1>2, <1>3, <1>4, <1>5, <1>6, <1>7, <1>8, <1>9 DEF Next, RunStep, RunFails

\* Whatever fails, is cut off or runs at the same time, a document is only remembered
\* as seen when it is in the index or nothing could be made of an entry of its: never
\* because it failed.
THEOREM SeenAreIndexed == Spec => []SeenIsIndexed
<1>1. Init => SeenInv
  BY DEF Init, SeenInv, SeenIsIndexed, MarksIndexed, UnseenOfBatch
<1> QED
  BY <1>1, InitTypeOK, StepTypeOK, StepSeenInv, PTL DEF Spec, SeenInv

-------------------------------------------------------------------------------
\* Of the batch of a run, what is not among the documents it still works on is dealt
\* with.
BatchHandled(w) ==
  \A m \in batch[w] :
    /\ pc[w] = "filtered" => Handled(m) \/ DocOf[m] \in unseen[w]
    /\ pc[w] = "embedded" => Handled(m) \/ DocOf[m] \in ready[w]
    /\ pc[w] \in {"indexed", "done"} => Handled(m)

HandledInv == AckedIsHandled /\ \A w \in Worker : BatchHandled(w)

\* What is dealt with stays so.
LEMMA HandledStays ==
  ASSUME indexed \subseteq indexed', duplicates \subseteq duplicates',
         failures \subseteq failures', vanished \subseteq vanished', NEW m, Handled(m)
  PROVE  Handled(m)'
  BY DEF Handled, InIndex

LEMMA StepHandledInv == TypeOK /\ HandledInv /\ [Next]_vars => HandledInv'
<1> SUFFICES ASSUME TypeOK, HandledInv, [Next]_vars PROVE HandledInv'
  OBVIOUS
<1> USE IngestionAssumption DEF HandledInv, AckedIsHandled, BatchHandled
\* A step of run w alone.
<1>1. ASSUME NEW w \in Worker, indexed \subseteq indexed',
             duplicates \subseteq duplicates', failures \subseteq failures',
             vanished \subseteq vanished',
             \A v \in Worker \ {w} : /\ pc'[v] = pc[v] /\ batch'[v] = batch[v]
                                     /\ unseen'[v] = unseen[v] /\ ready'[v] = ready[v],
             \A m \in acked' : m \in acked \/ Handled(m)',
             BatchHandled(w)'
      PROVE  HandledInv'
  BY <1>1, HandledStays
<1>2. ASSUME NEW w \in Worker, NEW k \in Kb, Consume(w, k) PROVE HandledInv'
  <2>1. BatchHandled(w)'
    <3>1. pc'[w] = "read" \/ batch'[w] = {}
      BY <1>2 DEF Consume, Take, Goto, TypeOK
    <3> QED
      BY <3>1
  <2> QED
    BY <1>1, <1>2, <2>1 DEF Consume, Take, Goto, TypeOK
<1>3. ASSUME NEW w \in Worker, DropBatch(w) PROVE HandledInv'
  <2>1. BatchHandled(w)'
    BY <1>3 DEF DropBatch, Goto, TypeOK, Handled
  <2> QED
    BY <1>1, <1>3, <2>1 DEF DropBatch, Goto, TypeOK, redisVars
<1>4. ASSUME NEW w \in Worker, FilterUnseen(w) PROVE HandledInv'
  <2>1. \A m \in batch[w] \ Short :
          DocOf[m] \in seen => m \in duplicates'
    BY <1>4 DEF FilterUnseen, About
  <2>2. BatchHandled(w)'
    BY <1>4, <2>1 DEF FilterUnseen, Goto, TypeOK, Handled
  <2> QED
    BY <1>1, <1>4, <2>2 DEF FilterUnseen, Goto, TypeOK, redisVars
<1>5. ASSUME NEW w \in Worker, ChunkAndEmbed(w) \/ ChunkingFails(w) PROVE HandledInv'
  <2>1. PICK bad, missing \in SUBSET WithChunks(w) : MakeChunks(w, bad, missing)
    BY <1>5 DEF ChunkAndEmbed, ChunkingFails
  <2>2. /\ indexed' = indexed /\ duplicates' = duplicates /\ batch' = batch
        /\ unseen' = unseen /\ acked' = acked /\ pc[w] = "filtered"
        /\ failures' = failures \cup (About(w, bad) \ Chunkless)
        /\ vanished' = vanished \cup About(w, missing)
                         \cup (About(w, unseen[w]) \cap Chunkless)
    BY <2>1 DEF MakeChunks, redisVars
  <2>3. /\ ready'[w] = WithChunks(w) \ (bad \cup missing)
        /\ pc'[w] = IF WithChunks(w) \subseteq bad THEN "done" ELSE "embedded"
        /\ \A v \in Worker \ {w} : pc'[v] = pc[v] /\ ready'[v] = ready[v]
    BY <2>1 DEF MakeChunks, Goto, TypeOK
  <2>4. ASSUME NEW m \in batch[w], m \notin Short, DocOf[m] \in unseen[w]
        PROVE  Handled(m)' \/ (DocOf[m] \in ready'[w] /\ pc'[w] = "embedded")
    <3>1. m \in About(w, unseen[w])
      BY <2>4 DEF About
    <3>2. CASE m \in Chunkless
      BY <2>2, <3>1, <3>2 DEF Handled
    <3>3. CASE m \notin Chunkless /\ DocOf[m] \in bad \cup missing
      <4>1. m \in About(w, bad) \/ m \in About(w, missing)
        BY <2>4, <3>3 DEF About
      <4> QED
        BY <2>2, <3>3, <4>1 DEF Handled
    <3>4. CASE m \notin Chunkless /\ DocOf[m] \notin bad \cup missing
      <4>1. DocOf[m] \in WithChunks(w)
        BY <3>1, <3>4 DEF WithChunks
      <4> QED
        BY <2>3, <3>4, <4>1
    <3> QED
      BY <3>2, <3>3, <3>4
  <2>5. \A m \in batch[w] : m \in Short => Handled(m)'
    BY DEF Handled
  <2>6. \A m \in batch[w] : Handled(m) => Handled(m)'
    BY <2>2, HandledStays
  <2>7. \A m \in batch[w] :
          Handled(m)' \/ (DocOf[m] \in ready'[w] /\ pc'[w] = "embedded")
    BY <2>2, <2>4, <2>5, <2>6
  <2>8. BatchHandled(w)'
    BY <2>2, <2>3, <2>7
  <2> QED
    BY <1>1, <2>2, <2>3, <2>8
<1>7. ASSUME NEW w \in Worker, EmbeddingFails(w) PROVE HandledInv'
  <2>1. ASSUME NEW m \in batch[w], DocOf[m] \in unseen[w] PROVE Handled(m)'
    <3>1. m \in Short \/ m \in About(w, unseen[w])
      BY <2>1 DEF About
    <3> QED
      BY <1>7, <3>1 DEF EmbeddingFails, Handled
  <2>2. /\ UNCHANGED <<indexed, duplicates, batch, unseen, ready, acked>>
        /\ failures \subseteq failures' /\ vanished \subseteq vanished'
        /\ pc[w] = "filtered" /\ pc' = [pc EXCEPT ![w] = "done"]
    BY <1>7 DEF EmbeddingFails, Goto, redisVars
  <2>3. \A m \in batch[w] : Handled(m)'
    BY <2>1, <2>2, HandledStays
  <2>4. BatchHandled(w)'
    BY <2>2, <2>3
  <2> QED
    BY <1>1, <2>2, <2>4 DEF TypeOK
<1>8. ASSUME NEW w \in Worker, IndexDocuments(w) PROVE HandledInv'
  <2>1. \A m \in batch[w] : DocOf[m] \in ready[w] => Handled(m)'
    BY <1>8 DEF IndexDocuments, Handled, InIndex, TypeOK
  <2>2. BatchHandled(w)'
    BY <1>8, <2>1, HandledStays DEF IndexDocuments, Goto, TypeOK, historyVars
  <2> QED
    BY <1>1, <1>8, <2>2 DEF IndexDocuments, Goto, TypeOK, redisVars, historyVars
<1>9. ASSUME NEW w \in Worker, IndexingFails(w) PROVE HandledInv'
  <2>1. PICK ds \in SUBSET ready[w] \ {{}} :
          /\ indexed' = indexed \cup ({kb[w]} \X (ready[w] \ ds))
          /\ failures' = failures \cup About(w, ds)
    BY <1>9 DEF IndexingFails
  <2>2. /\ UNCHANGED <<duplicates, vanished>> /\ batch' = batch /\ ready' = ready
        /\ unseen' = unseen /\ acked' = acked /\ pc[w] = "embedded"
        /\ pc' = [pc EXCEPT ![w] = "indexed"]
    BY <1>9 DEF IndexingFails, Goto, redisVars
  <2>3. \A m \in batch[w] : DocOf[m] \in ready[w] => Handled(m)'
    BY <2>1 DEF About, Handled, InIndex, TypeOK
  <2>4. BatchHandled(w)'
    BY <2>1, <2>2, <2>3, HandledStays DEF TypeOK
  <2> QED
    BY <1>1, <2>1, <2>2, <2>4 DEF TypeOK
<1>10. ASSUME NEW w \in Worker, MarkSeenBatch(w) PROVE HandledInv'
  <2>1. BatchHandled(w)'
    BY <1>10, HandledStays DEF MarkSeenBatch, Goto, TypeOK, historyVars
  <2> QED
    BY <1>1, <1>10, <2>1 DEF MarkSeenBatch, Goto, TypeOK, historyVars
<1>11. ASSUME NEW w \in Worker, Acknowledge(w) PROVE HandledInv'
  <2>1. \A m \in acked' : Handled(m)'
    BY <1>11, HandledStays DEF Acknowledge, historyVars
  <2>2. BatchHandled(w)'
    BY <1>11 DEF Acknowledge, Leave, TypeOK
  <2> QED
    BY <1>1, <1>11, <2>1, <2>2 DEF Acknowledge, Leave, Goto, TypeOK, historyVars
<1>12. ASSUME NEW w \in Worker, Interrupted(w) PROVE HandledInv'
  <2>1. BatchHandled(w)'
    BY <1>12 DEF Interrupted, Leave, TypeOK
  <2> QED
    BY <1>1, <1>12, <2>1 DEF Interrupted, Leave, Goto, TypeOK, redisVars
<1>13. ASSUME \/ \E m \in Message : Push(m) \/ PushFails(m)
              \/ SeenExpires \/ (\E k \in Kb : DeleteKb(k)) \/ UNCHANGED vars
       PROVE  HandledInv'
  <2>1. UNCHANGED <<acked, indexed, runVars, historyVars>>
    BY <1>13 DEF Push, PushFails, SeenExpires, DeleteKb, vars, redisVars
  <2> QED
    BY <2>1, HandledStays DEF runVars, historyVars
<1> QED
  BY <1>2, <1>3, <1>4, <1>5, <1>7, <1>8, <1>9, <1>10, <1>11, <1>12, <1>13
     DEF Next, RunStep, RunFails

\* Every entry that is acknowledged was indexed, dropped as seen or too short, counted
\* as failed, or one of which nothing was left to index, whatever runs were cut off.
THEOREM AcknowledgedAreHandled == Spec => []AckedIsHandled
<1>1. Init => HandledInv
  BY DEF Init, HandledInv, AckedIsHandled, BatchHandled
<1> QED
  BY <1>1, InitTypeOK, StepTypeOK, StepHandledInv, PTL DEF Spec, HandledInv

-------------------------------------------------------------------------------
\* EntriesHeld
\*
\* It is not inductive: that a run is given new entries only rests on where an
\* entry can be.  It is pushed once, waits once in the stream of its knowledge
\* base, and is pending from the moment it leaves it.

Waiting(k, m) == \E i \in 1..Len(stream[k]) : stream[k][i] = m

WaitsOnce(s) == \A i, j \in 1..Len(s) : s[i] = s[j] => i = j

EntryInv ==
  /\ EntriesHeld
  /\ \A k \in Kb : WaitsOnce(stream[k])
  /\ \A k \in Kb, m \in Message : Waiting(k, m) => m \notin unsent \cup pending
  /\ pending \cap unsent = {}
  /\ \A w \in Worker : batch[w] \subseteq pending /\ (pc[w] = "idle" => batch[w] = {})

\* XADD puts an entry into its stream that was in none.
LEMMA PushEntryInv ==
  ASSUME TypeOK, EntryInv, NEW m \in Message, Push(m)
  PROVE  EntryInv'
<1> USE IngestionAssumption
<1> DEFINE k == KbOf[m]  s == stream[k]
<1>1. k \in Kb /\ s \in Seq(Message) /\ Len(s) \in Nat
  BY LenProperties DEF TypeOK
<1>2. /\ Len(Append(s, m)) = Len(s) + 1
      /\ \A i \in 1..Len(s) : Append(s, m)[i] = s[i]
      /\ Append(s, m)[Len(s) + 1] = m
  BY <1>1, AppendProperties
<1>3. /\ stream' = [stream EXCEPT ![k] = Append(s, m)]
      /\ m \in unsent /\ unsent' = unsent \ {m}
      /\ UNCHANGED <<pending, batch, pc, abandoned>>
  BY DEF Push, runVars, historyVars
<1>4. stream'[k] = Append(s, m) /\ \A q \in Kb \ {k} : stream'[q] = stream[q]
  BY <1>1, <1>3 DEF TypeOK
<1>5. ~Waiting(k, m)
  BY <1>1, <1>3 DEF EntryInv
<1>6. \A i \in 1..Len(s) : s[i] # m
  BY <1>5 DEF Waiting
<1>7. WaitsOnce(Append(s, m))
  <2>1. WaitsOnce(s)
    BY <1>1 DEF EntryInv
  <2>2. \A i \in 1..(Len(s) + 1) : i \in 1..Len(s) \/ i = Len(s) + 1
    BY <1>1
  <2> HIDE DEF s
  <2> QED
    BY <1>2, <1>6, <2>1, <2>2 DEF WaitsOnce
<1>8. \A q \in Kb : WaitsOnce(stream[q])'
  <2>1. ASSUME NEW q \in Kb PROVE WaitsOnce(stream'[q])
    <3>1. CASE q = k
      BY <1>4, <1>7, <3>1
    <3>2. CASE q # k
      BY <1>4, <3>2 DEF EntryInv
    <3> QED
      BY <3>1, <3>2
  <2> QED
    BY <2>1 DEF WaitsOnce
<1>9. \A q \in Kb, n \in Message : Waiting(q, n)' => Waiting(q, n) \/ n = m
  <2>1. \A i \in 1..(Len(s) + 1) : i \in 1..Len(s) \/ i = Len(s) + 1
    BY <1>1
  <2>2. ASSUME NEW q \in Kb, NEW n \in Message, NEW i \in 1..Len(stream'[q]),
               stream'[q][i] = n
        PROVE  Waiting(q, n) \/ n = m
    <3>1. CASE q = k
      BY <1>2, <1>4, <2>1, <2>2, <3>1 DEF Waiting
    <3>2. CASE q # k
      BY <1>4, <2>2, <3>2 DEF Waiting
    <3> QED
      BY <3>1, <3>2
  <2> QED
    BY <2>2 DEF Waiting
<1>10. \A q \in Kb, n \in Message : Waiting(q, n)' => n \notin unsent' \cup pending'
  BY <1>3, <1>9 DEF EntryInv
<1> QED
  BY <1>3, <1>8, <1>10 DEF EntryInv, EntriesHeld

\* What XREADGROUP delivers waited in the stream, and is no longer there.
LEMMA DeliveredLeave ==
  ASSUME TypeOK, NEW k \in Kb, WaitsOnce(stream[k])
  PROVE  /\ \A m \in Delivered(k) : Waiting(k, m)
         /\ WaitsOnce(Rest(k))
         /\ \A i \in 1..Len(Rest(k)) : /\ Waiting(k, Rest(k)[i])
                                       /\ Rest(k)[i] \notin Delivered(k)
<1> USE IngestionAssumption
<1> DEFINE s == stream[k]  n == Count(k)  r == Rest(k)
<1>1. s \in Seq(Message) /\ Len(s) \in Nat /\ n \in 0..Len(s)
  BY LenProperties DEF TypeOK, Count
<1>2. /\ Len(r) = Len(s) - n
      /\ \A i \in 1..(Len(s) - n) : r[i] = s[n + i]
  <2>1. r = SubSeq(s, n + 1, Len(s))
    BY DEF Rest
  <2> HIDE DEF s, n, r
  <2> QED
    BY <1>1, <2>1
<1>3. \A i \in 1..n : i \in 1..Len(s)
  BY <1>1
<1>4. \A m \in Delivered(k) : \E i \in 1..n : m = s[i]
  BY DEF Delivered
<1>5. WaitsOnce(s)
  OBVIOUS
<1>6. \A m : (\E i \in 1..Len(s) : s[i] = m) => Waiting(k, m)
  BY DEF Waiting
<1> HIDE DEF s, n, r
<1>7. \A i \in 1..Len(r) : n + i \in 1..Len(s) /\ r[i] = s[n + i]
  BY <1>1, <1>2
<1>8. \A i \in 1..Len(r), j \in 1..n : r[i] # s[j]
  <2>1. \A i \in 1..Len(r), j \in 1..n : n + i # j
    BY <1>1, <1>2
  <2> QED
    BY <1>3, <1>5, <1>7, <2>1 DEF WaitsOnce
<1>9. WaitsOnce(r)
  <2>1. \A i, j \in 1..Len(r) : n + i = n + j => i = j
    BY <1>1, <1>2
  <2> QED
    BY <1>5, <1>7, <2>1 DEF WaitsOnce
<1>10. \A m \in Delivered(k) : Waiting(k, m)
  BY <1>3, <1>4, <1>6
<1>11. \A i \in 1..Len(r) : Waiting(k, r[i]) /\ r[i] \notin Delivered(k)
  BY <1>4, <1>6, <1>7, <1>8
<1> QED
  BY <1>9, <1>10, <1>11 DEF r

LEMMA ConsumeEntryInv ==
  ASSUME TypeOK, EntryInv, NEW w \in Worker, NEW k \in Kb, Consume(w, k)
  PROVE  EntryInv'
<1> USE IngestionAssumption
<1>1. /\ stream' = [stream EXCEPT ![k] = Rest(k)]
      /\ batch' = [batch EXCEPT ![w] = Delivered(k) \ Malformed]
      /\ abandoned' = abandoned \cup (Delivered(k) \cap Malformed)
      /\ pending' = pending \cup Delivered(k)
      /\ unsent' = unsent /\ pc[w] = "idle"
  BY DEF Consume, Take
<1>2. /\ \A m \in Delivered(k) : Waiting(k, m)
      /\ WaitsOnce(Rest(k))
      /\ \A i \in 1..Len(Rest(k)) : /\ Waiting(k, Rest(k)[i])
                                    /\ Rest(k)[i] \notin Delivered(k)
  BY DeliveredLeave DEF EntryInv
<1>3. stream'[k] = Rest(k) /\ \A q \in Kb \ {k} : stream'[q] = stream[q]
  BY <1>1 DEF TypeOK
<1>4. Delivered(k) \subseteq {m \in Message : KbOf[m] = k}
  <2>1. stream[k] \in Seq(Message) /\ \A i \in 1..Len(stream[k]) : KbOf[stream[k][i]] = k
    BY DEF TypeOK
  <2>2. \A i \in 1..Len(stream[k]) : stream[k][i] \in Message
    BY <2>1, ElementOfSeq
  <2> QED
    BY <1>2, <2>1, <2>2 DEF Waiting
<1>5. Delivered(k) \cap (pending \cup unsent) = {}
  BY <1>2, <1>4 DEF EntryInv
<1>6. \A q \in Kb : WaitsOnce(stream[q])'
  <2>1. ASSUME NEW q \in Kb PROVE WaitsOnce(stream'[q])
    <3>1. CASE q = k
      BY <1>2, <1>3, <3>1
    <3>2. CASE q # k
      BY <1>3, <3>2 DEF EntryInv
    <3> QED
      BY <3>1, <3>2
  <2> QED
    BY <2>1 DEF WaitsOnce
<1>7. \A q \in Kb, m \in Message :
        Waiting(q, m)' => Waiting(q, m) /\ m \notin Delivered(k)
  <2>1. ASSUME NEW q \in Kb, NEW m \in Message, NEW i \in 1..Len(stream'[q]),
               stream'[q][i] = m
        PROVE  Waiting(q, m) /\ m \notin Delivered(k)
    <3>1. CASE q = k
      BY <1>2, <1>3, <2>1, <3>1
    <3>2. CASE q # k
      <4>1. i \in 1..Len(stream[q]) /\ stream[q][i] = m
        BY <1>3, <2>1, <3>2
      <4>2. KbOf[m] = q
        BY <4>1 DEF TypeOK
      <4> QED
        BY <1>4, <3>2, <4>1, <4>2 DEF Waiting
    <3> QED
      BY <3>1, <3>2
  <2> QED
    BY <2>1 DEF Waiting
<1>8. \A q \in Kb, m \in Message : Waiting(q, m)' => m \notin unsent' \cup pending'
  BY <1>1, <1>7 DEF EntryInv
<1>9. /\ batch'[w] = Delivered(k) \ Malformed
      /\ \A v \in Worker \ {w} : batch'[v] = batch[v]
      /\ batch[w] = {}
  BY <1>1 DEF TypeOK, EntryInv
<1>10. EntriesHeld'
  <2>1. \A v \in Worker : batch[v] \cap Delivered(k) = {}
    BY <1>5 DEF EntryInv
  <2>2. \A u, v \in Worker : u # v => batch'[u] \cap batch'[v] = {}
    BY <1>9, <2>1 DEF EntryInv, EntriesHeld
  <2>3. ASSUME NEW m \in pending'
        PROVE  m \in abandoned' \/ \E v \in Worker : m \in batch'[v]
    <3>1. CASE m \in Delivered(k)
      BY <1>1, <1>9, <3>1
    <3>2. CASE m \in pending
      BY <1>1, <1>9, <3>2 DEF EntryInv, EntriesHeld
    <3> QED
      BY <1>1, <2>3, <3>1, <3>2
  <2> QED
    BY <2>2, <2>3 DEF EntriesHeld
<1>11. \A v \in Worker :
         batch'[v] \subseteq pending' /\ (pc'[v] = "idle" => batch'[v] = {})
  <2>1. pc'[w] = "idle" => batch'[w] = {}
    BY <1>9 DEF Consume, Take, Goto, TypeOK
  <2>2. \A v \in Worker \ {w} : pc'[v] = pc[v]
    BY DEF Consume, Take, Goto, TypeOK
  <2> QED
    BY <1>1, <1>9, <2>1, <2>2 DEF EntryInv
<1>12. pending' \cap unsent' = {}
  BY <1>1, <1>5 DEF EntryInv
<1> QED
  BY <1>6, <1>8, <1>10, <1>11, <1>12 DEF EntryInv

\* A run that has finished its batch or leaves it: its entries are acknowledged or
\* stay behind.
LEMMA LeaveEntryInv ==
  ASSUME TypeOK, EntryInv, NEW w \in Worker, Acknowledge(w) \/ Interrupted(w)
  PROVE  EntryInv'
<1>1. /\ UNCHANGED <<stream, unsent>>
      /\ batch' = [batch EXCEPT ![w] = {}] /\ pc' = [pc EXCEPT ![w] = "idle"]
      /\ \/ pending' = pending \ batch[w] /\ abandoned' = abandoned
         \/ pending' = pending /\ abandoned' = abandoned \cup batch[w]
  BY DEF Acknowledge, Interrupted, Leave, Goto, redisVars, historyVars
<1>2. /\ batch'[w] = {} /\ \A v \in Worker \ {w} : batch'[v] = batch[v]
      /\ \A v \in Worker \ {w} : pc'[v] = pc[v]
  BY <1>1 DEF TypeOK
<1>3. EntriesHeld'
  BY <1>1, <1>2 DEF EntryInv, EntriesHeld
<1>4. \A v \in Worker :
        batch'[v] \subseteq pending' /\ (pc'[v] = "idle" => batch'[v] = {})
  <2>1. \A v \in Worker \ {w} : batch[v] \cap batch[w] = {}
    BY DEF EntryInv, EntriesHeld
  <2> QED
    BY <1>1, <1>2, <2>1 DEF EntryInv
<1> QED
  BY <1>1, <1>3, <1>4 DEF EntryInv, Waiting, WaitsOnce

LEMMA StepEntryInv == TypeOK /\ EntryInv /\ [Next]_vars => EntryInv'
<1> SUFFICES ASSUME TypeOK, EntryInv, [Next]_vars PROVE EntryInv'
  OBVIOUS
\* A step that moves no entry.
<1>1. ASSUME UNCHANGED <<stream, pending, batch, abandoned>>, unsent' \subseteq unsent,
             \A v \in Worker : pc'[v] = "idle" => pc[v] = "idle"
      PROVE  EntryInv'
  BY <1>1 DEF EntryInv, EntriesHeld, Waiting, WaitsOnce
<1>2. ASSUME NEW w \in Worker,
             \/ DropBatch(w) \/ FilterUnseen(w) \/ ChunkAndEmbed(w)
             \/ IndexDocuments(w) \/ MarkSeenBatch(w)
             \/ ChunkingFails(w) \/ EmbeddingFails(w) \/ IndexingFails(w)
      PROVE  EntryInv'
  <2>1. \E l \in Label \ {"idle"} : Goto(w, l)
    BY <1>2 DEF DropBatch, FilterUnseen, ChunkAndEmbed, IndexDocuments, MarkSeenBatch,
                ChunkingFails, MakeChunks, EmbeddingFails,
                IndexingFails, Label
  <2>2. UNCHANGED <<stream, pending, batch, abandoned, unsent>>
    BY <1>2 DEF DropBatch, FilterUnseen, ChunkAndEmbed, IndexDocuments, MarkSeenBatch,
                ChunkingFails, MakeChunks, EmbeddingFails,
                IndexingFails, redisVars, historyVars
  <2> QED
    BY <1>1, <2>1, <2>2 DEF Goto, TypeOK
<1>3. ASSUME \/ \E m \in Message : PushFails(m)
             \/ SeenExpires \/ (\E k \in Kb : DeleteKb(k)) \/ UNCHANGED vars
      PROVE  EntryInv'
  BY <1>1, <1>3
     DEF PushFails, SeenExpires, DeleteKb, vars, redisVars, runVars, historyVars
<1> QED
  BY <1>2, <1>3, PushEntryInv, ConsumeEntryInv, LeaveEntryInv DEF Next, RunStep, RunFails

\* No two runs have an entry in hand, and an entry that was delivered is acknowledged,
\* in the hands of a run, or one that a run has left, whatever is cut off.
THEOREM EntriesAreHeld == Spec => []EntriesHeld
<1>1. Init => EntryInv
  BY DEF Init, EntryInv, EntriesHeld, Waiting, WaitsOnce
<1> QED
  BY <1>1, InitTypeOK, StepTypeOK, StepEntryInv, PTL DEF Spec, EntryInv

===============================================================================
