------------------------------- MODULE Indexing -------------------------------
(***************************************************************************)
(* The last two stages of an ingestion: every chunk of a commit is given a *)
(* vector, from the embedding cache that all attempts share or from the    *)
(* model, in batches answered in any order, and is then stored.  A Redis   *)
(* or Qdrant call and a request to the model may fail.                     *)
(*                                                                         *)
(* A chunk is its position in the commit; the vector of a text is named by *)
(* the text, and so is the hash of it.  In the attempts found maps a text  *)
(* and answers a chunk to its vector.                                      *)
(***************************************************************************)
EXTENDS Naturals, Sequences, FiniteSets, SequencesExt

CONSTANTS Attempts,
          CommitOf,                \* attempt -> commit
          Texts,                   \* commit -> the contents of its chunks
          batch_size,              \* of embed_chunks
          qdrant_upsert_batch_size,
          MaxTries,                \* stop_after_attempt of the Qdrant client
          None

VARIABLES cache,     \* text -> its vector in the embedding cache, or None
          sets,      \* SETs on their way to Redis: [by, text, vector]
          attempt,   \* [pc, asked, found, answers, upserted, tries]
          points     \* the vector store: <<commit, chunk>> -> vector, or None

vars == <<cache, sets, attempt, points>>

Chunks(a) == Texts[CommitOf[a]]
Hashes == UNION {ToSet(Texts[c]) : c \in DOMAIN Texts}
Ids == UNION {{c} \X DOMAIN Texts[c] : c \in DOMAIN Texts}

Init == /\ cache = [h \in Hashes |-> None] /\ sets = {}
        /\ attempt = [a \in Attempts |-> [pc |-> "looking", asked |-> {}, found |-> <<>>,
                                          answers |-> <<>>, upserted |-> 0, tries |-> 1]]
        /\ points = [id \in Ids |-> None]

At(a, pc) == attempt[a].pc = pc
Goto(a, pc) == attempt' = [attempt EXCEPT ![a].pc = pc]
Fails(a) == Goto(a, "failed")
------------------------------------------------------------------------------
(* embed_with_cache.                                                       *)

\* One of the GETs that are gathered; an expired entry is a miss.
LookUp(a, h) ==
  /\ At(a, "looking") /\ h \in ToSet(Chunks(a)) \ attempt[a].asked
  /\ \/ attempt' = [attempt EXCEPT
           ![a].asked = @ \cup {h},
           ![a].found = IF cache[h] = None THEN @
                        ELSE [t \in DOMAIN @ \cup {h} |-> IF t = h THEN cache[h] ELSE @[t]]]
     \/ Fails(a)
  /\ UNCHANGED <<cache, sets, points>>

\* missing_indices, and their batches: the chunks at the next batch_size of them.
Missing(a) == {i \in DOMAIN Chunks(a) : Chunks(a)[i] \notin DOMAIN attempt[a].found}
BatchOf(a, i) == (Cardinality({j \in Missing(a) : j < i}) \div batch_size) + 1
Batches(a) == {BatchOf(a, i) : i \in Missing(a)}
Batch(a, b) == {i \in Missing(a) : BatchOf(a, i) = b}

LookedUp(a) ==
  /\ At(a, "looking") /\ attempt[a].asked = ToSet(Chunks(a))
  /\ Goto(a, IF Missing(a) = {} THEN "storing" ELSE "embedding")
  /\ UNCHANGED <<cache, sets, points>>

\* An answer lists the embeddings in an order of its own, each with the index
\* of its text: at place k that of index[k].
Placed_AsListed(a, index) == [i \in DOMAIN index |-> Chunks(a)[index[i]]]
Placed(a, index) ==
  [i \in DOMAIN index |-> Chunks(a)[index[CHOOSE k \in DOMAIN index : index[k] = i]]]

\* _extract_vectors refuses an answer without an embedding for every text.
Answer(a, b) ==
  /\ At(a, "embedding") /\ Batch(a, b) \cap DOMAIN attempt[a].answers = {}
  /\ \/ \E index \in [Batch(a, b) -> Batch(a, b)] :
          /\ {index[k] : k \in Batch(a, b)} = Batch(a, b)
          /\ attempt' = [attempt EXCEPT ![a].answers =
               [i \in DOMAIN @ \cup Batch(a, b) |->
                  IF i \in Batch(a, b) THEN Placed(a, index)[i] ELSE @[i]]]
     \/ Fails(a)
  /\ UNCHANGED <<cache, sets, points>>

\* new_hash_vector_map: of two chunks with one text the later one counts.
LastWith(a, h) ==
  CHOOSE i \in Missing(a) : /\ Chunks(a)[i] = h
                            /\ \A j \in Missing(a) : Chunks(a)[j] = h => j <= i
NewVectors(a) == [h \in {Chunks(a)[i] : i \in Missing(a)} |-> attempt[a].answers[LastWith(a, h)]]

Embedded(a) ==
  /\ At(a, "embedding") /\ Missing(a) \subseteq DOMAIN attempt[a].answers
  /\ sets' = sets \cup {[by |-> a, text |-> h, vector |-> NewVectors(a)[h]] :
                          h \in DOMAIN NewVectors(a)}
  /\ Goto(a, "caching")
  /\ UNCHANGED <<cache, points>>

\* One of the SETs that are gathered.  The first that fails ends the attempt;
\* the others go on without it.
Set(s) ==
  /\ s \in sets /\ sets' = sets \ {s}
  /\ \/ cache' = [cache EXCEPT ![s.text] = s.vector] /\ UNCHANGED attempt
     \/ UNCHANGED cache /\ (IF At(s.by, "caching") THEN Fails(s.by) ELSE UNCHANGED attempt)
  /\ UNCHANGED points

Cached(a) ==
  /\ At(a, "caching") /\ \A s \in sets : s.by # a
  /\ attempt' = [attempt EXCEPT
       ![a].pc = "storing",
       ![a].found = [h \in ToSet(Chunks(a)) |->
                       IF h \in DOMAIN NewVectors(a) THEN NewVectors(a)[h] ELSE @[h]]]
  /\ UNCHANGED <<cache, sets, points>>

Expires(h) == /\ cache[h] # None
              /\ cache' = [cache EXCEPT ![h] = None]
              /\ UNCHANGED <<sets, attempt, points>>
------------------------------------------------------------------------------
(* upsert_chunks.                                                          *)

\* The next batch of points; its answer may be lost.
Upserted(a) ==
  LET from == attempt[a].upserted
  IN [id \in Ids |-> IF /\ id[1] = CommitOf[a]
                        /\ id[2] > from /\ id[2] <= from + qdrant_upsert_batch_size
                     THEN attempt[a].found[Chunks(a)[id[2]]] ELSE points[id]]

Upsert(a) ==
  /\ At(a, "storing") /\ attempt[a].upserted < Len(Chunks(a))
  /\ points' = Upserted(a)
  /\ attempt' = [attempt EXCEPT ![a].upserted = @ + qdrant_upsert_batch_size]
  /\ UNCHANGED <<cache, sets>>

\* A transient failure starts over with the first batch, another one ends the
\* attempt.
UpsertFails(a) ==
  /\ At(a, "storing") /\ attempt[a].upserted < Len(Chunks(a))
  /\ points' \in {points, Upserted(a)}
  /\ \/ /\ attempt[a].tries < MaxTries
        /\ attempt' = [attempt EXCEPT ![a].upserted = 0, ![a].tries = @ + 1]
     \/ Fails(a)
  /\ UNCHANGED <<cache, sets>>

Ready(a) == /\ At(a, "storing") /\ attempt[a].upserted >= Len(Chunks(a))
            /\ Goto(a, "ready")
            /\ UNCHANGED <<cache, sets, points>>

Next == \/ \E a \in Attempts : \/ \E h \in Hashes : LookUp(a, h)
                               \/ \E b \in Batches(a) : Answer(a, b)
                               \/ LookedUp(a) \/ Embedded(a) \/ Cached(a)
                               \/ Upsert(a) \/ UpsertFails(a) \/ Ready(a)
        \/ \E s \in sets : Set(s)
        \/ \E h \in Hashes : Expires(h)

Spec == Init /\ [][Next]_vars
------------------------------------------------------------------------------
\* What is stored or cached under a text is the vector of that text, and a
\* commit that is ready can be searched as a whole: whatever was cached, in
\* whatever order the answers came and whichever attempt of another commit or
\* failed write came between (embedder.py: vectors are placed by index).
EveryTextHasItsVector ==
  /\ \A h \in Hashes : cache[h] \in {h, None}
  /\ \A id \in Ids : points[id] \in {Texts[id[1]][id[2]], None}
  /\ \A a \in Attempts : At(a, "ready") =>
       \A i \in DOMAIN Chunks(a) : points[<<CommitOf[a], i>>] # None
==============================================================================
