--------------------------- MODULE RepositoryIndex ---------------------------
(***************************************************************************)
(* The RAG index of a repository: agents/rag_initializer.py and the stages *)
(* behind it (rag/orchestrator.py, rag/stages.py, rag/vector_store.py).    *)
(* An indexer reuses a collection that has points.  Otherwise it cuts the  *)
(* repository into chunks, embeds them by batches and adds them one by one *)
(* to the buffer of its store, which sends the buffer to the collection    *)
(* when it is full and once more at the end.  When the structured indexer  *)
(* cannot be built at all the original one runs: the chunks go through the *)
(* asynchronous pipeline (IngestionPipeline), and through the buffer when  *)
(* that raises.                                                            *)
(*                                                                         *)
(* Every request to the server may fail, and the store falls back to one   *)
(* in its own memory when the server is not there at first.                *)
(***************************************************************************)
EXTENDS Naturals, Sequences

CONSTANTS Indexers,     \* runs of the agent that may overlap
          Chunks,       \* the repository has the chunks 1..Chunks
          EmbedBatch,   \* chunks embedded at a time
          BufferLimit,  \* points that make the store send its buffer
          MaxIndexings, \* bound: runs of the agent
          MaxErrors     \* bound: requests, parses, embeddings that fail

IndexAssumption == Chunks \in Nat /\ BufferLimit \in Nat

VARIABLES collection,   \* does it exist on the server, and its points
          indexer,      \* what each run of the agent is doing
          wiped,        \* runs some of whose points a recreation dropped
          reused,       \* the indexes that were reused, with what had happened by then
          indexings, errors

vars == <<collection, indexer, wiped, reused, indexings, errors>>

\* A point is a chunk as one run stored it.
Point(i, n) == [run |-> indexer[i].id, chunk |-> n]
Elements(s) == {s[n] : n \in DOMAIN s}
Batches(size) == {n \in 1..Chunks : n % size = 1 \/ size = 1}
BatchAt(first, size) == first..(first + size - 1)

Idle == [pc |-> "idle", id |-> 0, original |-> FALSE, local |-> FALSE, memory |-> {},
         chunks |-> <<>>, vectors |-> {}, next |-> 1, added |-> {}, buffer |-> <<>>,
         sent |-> 0, closing |-> FALSE]

\* The store of an indexer: in its own memory, or the collection.
Stored(i) == IF indexer[i].local THEN indexer[i].memory ELSE collection.points

Set(i, new) == indexer' = [indexer EXCEPT ![i] = new]
Fault == errors < MaxErrors /\ errors' = errors + 1
NoFault == UNCHANGED errors
Alone == UNCHANGED <<collection, wiped, reused, indexings>>

Init ==
    /\ collection = [exists |-> FALSE, points |-> {}]
    /\ indexer = [i \in Indexers |-> Idle]
    /\ wiped = {} /\ reused = {}
    /\ indexings = 0 /\ errors = 0

-----------------------------------------------------------------------------
\* The agent: reuse what there is, unless told not to.

Covered(points) == \A n \in 1..Chunks : \E p \in points : p.chunk = n

Beside(i) == \E j \in Indexers \ {i} : indexer[j].pc # "idle"

Start(i, force) ==
    /\ indexer[i].pc = "idle" /\ indexings < MaxIndexings
    /\ indexings' = indexings + 1
    /\ Set(i, [Idle EXCEPT !.pc = IF force THEN "construct" ELSE "lookup",
                           !.id = indexings + 1])
    /\ UNCHANGED <<collection, wiped, reused, errors>>

\* _get_existing_collection_points: an index with any point in it is reused, a
\* server that does not answer has none.
Lookup(i) ==
    /\ indexer[i].pc = "lookup"
    /\ \/ /\ NoFault
          /\ IF collection.exists /\ collection.points # {}
             THEN /\ Set(i, Idle)
                  /\ reused' = reused \cup
                         {[whole |-> Covered(collection.points),
                           errors |-> errors, beside |-> Beside(i)]}
             ELSE Set(i, [indexer[i] EXCEPT !.pc = "construct"]) /\ UNCHANGED reused
       \/ Fault /\ Set(i, [indexer[i] EXCEPT !.pc = "construct"]) /\ UNCHANGED reused
    /\ UNCHANGED <<collection, wiped, indexings>>

\* QdrantStore: the server, or the memory of the process when it does not answer.
\* The embedding model may not load: the original indexer is tried, and then none.
Built(i, local) ==
    [indexer[i] EXCEPT !.pc = IF indexer[i].original THEN "collection" ELSE "parse",
                       !.local = local]

Construct(i) ==
    /\ indexer[i].pc = "construct"
    /\ \/ NoFault /\ Set(i, Built(i, FALSE))
       \/ Fault /\ Set(i, Built(i, TRUE))
       \/ /\ Fault
          /\ Set(i, IF indexer[i].original THEN Idle
                    ELSE [indexer[i] EXCEPT !.original = TRUE])
    /\ Alone

\* A stage passes on what it could make something of.
Passes(i, pc, chunks) == Set(i, [indexer[i] EXCEPT !.pc = pc, !.chunks = chunks])
FirstOf(m) == [n \in 1..m |-> n]

\* Files that do not parse are left out; with no file at all the run is over, and
\* a success.
Parse(i) ==
    /\ indexer[i].pc = "parse" /\ ~indexer[i].original
    /\ \/ NoFault /\ Passes(i, "extract", FirstOf(Chunks))
       \/ Fault /\ \E m \in 1..(Chunks - 1) : Passes(i, "extract", FirstOf(m))
       \/ Fault /\ Set(i, Idle)
    /\ Alone

\* So are files whose symbols neither extractor finds.
Extract(i) ==
    /\ indexer[i].pc = "extract"
    /\ \/ NoFault /\ Passes(i, "chunk", indexer[i].chunks)
       \/ Fault /\ \E m \in 0..(Len(indexer[i].chunks) - 1) : Passes(i, "chunk", FirstOf(m))
    /\ Alone

\* A file that cannot be cut along its structure is cut by symbol; a symbol that
\* cannot be is left out.
Chunk(i) ==
    /\ indexer[i].pc = "chunk"
    /\ \/ NoFault /\ Passes(i, "embed", indexer[i].chunks)
       \/ /\ Fault /\ indexer[i].chunks # <<>>
          /\ Passes(i, "embed", FirstOf(Len(indexer[i].chunks) - 1))
    /\ Alone

\* The original indexer reads Python files alone, and needs a chunk to go on.
Scan(i) ==
    /\ indexer[i].pc = "parse" /\ indexer[i].original
    /\ \/ NoFault /\ Passes(i, "pipeline", FirstOf(Chunks))
       \/ Fault /\ \E m \in 1..(Chunks - 1) : Passes(i, "pipeline", FirstOf(m))
       \/ Fault /\ Set(i, Idle)
    /\ Alone

\* A batch whose embedding fails is passed on without vectors.
Embed(i) ==
    /\ indexer[i].pc = "embed"
    /\ LET all == Elements(indexer[i].chunks)
           With(v) == Set(i, [indexer[i] EXCEPT !.vectors = v, !.pc = "collection"])
       IN  \/ NoFault /\ With(all)
           \/ Fault /\ \E b \in Batches(EmbedBatch) : With(all \ BatchAt(b, EmbedBatch))
    /\ Alone

\* A lookup that fails means that there is no collection.  create_collection looks
\* again; a collection that is there by the time it is made fails the run.
Prepared(i) == [indexer[i] EXCEPT !.pc = IF indexer[i].original THEN "parse" ELSE "add"]

collection_exists(i, absent) ==
    /\ \/ NoFault /\ Set(i, IF indexer[i].local \/ collection.exists
                            THEN Prepared(i) ELSE [indexer[i] EXCEPT !.pc = absent])
       \/ Fault /\ ~indexer[i].local /\ Set(i, [indexer[i] EXCEPT !.pc = absent])
    /\ Alone

FindCollection(i) == indexer[i].pc = "collection" /\ collection_exists(i, "again")
FindAgain(i) == indexer[i].pc = "again" /\ collection_exists(i, "create")

CreateCollection(i) ==
    /\ indexer[i].pc = "create"
    /\ \/ /\ NoFault
          /\ collection' = [collection EXCEPT !.exists = TRUE]
          /\ Set(i, IF collection.exists THEN Idle ELSE Prepared(i))
       \/ Fault /\ Set(i, Idle) /\ UNCHANGED collection
    /\ UNCHANGED <<wiped, reused, indexings>>

-----------------------------------------------------------------------------
\* The original indexer: the pipeline.  prepare_collection recreates, empty, a
\* collection that it does not find; one step of two may fail.

Owners == {p.run : p \in collection.points}
Buffered(i) == [indexer[i] EXCEPT !.pc = "add", !.vectors = Elements(indexer[i].chunks)]

prepare_collection(i) ==
    /\ indexer[i].pc = "pipeline"
    /\ \/ collection.exists /\ NoFault
          /\ Set(i, [indexer[i] EXCEPT !.pc = "ingest"])
          /\ UNCHANGED <<collection, wiped>>
       \/ /\ IF collection.exists THEN Fault ELSE NoFault
          /\ collection' = [exists |-> TRUE, points |-> {}]
          /\ wiped' = wiped \cup Owners
          /\ Set(i, [indexer[i] EXCEPT !.pc = "ingest"])
       \/ /\ Fault
          /\ collection' = [exists |-> FALSE, points |-> {}]
          /\ wiped' = wiped \cup Owners
          /\ Set(i, Buffered(i))
       \/ Fault /\ Set(i, Buffered(i)) /\ UNCHANGED <<collection, wiped>>
    /\ UNCHANGED <<reused, indexings>>

\* The workers store every batch, or all but those whose request failed; or the
\* producer raises, and the chunks that were not stored are dropped with those
\* that were not embedded.
Ingest(i) ==
    /\ indexer[i].pc = "ingest"
    /\ LET all == {Point(i, n) : n \in Elements(indexer[i].chunks)}
           Stores(points) == collection' = [collection EXCEPT !.points = @ \cup points]
       IN  \/ NoFault /\ collection.exists /\ Stores(all) /\ Set(i, Idle)
           \/ /\ IF collection.exists THEN Fault ELSE NoFault
              /\ \E kept \in SUBSET all :
                     (kept # {} => collection.exists) /\ Stores(kept)
              /\ \E raised \in BOOLEAN : Set(i, IF raised THEN Buffered(i) ELSE Idle)
    /\ UNCHANGED <<wiped, reused, indexings>>

\* The pipeline talks to the server also when the store is in memory; it raises as
\* long as there is none.
NoServer(i) ==
    /\ indexer[i].pc = "pipeline" /\ indexer[i].local
    /\ Set(i, Buffered(i))
    /\ NoFault /\ Alone

-----------------------------------------------------------------------------
\* QdrantStore: the buffer.

\* Mutant: the buffer is emptied whatever becomes of its points.
EmptiedBuffer(i) == <<>>
BufferAfterError(i) == indexer[i].buffer

Continue(record) ==
    IF record.closing THEN [record EXCEPT !.pc = "report"] ELSE [record EXCEPT !.pc = "add"]

\* The point goes to the buffer; the original indexer embeds it first, and skips it
\* when that fails.
add_point(i) ==
    /\ indexer[i].pc = "add" /\ indexer[i].next <= Len(indexer[i].chunks)
    /\ LET n == indexer[i].chunks[indexer[i].next]
           buffer == Append(indexer[i].buffer, n)
           full == Len(buffer) >= BufferLimit
       IN  \/ /\ Set(i, [indexer[i] EXCEPT !.buffer = buffer, !.next = @ + 1, !.sent = 0,
                               !.added = @ \cup {n},
                               !.pc = IF full THEN "flush" ELSE "add"])
              /\ NoFault
           \/ /\ indexer[i].original /\ Fault
              /\ Set(i, [indexer[i] EXCEPT !.next = @ + 1])
    /\ Alone

close(i) ==
    /\ indexer[i].pc = "add" /\ indexer[i].next > Len(indexer[i].chunks)
    /\ Set(i, [indexer[i] EXCEPT !.closing = TRUE, !.sent = 0,
                   !.pc = IF indexer[i].buffer = <<>> THEN "report" ELSE "flush"])
    /\ NoFault /\ Alone

\* Nothing is sent to a collection that is not found in three attempts; the
\* caller is not told.
FlushSkips(i) ==
    /\ indexer[i].pc = "flush" /\ indexer[i].sent = 0 /\ ~indexer[i].local
    /\ IF collection.exists THEN Fault ELSE NoFault
    /\ Set(i, Continue(indexer[i]))
    /\ Alone

\* The next slice of the buffer; a point without a vector is refused with its slice.
Slice(i) ==
    LET from == indexer[i].sent + 1
        upto == IF indexer[i].sent + BufferLimit < Len(indexer[i].buffer)
                THEN indexer[i].sent + BufferLimit ELSE Len(indexer[i].buffer)
    IN  {indexer[i].buffer[k] : k \in from..upto}

Sent(i) ==
    LET sent == indexer[i].sent + BufferLimit
        points == {Point(i, n) : n \in Slice(i)}
        record == IF indexer[i].local THEN [indexer[i] EXCEPT !.memory = @ \cup points]
                                      ELSE indexer[i]
    IN  IF sent >= Len(indexer[i].buffer)
        THEN Continue([record EXCEPT !.buffer = <<>>, !.sent = 0])
        ELSE [record EXCEPT !.sent = sent]

Receive(i) ==
    IF indexer[i].local THEN UNCHANGED collection
    ELSE collection' = [collection EXCEPT !.points = @ \cup {Point(i, n) : n \in Slice(i)}]

FlushSends(i) ==
    /\ indexer[i].pc = "flush" /\ Slice(i) \subseteq indexer[i].vectors
    /\ indexer[i].local \/ collection.exists
    /\ Receive(i)
    /\ Set(i, Sent(i))
    /\ NoFault
    /\ UNCHANGED <<wiped, reused, indexings>>

\* The request fails, or its answer is lost: the buffer stays as it is.
FlushRaises(i) ==
    /\ indexer[i].pc = "flush"
    /\ LET refused == \/ ~(Slice(i) \subseteq indexer[i].vectors)
                      \/ ~collection.exists /\ ~indexer[i].local /\ indexer[i].sent > 0
       IN  \/ refused /\ NoFault /\ UNCHANGED collection
           \/ ~refused /\ Fault /\ UNCHANGED collection
           \/ ~refused /\ ~indexer[i].local /\ collection.exists /\ Fault /\ Receive(i)
    /\ Set(i, Continue([indexer[i] EXCEPT !.buffer = BufferAfterError(i), !.sent = 0]))
    /\ UNCHANGED <<wiped, reused, indexings>>

\* The process dies, and its memory with it.
Die(i) ==
    /\ indexer[i].pc # "idle"
    /\ Set(i, Idle)
    /\ Fault /\ Alone

\* The run is over: its step is a success whatever is left in the buffer.
Report(i) ==
    /\ indexer[i].pc = "report"
    /\ Set(i, Idle)
    /\ NoFault /\ Alone

Next ==
    \/ \E i \in Indexers, force \in BOOLEAN : Start(i, force)
    \/ \E i \in Indexers :
           \/ Lookup(i) \/ Construct(i)
           \/ Parse(i) \/ Extract(i) \/ Chunk(i) \/ Embed(i) \/ Scan(i)
           \/ FindCollection(i) \/ FindAgain(i) \/ CreateCollection(i)
           \/ prepare_collection(i) \/ Ingest(i) \/ NoServer(i)
           \/ add_point(i) \/ close(i)
           \/ FlushSkips(i) \/ FlushSends(i) \/ FlushRaises(i)
           \/ Report(i) \/ Die(i)

Spec == Init /\ [][Next]_vars

-----------------------------------------------------------------------------
(***************************************************************************)
(* A chunk that was added is stored, or is still in the buffer; only a     *)
(* recreation of the collection takes it away.  So a failed request is     *)
(* made good by the next one, and what a run loses is what its buffer      *)
(* holds at the end.                                                       *)
(***************************************************************************)
StoredOrHeld ==
    \A i \in Indexers : indexer[i].id \notin wiped =>
        \A n \in indexer[i].added :
            Point(i, n) \in Stored(i) \/ n \in Elements(indexer[i].buffer)

\* An index that is reused has every chunk, unless something failed before, or
\* another run was still at work on it.
ReusedIsWhole == \A u \in reused : u.whole \/ u.errors > 0 \/ u.beside

IndexIsAccountedFor == StoredOrHeld /\ ReusedIsWhole
=============================================================================
