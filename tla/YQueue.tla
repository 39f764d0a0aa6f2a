------------------------------- MODULE YQueue -------------------------------
(***************************************************************************)
(* yqueue_t: a queue of chunks of N elements for one writer (push, back,   *)
(* unpush) and one reader (front, pop) that share only spare_chunk, an     *)
(* atomic_ptr_t.  The caller keeps the reader away from elements not yet   *)
(* published and the writer from unpushing published ones; both sides may  *)
(* otherwise run at the same time, with a step at each shared access.      *)
(***************************************************************************)
EXTENDS Integers, FiniteSets

CONSTANTS N,             \* granularity
          Chunk,         \* addresses malloc() may return
          Null,
          MaxItems       \* bound on the items pushed

VARIABLES
    heap,        \* allocated chunks
    values, prev, nxt,                 \* their contents
    beginChunk, beginPos,              \* the reader's end
    backChunk, backPos, endChunk, endPos,   \* the writer's end
    spare,       \* spare_chunk
    wpc, wreg,   \* the writer's step in push() and the chunk in its hand
    rpc, rreg,   \* the reader's step in pop() and the chunk in its hand
    pushed, published, popped,         \* items so far
    fault

vars == <<heap, values, prev, nxt, beginChunk, beginPos, backChunk, backPos,
          endChunk, endPos, spare, wpc, wreg, rpc, rreg, pushed, published,
          popped, fault>>

readerVars == <<beginChunk, beginPos, rpc, rreg, popped>>
writerVars == <<backChunk, backPos, endChunk, endPos, wpc, wreg, pushed, published>>

First == CHOOSE c \in Chunk : TRUE

Init ==
    /\ heap = {First}
    /\ values = [c \in Chunk |-> [i \in 0..N - 1 |-> 0]]
    /\ prev = [c \in Chunk |-> Null] /\ nxt = [c \in Chunk |-> Null]
    /\ beginChunk = First /\ beginPos = 0
    /\ backChunk = Null /\ backPos = 0
    /\ endChunk = First /\ endPos = 0
    /\ spare = Null
    /\ wpc = "idle" /\ wreg = Null /\ rpc = "idle" /\ rreg = Null
    /\ pushed = 0 /\ published = 0 /\ popped = 0
    /\ fault = FALSE

(* malloc(): any free address, which may have been a chunk before. *)
Malloc == Chunk \ heap

(* An access to a chunk that is not allocated. *)
Dead(c) == c \notin heap

-----------------------------------------------------------------------------
(* The writer. *)

(* push(), and the caller's assignment to back(). *)
Push ==
    /\ wpc = "idle" /\ pushed < MaxItems
    /\ backChunk' = endChunk /\ backPos' = endPos
    /\ pushed' = pushed + 1
    /\ values' = [values EXCEPT ![endChunk][endPos] = pushed + 1]
    /\ fault' = (fault \/ Dead(endChunk))
    /\ endPos' = endPos + 1
    /\ wpc' = IF endPos + 1 # N THEN "idle" ELSE "xchg"
    /\ UNCHANGED <<heap, prev, nxt, endChunk, spare, wreg, published, readerVars>>

(* Mutant: the spare chunk is taken but stays in spare_chunk. *)
PushXchgKeeps ==
    /\ wpc = "xchg" /\ wpc' = "link"
    /\ wreg' = spare
    /\ UNCHANGED <<heap, values, prev, nxt, spare, backChunk, backPos, endChunk,
                   endPos, pushed, published, readerVars, fault>>

PushXchg ==
    /\ wpc = "xchg" /\ wpc' = "link"
    /\ wreg' = spare /\ spare' = Null
    /\ UNCHANGED <<heap, values, prev, nxt, backChunk, backPos, endChunk, endPos,
                   pushed, published, readerVars, fault>>

(* The spare chunk, or a new one, becomes the end. *)
PushLink ==
    /\ wpc = "link" /\ wpc' = "idle"
    /\ \E c \in IF wreg = Null THEN Malloc ELSE {wreg} :
        /\ heap' = heap \cup {c}
        /\ fault' = (fault \/ Dead(endChunk) \/ (wreg # Null /\ Dead(c)))
        /\ nxt' = [nxt EXCEPT ![endChunk] = c]
        /\ prev' = [prev EXCEPT ![c] = endChunk]
        /\ endChunk' = c
    /\ endPos' = 0 /\ wreg' = Null
    /\ UNCHANGED <<values, spare, backChunk, backPos, pushed, published, readerVars>>

(* unpush() of an item that is not published.  When it was the only one,   *)
(* the back position may point to invalid memory, and prev is not read.    *)
Unpush ==
    /\ wpc = "idle" /\ pushed > published
    /\ pushed' = pushed - 1
    /\ IF backPos # 0 THEN backPos' = backPos - 1 /\ UNCHANGED backChunk
       ELSE backPos' = N - 1 /\ backChunk' = prev[backChunk]
    /\ IF endPos # 0
       THEN endPos' = endPos - 1 /\ UNCHANGED <<endChunk, heap, nxt, fault>>
       ELSE LET p == prev[endChunk] IN
            /\ endPos' = N - 1 /\ endChunk' = p
            /\ fault' = (fault \/ Dead(endChunk) \/ p = Null \/ Dead(p)
                               \/ nxt[p] # endChunk)
            /\ heap' = heap \ {endChunk}
            /\ nxt' = [nxt EXCEPT ![p] = Null]
    /\ UNCHANGED <<values, prev, spare, wpc, wreg, published, readerVars>>

(* The caller lets the reader see what was pushed. *)
Publish ==
    /\ wpc = "idle" /\ published < pushed
    /\ published' = pushed
    /\ UNCHANGED <<heap, values, prev, nxt, spare, backChunk, backPos, endChunk,
                   endPos, wpc, wreg, pushed, readerVars, fault>>

-----------------------------------------------------------------------------
(* The reader. *)

(* front() and the first test of pop(). *)
Pop ==
    /\ rpc = "idle" /\ popped < published
    /\ popped' = popped + 1
    /\ fault' = (fault \/ Dead(beginChunk) \/ values[beginChunk][beginPos] # popped + 1)
    /\ beginPos' = beginPos + 1
    /\ rpc' = IF beginPos + 1 = N THEN "advance" ELSE "idle"
    /\ UNCHANGED <<heap, values, prev, nxt, spare, beginChunk, rreg, writerVars>>

PopAdvance ==
    /\ rpc = "advance" /\ rpc' = "xchg"
    /\ LET n == nxt[beginChunk] IN
        /\ fault' = (fault \/ n = Null \/ Dead(n))
        /\ rreg' = beginChunk /\ beginChunk' = n
        /\ prev' = [prev EXCEPT ![n] = Null]
    /\ beginPos' = 0
    /\ UNCHANGED <<heap, values, nxt, spare, popped, writerVars>>

(* The chunk left behind becomes the spare one; the old spare is freed.    *)
PopXchg ==
    /\ rpc = "xchg" /\ rpc' = "idle"
    /\ spare' = rreg /\ rreg' = Null
    /\ heap' = heap \ {spare}
    /\ fault' = (fault \/ (spare # Null /\ Dead(spare)))
    /\ UNCHANGED <<values, prev, nxt, beginChunk, beginPos, popped, writerVars>>

-----------------------------------------------------------------------------
(* ~yqueue_t, when neither side uses the queue any more. *)
Destroy ==
    /\ wpc = "idle" /\ rpc = "idle"
    /\ wpc' = "freeing" /\ rpc' = "freeing"
    /\ UNCHANGED <<heap, values, prev, nxt, beginChunk, beginPos, backChunk, backPos,
                   endChunk, endPos, spare, wreg, rreg, pushed, published, popped, fault>>

(* The chunks from the beginning to the end, *)
FreeChunk ==
    /\ wpc = "freeing"
    /\ fault' = (fault \/ Dead(beginChunk))
    /\ heap' = heap \ {beginChunk}
    /\ IF beginChunk = endChunk THEN wpc' = "freed" /\ UNCHANGED beginChunk
       ELSE beginChunk' = nxt[beginChunk] /\ UNCHANGED wpc
    /\ UNCHANGED <<values, prev, nxt, beginPos, backChunk, backPos, endChunk, endPos,
                   spare, wreg, rpc, rreg, pushed, published, popped>>

(* and the spare one. *)
FreeSpare ==
    /\ wpc = "freed" /\ wpc' = "destroyed"
    /\ fault' = (fault \/ (spare # Null /\ Dead(spare)))
    /\ heap' = heap \ {spare} /\ spare' = Null
    /\ UNCHANGED <<values, prev, nxt, readerVars, backChunk, backPos, endChunk, endPos,
                   wreg, pushed, published>>

-----------------------------------------------------------------------------
(* A wrong access ends the run. *)
Next ==
    /\ ~fault
    /\ \/ Push \/ PushXchg \/ PushLink \/ Unpush \/ Publish
       \/ Pop \/ PopAdvance \/ PopXchg \/ Destroy \/ FreeChunk \/ FreeSpare

Spec == Init /\ [][Next]_vars

-----------------------------------------------------------------------------
(* The reader gets every item once and in order, and neither side touches   *)
(* a chunk that was freed, or frees one twice, although chunks move from    *)
(* the reader to the writer through spare_chunk and unpush() gives the end  *)
(* chunk back.                                                              *)
QueueSafe == ~fault

(* No chunk leaks: whenever the destructor runs, it frees them all.          *)
NoChunkLeaks == wpc = "destroyed" => heap = {}
=============================================================================
