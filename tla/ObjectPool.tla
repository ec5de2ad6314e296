----------------------------- MODULE ObjectPool -----------------------------
(***************************************************************************)
(* ObjectPool (src/common/object_pool_inl.h): every thread that takes or   *)
(* returns objects has a LocalPool with a chunk of free objects and a      *)
(* block it carves new ones from; full chunks go to the shared             *)
(* free_chunks_, under free_chunks_mutex_.  Objects are never given back   *)
(* to the system, and a LocalPool dies with its thread.                    *)
(*                                                                         *)
(* A new block comes from add_block, which is BlockGroups.  The            *)
(* hook of pthread_mutex_unlock is in FullSpec only: when the returning    *)
(* thread has waited for free_chunks_mutex_ and the profiler samples the   *)
(* wait, its unlock calls submit_contention, which takes an object from    *)
(* the same LocalPool in the middle of return_object.                      *)
(***************************************************************************)
EXTENDS BlockGroups, Sequences, SequencesExt

CONSTANTS
    ChunkItems,           \* free_chunk_item_count()
    BlockItems,           \* BLOCK_ITEM_COUNT
    NoBlock, NoObject

ASSUME ItemsAssumption == BlockItems \in Nat \ {0} /\ ChunkItems \in 1 .. BlockItems

(* A block is named by the slot of the group it was stored in. *)
Blocks == Groups \X Indices

ASSUME BlockAssumption == NoBlock \notin Blocks

Objects == Blocks \X (1 .. BlockItems)

ASSUME ObjectAssumption == NoObject \notin Objects

VARIABLES
    local,                \* local[t]: local_pool_ of thread t is not null
    cur_block,            \* cur_block_ of each LocalPool
    item_count,           \* item_count of each block
    cur_free,             \* cur_free_ of each LocalPool
    free_chunks,          \* free_chunks_
    pc,                   \* where the call of thread t is
    ptr,                  \* the object return_object of thread t was given
    held,                 \* how often each object has been handed out and not
                          \* returned
    lost                  \* objects given up where memory ran out

poolVars == <<local, cur_block, item_count, cur_free, free_chunks, pc, ptr,
              held, lost>>
vars == <<groupVars, poolVars>>

Init ==
    /\ GroupsInit
    /\ local = [t \in Threads |-> FALSE]
    /\ cur_block = [t \in Threads |-> NoBlock]
    /\ item_count = [b \in Blocks |-> 0]
    /\ cur_free = [t \in Threads |-> << >>]
    /\ free_chunks = << >>
    /\ pc = [t \in Threads |-> "idle"]
    /\ ptr = [t \in Threads |-> NoObject]
    /\ held = [o \in Objects |-> 0]
    /\ lost = {}

HandOut(o) == held' = [held EXCEPT ![o] = @ + 1]

-----------------------------------------------------------------------------
(* get_or_new_local_pool: the LocalPool is created, and deleted when the   *)
(* thread exits.                                                           *)
NewLocal(t) ==
    /\ pc[t] = "idle"
    /\ ~local[t]
    /\ local' = [local EXCEPT ![t] = TRUE]
    /\ UNCHANGED <<cur_block, item_count, cur_free, free_chunks, pc, ptr, held, lost>>

(* get: the last object of cur_free_. *)
GetFree(t) ==
    /\ pc[t] = "idle" /\ local[t]
    /\ cur_free[t] # << >>
    /\ HandOut(Last(cur_free[t]))
    /\ cur_free' = [cur_free EXCEPT ![t] = Front(@)]
    /\ UNCHANGED <<local, cur_block, item_count, free_chunks, pc, ptr, lost>>

(* get: cur_free_ is empty and free_chunks_.empty() is asked without the   *)
(* mutex, while other threads push and pop: either answer is possible.     *)
GetLook(t) ==
    /\ pc[t] = "idle" /\ local[t]
    /\ cur_free[t] = << >>
    /\ \E next \in {"block", "pop"} : pc' = [pc EXCEPT ![t] = next]
    /\ UNCHANGED <<local, cur_block, item_count, cur_free, free_chunks, ptr, held, lost>>

(* Mutant of PopChunk: the chunk stays in free_chunks_. *)
PopChunk_kept(t) ==
    /\ pc[t] = "pop"
    /\ free_chunks # << >>
    /\ cur_free' = [cur_free EXCEPT ![t] = Front(Last(free_chunks))]
    /\ HandOut(Last(Last(free_chunks)))
    /\ pc' = [pc EXCEPT ![t] = "idle"]
    /\ UNCHANGED <<local, cur_block, item_count, free_chunks, ptr, lost>>

(* pop_free_chunk under free_chunks_mutex_: the chunk becomes cur_free_,   *)
(* and its last object is handed out; or the chunks are gone by now.       *)
PopChunk(t) ==
    /\ pc[t] = "pop"
    /\ \/ /\ free_chunks # << >>
          /\ cur_free' = [cur_free EXCEPT ![t] = Front(Last(free_chunks))]
          /\ HandOut(Last(Last(free_chunks)))
          /\ free_chunks' = Front(free_chunks)
          /\ pc' = [pc EXCEPT ![t] = "idle"]
       \/ /\ free_chunks = << >>
          /\ pc' = [pc EXCEPT ![t] = "block"]
          /\ UNCHANGED <<cur_free, free_chunks, held>>
    /\ UNCHANGED <<local, cur_block, item_count, ptr, lost>>

HasItem(b) == b # NoBlock /\ item_count[b] < BlockItems

(* get: the next object of cur_block_. *)
Carve(t) ==
    /\ pc[t] = "block"
    /\ HasItem(cur_block[t])
    /\ item_count' = [item_count EXCEPT ![cur_block[t]] = @ + 1]
    /\ HandOut(<<cur_block[t], item_count'[cur_block[t]]>>)
    /\ pc' = [pc EXCEPT ![t] = "idle"]
    /\ UNCHANGED <<local, cur_block, cur_free, free_chunks, ptr, lost>>

NeedsBlock(t) == pc[t] = "block" /\ ~HasItem(cur_block[t])

(* get: add_block is on its way. *)
AddBlock(t) ==
    /\ NeedsBlock(t)
    /\ AddBlockStep(t)
    /\ UNCHANGED poolVars

(* get: add_block gives a new block, and its first object is handed out. *)
CarveNew(t) ==
    /\ NeedsBlock(t)
    /\ Store(t)
    /\ cur_block' = [cur_block EXCEPT ![t] = <<seen[t], block_index[t]>>]
    /\ item_count' = [item_count EXCEPT ![cur_block'[t]] = @ + 1]
    /\ HandOut(<<cur_block'[t], 1>>)
    /\ pc' = [pc EXCEPT ![t] = "idle"]
    /\ UNCHANGED <<local, cur_free, free_chunks, ptr, lost>>

(* get: add_block returns null, and so does get. *)
CarveFails(t) ==
    /\ NeedsBlock(t)
    /\ GrowFails(t)
    /\ cur_block' = [cur_block EXCEPT ![t] = NoBlock]
    /\ pc' = [pc EXCEPT ![t] = "idle"]
    /\ UNCHANGED <<local, item_count, cur_free, free_chunks, ptr, held, lost>>

-----------------------------------------------------------------------------
(* return_object(o): there is room in cur_free_, or the chunk must go. *)
Return(t, o) ==
    /\ pc[t] = "idle" /\ local[t]
    /\ held[o] > 0
    /\ held' = [held EXCEPT ![o] = @ - 1]
    /\ \/ /\ Len(cur_free[t]) < ChunkItems
          /\ cur_free' = [cur_free EXCEPT ![t] = Append(@, o)]
          /\ UNCHANGED <<pc, ptr>>
       \/ /\ Len(cur_free[t]) >= ChunkItems
          /\ ptr' = [ptr EXCEPT ![t] = o]
          /\ pc' = [pc EXCEPT ![t] = "push"]
          /\ UNCHANGED cur_free
    /\ UNCHANGED <<local, cur_block, item_count, free_chunks, lost>>

(* push_free_chunk: a copy of cur_free_ is pushed under the mutex. *)
PushChunk(t) ==
    /\ pc[t] = "push"
    /\ free_chunks' = Append(free_chunks, cur_free[t])
    /\ pc' = [pc EXCEPT ![t] = "pushed"]
    /\ UNCHANGED <<local, cur_block, item_count, cur_free, ptr, held, lost>>

(* Mutant of ReturnDone: free_count is not reset. *)
ReturnDone_kept(t) ==
    /\ pc[t] = "pushed"
    /\ cur_free' = [cur_free EXCEPT ![t] = Append(Front(@), ptr[t])]
    /\ ptr' = [ptr EXCEPT ![t] = NoObject]
    /\ pc' = [pc EXCEPT ![t] = "idle"]
    /\ UNCHANGED <<local, cur_block, item_count, free_chunks, held, lost>>

(* return_object starts a new chunk with the object. *)
ReturnDone(t) ==
    /\ pc[t] = "pushed"
    /\ cur_free' = [cur_free EXCEPT ![t] = << ptr[t] >>]
    /\ ptr' = [ptr EXCEPT ![t] = NoObject]
    /\ pc' = [pc EXCEPT ![t] = "idle"]
    /\ UNCHANGED <<local, cur_block, item_count, free_chunks, held, lost>>

(* malloc fails in push_free_chunk: return_object returns -1 and keeps     *)
(* nothing of the object, which its callers do not look at again.          *)
PushFails(t) ==
    /\ pc[t] = "push"
    /\ lost' = lost \cup {ptr[t]}
    /\ ptr' = [ptr EXCEPT ![t] = NoObject]
    /\ pc' = [pc EXCEPT ![t] = "idle"]
    /\ UNCHANGED <<local, cur_block, item_count, cur_free, free_chunks, held>>

(* ~LocalPool: what is in cur_free_ goes to free_chunks_, if there is      *)
(* memory for it.  What is left of cur_block_ is not used any more.        *)
ThreadExit(t) ==
    /\ pc[t] = "idle" /\ local[t]
    /\ \/ /\ cur_free[t] # << >>
          /\ free_chunks' = Append(free_chunks, cur_free[t])
          /\ UNCHANGED lost
       \/ /\ lost' = lost \cup ToSet(cur_free[t])
          /\ UNCHANGED free_chunks
    /\ cur_free' = [cur_free EXCEPT ![t] = << >>]
    /\ cur_block' = [cur_block EXCEPT ![t] = NoBlock]
    /\ local' = [local EXCEPT ![t] = FALSE]
    /\ UNCHANGED <<item_count, pc, ptr, held>>

(* The unlock of free_chunks_mutex_ in push_free_chunk has a sample to     *)
(* submit: get_object, by the same thread and from the same LocalPool,     *)
(* finds the objects just pushed still in cur_free_.                       *)
GetInside(t) ==
    /\ pc[t] = "pushed"
    /\ \E u \in Threads \ {t} : local[u]
    /\ cur_free[t] # << >>
    /\ HandOut(Last(cur_free[t]))
    /\ cur_free' = [cur_free EXCEPT ![t] = Front(@)]
    /\ UNCHANGED <<local, cur_block, item_count, free_chunks, pc, ptr, lost>>

(* The steps outside of add_block. *)
LocalStep(t) ==
    \/ NewLocal(t) \/ GetFree(t) \/ GetLook(t) \/ PopChunk(t) \/ Carve(t)
    \/ PushChunk(t) \/ PushFails(t) \/ ReturnDone(t) \/ ThreadExit(t)
    \/ \E o \in Objects : Return(t, o)

Next ==
    \E t \in Threads :
        \/ AddBlock(t) \/ CarveNew(t) \/ CarveFails(t)
        \/ LocalStep(t) /\ UNCHANGED groupVars

Spec == Init /\ [][Next]_vars

(* With the profiler running. *)
FullSpec ==
    Init /\ [][Next \/ \E t \in Threads : GetInside(t) /\ UNCHANGED groupVars]_vars

-----------------------------------------------------------------------------
Chunks == Seq(Objects)

TypeOK ==
    /\ GroupsTypeOK
    /\ local \in [Threads -> BOOLEAN]
    /\ cur_block \in [Threads -> Blocks \cup {NoBlock}]
    /\ item_count \in [Blocks -> 0 .. BlockItems]
    /\ cur_free \in [Threads -> Chunks] /\ free_chunks \in Seq(Chunks)
    /\ \A t \in Threads : Len(cur_free[t]) <= ChunkItems
    /\ \A i \in 1 .. Len(free_chunks) : Len(free_chunks[i]) \in 1 .. ChunkItems
    /\ pc \in [Threads -> {"idle", "block", "pop", "push", "pushed"}]
    /\ ptr \in [Threads -> Objects \cup {NoObject}]
    /\ held \in [Objects -> Nat]
    /\ lost \subseteq Objects

(* The places an object is free in: cur_free_, but while the chunk has been *)
(* pushed and not yet been replaced, and free_chunks_.                      *)
FreePlaces(o) ==
    LET InChunk(c, i) == i <= Len(c) /\ c[i] = o IN
    Cardinality({p \in Threads \X (1 .. ChunkItems) :
                    pc[p[1]] # "pushed" /\ InChunk(cur_free[p[1]], p[2])})
  + Cardinality({p \in (1 .. Len(free_chunks)) \X (1 .. ChunkItems) :
                    InChunk(free_chunks[p[1]], p[2])})

(* No object is handed out to a second owner before the first returns it,  *)
(* by whichever threads it is taken, returned and passed on in chunks.     *)
HandedOutOnce == \A o \in Objects : held[o] <= 1

(* Every object that was ever carved is with its owner, in one free list,  *)
(* on its way into one, or was given up for want of memory: no race on     *)
(* free_chunks_, and no exit of a thread, leaks a chunk or shares one.     *)
Accounted ==
    \A o \in Objects :
        LET returning == Cardinality({t \in Threads : ptr[t] = o})
            places == held[o] + FreePlaces(o) + returning + (IF o \in lost THEN 1 ELSE 0)
        IN places = IF o[2] <= item_count[o[1]] THEN 1 ELSE 0
=============================================================================
