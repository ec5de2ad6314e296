---------------------------- MODULE BlockGroups -----------------------------
(***************************************************************************)
(* add_block and add_block_group of ObjectPool (src/common/object_pool_    *)
(* inl.h): threads put their new blocks into the last group by taking an   *)
(* index with an atomic fetch_add of its block_count, and take the overrun *)
(* back with fetch_sub when the group was full; then one of them adds a    *)
(* group under block_group_mutex_.  describe_objects reads both counts and *)
(* the blocks at any time.  ObjectPool runs these steps inside of get.     *)
(***************************************************************************)
EXTENDS Naturals, FiniteSets

CONSTANTS
    Threads,
    GroupBlocks,          \* OP_GROUP_BLOCK_COUNT
    MaxGroups             \* OP_MAX_BLOCK_GROUP_COUNT

ASSUME GroupsAssumption == GroupBlocks \in Nat \ {0} /\ MaxGroups \in Nat \ {0}
ASSUME ThreadsAssumption == IsFiniteSet(Threads)

VARIABLES
    group_count,          \* group_count_
    block_count,          \* block_count of each group
    blocks,               \* blocks of each group: how many were stored there
    gpc,                  \* where add_block of each thread is
    seen,                 \* group_count as add_block has read it
    block_index,          \* the index add_block has taken
    group_mutex,          \* block_group_mutex_ is held
    failed                \* history: add_block of the thread has returned null

groupVars == <<group_count, block_count, blocks, gpc, seen, block_index,
               group_mutex, failed>>

Groups == 1 .. MaxGroups
Indices == 0 .. (GroupBlocks - 1)

GroupsInit ==
    /\ group_count = 0
    /\ block_count = [g \in Groups |-> 0]
    /\ blocks = [g \in Groups |-> [i \in Indices |-> 0]]
    /\ gpc = [t \in Threads |-> "idle"]
    /\ seen = [t \in Threads |-> 0]
    /\ block_index = [t \in Threads |-> 0]
    /\ group_mutex = FALSE
    /\ failed = [t \in Threads |-> FALSE]

Goto(t, label) == gpc' = [gpc EXCEPT ![t] = label]

-----------------------------------------------------------------------------
(* add_block reads group_count_; without a group it goes to add one. *)
ReadGroups(t) ==
    /\ gpc[t] \in {"idle", "again"}
    /\ seen' = [seen EXCEPT ![t] = group_count]
    /\ Goto(t, IF group_count >= 1 THEN "take" ELSE "grow")
    /\ UNCHANGED <<group_count, block_count, blocks, block_index, group_mutex,
                   failed>>

InGroup(i) == i < GroupBlocks

(* block_count.fetch_add(1). *)
TakeIndex(t) ==
    /\ gpc[t] = "take"
    /\ block_index' = [block_index EXCEPT ![t] = block_count[seen[t]]]
    /\ block_count' = [block_count EXCEPT ![seen[t]] = @ + 1]
    /\ Goto(t, IF InGroup(block_index'[t]) THEN "store" ELSE "undo")
    /\ UNCHANGED <<group_count, blocks, seen, group_mutex, failed>>

(* blocks[block_index].store(new_block), and add_block returns it. *)
Store(t) ==
    /\ gpc[t] = "store"
    /\ blocks' = [blocks EXCEPT ![seen[t]][block_index[t]] = @ + 1]
    /\ Goto(t, "idle")
    /\ UNCHANGED <<group_count, block_count, seen, block_index, group_mutex,
                   failed>>

(* Mutant of Undo: the count goes down by more than the overrun. *)
Undo_twice(t) ==
    /\ gpc[t] = "undo"
    /\ block_count' = [block_count EXCEPT ![seen[t]] = @ - 2]
    /\ Goto(t, "grow")
    /\ UNCHANGED <<group_count, blocks, seen, block_index, group_mutex, failed>>

(* The group was full: block_count.fetch_sub(1). *)
Undo(t) ==
    /\ gpc[t] = "undo"
    /\ block_count' = [block_count EXCEPT ![seen[t]] = @ - 1]
    /\ Goto(t, "grow")
    /\ UNCHANGED <<group_count, blocks, seen, block_index, group_mutex, failed>>

-----------------------------------------------------------------------------
(* add_block_group takes block_group_mutex_. *)
GrowLock(t) ==
    /\ gpc[t] = "grow"
    /\ ~group_mutex
    /\ group_mutex' = TRUE
    /\ Goto(t, "locked")
    /\ UNCHANGED <<group_count, block_count, blocks, seen, block_index, failed>>

(* Mutant of Overtaken: nobody looks whether a group has been added. *)
Overtaken_never(t) == FALSE

(* Another thread has added a group since group_count_ was read. *)
Overtaken(t) == group_count # seen[t]

Unlock(t, label) == group_mutex' = FALSE /\ Goto(t, label)

GrowOvertaken(t) ==
    /\ gpc[t] = "locked"
    /\ Overtaken(t)
    /\ Unlock(t, "again")
    /\ UNCHANGED <<group_count, block_count, blocks, seen, block_index, failed>>

(* A group is added: block_groups_[group_count] first, group_count_ next. *)
Grow(t) ==
    /\ gpc[t] = "locked"
    /\ ~Overtaken(t)
    /\ group_count < MaxGroups
    /\ group_count' = group_count + 1
    /\ Unlock(t, "again")
    /\ UNCHANGED <<block_count, blocks, seen, block_index, failed>>

(* All groups are there: add_block deletes its block and returns null. *)
GrowFails(t) ==
    /\ gpc[t] = "locked"
    /\ ~Overtaken(t)
    /\ group_count >= MaxGroups
    /\ Unlock(t, "idle")
    /\ failed' = [failed EXCEPT ![t] = TRUE]
    /\ UNCHANGED <<group_count, block_count, blocks, seen, block_index>>

(* The steps of add_block before it returns, and those that return. *)
AddBlockStep(t) ==
    \/ ReadGroups(t) \/ TakeIndex(t) \/ Undo(t)
    \/ GrowLock(t) \/ GrowOvertaken(t) \/ Grow(t)

GroupsNext ==
    \E t \in Threads : AddBlockStep(t) \/ Store(t) \/ GrowFails(t)

GroupsSpec == GroupsInit /\ [][GroupsNext]_groupVars

-----------------------------------------------------------------------------
Stored == {p \in Groups \X Indices : blocks[p[1]][p[2]] > 0}

Storing == {t \in Threads : gpc[t] = "store"}

Overruns(g) == Cardinality({t \in Threads : gpc[t] = "undo" /\ seen[t] = g})

GroupsTypeOK ==
    /\ group_count \in 0 .. MaxGroups
    /\ block_count \in [Groups -> Nat]
    /\ blocks \in [Groups -> [Indices -> Nat]]
    /\ gpc \in [Threads -> {"idle", "take", "store", "undo", "grow", "locked",
                           "again"}]
    /\ seen \in [Threads -> 0 .. MaxGroups]
    /\ block_index \in [Threads -> Nat]
    /\ \A t \in Storing : block_index[t] \in Indices
    /\ group_mutex \in BOOLEAN /\ failed \in [Threads -> BOOLEAN]

(* A slot is given to one block only, though threads overrun a full group  *)
(* and take the overrun back at any time: a slot given out twice would     *)
(* lose a block of objects.                                                *)
SlotOfOneBlock ==
    /\ \A g \in Groups, i \in Indices : blocks[g][i] <= 1
    /\ \A t \in Storing : blocks[seen[t]][block_index[t]] = 0
    /\ \A t, u \in Storing :
          t # u => <<seen[t], block_index[t]>> # <<seen[u], block_index[u]>>

(* block_count, which describe_objects trusts up to the capacity of a      *)
(* group, counts the blocks stored or being stored and the overruns.       *)
CountsBlocks ==
    \A g \in Groups :
        block_count[g] = Cardinality({p \in Stored : p[1] = g})
                       + Cardinality({t \in Storing : seen[t] = g}) + Overruns(g)

(* add_block fails only when every slot of every group is taken, and a     *)
(* group is added only when the one before is full.                        *)
FullBeforeMore ==
    /\ \A t \in Threads : failed[t] => group_count = MaxGroups
    /\ \A g \in Groups :
          g < group_count \/ (\E t \in Threads : failed[t]) =>
              block_count[g] >= GroupBlocks
=============================================================================
