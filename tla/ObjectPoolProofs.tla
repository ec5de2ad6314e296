-------------------------- MODULE ObjectPoolProofs --------------------------
(***************************************************************************)
(* Proofs about the pool, for any finite set of threads and any sizes.     *)
(* First its growth (BlockGroups inside ObjectPool): a slot of a group is  *)
(* given to one block, block_count is exact up to the overruns under way,  *)
(* and a group is added only when the last one is full.  Then what becomes *)
(* of the objects: each is in one place.                                   *)
(***************************************************************************)
EXTENDS ObjectPool, FiniteSetTheorems, SequenceTheorems, TLAPS

OverIn(g) == {t \in Threads : gpc[t] = "undo" /\ seen[t] = g}
StoringIn(g) == {t \in Storing : seen[t] = g}
StoredIn(g) == {p \in Stored : p[1] = g}

(* A group a thread is at work on exists. *)
SeenExists ==
    \A t \in Threads :
        /\ seen[t] <= group_count
        /\ gpc[t] \in {"take", "store", "undo"} => seen[t] \in Groups

(* What block_count exceeds the capacity by is given back; before that,    *)
(* nobody has anything to give back.                                       *)
OverrunIsExcess ==
    \A g \in Groups :
        IF block_count[g] < GroupBlocks
        THEN OverIn(g) = {}
        ELSE block_count[g] = GroupBlocks + Overruns(g)

(* The slots below block_count are taken, and no others. *)
TakenBelowCount ==
    \A g \in Groups, i \in Indices :
        (blocks[g][i] > 0 \/ \E t \in Storing : seen[t] = g /\ block_index[t] = i)
            <=> i < block_count[g]

(* A thread that goes to add a group has found the last one full. *)
FullWhenGrowing ==
    \A t \in Threads :
        gpc[t] \in {"grow", "locked"} /\ seen[t] \in Groups =>
            block_count[seen[t]] >= GroupBlocks

IInv ==
    /\ GroupsTypeOK /\ SeenExists /\ OverrunIsExcess /\ TakenBelowCount
    /\ SlotOfOneBlock /\ CountsBlocks /\ FullWhenGrowing /\ FullBeforeMore

-----------------------------------------------------------------------------
(* The sets that are counted are finite. *)
LEMMA CountedFinite ==
    ASSUME NEW g \in Groups
    PROVE  /\ IsFiniteSet(OverIn(g)) /\ Overruns(g) = Cardinality(OverIn(g))
           /\ Overruns(g) \in Nat
           /\ IsFiniteSet(StoringIn(g)) /\ Cardinality(StoringIn(g)) \in Nat
           /\ IsFiniteSet(StoredIn(g)) /\ Cardinality(StoredIn(g)) \in Nat
<1>1. IsFiniteSet(OverIn(g)) /\ IsFiniteSet(StoringIn(g))
  <2>1. OverIn(g) \subseteq Threads /\ StoringIn(g) \subseteq Threads
    BY DEF OverIn, StoringIn, Storing
  <2> QED
    BY <2>1, ThreadsAssumption, FS_Subset
<1>2. IsFiniteSet(StoredIn(g))
  <2>1. IsFiniteSet(Groups) /\ IsFiniteSet(Indices)
    BY GroupsAssumption, FS_Interval DEF Groups, Indices
  <2>2. IsFiniteSet(Groups \X Indices)
    BY <2>1, FS_Product
  <2>3. StoredIn(g) \subseteq Groups \X Indices
    BY DEF StoredIn, Stored
  <2> QED
    BY <2>2, <2>3, FS_Subset
<1> QED
  BY <1>1, <1>2, FS_CardinalityType DEF Overruns, OverIn

LEMMA InitIInv == GroupsInit => IInv
<1> SUFFICES ASSUME GroupsInit PROVE IInv
  OBVIOUS
<1> USE GroupsAssumption DEF GroupsInit
<1>1. GroupsTypeOK
  <2>1. group_mutex \in BOOLEAN /\ failed \in [Threads -> BOOLEAN]
    BY Zenon
  <2>2. /\ block_count \in [Groups -> Nat] /\ group_count \in 0 .. MaxGroups
        /\ blocks \in [Groups -> [Indices -> Nat]]
    OBVIOUS
  <2>3. /\ seen \in [Threads -> 0 .. MaxGroups] /\ block_index \in [Threads -> Nat]
        /\ Storing = {}
    BY DEF Storing
  <2> QED
    BY <2>1, <2>2, <2>3 DEF GroupsTypeOK
<1>2. SeenExists /\ FullWhenGrowing
  BY DEF SeenExists, FullWhenGrowing, Groups
<1>3. SlotOfOneBlock
  BY DEF SlotOfOneBlock, Storing
<1>4. FullBeforeMore
  BY DEF FullBeforeMore, Groups
<1>5. TakenBelowCount
  BY DEF TakenBelowCount, Storing, Indices
<1>6. ASSUME NEW g \in Groups
      PROVE  OverIn(g) = {} /\ StoringIn(g) = {} /\ StoredIn(g) = {}
  BY DEF OverIn, StoringIn, StoredIn, Stored, Storing
<1>7. OverrunIsExcess
  BY <1>6 DEF OverrunIsExcess
<1>8. CountsBlocks
  <2> SUFFICES ASSUME NEW g \in Groups
               PROVE  block_count[g] = Cardinality(StoredIn(g))
                          + Cardinality(StoringIn(g)) + Overruns(g)
    BY DEF CountsBlocks, StoredIn, StoringIn
  <2>1. Overruns(g) = 0 /\ Cardinality(StoringIn(g)) = 0
        /\ Cardinality(StoredIn(g)) = 0
    BY <1>6, CountedFinite, FS_EmptySet
  <2> QED
    BY <2>1
<1> QED
  BY <1>1, <1>2, <1>3, <1>4, <1>5, <1>7, <1>8 DEF IInv

-----------------------------------------------------------------------------
LEMMA NextType ==
    GroupsTypeOK /\ SeenExists /\ OverrunIsExcess /\ [GroupsNext]_groupVars
        => GroupsTypeOK'
<1> SUFFICES ASSUME GroupsTypeOK, SeenExists, OverrunIsExcess,
                    [GroupsNext]_groupVars
             PROVE  GroupsTypeOK'
  OBVIOUS
<1> USE GroupsAssumption DEF GroupsTypeOK, Storing, Goto
<1>1. ASSUME NEW t \in Threads, ReadGroups(t) PROVE GroupsTypeOK'
  BY <1>1 DEF ReadGroups
<1>2. ASSUME NEW t \in Threads, TakeIndex(t) PROVE GroupsTypeOK'
  <2>1. seen[t] \in Groups
    BY <1>2 DEF TakeIndex, SeenExists
  <2>2. block_count' \in [Groups -> Nat] /\ block_index'[t] \in Nat
    BY <1>2, <2>1 DEF TakeIndex, Groups
  <2>3. \A u \in Storing' : block_index'[u] \in Indices
    BY <1>2, <2>1 DEF TakeIndex, InGroup, Indices
  <2> QED
    BY <1>2, <2>2, <2>3 DEF TakeIndex
<1>3. ASSUME NEW t \in Threads, Store(t) PROVE GroupsTypeOK'
  <2>1. seen[t] \in Groups /\ block_index[t] \in Indices
    BY <1>3 DEF Store, SeenExists
  <2> QED
    BY <1>3, <2>1 DEF Store
<1>4. ASSUME NEW t \in Threads, Undo(t) PROVE GroupsTypeOK'
  <2>1. seen[t] \in Groups /\ t \in OverIn(seen[t])
    BY <1>4 DEF Undo, SeenExists, OverIn
  <2>2. Overruns(seen[t]) > 0
    BY <2>1, CountedFinite, FS_EmptySet
  <2>3. block_count[seen[t]] > 0
    BY <2>1, <2>2, CountedFinite DEF OverrunIsExcess
  <2> QED
    BY <1>4, <2>1, <2>3 DEF Undo
<1>5. ASSUME NEW t \in Threads,
             GrowLock(t) \/ GrowOvertaken(t) \/ Grow(t) \/ GrowFails(t)
      PROVE  GroupsTypeOK'
  <2>1. failed' \in [Threads -> BOOLEAN] /\ group_mutex' \in BOOLEAN
    BY <1>5, Zenon DEF GrowLock, GrowOvertaken, Grow, GrowFails, Unlock
  <2>2. group_count' \in 0 .. MaxGroups
    BY <1>5 DEF GrowLock, GrowOvertaken, Grow, GrowFails
  <2>3. gpc' \in [Threads -> {"idle", "take", "store", "undo", "grow", "locked",
                              "again"}]
        /\ Storing' \subseteq Storing
    BY <1>5 DEF GrowLock, GrowOvertaken, Grow, GrowFails, Unlock
  <2>4. UNCHANGED <<block_count, blocks, seen, block_index>>
    BY <1>5 DEF GrowLock, GrowOvertaken, Grow, GrowFails
  <2> QED
    BY <2>1, <2>2, <2>3, <2>4
<1>6. CASE UNCHANGED groupVars
  BY <1>6 DEF groupVars
<1> QED
  BY <1>1, <1>2, <1>3, <1>4, <1>5, <1>6 DEF GroupsNext, AddBlockStep

(* What holds of groups and slots is left as it is by a step that takes    *)
(* and gives back no index.                                                *)
SlotsInv == OverrunIsExcess /\ TakenBelowCount /\ SlotOfOneBlock /\ CountsBlocks

LEMMA QuietStep ==
    ASSUME IInv, UNCHANGED <<block_count, blocks, block_index>>, Storing' = Storing,
           \A t \in Storing : seen'[t] = seen[t],
           \A g \in Groups : OverIn(g)' = OverIn(g)
    PROVE  SlotsInv'
<1>1. ASSUME NEW g \in Groups
      PROVE  /\ Overruns(g)' = Overruns(g) /\ OverIn(g)' = OverIn(g)
             /\ StoringIn(g)' = StoringIn(g) /\ StoredIn(g)' = StoredIn(g)
  BY DEF Overruns, OverIn, StoringIn, StoredIn, Stored
<1>2. OverrunIsExcess'
  BY <1>1 DEF IInv, OverrunIsExcess
<1>3. TakenBelowCount'
  BY DEF IInv, TakenBelowCount
<1>4. SlotOfOneBlock'
  BY DEF IInv, SlotOfOneBlock
<1>5. CountsBlocks'
  BY <1>1 DEF IInv, CountsBlocks, StoringIn, StoredIn
<1> QED
  BY <1>2, <1>3, <1>4, <1>5 DEF SlotsInv

(* fetch_add: the index is that of a free slot, or an overrun. *)
LEMMA TakeIndexSlots ==
    ASSUME IInv, NEW t \in Threads, TakeIndex(t)
    PROVE  SlotsInv'
<1>0. OverrunIsExcess /\ TakenBelowCount /\ SlotOfOneBlock /\ CountsBlocks
      /\ blocks \in [Groups -> [Indices -> Nat]] /\ block_count \in [Groups -> Nat]
  BY DEF IInv, GroupsTypeOK
<1>1. PICK s \in Groups, n \in Nat :
          /\ seen[t] = s /\ block_count[s] = n /\ gpc[t] = "take"
          /\ block_count'[s] = n + 1 /\ block_index'[t] = n
          /\ gpc'[t] = IF n < GroupBlocks THEN "store" ELSE "undo"
  <2>1. seen[t] \in Groups /\ block_count[seen[t]] \in Nat
    BY DEF IInv, GroupsTypeOK, SeenExists, TakeIndex
  <2> QED
    BY <2>1 DEF IInv, GroupsTypeOK, TakeIndex, InGroup, Goto
<1>5. /\ t \notin Storing /\ GroupBlocks \in Nat
      /\ blocks' = blocks /\ seen' = seen /\ Stored' = Stored
      /\ \A g \in Groups \ {s} : block_count'[g] = block_count[g]
      /\ \A u \in Threads \ {t} : block_index'[u] = block_index[u]
      /\ \A u \in Threads \ {t} : gpc'[u] = gpc[u]
  BY <1>1, GroupsAssumption
  DEF IInv, GroupsTypeOK, TakeIndex, Storing, Goto, Stored
<1>2. \A g \in Groups : StoredIn(g)' = StoredIn(g)
  BY <1>1, <1>5 DEF StoredIn
<1>6. Storing \subseteq Threads \ {t}
  BY <1>5 DEF Storing
<1>3. CASE n < GroupBlocks
  <2>1. Storing' = Storing \cup {t} /\ n \in Indices
    BY <1>1, <1>5, <1>3 DEF Storing, Indices
  <2>2. \A g \in Groups : OverIn(g)' = OverIn(g) /\ Overruns(g)' = Overruns(g)
    BY <1>1, <1>5, <1>3 DEF OverIn, Overruns
  <2>3. StoringIn(s)' = StoringIn(s) \cup {t} /\ t \notin StoringIn(s)
        /\ \A g \in Groups \ {s} : StoringIn(g)' = StoringIn(g)
    BY <1>1, <1>5, <2>1 DEF StoringIn
  <2>4. blocks[s][n] = 0
        /\ \A u \in Storing : ~(seen[u] = s /\ block_index[u] = n)
    BY <1>0, <1>1, <1>5, <2>1 DEF TakenBelowCount
  <2>5. OverrunIsExcess'
    <3> SUFFICES ASSUME NEW g \in Groups
                 PROVE  IF block_count'[g] < GroupBlocks
                        THEN OverIn(g)' = {}
                        ELSE block_count'[g] = GroupBlocks + Overruns(g)'
      BY DEF OverrunIsExcess
    <3>1. IF block_count[g] < GroupBlocks
          THEN OverIn(g) = {}
          ELSE block_count[g] = GroupBlocks + Overruns(g)
      BY <1>0 DEF OverrunIsExcess
    <3>2. CASE g = s
      <4>1. OverIn(s) = {}
        BY <1>1, <1>3, <3>1, <3>2
      <4>2. Overruns(s) = 0
        BY <4>1, CountedFinite, FS_EmptySet
      <4> QED
        BY <1>1, <1>3, <1>5, <2>2, <3>2, <4>1, <4>2
    <3>3. CASE g # s
      BY <1>5, <2>2, <3>1, <3>3
    <3> QED
      BY <3>2, <3>3
  <2>6. TakenBelowCount'
    <3> SUFFICES ASSUME NEW g \in Groups, NEW i \in Indices
                 PROVE  (\/ blocks'[g][i] > 0
                         \/ \E u \in Storing' :
                               seen'[u] = g /\ block_index'[u] = i)
                        <=> i < block_count'[g]
      BY DEF TakenBelowCount
    <3>1. (\/ blocks[g][i] > 0
           \/ \E u \in Storing : seen[u] = g /\ block_index[u] = i)
          <=> i < block_count[g]
      BY <1>0 DEF TakenBelowCount
    <3>2. (\E u \in Storing' : seen'[u] = g /\ block_index'[u] = i)
          <=> \/ g = s /\ i = n
              \/ \E u \in Storing : seen[u] = g /\ block_index[u] = i
      BY <1>1, <1>5, <2>1, <1>6
    <3>3. i < block_count'[g] <=> (g = s /\ i = n) \/ i < block_count[g]
      BY <1>0, <1>1, <1>5 DEF Indices
    <3> QED
      BY <3>1, <3>2, <3>3, <1>5
  <2>7. SlotOfOneBlock'
    <3>1. \A g \in Groups, i \in Indices : blocks'[g][i] <= 1
      BY <1>0, <1>5 DEF SlotOfOneBlock
    <3>2. ASSUME NEW u \in Storing
          PROVE  /\ u # t /\ u \in Threads /\ seen'[u] = seen[u]
                 /\ block_index'[u] = block_index[u]
      BY <1>5, <1>6
    <3>3. \A u \in Storing' : blocks'[seen'[u]][block_index'[u]] = 0
      BY <1>0, <1>1, <1>5, <2>1, <2>4, <3>2 DEF SlotOfOneBlock
    <3>4. \A u, v \in Storing' :
             u # v => <<seen'[u], block_index'[u]>> # <<seen'[v], block_index'[v]>>
      BY <1>0, <1>1, <1>5, <2>1, <2>4, <3>2 DEF SlotOfOneBlock
    <3> QED
      BY <3>1, <3>3, <3>4 DEF SlotOfOneBlock
  <2>8. CountsBlocks'
    <3> SUFFICES ASSUME NEW g \in Groups
                 PROVE  block_count'[g] = Cardinality(StoredIn(g)')
                            + Cardinality(StoringIn(g)') + Overruns(g)'
      BY DEF CountsBlocks, StoredIn, StoringIn
    <3>1. block_count[g] = Cardinality(StoredIn(g))
              + Cardinality(StoringIn(g)) + Overruns(g)
      BY <1>0 DEF CountsBlocks, StoredIn, StoringIn
    <3>2. CASE g = s
      <4>1. Cardinality(StoringIn(s)') = Cardinality(StoringIn(s)) + 1
        BY <1>1, <1>5, <2>3, CountedFinite, FS_AddElement
      <4> QED
        BY <1>1, <1>5, <1>2, <2>2, <3>1, <3>2, <4>1, CountedFinite
    <3>3. CASE g # s
      BY <1>1, <1>5, <1>2, <2>2, <2>3, <3>1, <3>3
    <3> QED
      BY <3>2, <3>3
  <2> QED
    BY <2>5, <2>6, <2>7, <2>8 DEF SlotsInv
<1>4. CASE n >= GroupBlocks
  <2>1. Storing' = Storing
    BY <1>1, <1>5, <1>4 DEF Storing
  <2>2. \A g \in Groups : StoringIn(g)' = StoringIn(g)
    BY <1>1, <1>5, <2>1 DEF StoringIn
  <2>3. OverIn(s)' = OverIn(s) \cup {t} /\ t \notin OverIn(s)
        /\ \A g \in Groups \ {s} : OverIn(g)' = OverIn(g)
    BY <1>1, <1>5, <1>4 DEF OverIn
  <2>4. Overruns(s)' = Overruns(s) + 1
        /\ \A g \in Groups \ {s} : Overruns(g)' = Overruns(g)
    BY <1>1, <1>5, <2>3, CountedFinite, FS_AddElement DEF Overruns, OverIn
  <2>5. OverrunIsExcess'
    BY <1>0, <1>1, <1>5, <1>4, <2>3, <2>4, CountedFinite DEF OverrunIsExcess
  <2>6. TakenBelowCount'
    <3> SUFFICES ASSUME NEW g \in Groups, NEW i \in Indices
                 PROVE  (\/ blocks'[g][i] > 0
                         \/ \E u \in Storing' :
                               seen'[u] = g /\ block_index'[u] = i)
                        <=> i < block_count'[g]
      BY DEF TakenBelowCount
    <3>1. (\/ blocks[g][i] > 0
           \/ \E u \in Storing : seen[u] = g /\ block_index[u] = i)
          <=> i < block_count[g]
      BY <1>0 DEF TakenBelowCount
    <3>2. (\E u \in Storing' : seen'[u] = g /\ block_index'[u] = i)
          <=> \E u \in Storing : seen[u] = g /\ block_index[u] = i
      BY <1>5, <2>1, <1>6
    <3>3. i < block_count'[g] <=> i < block_count[g]
      <4>1. i \in Nat /\ i < GroupBlocks
        BY <1>5 DEF Indices
      <4>2. CASE g = s
        BY <1>1, <1>4, <1>5, <4>1, <4>2
      <4>3. CASE g # s
        BY <1>5, <4>3
      <4> QED
        BY <4>2, <4>3
    <3> QED
      BY <3>1, <3>2, <3>3, <1>5
  <2>7. SlotOfOneBlock'
    <3>2. ASSUME NEW u \in Storing
          PROVE  seen'[u] = seen[u] /\ block_index'[u] = block_index[u]
      BY <1>5, <1>6
    <3> QED
      BY <1>0, <1>5, <2>1, <3>2 DEF SlotOfOneBlock
  <2>8. CountsBlocks'
    <3> SUFFICES ASSUME NEW g \in Groups
                 PROVE  block_count'[g] = Cardinality(StoredIn(g)')
                            + Cardinality(StoringIn(g)') + Overruns(g)'
      BY DEF CountsBlocks, StoredIn, StoringIn
    <3>1. block_count[g] = Cardinality(StoredIn(g))
              + Cardinality(StoringIn(g)) + Overruns(g)
      BY <1>0 DEF CountsBlocks, StoredIn, StoringIn
    <3> QED
      BY <1>1, <1>5, <1>2, <2>2, <2>4, <3>1, CountedFinite
  <2> QED
    BY <2>5, <2>6, <2>7, <2>8 DEF SlotsInv
<1> QED
  BY <1>3, <1>4, <1>5

(* store: the slot turns from being stored to stored. *)
LEMMA StoreSlots ==
    ASSUME IInv, NEW t \in Threads, Store(t)
    PROVE  SlotsInv'
<1>0. OverrunIsExcess /\ TakenBelowCount /\ SlotOfOneBlock /\ CountsBlocks
      /\ blocks \in [Groups -> [Indices -> Nat]] /\ block_count \in [Groups -> Nat]
  BY DEF IInv, GroupsTypeOK
<1>1. PICK s \in Groups, n \in Indices :
          /\ seen[t] = s /\ block_index[t] = n /\ gpc[t] = "store"
          /\ blocks' = [blocks EXCEPT ![s][n] = @ + 1]
          /\ gpc' = [gpc EXCEPT ![t] = "idle"]
  BY DEF IInv, GroupsTypeOK, SeenExists, Store, Storing, Goto
<1>2. /\ block_count' = block_count /\ seen' = seen /\ block_index' = block_index
      /\ \A u \in Threads \ {t} : gpc'[u] = gpc[u]
      /\ gpc'[t] = "idle"
  BY <1>1 DEF IInv, GroupsTypeOK, Store
<1>3. t \in Storing /\ Storing' = Storing \ {t}
  BY <1>1, <1>2 DEF Storing
<1>4. blocks[s][n] = 0
  BY <1>0, <1>1, <1>3 DEF SlotOfOneBlock
<1>5. blocks'[s][n] = 1
  BY <1>0, <1>1, <1>4
<1>6. ASSUME NEW g \in Groups, NEW i \in Indices, ~(g = s /\ i = n)
      PROVE  blocks'[g][i] = blocks[g][i]
  BY <1>0, <1>1, <1>6
<1>7. \A g \in Groups : OverIn(g)' = OverIn(g) /\ Overruns(g)' = Overruns(g)
  BY <1>1, <1>2 DEF OverIn, Overruns
<1>8. StoringIn(s)' = StoringIn(s) \ {t} /\ t \in StoringIn(s)
      /\ \A g \in Groups \ {s} : StoringIn(g)' = StoringIn(g)
  BY <1>1, <1>2, <1>3 DEF StoringIn
<1>9. Stored' = Stored \cup {<<s, n>>} /\ <<s, n>> \notin Stored
  <2>1. \A g \in Groups, i \in Indices :
           blocks'[g][i] > 0 <=> blocks[g][i] > 0 \/ <<g, i>> = <<s, n>>
    BY <1>5, <1>6
  <2> QED
    BY <2>1, <1>4 DEF Stored
<1>10. StoredIn(s)' = StoredIn(s) \cup {<<s, n>>} /\ <<s, n>> \notin StoredIn(s)
       /\ \A g \in Groups \ {s} : StoredIn(g)' = StoredIn(g)
  BY <1>9 DEF StoredIn
<1>11. OverrunIsExcess'
  BY <1>0, <1>2, <1>7 DEF OverrunIsExcess
<1>12. TakenBelowCount'
  <2> SUFFICES ASSUME NEW g \in Groups, NEW i \in Indices
               PROVE  (\/ blocks'[g][i] > 0
                       \/ \E u \in Storing' : seen[u] = g /\ block_index[u] = i)
                      <=> i < block_count[g]
    BY <1>2 DEF TakenBelowCount
  <2>1. (\/ blocks[g][i] > 0
         \/ \E u \in Storing : seen[u] = g /\ block_index[u] = i)
        <=> i < block_count[g]
    BY <1>0 DEF TakenBelowCount
  <2>2. CASE g = s /\ i = n
    BY <1>1, <1>3, <1>5, <2>1, <2>2
  <2>3. CASE ~(g = s /\ i = n)
    BY <1>1, <1>3, <1>6, <2>1, <2>3
  <2> QED
    BY <2>2, <2>3
<1>13. SlotOfOneBlock'
  <2>1. ASSUME NEW g \in Groups, NEW i \in Indices PROVE blocks'[g][i] <= 1
    BY <1>0, <1>5, <1>6 DEF SlotOfOneBlock
  <2>2. ASSUME NEW u \in Storing \ {t}
        PROVE  blocks'[seen[u]][block_index[u]] = 0
    <3>1. seen[u] \in Groups /\ block_index[u] \in Indices
      BY DEF IInv, GroupsTypeOK, SeenExists, Storing
    <3>2. blocks[seen[u]][block_index[u]] = 0
          /\ ~(seen[u] = s /\ block_index[u] = n)
      BY <1>0, <1>1, <1>3 DEF SlotOfOneBlock
    <3> QED
      BY <1>6, <3>1, <3>2
  <2>3. \A u, v \in Storing \ {t} :
           u # v => <<seen[u], block_index[u]>> # <<seen[v], block_index[v]>>
    BY <1>0 DEF SlotOfOneBlock
  <2> QED
    BY <2>1, <2>2, <2>3, <1>2, <1>3 DEF SlotOfOneBlock
<1>14. CountsBlocks'
  <2> SUFFICES ASSUME NEW g \in Groups
               PROVE  block_count'[g] = Cardinality(StoredIn(g)')
                          + Cardinality(StoringIn(g)') + Overruns(g)'
    BY DEF CountsBlocks, StoredIn, StoringIn
  <2>1. block_count[g] = Cardinality(StoredIn(g))
            + Cardinality(StoringIn(g)) + Overruns(g)
    BY <1>0 DEF CountsBlocks, StoredIn, StoringIn
  <2>2. CASE g = s
    <3>1. Cardinality(StoredIn(s)') = Cardinality(StoredIn(s)) + 1
      BY <1>10, CountedFinite, FS_AddElement
    <3>2. Cardinality(StoringIn(s)') = Cardinality(StoringIn(s)) - 1
      BY <1>8, CountedFinite, FS_RemoveElement
    <3> QED
      BY <1>2, <1>7, <2>1, <2>2, <3>1, <3>2, CountedFinite
  <2>3. CASE g # s
    BY <1>2, <1>7, <1>8, <1>10, <2>1, <2>3
  <2> QED
    BY <2>2, <2>3
<1> QED
  BY <1>11, <1>12, <1>13, <1>14 DEF SlotsInv

(* fetch_sub takes one overrun back, and leaves the group full. *)
LEMMA UndoSlots ==
    ASSUME IInv, NEW t \in Threads, Undo(t)
    PROVE  /\ SlotsInv'
           /\ \A g \in Groups : block_count[g] >= GroupBlocks =>
                  block_count'[g] >= GroupBlocks
           /\ block_count'[seen[t]] >= GroupBlocks
<1>0. OverrunIsExcess /\ TakenBelowCount /\ SlotOfOneBlock /\ CountsBlocks
      /\ blocks \in [Groups -> [Indices -> Nat]] /\ block_count \in [Groups -> Nat]
      /\ GroupBlocks \in Nat
  BY GroupsAssumption DEF IInv, GroupsTypeOK
<1>1. PICK s \in Groups, n \in Nat :
          /\ seen[t] = s /\ block_count[s] = n /\ gpc[t] = "undo"
          /\ block_count' = [block_count EXCEPT ![s] = n - 1]
          /\ gpc' = [gpc EXCEPT ![t] = "grow"]
  BY DEF IInv, GroupsTypeOK, SeenExists, Undo, Goto
<1>2. /\ blocks' = blocks /\ seen' = seen /\ block_index' = block_index
      /\ Stored' = Stored /\ block_count'[s] = n - 1
      /\ \A g \in Groups \ {s} : block_count'[g] = block_count[g]
      /\ \A u \in Threads \ {t} : gpc'[u] = gpc[u]
      /\ gpc'[t] = "grow"
  BY <1>0, <1>1 DEF IInv, GroupsTypeOK, Undo, Stored
<1>3. Storing' = Storing
  BY <1>1, <1>2 DEF Storing
<1>4. \A g \in Groups : StoringIn(g)' = StoringIn(g) /\ StoredIn(g)' = StoredIn(g)
  BY <1>2, <1>3 DEF StoringIn, StoredIn
<1>5. OverIn(s)' = OverIn(s) \ {t} /\ t \in OverIn(s)
      /\ \A g \in Groups \ {s} : OverIn(g)' = OverIn(g)
  BY <1>1, <1>2 DEF OverIn
<1>6. Overruns(s)' = Overruns(s) - 1
      /\ \A g \in Groups \ {s} : Overruns(g)' = Overruns(g)
  BY <1>5, CountedFinite, FS_RemoveElement DEF Overruns, OverIn
<1>7. n = GroupBlocks + Overruns(s) /\ Overruns(s) > 0
  <2>1. ~(n < GroupBlocks)
    BY <1>0, <1>1, <1>5 DEF OverrunIsExcess
  <2>2. Overruns(s) # 0
    BY <1>5, CountedFinite, FS_EmptySet
  <2> QED
    BY <1>0, <1>1, <2>1, <2>2, CountedFinite DEF OverrunIsExcess
<1>8. Overruns(s) \in Nat
  BY CountedFinite
<1>9. n - 1 >= GroupBlocks
  BY <1>0, <1>7, <1>8
<1>10. OverrunIsExcess'
  <2> SUFFICES ASSUME NEW g \in Groups
               PROVE  IF block_count'[g] < GroupBlocks
                      THEN OverIn(g)' = {}
                      ELSE block_count'[g] = GroupBlocks + Overruns(g)'
    BY DEF OverrunIsExcess
  <2>1. CASE g = s
    BY <1>0, <1>2, <1>6, <1>7, <1>8, <1>9, <2>1
  <2>2. CASE g # s
    BY <1>0, <1>2, <1>5, <1>6, <2>2 DEF OverrunIsExcess
  <2> QED
    BY <2>1, <2>2
<1>11. TakenBelowCount'
  <2>1. ASSUME NEW g \in Groups, NEW i \in Indices
        PROVE  i < block_count'[g] <=> i < block_count[g]
    <3>1. i \in Nat /\ i < GroupBlocks
      BY <1>0 DEF Indices
    <3>2. CASE g = s
      BY <1>0, <1>1, <1>2, <1>9, <3>1, <3>2
    <3>3. CASE g # s
      BY <1>2, <3>3
    <3> QED
      BY <3>2, <3>3
  <2> QED
    BY <1>0, <1>2, <1>3, <2>1 DEF TakenBelowCount
<1>12. SlotOfOneBlock'
  BY <1>0, <1>2, <1>3 DEF SlotOfOneBlock
<1>13. CountsBlocks'
  <2> SUFFICES ASSUME NEW g \in Groups
               PROVE  block_count'[g] = Cardinality(StoredIn(g)')
                          + Cardinality(StoringIn(g)') + Overruns(g)'
    BY DEF CountsBlocks, StoredIn, StoringIn
  <2>1. block_count[g] = Cardinality(StoredIn(g))
            + Cardinality(StoringIn(g)) + Overruns(g)
    BY <1>0 DEF CountsBlocks, StoredIn, StoringIn
  <2>2. CASE g = s
    BY <1>1, <1>2, <1>4, <1>6, <1>8, <2>1, <2>2, CountedFinite
  <2>3. CASE g # s
    BY <1>2, <1>4, <1>6, <2>1, <2>3
  <2> QED
    BY <2>2, <2>3
<1>14. \A g \in Groups : block_count[g] >= GroupBlocks =>
           block_count'[g] >= GroupBlocks
  BY <1>2, <1>9
<1> QED
  BY <1>1, <1>2, <1>9, <1>10, <1>11, <1>12, <1>13, <1>14 DEF SlotsInv
-----------------------------------------------------------------------------
(* The steps that leave the counts and the slots alone. *)
Quiet(t) ==
    ReadGroups(t) \/ GrowLock(t) \/ GrowOvertaken(t) \/ Grow(t) \/ GrowFails(t)

LEMMA QuietSlots ==
    ASSUME IInv, NEW t \in Threads, Quiet(t)
    PROVE  SlotsInv' /\ UNCHANGED <<block_count, blocks>>
<1>1. /\ UNCHANGED <<block_count, blocks, block_index>>
      /\ gpc[t] \in {"idle", "again", "grow", "locked"}
      /\ gpc'[t] \notin {"store", "undo"}
      /\ \A u \in Threads \ {t} : gpc'[u] = gpc[u] /\ seen'[u] = seen[u]
  BY DEF IInv, GroupsTypeOK, Quiet, ReadGroups, GrowLock, GrowOvertaken, Grow,
         GrowFails, Unlock, Goto
<1>2. Storing' = Storing /\ \A u \in Storing : seen'[u] = seen[u]
  BY <1>1 DEF Storing
<1>3. \A g \in Groups : OverIn(g)' = OverIn(g)
  BY <1>1 DEF OverIn
<1> QED
  BY <1>1, <1>2, <1>3, QuietStep

LEMMA NextSlots == IInv /\ [GroupsNext]_groupVars => SlotsInv'
<1> SUFFICES ASSUME IInv, [GroupsNext]_groupVars PROVE SlotsInv'
  OBVIOUS
<1>1. CASE UNCHANGED groupVars
  <2>1. /\ UNCHANGED <<block_count, blocks, block_index, seen, gpc>>
        /\ Storing' = Storing
    BY <1>1 DEF groupVars, Storing
  <2>2. \A g \in Groups : OverIn(g)' = OverIn(g)
    BY <2>1 DEF OverIn
  <2> QED
    BY <2>1, <2>2, QuietStep
<1>2. CASE GroupsNext
  BY <1>2, QuietSlots, TakeIndexSlots, StoreSlots, UndoSlots
  DEF GroupsNext, AddBlockStep, Quiet
<1> QED
  BY <1>1, <1>2

LEMMA NextSeen ==
    GroupsTypeOK /\ SeenExists /\ [GroupsNext]_groupVars => SeenExists'
<1> SUFFICES ASSUME GroupsTypeOK, SeenExists, [GroupsNext]_groupVars
             PROVE  SeenExists'
  OBVIOUS
<1> USE GroupsAssumption DEF GroupsTypeOK, SeenExists, Goto
<1>1. ASSUME NEW t \in Threads, ReadGroups(t) PROVE SeenExists'
  BY <1>1 DEF ReadGroups, Groups
<1>2. ASSUME NEW t \in Threads, TakeIndex(t) \/ Store(t) \/ Undo(t)
      PROVE  SeenExists'
  BY <1>2 DEF TakeIndex, Store, Undo
<1>3. ASSUME NEW t \in Threads,
             GrowLock(t) \/ GrowOvertaken(t) \/ Grow(t) \/ GrowFails(t)
      PROVE  SeenExists'
  BY <1>3 DEF GrowLock, GrowOvertaken, Grow, GrowFails, Unlock
<1>4. CASE UNCHANGED groupVars
  BY <1>4 DEF groupVars
<1> QED
  BY <1>1, <1>2, <1>3, <1>4 DEF GroupsNext, AddBlockStep

(* Once full, a group stays full: overruns take back what is theirs only. *)
LEMMA StaysFull ==
    IInv /\ [GroupsNext]_groupVars =>
        \A g \in Groups : block_count[g] >= GroupBlocks =>
            block_count'[g] >= GroupBlocks
<1> SUFFICES ASSUME IInv, [GroupsNext]_groupVars,
                    NEW g \in Groups, block_count[g] >= GroupBlocks
             PROVE  block_count'[g] >= GroupBlocks
  OBVIOUS
<1>1. ASSUME NEW t \in Threads, TakeIndex(t)
      PROVE  block_count'[g] >= GroupBlocks
  BY <1>1, GroupsAssumption DEF TakeIndex, IInv, GroupsTypeOK, SeenExists
<1>2. ASSUME NEW t \in Threads, Store(t) \/ UNCHANGED groupVars
      PROVE  block_count'[g] >= GroupBlocks
  BY <1>2 DEF Store, groupVars
<1>3. CASE UNCHANGED groupVars
  BY <1>3 DEF groupVars
<1> QED
  BY <1>1, <1>2, <1>3, UndoSlots, QuietSlots DEF GroupsNext, AddBlockStep, Quiet

LEMMA NextGrowing == IInv /\ [GroupsNext]_groupVars => FullWhenGrowing'
<1> SUFFICES ASSUME IInv, [GroupsNext]_groupVars,
                    NEW u \in Threads, gpc'[u] \in {"grow", "locked"},
                    seen'[u] \in Groups
             PROVE  block_count'[seen'[u]] >= GroupBlocks
  BY DEF FullWhenGrowing
<1>1. \A t \in Threads, g \in Groups :
         gpc[t] \in {"grow", "locked"} /\ seen[t] = g => block_count'[g] >= GroupBlocks
  BY StaysFull DEF IInv, FullWhenGrowing
<1>2. CASE seen'[u] = seen[u] /\ gpc[u] \in {"grow", "locked"}
  BY <1>1, <1>2
<1>3. ASSUME NEW t \in Threads, Undo(t), u = t
      PROVE  block_count'[seen'[u]] >= GroupBlocks
  BY <1>3, UndoSlots DEF Undo
<1>4. ASSUME NEW t \in Threads, ReadGroups(t), u = t PROVE FALSE
  BY <1>4 DEF ReadGroups, Goto, IInv, GroupsTypeOK, Groups
<1>5. ASSUME NEW t \in Threads, GroupsNext,
             \/ (ReadGroups(t) \/ Undo(t)) /\ u # t
             \/ TakeIndex(t) \/ Store(t) \/ GrowLock(t) \/ GrowOvertaken(t)
             \/ Grow(t) \/ GrowFails(t)
      PROVE  seen'[u] = seen[u] /\ gpc[u] \in {"grow", "locked"}
  BY <1>5 DEF ReadGroups, TakeIndex, Store, Undo, GrowLock, GrowOvertaken, Grow,
              GrowFails, Unlock, Goto, IInv, GroupsTypeOK
<1>6. CASE UNCHANGED groupVars
  BY <1>2, <1>6 DEF groupVars
<1> QED
  BY <1>2, <1>3, <1>4, <1>5, <1>6 DEF GroupsNext, AddBlockStep

LEMMA NextFull == IInv /\ [GroupsNext]_groupVars => FullBeforeMore'
<1> SUFFICES ASSUME IInv, [GroupsNext]_groupVars PROVE FullBeforeMore'
  OBVIOUS
<1>1. /\ \A u \in Threads : failed[u] => group_count = MaxGroups
      /\ \A g \in Groups : g < group_count \/ (\E u \in Threads : failed[u]) =>
             block_count'[g] >= GroupBlocks
  BY StaysFull DEF IInv, FullBeforeMore
<1>2. ASSUME UNCHANGED <<group_count, failed>> PROVE FullBeforeMore'
  BY <1>1, <1>2 DEF FullBeforeMore
<1>3. ASSUME NEW t \in Threads, Grow(t) \/ GrowFails(t)
      PROVE  /\ group_count \in 0 .. MaxGroups /\ MaxGroups \in Nat
             /\ \A g \in Groups : g <= group_count => block_count'[g] >= GroupBlocks
  <2>1. group_count \in 0 .. MaxGroups /\ MaxGroups \in Nat
    BY GroupsAssumption DEF IInv, GroupsTypeOK
  <2>2. gpc[t] = "locked" /\ seen[t] = group_count
    BY <1>3 DEF Grow, GrowFails, Overtaken
  <2>3. group_count \in Groups => block_count'[group_count] >= GroupBlocks
    BY <2>2, StaysFull DEF IInv, FullWhenGrowing
  <2>4. \A g \in Groups : g <= group_count => g < group_count \/ g = group_count
    BY <2>1 DEF Groups
  <2> QED
    BY <1>1, <2>1, <2>3, <2>4
<1>4. ASSUME NEW t \in Threads, Grow(t) PROVE FullBeforeMore'
  <2>1. group_count' = group_count + 1 /\ group_count < MaxGroups
        /\ failed' = failed
    BY <1>4 DEF Grow
  <2>2. \A g \in Groups : g < group_count' => g <= group_count
    BY <1>3, <1>4, <2>1 DEF Groups
  <2>3. group_count # MaxGroups
    BY <1>3, <1>4, <2>1
  <2>4. \A u \in Threads : ~failed'[u]
    BY <1>1, <2>1, <2>3
  <2> QED
    BY <1>3, <1>4, <2>2, <2>4 DEF FullBeforeMore
<1>5. ASSUME NEW t \in Threads, GrowFails(t) PROVE FullBeforeMore'
  <2>1. group_count' = group_count /\ group_count >= MaxGroups
    BY <1>5 DEF GrowFails
  <2>2. group_count' = MaxGroups /\ \A g \in Groups : g <= group_count
    BY <1>3, <1>5, <2>1 DEF Groups
  <2> QED
    BY <1>3, <1>5, <2>2 DEF FullBeforeMore
<1>6. ASSUME NEW t \in Threads,
             \/ ReadGroups(t) \/ TakeIndex(t) \/ Undo(t) \/ Store(t)
             \/ GrowLock(t) \/ GrowOvertaken(t)
      PROVE  UNCHANGED <<group_count, failed>>
  BY <1>6 DEF ReadGroups, TakeIndex, Undo, Store, GrowLock, GrowOvertaken
<1>7. CASE UNCHANGED groupVars
  BY <1>2, <1>7 DEF groupVars
<1> QED
  BY <1>2, <1>4, <1>5, <1>6, <1>7 DEF GroupsNext, AddBlockStep

LEMMA NextIInv == IInv /\ [GroupsNext]_groupVars => IInv'
BY NextType, NextSlots, NextSeen, NextGrowing, NextFull DEF IInv, SlotsInv

(* What is the pool's own leaves the groups alone, and get runs add_block  *)
(* as it is.                                                               *)
LEMMA PoolStep == [Next]_vars => [GroupsNext]_groupVars
BY DEF Next, AddBlock, CarveNew, CarveFails, vars, GroupsNext

LEMMA Inductive == Spec => []IInv
<1>1. Init => IInv
  BY InitIInv DEF Init
<1>2. IInv /\ [Next]_vars => IInv'
  BY PoolStep, NextIInv
<1> QED
  BY <1>1, <1>2, PTL DEF Spec

(* The pool only adds blocks the way add_block does: whatever the free     *)
(* lists of ObjectPool do, its groups behave as BlockGroups.               *)
THEOREM GrowsByAddBlock == Spec => GroupsSpec
<1>1. Init => GroupsInit
  BY DEF Init
<1> QED
  BY <1>1, PoolStep, PTL DEF Spec, GroupsSpec

(* add_block gives a slot of a group to one block only, for any number of  *)
(* threads that overrun the group and take the overrun back.               *)
THEOREM SlotsAreUnique == Spec => []SlotOfOneBlock
<1>1. IInv => SlotOfOneBlock
  BY DEF IInv
<1> QED
  BY <1>1, Inductive, PTL

(* block_count is what is stored, being stored or to be taken back. *)
THEOREM CountIsExact == Spec => []CountsBlocks
<1>1. IInv => CountsBlocks
  BY DEF IInv
<1> QED
  BY <1>1, Inductive, PTL

(* add_block_group adds a group only when the last one is full, and gives  *)
(* up only when all are.                                                   *)
THEOREM FullBeforeTheNext == Spec => []FullBeforeMore
<1>1. IInv => FullBeforeMore
  BY DEF IInv
<1> QED
  BY <1>1, Inductive, PTL

-----------------------------------------------------------------------------
(* Where an object is: in cur_free_ of a thread, unless that is a chunk    *)
(* just pushed; in a chunk of free_chunks_; in the hands of return_object. *)
FreeAt(o) == {p \in Threads \X (1 .. ChunkItems) :
                 /\ pc[p[1]] # "pushed"
                 /\ p[2] <= Len(cur_free[p[1]]) /\ cur_free[p[1]][p[2]] = o}

ChunkAt(o) == {p \in (1 .. Len(free_chunks)) \X (1 .. ChunkItems) :
                  p[2] <= Len(free_chunks[p[1]]) /\ free_chunks[p[1]][p[2]] = o}

Returning(o) == {t \in Threads : ptr[t] = o}

Carved(o) == o[2] <= item_count[o[1]]

(* One of the places, with its owner and the lost ones, when it has been   *)
(* carved, and none otherwise: f, c, r are the sets above, h is held and l *)
(* whether it is lost.                                                     *)
InOnePlace(f, c, r, h, l, carved) ==
    /\ \A x, y \in f : x = y
    /\ \A x, y \in c : x = y
    /\ \A x, y \in r : x = y
    /\ h \in {0, 1}
    /\ f # {} => c = {} /\ r = {} /\ h = 0 /\ ~l
    /\ c # {} => r = {} /\ h = 0 /\ ~l
    /\ r # {} => h = 0 /\ ~l
    /\ h = 1 => ~l
    /\ carved <=> f # {} \/ c # {} \/ r # {} \/ h = 1 \/ l

OnePlace(o) ==
    InOnePlace(FreeAt(o), ChunkAt(o), Returning(o), held[o], o \in lost, Carved(o))

AllInOnePlace == \A o \in Objects : OnePlace(o)

(* Where return_object and get of each thread are. *)
CallOfThread(t) ==
    /\ ptr[t] # NoObject <=> pc[t] \in {"push", "pushed"}
    /\ pc[t] \in {"block", "pop"} => cur_free[t] = << >>
    /\ pc[t] = "push" => Len(cur_free[t]) = ChunkItems

CallsOfThreads == \A t \in Threads : CallOfThread(t)

(* Blocks in use are stored in their groups. *)
BlocksStored ==
    /\ \A b \in Blocks : item_count[b] > 0 => b \in Stored
    /\ \A t \in Threads : cur_block[t] # NoBlock => cur_block[t] \in Stored

PoolInv ==
    /\ IInv /\ TypeOK /\ CallsOfThreads /\ BlocksStored /\ AllInOnePlace

(* Lists of objects. *)
LEMMA FrontFacts ==
    ASSUME NEW S, NEW s \in Seq(S), s # << >>
    PROVE  /\ Len(s) \in Nat \ {0} /\ Front(s) \in Seq(S)
           /\ Len(Front(s)) = Len(s) - 1
           /\ \A i \in 1 .. Len(s) - 1 : Front(s)[i] = s[i]
           /\ Last(s) = s[Len(s)] /\ Last(s) \in S
<1> DEFINE k == Len(s) - 1
<1>1. Len(s) \in Nat \ {0} /\ \A i \in 1 .. Len(s) : s[i] \in S
  BY EmptySeq, LenProperties, ElementOfSeq
<1>2. k \in Int /\ k >= 0 /\ \A i \in 1 .. k : s[i] \in S
  BY <1>1
<1>3. Front(s) = SubSeq(s, 1, k) /\ Last(s) = s[Len(s)]
  BY DEF Front, Last
<1> HIDE DEF k
<1>4. /\ SubSeq(s, 1, k) \in Seq(S)
      /\ Len(SubSeq(s, 1, k)) = IF 1 <= k THEN k - 1 + 1 ELSE 0
      /\ \A i \in 1 .. k - 1 + 1 : SubSeq(s, 1, k)[i] = s[1 + i - 1]
  BY <1>2, SubSeqProperties
<1>5. /\ Len(SubSeq(s, 1, k)) = k
      /\ \A i \in 1 .. k : SubSeq(s, 1, k)[i] = s[i]
  BY <1>2, <1>4
<1> QED
  BY <1>1, <1>3, <1>4, <1>5 DEF k

LEMMA AtMostOne ==
    ASSUME NEW S, \A x, y \in S : x = y
    PROVE  Cardinality(S) = IF S = {} THEN 0 ELSE 1
<1>1. CASE S = {}
  BY <1>1, FS_EmptySet
<1>2. CASE S # {}
  <2>1. PICK x : x \in S
    BY <1>2
  <2>2. S = {x}
    BY <2>1
  <2> QED
    BY <1>2, <2>2, FS_Singleton
<1> QED
  BY <1>1, <1>2

(* Each place counts for one. *)
LEMMA PlacesAddUp ==
    ASSUME TypeOK, NEW o \in Objects, OnePlace(o)
    PROVE  held[o] + FreePlaces(o) + Cardinality({t \in Threads : ptr[t] = o})
               + (IF o \in lost THEN 1 ELSE 0)
           = IF o[2] <= item_count[o[1]] THEN 1 ELSE 0
<1> DEFINE f == FreeAt(o)
           c == ChunkAt(o)
           r == Returning(o)
<1>1. FreePlaces(o) = Cardinality(f) + Cardinality(c)
  BY DEF FreePlaces, FreeAt, ChunkAt
<1>2. Cardinality({t \in Threads : ptr[t] = o}) = Cardinality(r)
  BY DEF Returning
<1> HIDE DEF f, c, r
<1>3. InOnePlace(f, c, r, held[o], o \in lost, Carved(o))
  BY DEF OnePlace, f, c, r
<1>4. /\ Cardinality(f) = IF f = {} THEN 0 ELSE 1
      /\ Cardinality(c) = IF c = {} THEN 0 ELSE 1
      /\ Cardinality(r) = IF r = {} THEN 0 ELSE 1
  BY <1>3, AtMostOne DEF InOnePlace
<1>5. held[o] \in {0, 1}
  BY <1>3 DEF InOnePlace
<1> QED
  BY <1>1, <1>2, <1>3, <1>4, <1>5 DEF InOnePlace, Carved

-----------------------------------------------------------------------------
(* What a thread's own list has of an object, and what a chunk has. *)
IndicesIn(s, o) == {i \in 1 .. ChunkItems : i <= Len(s) /\ s[i] = o}

OwnAt(t, o) == IF pc[t] = "pushed" THEN {} ELSE IndicesIn(cur_free[t], o)

LEMMA FreeMoves ==
    ASSUME NEW t \in Threads, NEW o,
           \A u \in Threads \ {t} : cur_free'[u] = cur_free[u] /\ pc'[u] = pc[u]
    PROVE  /\ OwnAt(t, o)' = OwnAt(t, o) => FreeAt(o)' = FreeAt(o)
           /\ OwnAt(t, o) # {} => FreeAt(o) # {}
           /\ OwnAt(t, o) = {} =>
                 FreeAt(o)' = FreeAt(o) \cup {<<t, i>> : i \in OwnAt(t, o)'}
           /\ OwnAt(t, o)' = {} =>
                 FreeAt(o)' = FreeAt(o) \ {<<t, i>> : i \in OwnAt(t, o)}
           /\ \A i \in OwnAt(t, o) : <<t, i>> \in FreeAt(o)
<1> DEFINE f == FreeAt(o)
           g == FreeAt(o)'
           a == OwnAt(t, o)
           b == OwnAt(t, o)'
<1>1. \A p \in f : p = <<p[1], p[2]>>
  BY DEF FreeAt
<1>2. \A p \in g : p = <<p[1], p[2]>>
  BY DEF FreeAt
<1>3. \A u \in Threads \ {t} : \A i : <<u, i>> \in f <=> <<u, i>> \in g
  BY DEF FreeAt
<1>4. \A i : <<t, i>> \in f <=> i \in a
  BY DEF FreeAt, OwnAt, IndicesIn
<1>5. \A i : <<t, i>> \in g <=> i \in b
  BY DEF FreeAt, OwnAt, IndicesIn
<1>6. (\A p \in f : p[1] \in Threads) /\ (\A p \in g : p[1] \in Threads)
  BY DEF FreeAt
<1> HIDE DEF f, g, a, b
<1>7. b = a => \A p : p \in g <=> p \in f
  BY <1>1, <1>2, <1>3, <1>4, <1>5, <1>6
<1>8. a = {} => \A p : p \in g <=> p \in f \cup {<<t, i>> : i \in b}
  BY <1>1, <1>2, <1>3, <1>4, <1>5, <1>6
<1>9. b = {} => \A p : p \in g <=> p \in f \ {<<t, i>> : i \in a}
  BY <1>1, <1>2, <1>3, <1>4, <1>5, <1>6
<1>10. b = a => g = f
  BY <1>7
<1>11. a = {} => g = f \cup {<<t, i>> : i \in b}
  BY <1>8
<1>12. b = {} => g = f \ {<<t, i>> : i \in a}
  BY <1>9
<1>13. a # {} => f # {}
  BY <1>4
<1> QED
  BY <1>4, <1>10, <1>11, <1>12, <1>13 DEF f, g, a, b

(* Seen from one object that is in at most one place. *)
LEMMA FreeOfOne ==
    ASSUME NEW t \in Threads, NEW o, \A x, y \in FreeAt(o) : x = y,
           \A u \in Threads \ {t} : cur_free'[u] = cur_free[u] /\ pc'[u] = pc[u]
    PROVE  /\ \A i, j \in OwnAt(t, o) : i = j
           /\ OwnAt(t, o)' = OwnAt(t, o) => FreeAt(o)' = FreeAt(o)
           /\ OwnAt(t, o) # {} /\ OwnAt(t, o)' = {} =>
                 FreeAt(o) # {} /\ FreeAt(o)' = {}
           /\ FreeAt(o) = {} => OwnAt(t, o) = {}
           /\ FreeAt(o) = {} /\ (\A i, j \in OwnAt(t, o)' : i = j) =>
                 /\ \A x, y \in FreeAt(o)' : x = y
                 /\ FreeAt(o)' # {} <=> OwnAt(t, o)' # {}
<1> DEFINE f == FreeAt(o)
           g == FreeAt(o)'
           a == OwnAt(t, o)
           b == OwnAt(t, o)'
<1>1. /\ b = a => g = f
      /\ a # {} => f # {}
      /\ a = {} => g = f \cup {<<t, i>> : i \in b}
      /\ b = {} => g = f \ {<<t, i>> : i \in a}
      /\ \A i \in a : <<t, i>> \in f
  BY FreeMoves
<1> HIDE DEF f, g, a, b
<1>2. \A x, y \in f : x = y
  BY DEF f
<1>3. \A i, j \in a : i = j
  BY <1>1, <1>2
<1>4. a # {} /\ b = {} => f # {} /\ g = {}
  BY <1>1, <1>2
<1>5. f = {} /\ (\A i, j \in b : i = j) =>
         (\A x, y \in g : x = y) /\ (g # {} <=> b # {})
  BY <1>1
<1> QED
  BY <1>1, <1>3, <1>4, <1>5 DEF f, g, a, b

(* A chunk is pushed, or the last one is popped. *)
LEMMA ChunkPushed ==
    ASSUME TypeOK, NEW c \in Chunks, NEW o, free_chunks' = Append(free_chunks, c)
    PROVE  /\ IndicesIn(c, o) = {} => ChunkAt(o)' = ChunkAt(o)
           /\ ChunkAt(o) = {} /\ IndicesIn(c, o) # {} /\
                 (\A i, j \in IndicesIn(c, o) : i = j) =>
                    ChunkAt(o)' # {} /\ \A x, y \in ChunkAt(o)' : x = y
<1> DEFINE n == Len(free_chunks)
           f == ChunkAt(o)
           g == ChunkAt(o)'
           b == IndicesIn(c, o)
<1>1. /\ n \in Nat /\ Len(free_chunks') = n + 1 /\ free_chunks'[n + 1] = c
      /\ \A k \in 1 .. n : free_chunks'[k] = free_chunks[k]
  BY LenProperties, AppendProperties DEF TypeOK
<1>2. \A p \in f : p = <<p[1], p[2]>> /\ p[1] \in 1 .. n
  BY DEF ChunkAt
<1>3. \A p \in g : p = <<p[1], p[2]>> /\ p[1] \in 1 .. n + 1
  BY <1>1 DEF ChunkAt
<1>4. \A k \in 1 .. n : \A i : <<k, i>> \in f <=> <<k, i>> \in g
  BY <1>1 DEF ChunkAt
<1>5. \A i : <<n + 1, i>> \in g <=> i \in b
  BY <1>1 DEF ChunkAt, IndicesIn
<1> HIDE DEF n, f, g, b
<1>6. \A p : p \in g <=> p \in f \/ \E i \in b : p = <<n + 1, i>>
  <2>1. ASSUME NEW p \in g PROVE p \in f \/ \E i \in b : p = <<n + 1, i>>
    <3>1. p = <<p[1], p[2]>> /\ (p[1] \in 1 .. n \/ p[1] = n + 1)
      BY <1>1, <1>3
    <3> QED
      BY <1>4, <1>5, <3>1
  <2>2. ASSUME NEW p \in f PROVE p \in g
    BY <1>2, <1>4
  <2> QED
    BY <1>5, <2>1, <2>2
<1>7. b = {} => g = f
  BY <1>6
<1>8. f = {} /\ b # {} /\ (\A i, j \in b : i = j) =>
         g # {} /\ \A x, y \in g : x = y
  <2> SUFFICES ASSUME f = {}, NEW k \in b, \A i, j \in b : i = j
               PROVE  g # {} /\ \A x, y \in g : x = y
    OBVIOUS
  <2>1. <<n + 1, k>> \in g
    BY <1>6
  <2>2. \A x \in g : x = <<n + 1, k>>
    BY <1>6
  <2> QED
    BY <2>1, <2>2
<1> QED
  BY <1>7, <1>8 DEF f, g, b

LEMMA ChunkPopped ==
    ASSUME TypeOK, free_chunks # << >>, NEW o, free_chunks' = Front(free_chunks),
           \A x, y \in ChunkAt(o) : x = y
    PROVE  LET b == IndicesIn(Last(free_chunks), o) IN
           /\ \A i, j \in b : i = j
           /\ b = {} => ChunkAt(o)' = ChunkAt(o)
           /\ b # {} => ChunkAt(o) # {} /\ ChunkAt(o)' = {}
<1> DEFINE n == Len(free_chunks)
           f == ChunkAt(o)
           g == ChunkAt(o)'
           b == IndicesIn(Last(free_chunks), o)
<1>1. /\ n \in Nat \ {0} /\ Len(free_chunks') = n - 1 /\ Last(free_chunks) = free_chunks[n]
      /\ \A k \in 1 .. n - 1 : free_chunks'[k] = free_chunks[k]
  BY FrontFacts DEF TypeOK
<1>2. \A p \in f : p = <<p[1], p[2]>> /\ p[1] \in 1 .. n
  BY DEF ChunkAt
<1>3. \A p \in g : p = <<p[1], p[2]>> /\ p[1] \in 1 .. n - 1
  BY <1>1 DEF ChunkAt
<1>4. \A k \in 1 .. n - 1 : \A i : <<k, i>> \in f <=> <<k, i>> \in g
  BY <1>1 DEF ChunkAt
<1>5. \A i : <<n, i>> \in f <=> i \in b
  BY <1>1 DEF ChunkAt, IndicesIn
<1> HIDE DEF n, f, g, b
<1>6. \A x, y \in f : x = y
  BY DEF f
<1>7. ASSUME NEW i \in b, NEW j \in b PROVE i = j
  <2>1. <<n, i>> \in f /\ <<n, j>> \in f
    BY <1>5
  <2>2. <<n, i>> = <<n, j>>
    BY <1>6, <2>1
  <2> QED
    BY <2>2
<1>8. b = {} => g = f
  <2> SUFFICES ASSUME b = {} PROVE g = f
    OBVIOUS
  <2>1. \A p \in f : p[1] \in 1 .. n - 1
    BY <1>1, <1>2, <1>5
  <2>2. \A p : p \in g <=> p \in f
    BY <1>2, <1>3, <1>4, <2>1
  <2> QED
    BY <2>2
<1>9. b # {} => f # {} /\ g = {}
  <2> SUFFICES ASSUME NEW i \in b PROVE f # {} /\ g = {}
    OBVIOUS
  <2>1. <<n, i>> \in f
    BY <1>5
  <2>2. ASSUME NEW p \in g PROVE FALSE
    <3>1. p \in f /\ p[1] \in 1 .. n - 1
      BY <1>3, <1>4
    <3>2. p = <<n, i>>
      BY <1>6, <2>1, <3>1
    <3> QED
      BY <1>1, <3>1, <3>2
  <2> QED
    BY <2>1, <2>2
<1> QED
  BY <1>7, <1>8, <1>9 DEF f, g, b

(* The indices of an object in a list that one operation has changed. *)
LEMMA FrontIndices ==
    ASSUME NEW c \in Chunks, c # << >>, Len(c) <= ChunkItems, NEW o
    PROVE  /\ IndicesIn(Front(c), o) = IndicesIn(c, o) \ {Len(c)}
           /\ Len(c) \in IndicesIn(c, o) <=> Last(c) = o
<1>1. /\ Len(c) \in Nat \ {0} /\ Len(Front(c)) = Len(c) - 1
      /\ \A i \in 1 .. Len(c) - 1 : Front(c)[i] = c[i]
      /\ Last(c) = c[Len(c)]
  BY FrontFacts DEF Chunks
<1>2. ChunkItems \in Nat
  BY ItemsAssumption
<1>3. \A i : i \in IndicesIn(Front(c), o) <=> i \in IndicesIn(c, o) \ {Len(c)}
  BY <1>1, <1>2 DEF IndicesIn
<1>4. Len(c) \in IndicesIn(c, o) <=> Last(c) = o
  BY <1>1, <1>2 DEF IndicesIn
<1> QED
  BY <1>3, <1>4

LEMMA AppendIndices ==
    ASSUME NEW c \in Chunks, Len(c) < ChunkItems, NEW x \in Objects, NEW o
    PROVE  IndicesIn(Append(c, x), o) = IF o = x THEN IndicesIn(c, o) \cup {Len(c) + 1}
                                        ELSE IndicesIn(c, o)
<1>1. /\ Len(c) \in Nat /\ Len(Append(c, x)) = Len(c) + 1
      /\ \A i \in 1 .. Len(c) : Append(c, x)[i] = c[i]
      /\ Append(c, x)[Len(c) + 1] = x
  BY LenProperties, AppendProperties DEF Chunks
<1>2. ChunkItems \in Nat
  BY ItemsAssumption
<1>3. \A i : i \in IndicesIn(Append(c, x), o)
                 <=> i \in IndicesIn(c, o) \/ (o = x /\ i = Len(c) + 1)
  BY <1>1, <1>2 DEF IndicesIn
<1> QED
  BY <1>3

LEMMA ShortIndices ==
    ASSUME NEW x, NEW o
    PROVE  /\ IndicesIn(<< >>, o) = {}
           /\ IndicesIn(<<x>>, o) = IF o = x THEN {1} ELSE {}
<1>1. ChunkItems \in Nat /\ 1 <= ChunkItems
  BY ItemsAssumption
<1> QED
  BY <1>1 DEF IndicesIn

LEMMA PlacesStay ==
    ASSUME NEW o
    PROVE  /\ free_chunks' = free_chunks => ChunkAt(o)' = ChunkAt(o)
           /\ ptr' = ptr => Returning(o)' = Returning(o)
           /\ cur_free' = cur_free /\ (\A u \in Threads :
                  pc'[u] = "pushed" <=> pc[u] = "pushed") => FreeAt(o)' = FreeAt(o)
           /\ item_count' = item_count => (Carved(o)' <=> Carved(o))
BY DEF ChunkAt, Returning, FreeAt, Carved

LEMMA PoolFacts ==
    ASSUME PoolInv, NEW t \in Threads
    PROVE  /\ cur_free \in [Threads -> Chunks] /\ free_chunks \in Seq(Chunks)
           /\ cur_free[t] \in Chunks /\ Len(cur_free[t]) \in Nat
           /\ Len(cur_free[t]) <= ChunkItems /\ Len(free_chunks) \in Nat
           /\ pc \in [Threads -> {"idle", "block", "pop", "push", "pushed"}]
           /\ ptr \in [Threads -> Objects \cup {NoObject}]
           /\ item_count \in [Blocks -> 0 .. BlockItems]
           /\ cur_block \in [Threads -> Blocks \cup {NoBlock}]
           /\ held \in [Objects -> Nat] /\ lost \subseteq Objects
           /\ ChunkItems \in Nat /\ ChunkItems > 0
           /\ CallOfThread(t) /\ \A o \in Objects : OnePlace(o)
           /\ NoObject \notin Objects /\ TypeOK
<1>1. /\ TypeOK /\ CallOfThread(t) /\ \A o \in Objects : OnePlace(o)
  BY DEF PoolInv, CallsOfThreads, AllInOnePlace
<1>2. cur_free[t] \in Chunks /\ free_chunks \in Seq(Chunks)
      /\ Len(cur_free[t]) <= ChunkItems
  BY <1>1 DEF TypeOK
<1>3. Len(cur_free[t]) \in Nat /\ Len(free_chunks) \in Nat
  BY <1>2, LenProperties DEF Chunks
<1> QED
  BY <1>1, <1>2, <1>3, ItemsAssumption, ObjectAssumption DEF TypeOK

-----------------------------------------------------------------------------
(* What each step does to the place of an object. *)
LEMMA QuietPlaces ==
    ASSUME PoolInv, NEW o \in Objects,
           UNCHANGED <<item_count, cur_free, free_chunks, ptr, held, lost>>,
           \A u \in Threads : pc'[u] = "pushed" <=> pc[u] = "pushed"
    PROVE  OnePlace(o)'
<1>1. OnePlace(o)
  BY DEF PoolInv, AllInOnePlace
<1>2. /\ FreeAt(o)' = FreeAt(o) /\ ChunkAt(o)' = ChunkAt(o)
      /\ Returning(o)' = Returning(o) /\ (Carved(o)' <=> Carved(o))
      /\ held'[o] = held[o] /\ (o \in lost' <=> o \in lost)
  BY PlacesStay
<1> QED
  BY <1>1, <1>2 DEF OnePlace, InOnePlace

LEMMA GetFreePlaces ==
    ASSUME PoolInv, NEW t \in Threads, GetFree(t), NEW o \in Objects
    PROVE  OnePlace(o)'
<1> DEFINE c == cur_free[t]
           x == Last(c)
           b == IndicesIn(c, o)
<1>0. c \in Chunks /\ c # << >> /\ Len(c) <= ChunkItems /\ OnePlace(o)
      /\ pc[t] = "idle" /\ pc' = pc
  BY PoolFacts DEF GetFree
<1>1. /\ cur_free'[t] = Front(c) /\ \A u \in Threads \ {t} : cur_free'[u] = cur_free[u]
      /\ held' = [held EXCEPT ![x] = held[x] + 1]
  BY PoolFacts DEF GetFree, HandOut
<1>2. /\ ChunkAt(o)' = ChunkAt(o) /\ Returning(o)' = Returning(o)
      /\ (Carved(o)' <=> Carved(o)) /\ lost' = lost
  BY PlacesStay DEF GetFree
<1>3. /\ OwnAt(t, o) = b /\ OwnAt(t, o)' = b \ {Len(c)}
      /\ Len(c) \in b <=> x = o
  BY <1>0, <1>1, FrontIndices DEF OwnAt
<1>4. \A p, q \in FreeAt(o) : p = q
  BY <1>0 DEF OnePlace, InOnePlace
<1>5. CASE o # x
  <2>1. held'[o] = held[o] /\ OwnAt(t, o)' = OwnAt(t, o)
    BY <1>1, <1>3, <1>5, PoolFacts
  <2>2. FreeAt(o)' = FreeAt(o)
    BY <1>0, <1>1, <1>4, <2>1, FreeOfOne
  <2> QED
    BY <1>0, <1>2, <2>1, <2>2 DEF OnePlace, InOnePlace
<1>6. CASE o = x
  <2>1. \A i, j \in OwnAt(t, o) : i = j
    BY <1>0, <1>1, <1>4, FreeOfOne
  <2>2. OwnAt(t, o) # {} /\ OwnAt(t, o)' = {}
    BY <1>3, <1>6, <2>1
  <2>3. FreeAt(o) # {} /\ FreeAt(o)' = {}
    BY <1>0, <1>1, <1>4, <2>2, FreeOfOne
  <2>4. held'[o] = held[o] + 1
    BY <1>1, <1>6, PoolFacts
  <2> QED
    BY <1>0, <1>2, <2>3, <2>4 DEF OnePlace, InOnePlace
<1> QED
  BY <1>5, <1>6

LEMMA PopChunkPlaces ==
    ASSUME PoolInv, NEW t \in Threads, PopChunk(t), NEW o \in Objects
    PROVE  OnePlace(o)'
<1> DEFINE c == Last(free_chunks)
           x == Last(c)
           b == IndicesIn(c, o)
<1>0. /\ OnePlace(o) /\ TypeOK /\ pc[t] = "pop" /\ cur_free[t] = << >>
      /\ pc \in [Threads -> {"idle", "block", "pop", "push", "pushed"}]
  BY PoolFacts DEF PopChunk, CallOfThread
<1>1. CASE free_chunks = << >>
  BY <1>0, <1>1, QuietPlaces DEF PopChunk
<1>2. CASE free_chunks # << >>
  <2>1. /\ cur_free' = [cur_free EXCEPT ![t] = Front(c)]
        /\ held' = [held EXCEPT ![x] = held[x] + 1]
        /\ free_chunks' = Front(free_chunks) /\ pc' = [pc EXCEPT ![t] = "idle"]
        /\ UNCHANGED <<item_count, ptr, lost>>
    BY <1>2 DEF PopChunk, HandOut
  <2>2. c \in Chunks /\ Len(c) \in 1 .. ChunkItems /\ c # << >> /\ Len(c) <= ChunkItems
    <3>1. /\ c \in Chunks /\ c = free_chunks[Len(free_chunks)]
          /\ Len(free_chunks) \in Nat \ {0}
      BY <1>2, PoolFacts, FrontFacts
    <3>2. Len(c) \in 1 .. ChunkItems
      BY <1>0, <3>1 DEF TypeOK
    <3> QED
      BY <3>1, <3>2, EmptySeq
  <2> HIDE DEF c
  <2>3. /\ OwnAt(t, o) = {} /\ OwnAt(t, o)' = b \ {Len(c)}
        /\ Len(c) \in b <=> x = o
    <3>1. pc'[t] = "idle" /\ cur_free'[t] = Front(c)
      BY <1>0, <2>1, PoolFacts
    <3>2. OwnAt(t, o) = {}
      BY <1>0, ShortIndices DEF OwnAt
    <3>3. OwnAt(t, o)' = IndicesIn(Front(c), o)
      BY <3>1 DEF OwnAt, IndicesIn
    <3> QED
      BY <2>2, <3>2, <3>3, FrontIndices
  <2>4. /\ \A p, q \in FreeAt(o) : p = q
        /\ \A p, q \in ChunkAt(o) : p = q
    BY <1>0 DEF OnePlace, InOnePlace
  <2>5. /\ \A i, j \in b : i = j
        /\ b = {} => ChunkAt(o)' = ChunkAt(o)
        /\ b # {} => ChunkAt(o) # {} /\ ChunkAt(o)' = {}
    BY <1>0, <1>2, <2>1, <2>4, ChunkPopped DEF c
  <2>6. Returning(o)' = Returning(o) /\ (Carved(o)' <=> Carved(o)) /\ lost' = lost
    BY <2>1, PlacesStay
  <2>7. \A u \in Threads \ {t} : cur_free'[u] = cur_free[u] /\ pc'[u] = pc[u]
    BY <2>1, PoolFacts
  <2>8. CASE b = {}
    <3>1. OwnAt(t, o)' = OwnAt(t, o) /\ held'[o] = held[o]
      BY <2>1, <2>3, <2>8, PoolFacts
    <3>2. FreeAt(o)' = FreeAt(o)
      BY <2>4, <2>7, <3>1, FreeOfOne
    <3> QED
      BY <1>0, <2>5, <2>6, <2>8, <3>1, <3>2 DEF OnePlace, InOnePlace
  <2>9. CASE b # {}
    <3>1. /\ ChunkAt(o) # {} /\ ChunkAt(o)' = {} /\ FreeAt(o) = {}
          /\ Returning(o) = {} /\ held[o] = 0 /\ o \notin lost /\ Carved(o)
      BY <1>0, <2>5, <2>9 DEF OnePlace, InOnePlace
    <3>2. \A i, j \in OwnAt(t, o)' : i = j
      BY <2>3, <2>5
    <3>3. /\ \A p, q \in FreeAt(o)' : p = q
          /\ FreeAt(o)' # {} <=> OwnAt(t, o)' # {}
      BY <2>4, <2>7, <3>1, <3>2, FreeOfOne
    <3>4. CASE o = x
      <4>1. OwnAt(t, o)' = {} /\ held'[o] = 1
        BY <2>1, <2>3, <2>5, <3>1, <3>4, PoolFacts
      <4> QED
        BY <2>6, <3>1, <3>3, <4>1 DEF OnePlace, InOnePlace
    <3>5. CASE o # x
      <4>1. OwnAt(t, o)' # {} /\ held'[o] = 0
        BY <2>1, <2>3, <2>9, <3>1, <3>5, PoolFacts
      <4> QED
        BY <2>6, <3>1, <3>3, <4>1 DEF OnePlace, InOnePlace
    <3> QED
      BY <3>4, <3>5
  <2> QED
    BY <2>8, <2>9
<1> QED
  BY <1>1, <1>2

(* The next object of a block is one that nobody has had. *)
LEMMA CarvedPlaces ==
    ASSUME PoolInv, NEW b \in Blocks, item_count[b] < BlockItems,
           item_count' = [item_count EXCEPT ![b] = item_count[b] + 1],
           held' = [held EXCEPT ![<<b, item_count[b] + 1>>] = @ + 1],
           UNCHANGED <<cur_free, free_chunks, ptr, lost>>,
           \A u \in Threads : pc'[u] = "pushed" <=> pc[u] = "pushed",
           NEW o \in Objects
    PROVE  OnePlace(o)'
<1> DEFINE n == item_count[b]
<1>0. /\ OnePlace(o) /\ n \in Nat /\ o = <<o[1], o[2]>> /\ o[1] \in Blocks
      /\ o[2] \in Nat /\ item_count \in [Blocks -> 0 .. BlockItems]
      /\ held \in [Objects -> Nat]
  BY DEF PoolInv, TypeOK, AllInOnePlace, Objects
<1>1. /\ FreeAt(o)' = FreeAt(o) /\ ChunkAt(o)' = ChunkAt(o)
      /\ Returning(o)' = Returning(o) /\ lost' = lost
  BY PlacesStay
<1>2. CASE o = <<b, n + 1>>
  <2>1. ~Carved(o) /\ Carved(o)' /\ held'[o] = held[o] + 1
    BY <1>0, <1>2 DEF Carved
  <2> QED
    BY <1>0, <1>1, <2>1 DEF OnePlace, InOnePlace
<1>3. CASE o # <<b, n + 1>>
  <2>1. held'[o] = held[o]
    BY <1>0, <1>3
  <2>2. Carved(o)' <=> Carved(o)
    <3>1. CASE o[1] = b
      <4>1. o[2] # n + 1
        BY <1>0, <1>3, <3>1
      <4> QED
        BY <1>0, <3>1, <4>1 DEF Carved
    <3>2. CASE o[1] # b
      BY <1>0, <3>2 DEF Carved
    <3> QED
      BY <3>1, <3>2
  <2> QED
    BY <1>0, <1>1, <2>1, <2>2 DEF OnePlace, InOnePlace
<1> QED
  BY <1>2, <1>3

LEMMA ReturnPlaces ==
    ASSUME PoolInv, NEW t \in Threads, NEW x \in Objects, Return(t, x),
           NEW o \in Objects
    PROVE  OnePlace(o)'
<1> DEFINE c == cur_free[t]
           b == IndicesIn(c, o)
<1>0. /\ OnePlace(o) /\ pc[t] = "idle" /\ held[x] > 0
      /\ held' = [held EXCEPT ![x] = @ - 1] /\ ptr[t] = NoObject
      /\ UNCHANGED <<item_count, free_chunks, lost>> /\ c \in Chunks
      /\ pc \in [Threads -> {"idle", "block", "pop", "push", "pushed"}]
  BY PoolFacts DEF Return, CallOfThread
<1>1. o = x =>
         /\ FreeAt(o) = {} /\ ChunkAt(o) = {} /\ Returning(o) = {}
         /\ held[o] = 1 /\ o \notin lost /\ Carved(o)
  <2> SUFFICES ASSUME o = x
               PROVE  /\ FreeAt(o) = {} /\ ChunkAt(o) = {} /\ Returning(o) = {}
                      /\ held[o] = 1 /\ o \notin lost /\ Carved(o)
    OBVIOUS
  <2>1. held[o] \in {0, 1} /\ held[o] > 0
    BY <1>0 DEF OnePlace, InOnePlace
  <2>2. held[o] = 1
    BY <2>1
  <2> QED
    BY <1>0, <2>2 DEF OnePlace, InOnePlace
<1>2. /\ (o = x => held'[o] = 0) /\ (o # x => held'[o] = held[o])
      /\ ChunkAt(o)' = ChunkAt(o) /\ (Carved(o)' <=> Carved(o))
      /\ (o \in lost' <=> o \in lost)
  BY <1>0, <1>1, PoolFacts, PlacesStay
<1>3. CASE Len(c) < ChunkItems /\ cur_free' = [cur_free EXCEPT ![t] = Append(@, x)]
           /\ UNCHANGED <<pc, ptr>>
  <2>1. /\ \A u \in Threads \ {t} : cur_free'[u] = cur_free[u] /\ pc'[u] = pc[u]
        /\ cur_free'[t] = Append(c, x) /\ Returning(o)' = Returning(o)
    BY <1>3, PoolFacts, PlacesStay
  <2>2. /\ OwnAt(t, o) = b
        /\ OwnAt(t, o)' = IF o = x THEN b \cup {Len(c) + 1} ELSE b
    <3>1. OwnAt(t, o) = b /\ pc'[t] # "pushed"
      BY <1>0, <1>3 DEF OwnAt
    <3>2. OwnAt(t, o)' = IndicesIn(Append(c, x), o)
      BY <2>1, <3>1 DEF OwnAt, IndicesIn
    <3> QED
      BY <1>0, <1>3, <3>1, <3>2, AppendIndices
  <2>3. \A p, q \in FreeAt(o) : p = q
    BY <1>0 DEF OnePlace, InOnePlace
  <2>4. CASE o = x
    <3>1. OwnAt(t, o) = {}
      BY <1>1, <2>1, <2>3, <2>4, FreeOfOne
    <3>2. OwnAt(t, o)' = {Len(c) + 1}
      BY <2>2, <2>4, <3>1
    <3>3. FreeAt(o)' # {} /\ \A p, q \in FreeAt(o)' : p = q
      BY <1>1, <2>1, <2>3, <2>4, <3>2, FreeOfOne
    <3> QED
      BY <1>1, <1>2, <2>1, <2>4, <3>3 DEF OnePlace, InOnePlace
  <2>5. CASE o # x
    <3>1. FreeAt(o)' = FreeAt(o)
      BY <2>1, <2>2, <2>3, <2>5, FreeOfOne
    <3> QED
      BY <1>0, <1>2, <2>1, <2>5, <3>1 DEF OnePlace, InOnePlace
  <2> QED
    BY <2>4, <2>5
<1>4. CASE /\ ptr' = [ptr EXCEPT ![t] = x] /\ pc' = [pc EXCEPT ![t] = "push"]
           /\ UNCHANGED cur_free
  <2>1. \A u \in Threads : pc'[u] = "pushed" <=> pc[u] = "pushed"
    BY <1>0, <1>4
  <2>2. FreeAt(o)' = FreeAt(o)
    BY <1>4, <2>1, PlacesStay
  <2>3. Returning(o)' = IF o = x THEN Returning(o) \cup {t} ELSE Returning(o)
    BY <1>0, <1>4, PoolFacts DEF Returning
  <2>4. CASE o = x
    <3>1. Returning(o)' = {t}
      BY <1>1, <2>3, <2>4
    <3> QED
      BY <1>1, <1>2, <2>2, <2>4, <3>1 DEF OnePlace, InOnePlace
  <2>5. CASE o # x
    BY <1>0, <1>2, <2>2, <2>3, <2>5 DEF OnePlace, InOnePlace
  <2> QED
    BY <2>4, <2>5
<1> QED
  BY <1>3, <1>4 DEF Return

(* The list of a thread becomes a chunk of free_chunks_, or is given up. *)
LEMMA ListLeaves ==
    ASSUME PoolInv, NEW t \in Threads, pc[t] # "pushed", NEW o \in Objects,
           \A u \in Threads \ {t} : cur_free'[u] = cur_free[u] /\ pc'[u] = pc[u],
           OwnAt(t, o)' = {}, UNCHANGED <<item_count, ptr, held>>,
           \/ free_chunks' = Append(free_chunks, cur_free[t]) /\ lost' = lost
           \/ free_chunks' = free_chunks /\ lost' = lost \cup ToSet(cur_free[t])
    PROVE  OnePlace(o)'
<1> DEFINE c == cur_free[t]
           b == IndicesIn(c, o)
<1>0. /\ OnePlace(o) /\ TypeOK /\ c \in Chunks /\ Len(c) \in Nat
      /\ Len(c) <= ChunkItems /\ ChunkItems \in Nat /\ OwnAt(t, o) = b
  BY PoolFacts DEF OwnAt
<1>1. /\ Returning(o)' = Returning(o) /\ (Carved(o)' <=> Carved(o))
      /\ held'[o] = held[o]
  BY PlacesStay
<1>2. o \in ToSet(c) <=> b # {}
  <2>1. DOMAIN c = 1 .. Len(c)
    BY <1>0, LenProperties DEF Chunks
  <2>2. ToSet(c) = {c[i] : i \in 1 .. Len(c)}
    BY <2>1 DEF ToSet
  <2> QED
    BY <1>0, <2>2 DEF IndicesIn
<1>3. /\ \A p, q \in FreeAt(o) : p = q
      /\ OwnAt(t, o)' = OwnAt(t, o) => FreeAt(o)' = FreeAt(o)
      /\ b # {} => FreeAt(o) # {} /\ FreeAt(o)' = {}
      /\ \A i, j \in b : i = j
  <2>1. \A p, q \in FreeAt(o) : p = q
    BY <1>0 DEF OnePlace, InOnePlace
  <2>2. /\ \A i, j \in OwnAt(t, o) : i = j
        /\ OwnAt(t, o)' = OwnAt(t, o) => FreeAt(o)' = FreeAt(o)
        /\ OwnAt(t, o) # {} => FreeAt(o) # {} /\ FreeAt(o)' = {}
    BY <2>1, FreeOfOne
  <2> QED
    BY <1>0, <2>1, <2>2
<1>4. CASE b = {}
  <2>1. FreeAt(o)' = FreeAt(o)
    BY <1>0, <1>3, <1>4
  <2>2. ChunkAt(o)' = ChunkAt(o)
    BY <1>0, <1>4, ChunkPushed, PlacesStay
  <2>3. o \in lost' <=> o \in lost
    BY <1>2, <1>4
  <2> QED
    BY <1>0, <1>1, <2>1, <2>2, <2>3 DEF OnePlace, InOnePlace
<1>5. CASE b # {}
  <2>1. /\ FreeAt(o)' = {} /\ ChunkAt(o) = {} /\ Returning(o) = {}
        /\ held[o] = 0 /\ o \notin lost /\ Carved(o)
    BY <1>0, <1>3, <1>5 DEF OnePlace, InOnePlace
  <2>2. CASE free_chunks' = Append(free_chunks, c) /\ lost' = lost
    <3>1. ChunkAt(o)' # {} /\ \A p, q \in ChunkAt(o)' : p = q
      BY <1>0, <1>3, <1>5, <2>1, <2>2, ChunkPushed
    <3> QED
      BY <1>1, <2>1, <2>2, <3>1 DEF OnePlace, InOnePlace
  <2>3. CASE free_chunks' = free_chunks /\ lost' = lost \cup ToSet(c)
    <3>1. ChunkAt(o)' = {} /\ o \in lost'
      BY <1>2, <1>5, <2>1, <2>3, PlacesStay
    <3> QED
      BY <1>1, <2>1, <3>1 DEF OnePlace, InOnePlace
  <2> QED
    BY <2>2, <2>3
<1> QED
  BY <1>4, <1>5

LEMMA PushChunkPlaces ==
    ASSUME PoolInv, NEW t \in Threads, PushChunk(t), NEW o \in Objects
    PROVE  OnePlace(o)'
<1>1. /\ pc[t] = "push" /\ pc'[t] = "pushed" /\ cur_free' = cur_free
      /\ \A u \in Threads \ {t} : pc'[u] = pc[u]
  BY PoolFacts DEF PushChunk
<1>2. OwnAt(t, o)' = {}
  BY <1>1 DEF OwnAt
<1> QED
  BY <1>1, <1>2, ListLeaves DEF PushChunk

LEMMA ThreadExitPlaces ==
    ASSUME PoolInv, NEW t \in Threads, ThreadExit(t), NEW o \in Objects
    PROVE  OnePlace(o)'
<1>1. /\ pc[t] = "idle" /\ pc' = pc /\ cur_free'[t] = << >>
      /\ \A u \in Threads \ {t} : cur_free'[u] = cur_free[u]
  BY PoolFacts DEF ThreadExit
<1>2. OwnAt(t, o)' = {}
  BY <1>1, ShortIndices DEF OwnAt, IndicesIn
<1> QED
  BY <1>1, <1>2, ListLeaves DEF ThreadExit

(* The object return_object was given leaves its hands. *)
LEMMA PtrLeaves ==
    ASSUME PoolInv, NEW t \in Threads, pc[t] \in {"push", "pushed"},
           NEW o \in Objects, ptr' = [ptr EXCEPT ![t] = NoObject]
    PROVE  /\ ptr[t] \in Objects
           /\ o = ptr[t] => Returning(o) # {} /\ Returning(o)' = {}
           /\ o # ptr[t] => Returning(o)' = Returning(o)
<1>1. /\ OnePlace(o) /\ NoObject \notin Objects /\ ptr[t] \in Objects
      /\ ptr \in [Threads -> Objects \cup {NoObject}]
  BY PoolFacts DEF CallOfThread
<1>2. \A u : u \in Returning(o)' <=> u \in Returning(o) /\ u # t
  BY <1>1 DEF Returning
<1>3. t \in Returning(o) <=> o = ptr[t]
  BY DEF Returning
<1>4. \A u, v \in Returning(o) : u = v
  BY <1>1 DEF OnePlace, InOnePlace
<1>5. o = ptr[t] => Returning(o) # {} /\ Returning(o)' = {}
  BY <1>2, <1>3, <1>4
<1>6. o # ptr[t] => Returning(o)' = Returning(o)
  <2>1. o # ptr[t] => \A u : u \in Returning(o)' <=> u \in Returning(o)
    BY <1>2, <1>3
  <2> QED
    BY <2>1
<1> QED
  BY <1>1, <1>5, <1>6

LEMMA ReturnDonePlaces ==
    ASSUME PoolInv, NEW t \in Threads, ReturnDone(t), NEW o \in Objects
    PROVE  OnePlace(o)'
<1>1. /\ OnePlace(o) /\ pc[t] = "pushed" /\ pc'[t] = "idle"
      /\ ptr' = [ptr EXCEPT ![t] = NoObject] /\ cur_free'[t] = << ptr[t] >>
      /\ \A u \in Threads \ {t} : cur_free'[u] = cur_free[u] /\ pc'[u] = pc[u]
  BY PoolFacts DEF ReturnDone
<1>2. /\ o = ptr[t] => Returning(o) # {} /\ Returning(o)' = {}
      /\ o # ptr[t] => Returning(o)' = Returning(o)
  BY <1>1, PtrLeaves
<1>3. /\ OwnAt(t, o) = {}
      /\ OwnAt(t, o)' = IF o = ptr[t] THEN {1} ELSE {}
  <2>1. OwnAt(t, o)' = IndicesIn(<< ptr[t] >>, o)
    BY <1>1 DEF OwnAt, IndicesIn
  <2> QED
    BY <1>1, <2>1, ShortIndices DEF OwnAt
<1>4. /\ ChunkAt(o)' = ChunkAt(o) /\ (Carved(o)' <=> Carved(o))
      /\ held'[o] = held[o] /\ (o \in lost' <=> o \in lost)
  BY PlacesStay DEF ReturnDone
<1>5. \A p, q \in FreeAt(o) : p = q
  BY <1>1 DEF OnePlace, InOnePlace
<1>6. CASE o # ptr[t]
  <2>1. FreeAt(o)' = FreeAt(o)
    BY <1>1, <1>3, <1>5, <1>6, FreeOfOne
  <2> QED
    BY <1>1, <1>2, <1>4, <1>6, <2>1 DEF OnePlace, InOnePlace
<1>7. CASE o = ptr[t]
  <2>1. /\ FreeAt(o) = {} /\ ChunkAt(o) = {} /\ held[o] = 0 /\ o \notin lost
        /\ Carved(o)
    BY <1>1, <1>2, <1>7 DEF OnePlace, InOnePlace
  <2>2. FreeAt(o)' # {} /\ \A p, q \in FreeAt(o)' : p = q
    BY <1>1, <1>3, <1>5, <1>7, <2>1, FreeOfOne
  <2> QED
    BY <1>2, <1>4, <1>7, <2>1, <2>2 DEF OnePlace, InOnePlace
<1> QED
  BY <1>6, <1>7

LEMMA PushFailsPlaces ==
    ASSUME PoolInv, NEW t \in Threads, PushFails(t), NEW o \in Objects
    PROVE  OnePlace(o)'
<1>1. /\ OnePlace(o) /\ pc[t] = "push" /\ cur_free' = cur_free
      /\ ptr' = [ptr EXCEPT ![t] = NoObject] /\ lost' = lost \cup {ptr[t]}
      /\ \A u \in Threads : pc'[u] = "pushed" <=> pc[u] = "pushed"
  BY PoolFacts DEF PushFails
<1>2. /\ o = ptr[t] => Returning(o) # {} /\ Returning(o)' = {}
      /\ o # ptr[t] => Returning(o)' = Returning(o)
  BY <1>1, PtrLeaves
<1>3. /\ FreeAt(o)' = FreeAt(o) /\ ChunkAt(o)' = ChunkAt(o)
      /\ (Carved(o)' <=> Carved(o)) /\ held'[o] = held[o]
  BY <1>1, PlacesStay DEF PushFails
<1>4. CASE o = ptr[t]
  BY <1>1, <1>2, <1>3, <1>4 DEF OnePlace, InOnePlace
<1>5. CASE o # ptr[t]
  BY <1>1, <1>2, <1>3, <1>5 DEF OnePlace, InOnePlace
<1> QED
  BY <1>4, <1>5

(* The steps of get that take a new object. *)
LEMMA CarvePlaces ==
    ASSUME PoolInv, NEW t \in Threads, Carve(t), NEW o \in Objects
    PROVE  OnePlace(o)'
<1> DEFINE b == cur_block[t]
<1>1. /\ b \in Blocks /\ item_count[b] < BlockItems /\ pc[t] = "block"
      /\ item_count \in [Blocks -> 0 .. BlockItems]
  BY PoolFacts DEF Carve, HasItem
<1>2. /\ item_count' = [item_count EXCEPT ![b] = item_count[b] + 1]
      /\ item_count'[b] = item_count[b] + 1
  BY <1>1 DEF Carve
<1>3. /\ held' = [held EXCEPT ![<<b, item_count[b] + 1>>] = @ + 1]
      /\ UNCHANGED <<cur_free, free_chunks, ptr, lost>>
  BY <1>2 DEF Carve, HandOut
<1>4. \A u \in Threads : pc'[u] = "pushed" <=> pc[u] = "pushed"
  BY <1>1, PoolFacts DEF Carve
<1> HIDE DEF b
<1> QED
  BY <1>1, <1>2, <1>3, <1>4, CarvedPlaces

(* Of the block that add_block stores, nothing has been carved. *)
LEMMA NewBlock ==
    ASSUME PoolInv, NEW t \in Threads, Store(t)
    PROVE  /\ <<seen[t], block_index[t]>> \in Blocks
           /\ item_count[<<seen[t], block_index[t]>>] = 0
           /\ \A g \in Groups, i \in Indices :
                 /\ g = seen[t] /\ i = block_index[t] => blocks'[g][i] = 1
                 /\ g # seen[t] \/ i # block_index[t] =>
                       blocks'[g][i] = blocks[g][i]
<1> DEFINE b == <<seen[t], block_index[t]>>
<1>1. /\ gpc[t] = "store" /\ t \in Storing
      /\ blocks' = [blocks EXCEPT ![seen[t]][block_index[t]] = @ + 1]
  BY DEF Store, Storing
<1>2. seen[t] \in Groups /\ block_index[t] \in Indices
      /\ blocks \in [Groups -> [Indices -> Nat]]
  BY <1>1 DEF PoolInv, IInv, SeenExists, GroupsTypeOK
<1>3. blocks[seen[t]][block_index[t]] = 0
  BY <1>1 DEF PoolInv, IInv, SlotOfOneBlock
<1>4. b \in Blocks
  BY <1>2 DEF Blocks
<1>5. ~(item_count[b] > 0) /\ item_count[b] \in 0 .. BlockItems
  <2>1. item_count[b] > 0 => blocks[b[1]][b[2]] > 0
    BY <1>4 DEF PoolInv, BlocksStored, Stored
  <2>2. blocks[b[1]][b[2]] = 0
    BY <1>3
  <2>3. item_count[b] \in 0 .. BlockItems
    BY <1>4 DEF PoolInv, TypeOK
  <2> QED
    BY <2>1, <2>2, <2>3
<1>6. item_count[b] = 0
  BY <1>5
<1>7. \A g \in Groups, i \in Indices :
         /\ g = seen[t] /\ i = block_index[t] => blocks'[g][i] = 1
         /\ g # seen[t] \/ i # block_index[t] => blocks'[g][i] = blocks[g][i]
  BY <1>1, <1>2, <1>3
<1> QED
  BY <1>4, <1>6, <1>7

LEMMA CarveNewPlaces ==
    ASSUME PoolInv, NEW t \in Threads, CarveNew(t), NEW o \in Objects
    PROVE  OnePlace(o)'
<1> DEFINE b == <<seen[t], block_index[t]>>
<1>1. b \in Blocks /\ item_count[b] = 0
  BY NewBlock DEF CarveNew
<1>2. BlockItems \in Nat /\ BlockItems > 0
  BY ItemsAssumption
<1>3. cur_block'[t] = b /\ pc[t] = "block"
  BY PoolFacts DEF CarveNew, NeedsBlock
<1>4. /\ item_count' = [item_count EXCEPT ![b] = item_count[b] + 1]
      /\ held' = [held EXCEPT ![<<b, item_count[b] + 1>>] = @ + 1]
      /\ UNCHANGED <<cur_free, free_chunks, ptr, lost>>
  <2>1. /\ item_count' = [item_count EXCEPT ![cur_block'[t]] = @ + 1]
        /\ held' = [held EXCEPT ![<<cur_block'[t], 1>>] = @ + 1]
        /\ UNCHANGED <<cur_free, free_chunks, ptr, lost>>
    BY DEF CarveNew, HandOut
  <2>2. cur_block'[t] = b /\ item_count[b] + 1 = 1
    BY <1>1, <1>3
  <2> HIDE DEF b
  <2> QED
    BY <2>1, <2>2
<1>5. \A u \in Threads : pc'[u] = "pushed" <=> pc[u] = "pushed"
  BY <1>3, PoolFacts DEF CarveNew
<1> HIDE DEF b
<1>6. item_count[b] < BlockItems
  BY <1>1, <1>2
<1> QED
  BY <1>1, <1>4, <1>5, <1>6, CarvedPlaces

LEMMA NextPlaces == PoolInv /\ [Next]_vars => AllInOnePlace'
<1> SUFFICES ASSUME PoolInv, [Next]_vars, NEW o \in Objects PROVE OnePlace(o)'
  BY DEF AllInOnePlace
<1>1. CASE UNCHANGED vars
  BY <1>1, QuietPlaces DEF vars, poolVars
<1>2. ASSUME NEW t \in Threads, AddBlock(t) PROVE OnePlace(o)'
  BY <1>2, QuietPlaces DEF AddBlock, poolVars
<1>3. ASSUME NEW t \in Threads, CarveFails(t) \/ NewLocal(t) \/ GetLook(t)
      PROVE  OnePlace(o)'
  <2>1. UNCHANGED <<item_count, cur_free, free_chunks, ptr, held, lost>>
    BY <1>3 DEF CarveFails, NewLocal, GetLook
  <2>2. \A u \in Threads : pc'[u] = "pushed" <=> pc[u] = "pushed"
    BY <1>3, PoolFacts DEF CarveFails, NewLocal, GetLook, NeedsBlock
  <2> QED
    BY <2>1, <2>2, QuietPlaces
<1>4. ASSUME NEW t \in Threads, CarveNew(t) \/ Carve(t) PROVE OnePlace(o)'
  BY <1>4, CarveNewPlaces, CarvePlaces
<1>5. ASSUME NEW t \in Threads, GetFree(t) \/ PopChunk(t) PROVE OnePlace(o)'
  BY <1>5, GetFreePlaces, PopChunkPlaces
<1>6. ASSUME NEW t \in Threads,
             PushChunk(t) \/ PushFails(t) \/ ReturnDone(t) \/ ThreadExit(t)
      PROVE  OnePlace(o)'
  BY <1>6, PushChunkPlaces, PushFailsPlaces, ReturnDonePlaces, ThreadExitPlaces
<1>7. ASSUME NEW t \in Threads, NEW x \in Objects, Return(t, x)
      PROVE  OnePlace(o)'
  BY <1>7, ReturnPlaces
<1> QED
  BY <1>1, <1>2, <1>3, <1>4, <1>5, <1>6, <1>7 DEF Next, LocalStep

-----------------------------------------------------------------------------
(* The types, part by part. *)
ListsType ==
    /\ cur_free \in [Threads -> Chunks]
    /\ \A t \in Threads : Len(cur_free[t]) <= ChunkItems

ChunksType ==
    /\ free_chunks \in Seq(Chunks)
    /\ \A i \in 1 .. Len(free_chunks) : Len(free_chunks[i]) \in 1 .. ChunkItems

OthersType ==
    /\ local \in [Threads -> BOOLEAN]
    /\ cur_block \in [Threads -> Blocks \cup {NoBlock}]
    /\ item_count \in [Blocks -> 0 .. BlockItems]
    /\ pc \in [Threads -> {"idle", "block", "pop", "push", "pushed"}]
    /\ ptr \in [Threads -> Objects \cup {NoObject}]
    /\ held \in [Objects -> Nat]
    /\ lost \subseteq Objects

LEMMA TypeParts == TypeOK <=> GroupsTypeOK /\ ListsType /\ ChunksType /\ OthersType
BY DEF TypeOK, ListsType, ChunksType, OthersType

LEMMA ListTyped ==
    ASSUME ListsType, NEW t \in Threads, NEW s \in Chunks, Len(s) <= ChunkItems,
           cur_free' = [cur_free EXCEPT ![t] = s]
    PROVE  ListsType'
BY DEF ListsType

LEMMA ChunkTyped ==
    ASSUME ChunksType, NEW s \in Chunks, Len(s) \in 1 .. ChunkItems,
           free_chunks' = Append(free_chunks, s)
    PROVE  ChunksType'
<1>1. /\ free_chunks \in Seq(Chunks) /\ Len(free_chunks) \in Nat
      /\ Append(free_chunks, s) \in Seq(Chunks)
      /\ Len(Append(free_chunks, s)) = Len(free_chunks) + 1
      /\ \A i \in 1 .. Len(free_chunks) : Append(free_chunks, s)[i] = free_chunks[i]
      /\ Append(free_chunks, s)[Len(free_chunks) + 1] = s
  BY LenProperties, AppendProperties DEF ChunksType
<1> QED
  BY <1>1 DEF ChunksType

LEMMA NextLists == PoolInv /\ [Next]_vars => ListsType'
<1> SUFFICES ASSUME PoolInv, [Next]_vars PROVE ListsType'
  OBVIOUS
<1>0. ListsType /\ ChunksType /\ ChunkItems \in Nat /\ ChunkItems >= 1
  BY TypeParts, ItemsAssumption DEF PoolInv
<1>1. ASSUME UNCHANGED cur_free PROVE ListsType'
  BY <1>0, <1>1 DEF ListsType
<1>2. ASSUME NEW c \in Chunks, c # << >>, Len(c) <= ChunkItems
      PROVE  Front(c) \in Chunks /\ Len(Front(c)) <= ChunkItems
  BY <1>0, <1>2, FrontFacts DEF Chunks
<1>3. ASSUME NEW t \in Threads, GetFree(t) PROVE ListsType'
  <2>1. /\ cur_free[t] \in Chunks /\ cur_free[t] # << >>
        /\ Len(cur_free[t]) <= ChunkItems
        /\ cur_free' = [cur_free EXCEPT ![t] = Front(cur_free[t])]
    BY <1>3, PoolFacts DEF GetFree
  <2> QED
    BY <1>0, <1>2, <2>1, ListTyped
<1>4. ASSUME NEW t \in Threads, PopChunk(t) PROVE ListsType'
  <2>1. CASE free_chunks # << >>
    <3> DEFINE c == Last(free_chunks)
    <3>1. c \in Chunks /\ c = free_chunks[Len(free_chunks)]
          /\ Len(free_chunks) \in Nat \ {0}
      BY <1>0, <2>1, FrontFacts DEF ChunksType
    <3>2. Len(c) \in 1 .. ChunkItems
      BY <1>0, <3>1 DEF ChunksType
    <3>3. c # << >> /\ Len(c) <= ChunkItems
      BY <1>0, <3>1, <3>2, EmptySeq
    <3>4. cur_free' = [cur_free EXCEPT ![t] = Front(c)]
      BY <1>4, <2>1 DEF PopChunk
    <3> HIDE DEF c
    <3> QED
      BY <1>0, <1>2, <3>1, <3>3, <3>4, ListTyped
  <2>2. CASE free_chunks = << >>
    BY <1>1, <1>4, <2>2 DEF PopChunk
  <2> QED
    BY <2>1, <2>2
<1>5. ASSUME NEW t \in Threads, NEW x \in Objects, Return(t, x) PROVE ListsType'
  <2>1. cur_free[t] \in Chunks /\ Len(cur_free[t]) \in Nat
    BY PoolFacts
  <2>2. CASE Len(cur_free[t]) < ChunkItems
    <3>1. cur_free' = [cur_free EXCEPT ![t] = Append(cur_free[t], x)]
      BY <1>0, <1>5, <2>1, <2>2 DEF Return
    <3>2. /\ Append(cur_free[t], x) \in Chunks
          /\ Len(Append(cur_free[t], x)) = Len(cur_free[t]) + 1
      BY <2>1, AppendProperties DEF Chunks
    <3>3. Len(Append(cur_free[t], x)) <= ChunkItems
      BY <1>0, <2>1, <2>2, <3>2
    <3> DEFINE s == Append(cur_free[t], x)
    <3> HIDE DEF s
    <3>4. s \in Chunks /\ Len(s) <= ChunkItems
          /\ cur_free' = [cur_free EXCEPT ![t] = s]
      BY <3>1, <3>2, <3>3 DEF s
    <3> QED
      BY <1>0, <3>4, ListTyped
  <2>3. CASE ~(Len(cur_free[t]) < ChunkItems)
    BY <1>1, <1>5, <2>3 DEF Return
  <2> QED
    BY <2>2, <2>3
<1>6. ASSUME NEW t \in Threads, ReturnDone(t) PROVE ListsType'
  <2>1. ptr[t] \in Objects /\ cur_free' = [cur_free EXCEPT ![t] = << ptr[t] >>]
    BY <1>6, PoolFacts DEF ReturnDone, CallOfThread
  <2>2. << ptr[t] >> \in Chunks /\ Len(<< ptr[t] >>) <= ChunkItems
    BY <1>0, <2>1 DEF Chunks
  <2> QED
    BY <1>0, <2>1, <2>2, ListTyped
<1>7. ASSUME NEW t \in Threads, ThreadExit(t) PROVE ListsType'
  <2>1. << >> \in Chunks /\ Len(<< >>) <= ChunkItems
    BY <1>0 DEF Chunks
  <2> QED
    BY <1>0, <1>7, <2>1, ListTyped DEF ThreadExit
<1>8. ASSUME NEW t \in Threads,
             \/ AddBlock(t) \/ CarveNew(t) \/ CarveFails(t) \/ NewLocal(t)
             \/ GetLook(t) \/ Carve(t) \/ PushChunk(t) \/ PushFails(t)
      PROVE  ListsType'
  BY <1>1, <1>8 DEF AddBlock, CarveNew, CarveFails, NewLocal, GetLook, Carve,
                    PushChunk, PushFails, poolVars
<1>9. CASE UNCHANGED vars
  BY <1>1, <1>9 DEF vars, poolVars
<1> QED
  BY <1>3, <1>4, <1>5, <1>6, <1>7, <1>8, <1>9 DEF Next, LocalStep

LEMMA NextChunks == PoolInv /\ [Next]_vars => ChunksType'
<1> SUFFICES ASSUME PoolInv, [Next]_vars PROVE ChunksType'
  OBVIOUS
<1>0. ListsType /\ ChunksType /\ ChunkItems \in Nat /\ ChunkItems >= 1
  BY TypeParts, ItemsAssumption DEF PoolInv
<1>1. ASSUME UNCHANGED free_chunks PROVE ChunksType'
  BY <1>0, <1>1 DEF ChunksType
<1>2. ASSUME NEW t \in Threads, PopChunk(t) PROVE ChunksType'
  <2>1. CASE free_chunks # << >>
    <3>1. free_chunks' = Front(free_chunks)
      BY <1>2, <2>1 DEF PopChunk
    <3>2. /\ Len(free_chunks) \in Nat \ {0} /\ free_chunks' \in Seq(Chunks)
          /\ Len(free_chunks') = Len(free_chunks) - 1
          /\ \A i \in 1 .. Len(free_chunks) - 1 : free_chunks'[i] = free_chunks[i]
      BY <1>0, <2>1, <3>1, FrontFacts DEF ChunksType
    <3> QED
      BY <1>0, <3>2 DEF ChunksType
  <2>2. CASE free_chunks = << >>
    BY <1>1, <1>2, <2>2 DEF PopChunk
  <2> QED
    BY <2>1, <2>2
<1>3. ASSUME NEW t \in Threads, PushChunk(t) PROVE ChunksType'
  <2>1. /\ cur_free[t] \in Chunks /\ Len(cur_free[t]) = ChunkItems
        /\ free_chunks' = Append(free_chunks, cur_free[t])
    BY <1>3, PoolFacts DEF PushChunk, CallOfThread
  <2>2. Len(cur_free[t]) \in 1 .. ChunkItems
    BY <1>0, <2>1
  <2> QED
    BY <1>0, <2>1, <2>2, ChunkTyped
<1>4. ASSUME NEW t \in Threads, ThreadExit(t) PROVE ChunksType'
  <2>1. CASE cur_free[t] # << >> /\ free_chunks' = Append(free_chunks, cur_free[t])
    <3>1. cur_free[t] \in Chunks /\ Len(cur_free[t]) \in Nat
          /\ Len(cur_free[t]) <= ChunkItems /\ Len(cur_free[t]) # 0
      BY <2>1, PoolFacts, EmptySeq DEF Chunks
    <3>2. Len(cur_free[t]) \in 1 .. ChunkItems
      BY <1>0, <3>1
    <3> QED
      BY <1>0, <2>1, <3>1, <3>2, ChunkTyped
  <2>2. CASE UNCHANGED free_chunks
    BY <1>1, <2>2
  <2> QED
    BY <1>4, <2>1, <2>2 DEF ThreadExit
<1>5. ASSUME NEW t \in Threads,
             \/ AddBlock(t) \/ CarveNew(t) \/ CarveFails(t) \/ NewLocal(t)
             \/ GetFree(t) \/ GetLook(t) \/ Carve(t) \/ PushFails(t)
             \/ ReturnDone(t) \/ \E x \in Objects : Return(t, x)
      PROVE  ChunksType'
  BY <1>1, <1>5 DEF AddBlock, CarveNew, CarveFails, NewLocal, GetFree, GetLook,
                    Carve, PushFails, ReturnDone, Return, poolVars
<1>6. CASE UNCHANGED vars
  BY <1>1, <1>6 DEF vars, poolVars
<1> QED
  BY <1>2, <1>3, <1>4, <1>5, <1>6 DEF Next, LocalStep

LEMMA NextOthers == PoolInv /\ [Next]_vars => OthersType'
<1> SUFFICES ASSUME PoolInv, [Next]_vars PROVE OthersType'
  OBVIOUS
<1>0. OthersType /\ BlockItems \in Nat /\ BlockItems >= 1
  BY TypeParts, ItemsAssumption DEF PoolInv
<1>1. ASSUME UNCHANGED poolVars PROVE OthersType'
  BY <1>0, <1>1 DEF OthersType, poolVars
<1>2. ASSUME NEW t \in Threads, NewLocal(t) \/ CarveFails(t) \/ GetLook(t)
      PROVE  OthersType'
  BY <1>0, <1>2 DEF OthersType, NewLocal, CarveFails, GetLook
<1>3. ASSUME NEW x, HandOut(x) PROVE held' \in [Objects -> Nat]
  <2>1. held \in [Objects -> Nat] /\ held' = [held EXCEPT ![x] = held[x] + 1]
    BY <1>0, <1>3 DEF OthersType, HandOut
  <2>2. x \in Objects => held' \in [Objects -> Nat]
    BY <2>1
  <2>3. x \notin Objects => held' = held
    BY <2>1
  <2> QED
    BY <2>1, <2>2, <2>3
<1>4. ASSUME NEW t \in Threads, GetFree(t) PROVE OthersType'
  <2>1. held' \in [Objects -> Nat]
    BY <1>3, <1>4 DEF GetFree
  <2> QED
    BY <1>0, <1>4, <2>1 DEF OthersType, GetFree
<1>5. ASSUME NEW t \in Threads, PopChunk(t) PROVE OthersType'
  <2>1. held' \in [Objects -> Nat]
    BY <1>0, <1>3, <1>5 DEF PopChunk, OthersType
  <2> QED
    BY <1>0, <1>5, <2>1 DEF OthersType, PopChunk
<1>6. ASSUME NEW t \in Threads, Carve(t) PROVE OthersType'
  <2>1. held' \in [Objects -> Nat]
    BY <1>3, <1>6 DEF Carve
  <2>2. cur_block[t] \in Blocks /\ item_count[cur_block[t]] < BlockItems
    BY <1>0, <1>6 DEF Carve, HasItem, OthersType
  <2>3. item_count' \in [Blocks -> 0 .. BlockItems]
    BY <1>0, <1>6, <2>2 DEF OthersType, Carve
  <2> QED
    BY <1>0, <1>6, <2>1, <2>3 DEF OthersType, Carve
<1>7. ASSUME NEW t \in Threads, CarveNew(t) PROVE OthersType'
  <2>1. held' \in [Objects -> Nat]
    BY <1>3, <1>7 DEF CarveNew
  <2>2. <<seen[t], block_index[t]>> \in Blocks
        /\ item_count[<<seen[t], block_index[t]>>] = 0
    BY <1>7, NewBlock DEF CarveNew
  <2>3. cur_block' \in [Threads -> Blocks \cup {NoBlock}]
        /\ cur_block'[t] = <<seen[t], block_index[t]>>
    BY <1>0, <1>7, <2>2 DEF OthersType, CarveNew
  <2>4. item_count' \in [Blocks -> 0 .. BlockItems]
    BY <1>0, <1>7, <2>2, <2>3 DEF OthersType, CarveNew
  <2> QED
    BY <1>0, <1>7, <2>1, <2>3, <2>4 DEF OthersType, CarveNew
<1>8. ASSUME NEW t \in Threads, NEW x \in Objects, Return(t, x) PROVE OthersType'
  <2>1. held' \in [Objects -> Nat]
    BY <1>0, <1>8 DEF Return, OthersType
  <2> QED
    BY <1>0, <1>8, <2>1 DEF OthersType, Return
<1>9. ASSUME NEW t \in Threads, PushChunk(t) \/ ReturnDone(t) PROVE OthersType'
  BY <1>0, <1>9 DEF OthersType, PushChunk, ReturnDone
<1>10. ASSUME NEW t \in Threads, PushFails(t) PROVE OthersType'
  <2>1. ptr[t] \in Objects
    BY <1>10, PoolFacts DEF PushFails, CallOfThread
  <2> QED
    BY <1>0, <1>10, <2>1 DEF OthersType, PushFails
<1>11. ASSUME NEW t \in Threads, ThreadExit(t) PROVE OthersType'
  <2>1. ToSet(cur_free[t]) \subseteq Objects
    BY PoolFacts, ElementOfSeq, LenProperties DEF ToSet, Chunks
  <2> QED
    BY <1>0, <1>11, <2>1 DEF OthersType, ThreadExit
<1>12. CASE UNCHANGED vars
  BY <1>1, <1>12 DEF vars
<1>13. ASSUME NEW t \in Threads, AddBlock(t) PROVE OthersType'
  BY <1>1, <1>13 DEF AddBlock
<1> QED
  BY <1>2, <1>4, <1>5, <1>6, <1>7, <1>8, <1>9, <1>10, <1>11, <1>12, <1>13
  DEF Next, LocalStep

LEMMA NextCalls == PoolInv /\ [Next]_vars => CallsOfThreads'
<1> SUFFICES ASSUME PoolInv, [Next]_vars, NEW u \in Threads PROVE CallOfThread(u)'
  BY DEF CallsOfThreads
<1>0. CallOfThread(u)
  BY PoolFacts
<1>1. ASSUME ptr'[u] = ptr[u], pc'[u] = pc[u], cur_free'[u] = cur_free[u]
      PROVE  CallOfThread(u)'
  BY <1>0, <1>1 DEF CallOfThread
<1>2. CASE UNCHANGED poolVars
  BY <1>1, <1>2 DEF poolVars
<1>3. ASSUME NEW t \in Threads, t # u,
             CarveNew(t) \/ CarveFails(t) \/ LocalStep(t)
      PROVE  CallOfThread(u)'
  <2>1. ptr'[u] = ptr[u] /\ pc'[u] = pc[u] /\ cur_free'[u] = cur_free[u]
    <3>1. CASE CarveNew(t) \/ CarveFails(t) \/ Carve(t) \/ NewLocal(t)
      BY <1>3, <3>1, PoolFacts DEF CarveNew, CarveFails, Carve, NewLocal
    <3>2. CASE GetFree(t) \/ GetLook(t) \/ PopChunk(t)
      BY <1>3, <3>2, PoolFacts DEF GetFree, GetLook, PopChunk
    <3>3. CASE PushChunk(t) \/ PushFails(t) \/ ReturnDone(t) \/ ThreadExit(t)
      BY <1>3, <3>3, PoolFacts DEF PushChunk, PushFails, ReturnDone, ThreadExit
    <3>4. ASSUME NEW x \in Objects, Return(t, x)
          PROVE  ptr'[u] = ptr[u] /\ pc'[u] = pc[u] /\ cur_free'[u] = cur_free[u]
      BY <1>3, <3>4, PoolFacts DEF Return
    <3> QED
      BY <1>3, <3>1, <3>2, <3>3, <3>4 DEF LocalStep
  <2> QED
    BY <1>1, <2>1
<1>4. CASE NewLocal(u) \/ GetFree(u) \/ GetLook(u) \/ ThreadExit(u)
  <2>1. /\ ptr'[u] = NoObject
        /\ pc'[u] = "idle" \/ (pc'[u] \in {"block", "pop"} /\ cur_free'[u] = << >>)
    BY <1>0, <1>4, PoolFacts
    DEF NewLocal, GetFree, GetLook, ThreadExit, CallOfThread
  <2> QED
    BY <2>1 DEF CallOfThread
<1>5. CASE CarveNew(u) \/ CarveFails(u) \/ Carve(u)
  <2>1. ptr'[u] = NoObject /\ pc'[u] = "idle"
    BY <1>0, <1>5, PoolFacts
    DEF CarveNew, CarveFails, Carve, NeedsBlock, CallOfThread
  <2> QED
    BY <2>1 DEF CallOfThread
<1>6. CASE PopChunk(u)
  <2>1. /\ ptr'[u] = NoObject
        /\ pc'[u] = "idle" \/ (pc'[u] = "block" /\ cur_free'[u] = << >>)
    BY <1>0, <1>6, PoolFacts DEF PopChunk, CallOfThread
  <2> QED
    BY <2>1 DEF CallOfThread
<1>7. ASSUME NEW x \in Objects, Return(u, x) PROVE CallOfThread(u)'
  <2>1. CASE Len(cur_free[u]) < ChunkItems
    <3>1. ptr'[u] = NoObject /\ pc'[u] = "idle"
      BY <1>0, <1>7, <2>1, PoolFacts DEF Return, CallOfThread
    <3> QED
      BY <3>1 DEF CallOfThread
  <2>2. CASE Len(cur_free[u]) >= ChunkItems
    <3>1. /\ ptr'[u] = x /\ pc'[u] = "push" /\ cur_free'[u] = cur_free[u]
          /\ Len(cur_free[u]) = ChunkItems /\ x # NoObject
      BY <1>7, <2>2, PoolFacts DEF Return
    <3> QED
      BY <3>1 DEF CallOfThread
  <2> QED
    BY <2>1, <2>2, PoolFacts
<1>8. CASE PushChunk(u)
  <2>1. ptr'[u] # NoObject /\ pc'[u] = "pushed"
    BY <1>0, <1>8, PoolFacts DEF PushChunk, CallOfThread
  <2> QED
    BY <2>1 DEF CallOfThread
<1>9. CASE PushFails(u) \/ ReturnDone(u)
  <2>1. ptr'[u] = NoObject /\ pc'[u] = "idle"
    BY <1>9, PoolFacts DEF PushFails, ReturnDone
  <2> QED
    BY <2>1 DEF CallOfThread
<1>10. LocalStep(u) => CallOfThread(u)'
  BY <1>4, <1>5, <1>6, <1>7, <1>8, <1>9 DEF LocalStep
<1> QED
  BY <1>2, <1>3, <1>5, <1>10 DEF Next, AddBlock, vars

LEMMA NextStored == PoolInv /\ [Next]_vars => BlocksStored'
<1> SUFFICES ASSUME PoolInv, [Next]_vars PROVE BlocksStored'
  OBVIOUS
<1>0. /\ \A b \in Blocks : item_count[b] > 0 => b \in Stored
      /\ \A t \in Threads : cur_block[t] # NoBlock => cur_block[t] \in Stored
      /\ cur_block \in [Threads -> Blocks \cup {NoBlock}]
      /\ item_count \in [Blocks -> 0 .. BlockItems]
  BY DEF PoolInv, BlocksStored, TypeOK
<1>1. Stored \subseteq Stored'
  <2>1. ASSUME NEW t \in Threads, Store(t) PROVE Stored \subseteq Stored'
    <3>1. \A g \in Groups, i \in Indices : blocks[g][i] > 0 => blocks'[g][i] > 0
      <4> SUFFICES ASSUME NEW g \in Groups, NEW i \in Indices, blocks[g][i] > 0
                   PROVE  blocks'[g][i] > 0
        OBVIOUS
      <4>1. blocks'[g][i] = 1 \/ blocks'[g][i] = blocks[g][i]
        BY <2>1, NewBlock
      <4> QED
        BY <4>1
    <3>2. \A p \in Groups \X Indices : p[1] \in Groups /\ p[2] \in Indices
      OBVIOUS
    <3> QED
      BY <3>1, <3>2 DEF Stored
  <2>2. UNCHANGED blocks => Stored \subseteq Stored'
    BY DEF Stored
  <2>3. ASSUME NEW t \in Threads, AddBlockStep(t) \/ GrowFails(t)
        PROVE  UNCHANGED blocks
    BY <2>3 DEF AddBlockStep, GrowFails, ReadGroups, TakeIndex, Undo, GrowLock,
                GrowOvertaken, Grow
  <2>4. UNCHANGED groupVars => UNCHANGED blocks
    BY DEF groupVars
  <2> QED
    BY <2>1, <2>2, <2>3, <2>4, PoolStep DEF GroupsNext
<1>2. ASSUME UNCHANGED <<cur_block, item_count>> PROVE BlocksStored'
  BY <1>0, <1>1, <1>2 DEF BlocksStored
<1>3. ASSUME NEW t \in Threads, Carve(t) PROVE BlocksStored'
  <2>1. cur_block[t] \in Blocks /\ cur_block[t] \in Stored'
    BY <1>0, <1>1, <1>3 DEF Carve, HasItem
  <2>2. cur_block' = cur_block
        /\ \A b \in Blocks : b # cur_block[t] => item_count'[b] = item_count[b]
    BY <1>0, <1>3 DEF Carve
  <2> QED
    BY <1>0, <1>1, <2>1, <2>2 DEF BlocksStored
<1>4. ASSUME NEW t \in Threads, CarveNew(t) PROVE BlocksStored'
  <2> DEFINE n == <<seen[t], block_index[t]>>
  <2>1. n \in Blocks /\ n \in Stored'
    <3>1. /\ n \in Blocks /\ seen[t] \in Groups /\ block_index[t] \in Indices
          /\ blocks'[seen[t]][block_index[t]] = 1
      BY <1>4, NewBlock DEF CarveNew, Blocks
    <3> QED
      BY <3>1 DEF Blocks, Stored
  <2>2. cur_block' = [cur_block EXCEPT ![t] = n] /\ cur_block'[t] = n
    BY <1>0, <1>4 DEF CarveNew
  <2>3. \A b \in Blocks : b # n => item_count'[b] = item_count[b]
    BY <1>0, <1>4, <2>2 DEF CarveNew
  <2> HIDE DEF n
  <2>4. \A b \in Blocks : item_count'[b] > 0 => b \in Stored'
    BY <1>0, <1>1, <2>1, <2>3
  <2>5. \A u \in Threads : cur_block'[u] # NoBlock => cur_block'[u] \in Stored'
    BY <1>0, <1>1, <2>1, <2>2
  <2> QED
    BY <2>4, <2>5 DEF BlocksStored
<1>5. ASSUME NEW t \in Threads, CarveFails(t) \/ ThreadExit(t) PROVE BlocksStored'
  <2>1. item_count' = item_count /\ cur_block' = [cur_block EXCEPT ![t] = NoBlock]
    BY <1>5 DEF CarveFails, ThreadExit
  <2> QED
    BY <1>0, <1>1, <2>1 DEF BlocksStored
<1>6. ASSUME NEW t \in Threads,
             \/ AddBlock(t) \/ NewLocal(t) \/ GetFree(t) \/ GetLook(t) \/ PopChunk(t)
             \/ PushChunk(t) \/ PushFails(t) \/ ReturnDone(t)
             \/ \E x \in Objects : Return(t, x)
      PROVE  UNCHANGED <<cur_block, item_count>>
  BY <1>6 DEF AddBlock, NewLocal, GetFree, GetLook, PopChunk, PushChunk, PushFails,
              ReturnDone, Return, poolVars
<1>7. CASE UNCHANGED vars
  BY <1>2, <1>7 DEF vars, poolVars
<1> QED
  BY <1>2, <1>3, <1>4, <1>5, <1>6, <1>7 DEF Next, LocalStep

-----------------------------------------------------------------------------
LEMMA InitPool == Init => PoolInv
<1> SUFFICES ASSUME Init PROVE PoolInv
  OBVIOUS
<1>0. GroupsInit /\ BlockItems \in Nat /\ ChunkItems \in Nat
  BY ItemsAssumption DEF Init
<1>1. IInv /\ GroupsTypeOK
  BY <1>0, InitIInv DEF IInv
<1>2. ListsType
  <2>1. << >> \in Chunks /\ Len(<< >>) = 0
    BY DEF Chunks
  <2> QED
    BY <1>0, <2>1 DEF Init, ListsType
<1>3. ChunksType
  BY DEF Init, ChunksType
<1>4. OthersType
  BY <1>0 DEF Init, OthersType
<1>5. TypeOK
  BY <1>1, <1>2, <1>3, <1>4, TypeParts
<1>6. CallsOfThreads
  BY DEF Init, CallsOfThreads, CallOfThread
<1>7. BlocksStored
  BY DEF Init, BlocksStored
<1>8. ASSUME NEW o \in Objects PROVE OnePlace(o)
  <2>1. /\ FreeAt(o) = {} /\ ChunkAt(o) = {} /\ held[o] = 0 /\ o \notin lost
    BY <1>8 DEF Init, FreeAt, ChunkAt
  <2>2. Returning(o) = {}
    BY <1>8, ObjectAssumption DEF Init, Returning
  <2>3. ~Carved(o)
    BY <1>0, <1>8 DEF Init, Carved, Objects
  <2> QED
    BY <2>1, <2>2, <2>3 DEF OnePlace, InOnePlace
<1> QED
  BY <1>1, <1>5, <1>6, <1>7, <1>8 DEF PoolInv, AllInOnePlace

LEMMA NextPool == PoolInv /\ [Next]_vars => PoolInv'
<1> SUFFICES ASSUME PoolInv, [Next]_vars PROVE PoolInv'
  OBVIOUS
<1>1. IInv'
  BY PoolStep, NextIInv DEF PoolInv
<1>2. GroupsTypeOK'
  BY <1>1 DEF IInv
<1>3. TypeOK'
  BY <1>2, NextLists, NextChunks, NextOthers
  DEF TypeOK, ListsType, ChunksType, OthersType
<1> QED
  BY <1>1, <1>3, NextCalls, NextStored, NextPlaces DEF PoolInv

LEMMA PoolInductive == Spec => []PoolInv
BY InitPool, NextPool, PTL DEF Spec

(* No list of a thread outgrows free_chunk_item_count, no empty chunk is   *)
(* pushed, and a block hands out no more objects than it has.              *)
THEOREM PoolTypes == Spec => []TypeOK
<1>1. PoolInv => TypeOK
  BY DEF PoolInv
<1> QED
  BY <1>1, PoolInductive, PTL

(* get, return_object, the chunks that go from thread to thread and the    *)
(* exits of threads neither lose an object nor have it in two places: what *)
(* was carved is with its owner, free in one place, on its way, or was     *)
(* given up where malloc failed.                                           *)
THEOREM EveryObjectAccounted == Spec => []Accounted
<1>1. PoolInv => Accounted
  <2> SUFFICES ASSUME PoolInv, NEW o \in Objects
               PROVE  held[o] + FreePlaces(o) + Cardinality({t \in Threads : ptr[t] = o})
                          + (IF o \in lost THEN 1 ELSE 0)
                      = IF o[2] <= item_count[o[1]] THEN 1 ELSE 0
    BY DEF Accounted
  <2>1. TypeOK /\ OnePlace(o)
    BY DEF PoolInv, AllInOnePlace
  <2> QED
    BY <2>1, PlacesAddUp
<1> QED
  BY <1>1, PoolInductive, PTL

(* As long as no hook runs in the middle of return_object, no object that  *)
(* get hands out has an owner already.  With the hook (FullSpec) it may.   *)
THEOREM HandedOutOnceUnhooked == Spec => []HandedOutOnce
<1>1. PoolInv => HandedOutOnce
  <2> SUFFICES ASSUME PoolInv, NEW o \in Objects PROVE held[o] <= 1
    BY DEF HandedOutOnce
  <2> QED
    BY DEF PoolInv, AllInOnePlace, OnePlace, InOnePlace
<1> QED
  BY <1>1, PoolInductive, PTL
=============================================================================
