------------------------- MODULE BlockCacheProofs -------------------------
(***************************************************************************)
(* The block cache keeps its promise for every number of slots, blocks,    *)
(* buckets, cache entries and run blocks: no read returns bytes older than *)
(* the last write that had returned when it began, and a copy or a run at  *)
(* the present epoch is what the device holds.                             *)
(*                                                                         *)
(* The argument: counting a write in a bucket makes every copy of the      *)
(* bucket stale, counting any write makes every run stale, and nothing     *)
(* else can end the time in which a write of a block is still uncounted.   *)
(* So a copy that is not stale is as new as every write that has returned, *)
(* and differs from the device only while a write is uncounted.            *)
(***************************************************************************)
EXTENDS BlockCache, TLAPS

Copies == [block : Block, epoch : Nat, data : Nat]
Runs == [first : Block, count : Nat, epoch : Nat, data : [Block -> Nat]]

\* The types the argument needs: counts and versions are natural numbers, a
\* run stays within the device, and only a provisioning slot owes counts.
Types ==
  /\ device \in [Block -> Nat]
  /\ writes \in [Bucket -> Nat]
  /\ total \in Nat
  /\ cache \in [Slot -> SUBSET Copies]
  /\ run \in [Slot -> Runs]
  /\ pc \in [Slot -> PCs]
  /\ block \in [Slot -> Block]
  /\ since \in [Slot -> Nat]
  /\ epoch \in [Slot -> Nat]
  /\ data \in [Slot -> Nat]
  /\ owed \in [Slot -> SUBSET Bucket]
  /\ done \in [Block -> Nat]
  /\ floor \in [Slot -> Nat]
  /\ \A s \in Slot :
       /\ run[s].first + run[s].count <= BlockCount
       /\ pc[s] # "forget" => owed[s] = {}

\* The slots between block_read's entry and its return.
Reading == {"find", "epoch", "take", "ahead", "runread", "retake", "read", "fill", "got"}
\* Those that have summed their bucket's epoch and still need it.
Summed == {"take", "ahead", "runread", "retake", "read", "fill", "write", "note"}

\* The slot's run holds block b.
InRun(s, b) == run[s].count # 0 /\ run[s].first <= b /\ b - run[s].first < run[s].count

\* The slot has changed b on the device and has still to count it.
UncountedBy(s, b) == block[s] = b /\ (pc[s] = "note" \/ BucketOf(b) \in owed[s])

\* v is no older than any write of b that has returned, or that has been
\* counted in b's bucket and has other buckets still to count.
AtLeast(v, b) ==
  /\ v >= done[b]
  /\ \A t \in Slot :
       pc[t] = "forget" /\ block[t] = b /\ BucketOf(b) \notin owed[t] => v >= data[t]

\* v is what the device holds, or a write of b is still to be counted.
Good(v, b) ==
  /\ AtLeast(v, b)
  /\ v = device[b] \/ \E t \in Slot : UncountedBy(t, b)

\* Nothing is newer than the device, no epoch is ahead of its count.
Bounds ==
  /\ \A b \in Block : done[b] <= device[b]
  /\ \A s \in Slot :
       /\ pc[s] \in {"note", "forget"} => data[s] <= device[block[s]]
       /\ pc[s] \in Summed => epoch[s] <= writes[BucketOf(block[s])]
       /\ pc[s] \in Reading => floor[s] <= done[block[s]]
       /\ run[s].epoch <= total
       /\ \A c \in cache[s] : c.epoch <= writes[BucketOf(c.block)]

\* A copy or a run that is not stale is good.
Fresh ==
  \A s \in Slot :
    /\ \A c \in cache[s] : c.epoch = writes[BucketOf(c.block)] => Good(c.data, c.block)
    /\ run[s].epoch = total => \A b \in Block : InRun(s, b) => Good(run[s].data[b], b)

\* What a read may take from its cache and its run.
Finding ==
  \A s \in Slot :
    /\ pc[s] = "find" =>
         \A c \in cache[s] : c.block = block[s] /\ c.epoch >= since[s] => c.data >= floor[s]
    /\ pc[s] \in {"take", "retake"} /\ InRun(s, block[s]) /\ run[s].epoch >= since[s] =>
         /\ run[s].data[block[s]] >= floor[s]
         /\ epoch[s] = writes[BucketOf(block[s])] => Good(run[s].data[block[s]], block[s])

\* What a read or a write may put into its cache.
Filling ==
  \A s \in Slot :
    /\ pc[s] \in {"fill", "got"} => data[s] >= floor[s]
    /\ pc[s] = "fill" /\ epoch[s] = writes[BucketOf(block[s])] => Good(data[s], block[s])
    /\ pc[s] = "note" /\ data[s] # 0 /\ epoch[s] = writes[BucketOf(block[s])] =>
         /\ AtLeast(data[s], block[s])
         /\ \/ data[s] = device[block[s]]
            \/ \E t \in Slot \ {s} : UncountedBy(t, block[s])

IInv == Types /\ Bounds /\ Fresh /\ Finding /\ Filling

\* Next, of one slot.
Step(s) ==
  \/ \E b \in Block : BlockRead(s, b) \/ BlockWrite(s, b) \/ Provision(s, b)
  \/ CacheFind(s) \/ EpochOf(s)
  \/ RunTake(s, "take") \/ RunBegin(s) \/ RunRead(s) \/ RunTake(s, "retake")
  \/ ReadDevice(s) \/ CacheFill(s) \/ ReadReturn(s)
  \/ EpochBefore(s) \/ WriteDevice(s) \/ NoteWrite(s)
  \/ ForgetOne(s)

\* What only slot t itself may change.
Same(t) ==
  /\ pc'[t] = pc[t] /\ block'[t] = block[t] /\ since'[t] = since[t]
  /\ epoch'[t] = epoch[t] /\ data'[t] = data[t] /\ owed'[t] = owed[t]
  /\ floor'[t] = floor[t] /\ cache'[t] = cache[t] /\ run'[t] = run[t]
-----------------------------------------------------------------------------
\* block_cache_bucket: every block has a bucket.
LEMMA Buckets == \A b \in Block : BucketOf(b) \in Bucket
BY SMTT(60), BlockCacheAssumption DEF BucketOf, Bucket, Block

\* A step of one BlockSlot leaves every other slot's cache, run and locals
\* alone: a block operation holds its slot.
LEMMA Passive ==
  ASSUME Types, NEW s \in Slot, Step(s), NEW t \in Slot \ {s}
  PROVE  Same(t)
<1> USE DEF Types, Same, Goto, SumBegins, SumEnds, Return, shared
<1>1. ASSUME NEW b \in Block, BlockRead(s, b) PROVE Same(t)
  BY SMTT(60), <1>1 DEF BlockRead
<1>2. ASSUME NEW b \in Block, BlockWrite(s, b) PROVE Same(t)
  BY SMTT(60), <1>2 DEF BlockWrite
<1>3. ASSUME NEW b \in Block, Provision(s, b) PROVE Same(t)
  BY SMTT(60), <1>3 DEF Provision
<1>4. CASE CacheFind(s)
  BY SMTT(60), <1>4 DEF CacheFind
<1>5. CASE EpochOf(s)
  BY SMTT(60), <1>5 DEF EpochOf
<1>6. ASSUME NEW from \in {"take", "retake"}, RunTake(s, from) PROVE Same(t)
  BY SMTT(60), <1>6 DEF RunTake
<1>7. CASE RunBegin(s)
  BY SMTT(60), <1>7 DEF RunBegin
<1>8. CASE RunRead(s)
  BY SMTT(60), <1>8 DEF RunRead
<1>9. CASE ReadDevice(s)
  BY SMTT(60), <1>9 DEF ReadDevice
<1>10. CASE CacheFill(s)
  BY SMTT(60), <1>10 DEF CacheFill, Store
<1>11. CASE ReadReturn(s)
  BY SMTT(60), <1>11 DEF ReadReturn
<1>12. CASE EpochBefore(s)
  BY SMTT(60), <1>12 DEF EpochBefore
<1>13. CASE WriteDevice(s)
  BY SMTT(60), <1>13 DEF WriteDevice
<1>14. CASE NoteWrite(s)
  BY ZenonT(60), <1>14 DEF NoteWrite, Store
<1>15. CASE ForgetOne(s)
  BY SMTT(60), <1>15 DEF ForgetOne
<1> QED
  BY SMTT(60), <1>1, <1>2, <1>3, <1>4, <1>5, <1>6, <1>7, <1>8, <1>9, <1>10, <1>11, <1>12, <1>13,
     <1>14, <1>15 DEF Step

\* Every step keeps the types: in particular a run never reaches past the
\* device and only block_forget_all owes counts.
LEMMA TypesKept ==
  ASSUME Types, NEW s \in Slot, Step(s)
  PROVE  Types'
<1> USE DEF Types, Goto, SumBegins, SumEnds, Return, shared, PCs
<1>0. \A b \in Block : BucketOf(b) \in Bucket
  BY ZenonT(60), Buckets
<1>b. BlockCount \in Nat \ {0}
  BY SMTT(60), BlockCacheAssumption
<1>z. 0 \in Block
  BY SMTT(60), <1>b DEF Block
<1>c. \A b \in Block, e \in Nat, v \in Nat : [block |-> b, epoch |-> e, data |-> v] \in Copies
  BY SMTT(60) DEF Copies
<1>1. ASSUME NEW b \in Block, BlockRead(s, b) PROVE Types'
  BY SMTT(60), <1>0, <1>1 DEF BlockRead
<1>2. ASSUME NEW b \in Block, BlockWrite(s, b) PROVE Types'
  BY SMTT(60), <1>0, <1>2 DEF BlockWrite
<1>3. ASSUME NEW b \in Block, Provision(s, b) PROVE Types'
  BY SMTT(60), <1>3 DEF Provision
<1>4. CASE CacheFind(s)
  <2>1. \A c \in cache[s] : c.data \in Nat
    BY SMTT(60) DEF Copies
  <2> QED
    BY SMTT(60), <1>0, <1>4, <2>1 DEF CacheFind
<1>5. CASE EpochOf(s)
  BY SMTT(60), <1>0, <1>5 DEF EpochOf
<1>6. ASSUME NEW from \in {"take", "retake"}, RunTake(s, from) PROVE Types'
  <2>1. run[s].data[block[s]] \in Nat
    BY SMTT(60) DEF Runs
  <2> QED
    BY ZenonT(60), <1>6, <2>1 DEF RunTake
<1>7. CASE RunBegin(s)
  <2>0. run[s] \in Runs /\ run[s].first \in Block
    BY SMTT(60) DEF Runs
  <2>1. run[s] \in Runs /\ run[s].first \in Nat /\ run[s].first <= BlockCount
    BY SMTT(60), <1>b, <2>0 DEF Block
  <2>2. run' = [run EXCEPT ![s] = [run[s] EXCEPT !.count = 0]]
    BY SMTT(60), <1>7 DEF RunBegin
  <2>3. /\ [run[s] EXCEPT !.count = 0] \in Runs
        /\ [run[s] EXCEPT !.count = 0].first = run[s].first
        /\ [run[s] EXCEPT !.count = 0].count = 0
    BY ZenonT(60), <2>1 DEF Runs
  <2>4. run' \in [Slot -> Runs]
    BY SMTT(60), <2>2, <2>3
  <2>5. \A t \in Slot : run'[t].first + run'[t].count <= BlockCount
    BY SMTT(60), <1>b, <2>1, <2>2, <2>3
  <2> QED
    BY SMTT(60), <1>7, <2>4, <2>5 DEF RunBegin
<1>8. CASE RunRead(s)
  <2> DEFINE left == BlockCount - block[s]
             count == IF left > RunBlocks THEN RunBlocks ELSE left
             read == [b \in Block |-> IF b \in block[s]..block[s] + count - 1 THEN device[b] ELSE 0]
  <2>1. count \in Nat /\ block[s] + count <= BlockCount
    BY SMTT(60), BlockCacheAssumption DEF Block
  <2>2. read \in [Block -> Nat]
    OBVIOUS
  <2>3. CASE /\ Goto(s, "runread", "retake")
             /\ \E e \in since[s]..total :
                  run' = [run EXCEPT ![s] = [first |-> block[s], count |-> count,
                                             epoch |-> e, data |-> read]]
             /\ SumBegins(s, total)
    <3> HIDE DEF count, read
    <3>1. PICK e \in since[s]..total :
            run' = [run EXCEPT ![s] = [first |-> block[s], count |-> count,
                                       epoch |-> e, data |-> read]]
      BY ZenonT(60), <2>3
    <3>2. [first |-> block[s], count |-> count, epoch |-> e, data |-> read] \in Runs
      BY SMTT(60), <2>1, <2>2 DEF Runs
    <3>3. run' \in [Slot -> Runs]
      BY SMTT(60), <3>1, <3>2
    <3>4. \A t \in Slot : run'[t].first + run'[t].count <= BlockCount
      BY SMTT(60), <2>1, <3>1
    <3> QED
      BY SMTT(60), <1>8, <2>3, <3>3, <3>4 DEF RunRead
  <2>4. CASE Goto(s, "runread", "read") /\ SumEnds(s) /\ UNCHANGED <<run, next>>
    BY SMTT(60), <1>8, <2>4 DEF RunRead
  <2> QED
    BY SMTT(60), <1>8, <2>3, <2>4 DEF RunRead
<1>9. CASE ReadDevice(s)
  <2>0. UNCHANGED <<shared, cache, run, owed>>
    BY SMTT(60), <1>9 DEF ReadDevice
  <2>1. CASE Goto(s, "read", "fill") /\ data' = [data EXCEPT ![s] = device[block[s]]]
             /\ UNCHANGED <<block, since, epoch, floor>>
    <3>1. device[block[s]] \in Nat
      OBVIOUS
    <3> QED
      BY SMTT(60), <2>0, <2>1, <3>1
  <2>2. CASE Return(s, "read")
    BY SMTT(60), <1>z, <2>0, <2>2
  <2> QED
    BY ZenonT(60), <1>9, <2>1, <2>2 DEF ReadDevice
<1>10. CASE CacheFill(s)
  <2>1. cache' \in [Slot -> SUBSET Copies]
    BY SMTT(60), <1>10, <1>c DEF CacheFill, Store
  <2> QED
    BY ZenonT(60), <1>10, <2>1 DEF CacheFill
<1>11. CASE ReadReturn(s)
  BY SMTT(60), <1>11, <1>z DEF ReadReturn
<1>12. CASE EpochBefore(s)
  BY SMTT(60), <1>0, <1>12 DEF EpochBefore
<1>13. CASE WriteDevice(s)
  <2>1. /\ Goto(s, "write", "note")
        /\ UNCHANGED <<writes, total, done, cache, run, block, since, epoch, owed, floor>>
    BY ZenonT(60), <1>13 DEF WriteDevice
  <2>2. device[block[s]] + 1 \in Nat
    OBVIOUS
  <2>3. device' \in [Block -> Nat]
    BY SMTT(60), <1>13, <2>2 DEF WriteDevice
  <2>4. data' \in [Slot -> Nat]
    BY SMTT(60), <1>13, <2>2 DEF WriteDevice
  <2>5. pc' \in [Slot -> PCs] /\ (\A t \in Slot : pc'[t] # "forget" => owed[t] = {})
    BY SMTT(60), <2>1
  <2> QED
    BY SMTT(60), <2>1, <2>3, <2>4, <2>5
<1>14. CASE NoteWrite(s)
  <2>0. ASSUME data[s] # 0 PROVE cache' \in [Slot -> SUBSET Copies]
    <3>1. [block |-> block[s], epoch |-> epoch[s] + 1, data |-> data[s]] \in Copies
      BY SMTT(60), <1>c
    <3>2. Store(s, block[s], epoch[s] + 1, data[s])
      BY SMTT(60), <1>14, <2>0 DEF NoteWrite
    <3> QED
      BY SMTT(60), <3>1, <3>2 DEF Store
  <2>1. cache' \in [Slot -> SUBSET Copies]
    BY SMTT(60), <1>14, <2>0 DEF NoteWrite
  <2>2. done' \in [Block -> Nat]
    BY SMTT(60), <1>14 DEF NoteWrite
  <2>3. writes' \in [Bucket -> Nat] /\ total' \in Nat
    BY SMTT(60), <1>14, <1>0 DEF NoteWrite, CountWrite
  <2> QED
    BY ZenonT(60), <1>14, <1>z, <2>1, <2>2, <2>3 DEF NoteWrite
<1>15. CASE ForgetOne(s)
  <2>1. writes' \in [Bucket -> Nat] /\ total' \in Nat
    BY SMTT(60), <1>15 DEF ForgetOne, CountWrite
  <2>2. done' \in [Block -> Nat]
    BY SMTT(60), <1>15 DEF ForgetOne
  <2>3. owed' \in [Slot -> SUBSET Bucket]
    BY SMTT(60), <1>15 DEF ForgetOne
  <2>4. /\ pc' \in [Slot -> PCs]
        /\ block' \in [Slot -> Block]
        /\ since' \in [Slot -> Nat]
        /\ epoch' \in [Slot -> Nat]
        /\ data' \in [Slot -> Nat]
        /\ floor' \in [Slot -> Nat]
    <3>1. CASE Return(s, "forget")
      BY SMTT(60), <3>1, <1>z
    <3>2. CASE UNCHANGED <<pc, block, since, epoch, data, floor, done>>
      BY SMTT(60), <3>2
    <3> QED
      BY SMTT(60), <1>15, <3>1, <3>2 DEF ForgetOne
  <2>5. \A t \in Slot : pc'[t] # "forget" => owed'[t] = {}
    BY SMTT(60), <1>15 DEF ForgetOne
  <2> QED
    BY SMTT(60), <1>15, <2>1, <2>2, <2>3, <2>4, <2>5 DEF ForgetOne
<1> QED
  BY ZenonT(60), <1>1, <1>2, <1>3, <1>4, <1>5, <1>6, <1>7, <1>8, <1>9, <1>10, <1>11, <1>12, <1>13,
     <1>14, <1>15 DEF Step
-----------------------------------------------------------------------------
\* The write counts only grow, any count is a count in total, versions on the
\* device and versions whose write has returned only grow.
LEMMA Moves ==
  ASSUME Types, NEW s \in Slot, Step(s)
  PROVE  /\ \A k \in Bucket : writes[k] <= writes'[k]
         /\ total <= total'
         /\ total' = total => writes' = writes
         /\ \A b \in Block : device[b] <= device'[b] /\ done[b] <= done'[b]
<1> DEFINE Goal == /\ \A k \in Bucket : writes[k] <= writes'[k]
                   /\ total <= total'
                   /\ total' = total => writes' = writes
                   /\ \A b \in Block : device[b] <= device'[b] /\ done[b] <= done'[b]
<1> USE DEF Types, shared
<1>1. ASSUME UNCHANGED <<device, writes, total, done>> PROVE Goal
  BY SMTT(60), <1>1
<1>2. ASSUME NEW b \in Block, Provision(s, b) PROVE Goal
  BY SMTT(60), <1>2 DEF Provision
<1>3. CASE WriteDevice(s)
  BY SMTT(60), <1>3 DEF WriteDevice
<1>4. CASE NoteWrite(s)
  <2>1. BucketOf(block[s]) \in Bucket
    BY SMTT(60), Buckets
  <2> QED
    BY SMTT(60), <1>4, <2>1 DEF NoteWrite, CountWrite
<1>5. CASE ForgetOne(s)
  BY SMTT(60), <1>5 DEF ForgetOne, CountWrite
<1> QED
  BY SMTT(60), <1>1, <1>2, <1>3, <1>4, <1>5
  DEF Step, BlockRead, BlockWrite, CacheFind, EpochOf, RunTake, RunBegin, RunRead, ReadDevice,
      CacheFill, ReadReturn, EpochBefore

\* A step that counts nothing in b's bucket ends no uncounted write of b, makes
\* one of every change of b on the device, and lets no newer write of b return:
\* what was as new as the returned writes still is.
LEMMA Keeps ==
  ASSUME Types, NEW s \in Slot, Step(s), NEW b \in Block,
         writes'[BucketOf(b)] = writes[BucketOf(b)]
  PROVE  /\ UncountedBy(s, b) => UncountedBy(s, b)'
         /\ device'[b] = device[b] \/ UncountedBy(s, b)'
         /\ done'[b] = done[b] \/ \E t \in Slot : /\ pc[t] = "forget" /\ block[t] = b
                                                  /\ BucketOf(b) \notin owed[t]
                                                  /\ done'[b] = data[t]
         /\ /\ pc'[s] = "forget" /\ block'[s] = b /\ BucketOf(b) \notin owed'[s]
            => /\ pc[s] = "forget" /\ block[s] = b /\ BucketOf(b) \notin owed[s]
               /\ data'[s] = data[s]
<1> DEFINE Goal ==
      /\ UncountedBy(s, b) => UncountedBy(s, b)'
      /\ device'[b] = device[b] \/ UncountedBy(s, b)'
      /\ done'[b] = done[b] \/ \E t \in Slot : /\ pc[t] = "forget" /\ block[t] = b
                                               /\ BucketOf(b) \notin owed[t]
                                               /\ done'[b] = data[t]
      /\ /\ pc'[s] = "forget" /\ block'[s] = b /\ BucketOf(b) \notin owed'[s]
         => /\ pc[s] = "forget" /\ block[s] = b /\ BucketOf(b) \notin owed[s]
            /\ data'[s] = data[s]
<1>0. BucketOf(b) \in Bucket /\ BucketOf(block[s]) \in Bucket
  BY SMTT(60), Buckets DEF Types
<1>1. ASSUME UNCHANGED <<device, done, owed>>, pc[s] \notin {"note", "forget"}, pc'[s] # "forget"
      PROVE  Goal
  BY SMTT(60), <1>1 DEF UncountedBy, Types
<1>2. ASSUME NEW a \in Block, Provision(s, a) PROVE Goal
  BY SMTT(60), <1>0, <1>2 DEF Provision, Goto, Types, UncountedBy
<1>3. CASE WriteDevice(s)
  BY SMTT(60), <1>3 DEF WriteDevice, Goto, Types, UncountedBy
<1>4. CASE NoteWrite(s)
  BY SMTT(60), <1>0, <1>4 DEF NoteWrite, CountWrite, Return, Goto, Types, UncountedBy
<1>5. CASE ForgetOne(s)
  <2>1. PICK k \in owed[s] :
          /\ writes' = [writes EXCEPT ![k] = @ + 1]
          /\ owed' = [owed EXCEPT ![s] = @ \ {k}]
          /\ IF owed[s] = {k}
             THEN /\ pc' = [pc EXCEPT ![s] = "idle"]
                  /\ done' = [done EXCEPT ![block[s]] = IF data[s] > @ THEN data[s] ELSE @]
             ELSE UNCHANGED <<pc, block, since, epoch, data, floor, done>>
    BY ZenonT(60), <1>5 DEF ForgetOne, CountWrite, Return, Goto
  <2>2. pc[s] = "forget" /\ device' = device
    BY ZenonT(60), <1>5 DEF ForgetOne
  <2>3. k # BucketOf(b)
    BY SMTT(60), <1>0, <2>1 DEF Types
  <2> QED
    BY SMTT(60), <2>1, <2>2, <2>3 DEF Types, UncountedBy
<1>6. CASE Step(s) /\ ~WriteDevice(s) /\ ~NoteWrite(s) /\ ~ForgetOne(s)
           /\ ~(\E a \in Block : Provision(s, a))
  <2>1. UNCHANGED <<device, done, owed>> /\ pc[s] \notin {"note", "forget"} /\ pc'[s] # "forget"
    BY ZenonT(60), <1>6
    DEF Step, BlockRead, BlockWrite, CacheFind, EpochOf, RunTake, RunBegin, RunRead, ReadDevice,
        CacheFill, ReadReturn, EpochBefore, Goto, Return, shared, Types
  <2> QED
    BY SMTT(60), <1>1, <2>1
<1> QED
  BY ZenonT(60), <1>2, <1>3, <1>4, <1>5, <1>6

\* What is as new as every write of b that has returned stays so until b's
\* bucket is counted.
LEMMA StaysNew ==
  ASSUME Types, NEW s \in Slot, Step(s), NEW b \in Block,
         writes'[BucketOf(b)] = writes[BucketOf(b)], NEW v \in Nat, AtLeast(v, b)
  PROVE  AtLeast(v, b)'
<1>1. v >= done'[b]
  BY SMTT(60), Keeps DEF AtLeast, Types
<1>2. ASSUME NEW t \in Slot, pc'[t] = "forget", block'[t] = b, BucketOf(b) \notin owed'[t]
      PROVE  v >= data'[t]
  <2>1. CASE t = s
    BY ZenonT(60), <1>2, <2>1, Keeps DEF AtLeast
  <2>2. CASE t # s
    BY SMTT(60), <1>2, <2>2, Passive DEF AtLeast, Same
  <2> QED
    BY SMTT(60), <2>1, <2>2
<1> QED
  BY SMTT(60), <1>1, <1>2 DEF AtLeast

\* What is good stays good until the bucket is counted: a write that reaches
\* the device in between is uncounted.
LEMMA StaysGood ==
  ASSUME Types, NEW s \in Slot, Step(s), NEW b \in Block,
         writes'[BucketOf(b)] = writes[BucketOf(b)], NEW v \in Nat, Good(v, b)
  PROVE  Good(v, b)'
<1>1. AtLeast(v, b)'
  BY SMTT(60), StaysNew DEF Good
<1>2. ASSUME NEW t \in Slot, UncountedBy(t, b)
      PROVE  UncountedBy(t, b)'
  BY SMTT(60), <1>2, Keeps, Passive DEF UncountedBy, Same
<1>3. v = device'[b] \/ \E t \in Slot : UncountedBy(t, b)'
  BY SMTT(60), <1>2, Keeps DEF Good
<1> QED
  BY SMTT(60), <1>1, <1>3 DEF Good

\* What the device holds is good.
LEMMA DeviceGood ==
  ASSUME Types, Bounds, NEW b \in Block
  PROVE  Good(device[b], b)
BY SMTT(60) DEF Types, Bounds, Good, AtLeast

\* A copy as new as every returned write of the block satisfies any read of it.
LEMMA NewIsEnough ==
  ASSUME Types, Bounds, NEW s \in Slot, pc[s] \in Reading, NEW v \in Nat, AtLeast(v, block[s])
  PROVE  v >= floor[s]
BY SMTT(60) DEF Types, Bounds, AtLeast

\* block_cache_store is the only way into a slot's cache: a read fills it at the
\* epoch it summed before the device read, a write at the epoch before plus its
\* own count.
LEMMA CacheChanges ==
  ASSUME Types, NEW s \in Slot, Step(s), NEW c \in cache'[s]
  PROVE  \/ c \in cache[s]
         \/ /\ CacheFill(s)
            /\ c = [block |-> block[s], epoch |-> epoch[s], data |-> data[s]]
         \/ /\ NoteWrite(s) /\ data[s] # 0
            /\ c = [block |-> block[s], epoch |-> epoch[s] + 1, data |-> data[s]]
<1>1. CASE cache' = cache
  BY SMTT(60), <1>1
<1>2. ASSUME NEW b, NEW e, NEW v, Store(s, b, e, v)
      PROVE  c \in cache[s] \/ c = [block |-> b, epoch |-> e, data |-> v]
  <2>1. PICK out : cache' = [cache EXCEPT ![s] =
                               (cache[s] \ out) \cup {[block |-> b, epoch |-> e, data |-> v]}]
    BY ZenonT(60), <1>2 DEF Store
  <2> QED
    BY SMTT(60), <2>1 DEF Types
<1>3. CASE CacheFill(s)
  BY SMTT(60), <1>2, <1>3 DEF CacheFill
<1>4. CASE NoteWrite(s)
  BY ZenonT(60), <1>1, <1>2, <1>4 DEF NoteWrite
<1> QED
  BY ZenonT(60), <1>1, <1>3, <1>4
  DEF Step, BlockRead, BlockWrite, Provision, CacheFind, EpochOf, RunTake, RunBegin, RunRead,
      ReadDevice, ReadReturn, EpochBefore, WriteDevice, ForgetOne

\* Where a step that neither begins a read, nor sums its epoch, nor reads a run
\* leaves its slot: such a step leaves the run alone, or forgets it.
LEMMA OtherSteps ==
  ASSUME Types, NEW s \in Slot, Step(s),
         \A b \in Block : ~BlockRead(s, b), ~EpochOf(s), ~(RunRead(s) /\ pc'[s] = "retake")
  PROVE  pc'[s] \notin {"find", "take", "retake"} /\ (RunBegin(s) \/ run' = run)
<1> DEFINE Goal == pc'[s] \notin {"find", "take", "retake"} /\ (RunBegin(s) \/ run' = run)
<1> USE DEF Types, Goto, Return
<1>1. ASSUME NEW b \in Block, BlockWrite(s, b) PROVE Goal
  BY SMTT(60), <1>1 DEF BlockWrite
<1>2. ASSUME NEW b \in Block, Provision(s, b) PROVE Goal
  BY SMTT(60), <1>2 DEF Provision
<1>3. CASE CacheFind(s)
  BY ZenonT(60), <1>3 DEF CacheFind
<1>4. ASSUME NEW from \in {"take", "retake"}, RunTake(s, from) PROVE Goal
  BY ZenonT(60), <1>4 DEF RunTake
<1>5. CASE RunBegin(s)
  BY SMTT(60), <1>5 DEF RunBegin
<1>6. CASE RunRead(s)
  BY ZenonT(60), <1>6 DEF RunRead
<1>7. CASE ReadDevice(s)
  BY SMTT(60), <1>7 DEF ReadDevice
<1>8. CASE CacheFill(s)
  BY SMTT(60), <1>8 DEF CacheFill
<1>9. CASE ReadReturn(s)
  BY SMTT(60), <1>9 DEF ReadReturn
<1>10. CASE EpochBefore(s)
  BY SMTT(60), <1>10 DEF EpochBefore
<1>11. CASE WriteDevice(s)
  BY SMTT(60), <1>11 DEF WriteDevice
<1>12. CASE NoteWrite(s)
  BY SMTT(60), <1>12 DEF NoteWrite
<1>13. CASE ForgetOne(s)
  BY SMTT(60), <1>13 DEF ForgetOne
<1> QED
  BY SMTT(60), <1>1, <1>2, <1>3, <1>4, <1>5, <1>6, <1>7, <1>8, <1>9, <1>10, <1>11, <1>12,
     <1>13 DEF Step

\* block_run_read is the only way into a slot's run, which then holds what the
\* device does, at an epoch no later than the transfer.
LEMMA RunChanges ==
  ASSUME Types, NEW s \in Slot, Step(s)
  PROVE  \/ run'[s] = run[s] /\ pc'[s] # "retake"
         \/ run'[s].count = 0 /\ run'[s].epoch = run[s].epoch
         \/ /\ RunRead(s) /\ pc'[s] = "retake" /\ since'[s] = total
            /\ run'[s].epoch <= total /\ run'[s].first = block[s]
            /\ \A b \in Block : InRun(s, b)' => run'[s].data[b] = device[b]
<1>1. CASE run' = run /\ pc'[s] # "retake"
  BY SMTT(60), <1>1
<1>2. CASE RunBegin(s)
  <2>1. run'[s] = [run[s] EXCEPT !.count = 0]
    BY SMTT(60), <1>2 DEF RunBegin, Types
  <2>2. run[s] \in Runs
    BY ZenonT(60) DEF Types
  <2> QED
    BY SMTT(60), <2>1, <2>2 DEF Runs
<1>3. CASE RunRead(s) /\ pc'[s] = "retake"
  <2> DEFINE left == BlockCount - block[s]
             count == IF left > RunBlocks THEN RunBlocks ELSE left
             read == [b \in Block |-> IF b \in block[s]..block[s] + count - 1 THEN device[b] ELSE 0]
  <2>0. {BlockCount, RunBlocks} \subseteq Nat \ {0}
    BY SMTT(60), BlockCacheAssumption
  <2>1. count \in Nat
    BY SMTT(60), <2>0 DEF Block, Types
  <2>2. PICK e \in since[s]..total :
          run' = [run EXCEPT ![s] = [first |-> block[s], count |-> count,
                                     epoch |-> e, data |-> read]]
    BY SMTT(60), <1>3 DEF RunRead, Goto, Types
  <2>3. pc'[s] = "retake" /\ since'[s] = total
    BY SMTT(60), <1>3 DEF RunRead, Goto, SumBegins, Types
  <2>4. /\ run'[s].first = block[s] /\ run'[s].count = count
        /\ run'[s].epoch = e /\ run'[s].data = read
    <3> HIDE DEF count, read
    <3> QED BY ZenonT(60), <2>2 DEF Types
  <2>5. ASSUME NEW b \in Block, InRun(s, b)'
        PROVE  run'[s].data[b] = device[b]
    <3>1. b >= block[s] /\ b - block[s] < count
      BY SMTT(60), <2>4, <2>5 DEF InRun
    <3>2. b \in block[s]..block[s] + count - 1
      BY SMTT(60), <3>1, <2>0, <2>1 DEF Block, Types
    <3> QED
      BY SMTT(60), <2>4, <3>2
  <2> QED
    BY SMTT(60), <1>3, <2>2, <2>3, <2>4, <2>5 DEF Types
<1>4. CASE EpochOf(s) \/ \E b \in Block : BlockRead(s, b)
  BY ZenonT(60), <1>1, <1>4 DEF EpochOf, BlockRead, Goto, Types
<1> QED
  BY ZenonT(60), <1>1, <1>2, <1>3, <1>4, OtherSteps

\* How a slot comes to a place where Bounds has something to say of it.
LEMMA Course ==
  ASSUME Types, NEW s \in Slot, Step(s)
  PROVE  /\ pc'[s] \in {"note", "forget"} =>
              WriteDevice(s) \/ (\E b \in Block : Provision(s, b)) \/ ForgetOne(s)
         /\ pc'[s] \in Summed =>
              \/ EpochOf(s) \/ EpochBefore(s)
              \/ /\ pc[s] \in Summed /\ epoch'[s] = epoch[s] /\ block'[s] = block[s]
                 /\ UNCHANGED writes
         /\ pc'[s] \in Reading =>
              \/ \E b \in Block : BlockRead(s, b)
              \/ /\ pc[s] \in Reading /\ floor'[s] = floor[s] /\ block'[s] = block[s]
                 /\ UNCHANGED done
<1> DEFINE Goal ==
      /\ pc'[s] \in {"note", "forget"} =>
           WriteDevice(s) \/ (\E b \in Block : Provision(s, b)) \/ ForgetOne(s)
      /\ pc'[s] \in Summed =>
           \/ EpochOf(s) \/ EpochBefore(s)
           \/ /\ pc[s] \in Summed /\ epoch'[s] = epoch[s] /\ block'[s] = block[s]
              /\ UNCHANGED writes
      /\ pc'[s] \in Reading =>
           \/ \E b \in Block : BlockRead(s, b)
           \/ /\ pc[s] \in Reading /\ floor'[s] = floor[s] /\ block'[s] = block[s]
              /\ UNCHANGED done
<1> SUFFICES Goal
  OBVIOUS
<1>t. pc \in [Slot -> PCs]
  BY SMTT(60) DEF Types
<1> USE DEF Goto, Return, shared, Summed, Reading
<1>1. ASSUME NEW b \in Block, BlockRead(s, b) PROVE Goal
  BY ZenonT(60), <1>t, <1>1 DEF BlockRead
<1>2. ASSUME NEW b \in Block, BlockWrite(s, b) PROVE Goal
  BY ZenonT(60), <1>t, <1>2 DEF BlockWrite
<1>3. ASSUME NEW b \in Block, Provision(s, b) PROVE Goal
  BY ZenonT(60), <1>t, <1>3 DEF Provision
<1>4. CASE CacheFind(s)
  BY ZenonT(60), <1>t, <1>4 DEF CacheFind
<1>5. CASE EpochOf(s)
  BY ZenonT(60), <1>t, <1>5 DEF EpochOf
<1>6. ASSUME NEW from \in {"take", "retake"}, RunTake(s, from) PROVE Goal
  BY ZenonT(60), <1>t, <1>6 DEF RunTake
<1>7. CASE RunBegin(s)
  BY SMTT(60), <1>t, <1>7 DEF RunBegin
<1>8. CASE RunRead(s)
  BY ZenonT(60), <1>t, <1>8 DEF RunRead
<1>9. CASE ReadDevice(s)
  BY ZenonT(60), <1>t, <1>9 DEF ReadDevice
<1>10. CASE CacheFill(s)
  BY SMTT(60), <1>t, <1>10 DEF CacheFill
<1>11. CASE ReadReturn(s)
  BY ZenonT(60), <1>t, <1>11 DEF ReadReturn
<1>12. CASE EpochBefore(s)
  BY ZenonT(60), <1>t, <1>12 DEF EpochBefore
<1>13. CASE WriteDevice(s)
  BY ZenonT(60), <1>t, <1>13 DEF WriteDevice
<1>14. CASE NoteWrite(s)
  BY SMTT(60), <1>t, <1>14 DEF NoteWrite
<1>15. CASE ForgetOne(s)
  BY ZenonT(60), <1>t, <1>15 DEF ForgetOne
<1> HIDE DEF Goal
<1> QED
  BY ZenonT(60), <1>1, <1>2, <1>3, <1>4, <1>5, <1>6, <1>7, <1>8, <1>9, <1>10, <1>11, <1>12, <1>13,
     <1>14, <1>15 DEF Step
-----------------------------------------------------------------------------
\* Nothing gets ahead of the device or of its count.
LEMMA BoundsKept ==
  ASSUME Types, Bounds, NEW s \in Slot, Step(s)
  PROVE  Bounds'
<1>0. Types'
  BY SMTT(60), TypesKept
<1>m. /\ \A k \in Bucket : writes[k] <= writes'[k]
      /\ total <= total'
      /\ \A b \in Block : device[b] <= device'[b] /\ done[b] <= done'[b]
  BY SMTT(60), Moves
<1>k. \A b \in Block : BucketOf(b) \in Bucket
  BY ZenonT(60), Buckets
<1>1. \A b \in Block : done'[b] <= device'[b]
  <2>1. CASE done' = done
    BY SMTT(60), <1>0, <1>m, <2>1 DEF Bounds, Types
  <2>2. CASE NoteWrite(s)
    BY SMTT(60), <2>2 DEF NoteWrite, Return, Goto, Bounds, Types
  <2>3. CASE ForgetOne(s)
    BY SMTT(60), <2>3 DEF ForgetOne, Bounds, Types
  <2> QED
    BY SMTT(60), <2>1, <2>2, <2>3
    DEF Step, BlockRead, BlockWrite, Provision, CacheFind, EpochOf, RunTake, RunBegin, RunRead,
        ReadDevice, CacheFill, ReadReturn, EpochBefore, WriteDevice, shared
<1>2. ASSUME NEW t \in Slot \ {s}
      PROVE  /\ pc'[t] \in {"note", "forget"} => data'[t] <= device'[block'[t]]
             /\ pc'[t] \in Summed => epoch'[t] <= writes'[BucketOf(block'[t])]
             /\ pc'[t] \in Reading => floor'[t] <= done'[block'[t]]
             /\ run'[t].epoch <= total'
             /\ \A c \in cache'[t] : c.epoch <= writes'[BucketOf(c.block)]
  <2>1. Same(t)
    BY SMTT(60), Passive
  <2>2. \A c \in cache[t] : c.epoch \in Nat /\ c.block \in Block
    BY SMTT(60) DEF Types, Copies
  <2>3. run[t].epoch \in Nat
    BY SMTT(60) DEF Types, Runs
  <2> QED
    BY SMTT(60), <1>0, <1>m, <1>k, <2>1, <2>2, <2>3 DEF Same, Bounds, Types
<1>t. /\ device \in [Block -> Nat] /\ done \in [Block -> Nat] /\ writes \in [Bucket -> Nat]
      /\ block \in [Slot -> Block] /\ data \in [Slot -> Nat] /\ epoch \in [Slot -> Nat]
      /\ floor \in [Slot -> Nat] /\ since \in [Slot -> Nat]
  BY SMTT(60) DEF Types
<1>3. pc'[s] \in {"note", "forget"} => data'[s] <= device'[block'[s]]
  <2>1. CASE WriteDevice(s)
    <3>1. block'[s] = block[s] /\ block[s] \in Block /\ device'[block[s]] \in Nat
      BY SMTT(60), <1>t, <1>0, <2>1 DEF WriteDevice, Types
    <3>2. data'[s] = 0 \/ data'[s] = device'[block[s]]
      BY SMTT(60), <1>t, <2>1 DEF WriteDevice
    <3> QED
      BY SMTT(60), <3>1, <3>2
  <2>2. ASSUME NEW b \in Block, Provision(s, b) PROVE data'[s] <= device'[block'[s]]
    <3>1. block'[s] = b /\ data'[s] = device'[b] /\ device'[b] \in Nat
      BY ZenonT(60), <1>t, <1>0, <2>2 DEF Provision, Types
    <3> QED
      BY SMTT(60), <3>1
  <2>3. ASSUME ForgetOne(s), pc'[s] \in {"note", "forget"} PROVE data'[s] <= device'[block'[s]]
    <3>1. pc[s] = "forget" /\ UNCHANGED <<block, data, device>>
      <4>1. pc \in [Slot -> PCs]
        BY SMTT(60) DEF Types
      <4> QED
        BY SMTT(60), <2>3, <4>1 DEF ForgetOne, Return, Goto
    <3> QED
      BY SMTT(60), <3>1 DEF Bounds
  <2> QED
    BY ZenonT(60), <2>1, <2>2, <2>3, Course
<1>4. pc'[s] \in Summed => epoch'[s] <= writes'[BucketOf(block'[s])]
  <2>1. ASSUME EpochOf(s) \/ EpochBefore(s) PROVE epoch'[s] <= writes'[BucketOf(block'[s])]
    <3>1. \E e \in since[s]..writes[BucketOf(block[s])] : epoch' = [epoch EXCEPT ![s] = e]
      BY ZenonT(60), <2>1 DEF EpochOf, EpochBefore
    <3>2. writes[BucketOf(block[s])] \in Nat /\ since[s] \in Nat
      BY SMTT(60), <1>t, <1>k
    <3>3. epoch'[s] <= writes[BucketOf(block[s])]
      BY SMTT(60), <1>t, <3>1, <3>2
    <3>4. UNCHANGED <<block, writes>>
      BY ZenonT(60), <2>1 DEF EpochOf, EpochBefore, shared
    <3> QED
      BY SMTT(60), <3>3, <3>4
  <2>2. ASSUME pc[s] \in Summed, epoch'[s] = epoch[s], block'[s] = block[s], UNCHANGED writes
        PROVE  epoch'[s] <= writes'[BucketOf(block'[s])]
    BY ZenonT(60), <2>2 DEF Bounds
  <2> QED
    BY ZenonT(60), <2>1, <2>2, Course
<1>5. pc'[s] \in Reading => floor'[s] <= done'[block'[s]]
  <2>1. ASSUME NEW b \in Block, BlockRead(s, b) PROVE floor'[s] <= done'[block'[s]]
    <3>1. floor'[s] = done[b] /\ block'[s] = b /\ done' = done /\ done[b] \in Nat
      BY SMTT(60), <1>t, <2>1 DEF BlockRead, shared
    <3> QED
      BY SMTT(60), <3>1
  <2>2. ASSUME pc[s] \in Reading, floor'[s] = floor[s], block'[s] = block[s], UNCHANGED done
        PROVE  floor'[s] <= done'[block'[s]]
    BY ZenonT(60), <2>2 DEF Bounds
  <2> QED
    BY ZenonT(60), <2>1, <2>2, Course
<1>6. run'[s].epoch <= total'
  <2>1. run[s].epoch \in Nat /\ run'[s].epoch \in Nat
    BY ZenonT(60), <1>0 DEF Types, Runs
  <2>2. run[s].epoch <= total /\ total \in Nat /\ total' \in Nat
    BY SMTT(60), <1>0 DEF Bounds, Types
  <2>3. run'[s].epoch = run[s].epoch \/ run'[s].epoch <= total
    BY ZenonT(60), RunChanges
  <2> QED
    BY SMTT(60), <1>m, <2>1, <2>2, <2>3
<1>7. ASSUME NEW c \in cache'[s]
      PROVE  c.epoch <= writes'[BucketOf(c.block)]
  <2>1. CASE c \in cache[s]
    <3>1. c.epoch \in Nat /\ c.block \in Block
      BY SMTT(60), <2>1 DEF Types, Copies
    <3> QED
      BY SMTT(60), <1>0, <1>m, <1>k, <2>1, <3>1 DEF Bounds, Types
  <2>2. CASE CacheFill(s) /\ c = [block |-> block[s], epoch |-> epoch[s], data |-> data[s]]
    BY ZenonT(60), <2>2 DEF CacheFill, Goto, Bounds, Types, Summed, shared
  <2>3. CASE NoteWrite(s) /\ c = [block |-> block[s], epoch |-> epoch[s] + 1, data |-> data[s]]
    BY SMTT(60), <1>k, <2>3 DEF NoteWrite, CountWrite, Return, Goto, Bounds, Types, Summed
  <2> QED
    BY ZenonT(60), <2>1, <2>2, <2>3, CacheChanges
<1> QED
  BY ZenonT(60), <1>1, <1>2, <1>3, <1>4, <1>5, <1>6, <1>7 DEF Bounds

\* A copy or a run that is not stale after the step was not stale before it, or
\* is the one the step made: it is good in either case.
LEMMA FreshKept ==
  ASSUME IInv, NEW s \in Slot, Step(s)
  PROVE  Fresh'
<1>0. Types /\ Bounds /\ Fresh /\ Filling /\ Types'
  BY SMTT(60), TypesKept DEF IInv
<1>m. /\ \A k \in Bucket : writes[k] <= writes'[k]
      /\ total <= total'
      /\ total' = total => writes' = writes
  BY ZenonT(60), <1>0, Moves
<1>k. \A b \in Block : BucketOf(b) \in Bucket
  BY ZenonT(60), Buckets
<1>1. ASSUME NEW t \in Slot, NEW c \in cache[t], c.epoch = writes'[BucketOf(c.block)]
      PROVE  Good(c.data, c.block)'
  <2>1. c.epoch \in Nat /\ c.block \in Block /\ c.data \in Nat
    BY SMTT(60), <1>0 DEF Types, Copies
  <2> DEFINE k == BucketOf(c.block)
  <2>2. k \in Bucket /\ writes[k] \in Nat /\ writes'[k] \in Nat
    BY SMTT(60), <1>0, <1>k, <2>1 DEF Types
  <2>3. c.epoch <= writes[k] /\ writes[k] <= writes'[k]
    BY ZenonT(60), <1>0, <1>m, <2>2 DEF Bounds
  <2>4. c.epoch = writes[k] /\ writes'[k] = writes[k]
    BY SMTT(60), <1>1, <2>1, <2>2, <2>3
  <2> QED
    BY SMTT(60), <1>0, <2>1, <2>4, StaysGood DEF Fresh
<1>2. ASSUME CacheFill(s), epoch[s] = writes'[BucketOf(block[s])]
      PROVE  Good(data[s], block[s]) /\ writes'[BucketOf(block[s])] = writes[BucketOf(block[s])]
  BY ZenonT(60), <1>0, <1>2 DEF CacheFill, Goto, Filling, shared
<1>3. ASSUME NoteWrite(s), data[s] # 0, epoch[s] + 1 = writes'[BucketOf(block[s])],
             NEW b \in Block, b = block[s], NEW v \in Nat, v = data[s]
      PROVE  Good(v, b)'
  <2>0. /\ writes' = [writes EXCEPT ![BucketOf(b)] = @ + 1]
        /\ pc[s] = "note" /\ pc'[s] = "idle" /\ device' = device
        /\ done' = [done EXCEPT ![b] = IF v > @ THEN v ELSE @]
    BY ZenonT(60), <1>0, <1>3 DEF NoteWrite, CountWrite, Return, Goto, Types
  <2>a. epoch[s] \in Nat /\ writes \in [Bucket -> Nat] /\ BucketOf(b) \in Bucket
    BY ZenonT(60), <1>0, <1>k DEF Types
  <2>1. epoch[s] = writes[BucketOf(b)]
    BY SMTT(60), <1>3, <2>0, <2>a
  <2>b. /\ AtLeast(data[s], block[s])
        /\ \/ data[s] = device[block[s]]
           \/ \E t \in Slot \ {s} : UncountedBy(t, block[s])
    BY ZenonT(60), <1>0, <1>3, <2>0, <2>1 DEF Filling
  <2>2. AtLeast(v, b) /\ (v = device[b] \/ \E t \in Slot \ {s} : UncountedBy(t, b))
    BY ZenonT(60), <1>3, <2>b
  <2>c. done \in [Block -> Nat] /\ v >= done[b]
    BY SMTT(60), <1>0, <2>2 DEF Types, AtLeast
  <2>3. done'[b] = v
    BY SMTT(60), <2>0, <2>c
  <2>4. \A t \in Slot \ {s} : Same(t)
    BY ZenonT(60), <1>0, Passive
  <2>5. AtLeast(v, b)'
    BY SMTT(60), <1>0, <2>0, <2>2, <2>3, <2>4 DEF AtLeast, Same
  <2>6. v = device'[b] \/ \E t \in Slot : UncountedBy(t, b)'
    BY ZenonT(60), <2>0, <2>2, <2>4 DEF UncountedBy, Same
  <2> QED
    BY SMTT(60), <2>5, <2>6 DEF Good
<1>4. ASSUME NEW t \in Slot, NEW c \in cache'[t], c.epoch = writes'[BucketOf(c.block)]
      PROVE  Good(c.data, c.block)'
  <2>1. c.epoch \in Nat /\ c.block \in Block /\ c.data \in Nat
    BY SMTT(60), <1>0 DEF Types, Copies
  <2>2. CASE c \in cache[t]
    BY SMTT(60), <1>1, <1>4, <2>2
  <2>3. CASE t = s /\ CacheFill(s) /\ c = [block |-> block[s], epoch |-> epoch[s], data |-> data[s]]
    <3>1. Good(c.data, c.block) /\ writes'[BucketOf(c.block)] = writes[BucketOf(c.block)]
      BY ZenonT(60), <1>2, <1>4, <2>3
    <3> QED
      BY ZenonT(60), <1>0, <2>1, <3>1, StaysGood
  <2>4. CASE /\ t = s /\ NoteWrite(s) /\ data[s] # 0
             /\ c = [block |-> block[s], epoch |-> epoch[s] + 1, data |-> data[s]]
    BY SMTT(60), <1>3, <1>4, <2>1, <2>4
  <2>5. t # s => c \in cache[t]
    BY ZenonT(60), <1>0, Passive DEF Same
  <2> QED
    BY ZenonT(60), <1>0, <2>2, <2>3, <2>4, <2>5, CacheChanges
<1>5. ASSUME NEW t \in Slot, run'[t].epoch = total', NEW b \in Block, InRun(t, b)'
      PROVE  Good(run[t].data[b], b)'
  <2>0. run[t].epoch \in Nat /\ run[t].data[b] \in Nat
    BY SMTT(60), <1>0 DEF Types, Runs
  <2>1. CASE run'[t] = run[t]
    <3>1. run[t].epoch = total /\ writes' = writes /\ InRun(t, b)
      <4>1. total \in Nat /\ total' \in Nat
        BY SMTT(60), <1>0 DEF Types
      <4>2. run[t].epoch = total' /\ run[t].epoch <= total
        BY ZenonT(60), <1>0, <1>5, <2>1 DEF Bounds
      <4>3. run[t].epoch = total /\ total' = total
        BY SMTT(60), <1>m, <2>0, <4>1, <4>2
      <4>4. InRun(t, b)
        BY ZenonT(60), <1>5, <2>1 DEF InRun
      <4> QED
        BY ZenonT(60), <1>m, <4>3, <4>4
    <3>2. PICK v \in Nat : v = run[t].data[b]
      BY SMTT(60), <2>0
    <3>3. Good(v, b)
      BY ZenonT(60), <1>0, <3>1, <3>2 DEF Fresh
    <3>4. Good(v, b)'
      BY SMTT(60), <1>0, <3>1, <3>3, StaysGood
    <3> QED
      BY SMTT(60), <2>1, <3>2, <3>4
  <2>2. CASE run'[t].count = 0
    BY ZenonT(60), <1>5, <2>2 DEF InRun
  <2>3. CASE t = s /\ RunRead(s) /\ run'[t].data[b] = device[b]
    <3>1. PICK v \in Nat : v = device[b]
      BY SMTT(60), <1>0 DEF Types
    <3>2. Good(v, b)
      BY ZenonT(60), <1>0, <3>1, DeviceGood
    <3>3. Good(v, b)'
      BY ZenonT(60), <1>0, <2>3, <3>2, StaysGood DEF RunRead, shared
    <3> QED
      BY ZenonT(60), <2>3, <3>1, <3>3
  <2>4. t # s => run'[t] = run[t]
    BY ZenonT(60), <1>0, Passive DEF Same
  <2> QED
    BY SMTT(60), <1>0, <1>5, <2>1, <2>2, <2>3, <2>4, RunChanges
<1> QED
  BY SMTT(60), <1>4, <1>5 DEF Fresh

\* What a read finds in its own cache or run was good when its sum began, so it
\* is no older than what had returned when the read did.
LEMMA FindingKept ==
  ASSUME IInv, NEW s \in Slot, Step(s)
  PROVE  Finding'
<1>0. Types /\ Bounds /\ Fresh /\ Finding /\ Types'
  BY SMTT(60), TypesKept DEF IInv
<1>m. /\ \A k \in Bucket : writes[k] <= writes'[k]
      /\ total <= total'
  BY SMTT(60), <1>0, Moves
<1>k. \A b \in Block : BucketOf(b) \in Bucket
  BY ZenonT(60), Buckets
<1> DEFINE Find(t) ==
      pc[t] = "find" =>
        \A c \in cache[t] : c.block = block[t] /\ c.epoch >= since[t] => c.data >= floor[t]
<1> DEFINE Take(t) ==
      pc[t] \in {"take", "retake"} /\ InRun(t, block[t]) /\ run[t].epoch >= since[t] =>
        /\ run[t].data[block[t]] >= floor[t]
        /\ epoch[t] = writes[BucketOf(block[t])] => Good(run[t].data[block[t]], block[t])
<1>1. ASSUME NEW t \in Slot, Same(t) PROVE Find(t)' /\ Take(t)'
  <2>1. Find(t)'
    BY ZenonT(60), <1>0, <1>1 DEF Finding, Same
  <2>2. ASSUME pc'[t] \in {"take", "retake"}, InRun(t, block[t])', run'[t].epoch >= since'[t]
        PROVE  /\ run'[t].data[block'[t]] >= floor'[t]
               /\ epoch'[t] = writes'[BucketOf(block'[t])] => Good(run[t].data[block[t]], block[t])'
    <3>1. pc[t] \in {"take", "retake"} /\ InRun(t, block[t]) /\ run[t].epoch >= since[t]
      BY SMTT(60), <1>1, <2>2 DEF Same, InRun
    <3>2. run'[t].data[block'[t]] >= floor'[t]
      BY ZenonT(60), <1>0, <1>1, <3>1 DEF Same, Finding
    <3>3. ASSUME epoch'[t] = writes'[BucketOf(block'[t])]
          PROVE  Good(run[t].data[block[t]], block[t])'
      <4>1. PICK v \in Nat, b \in Block : v = run[t].data[block[t]] /\ b = block[t]
        BY SMTT(60), <1>0 DEF Types, Runs
      <4>2. epoch[t] \in Nat /\ writes[BucketOf(b)] \in Nat /\ writes'[BucketOf(b)] \in Nat
        BY SMTT(60), <1>0, <1>k DEF Types
      <4>3. epoch[t] <= writes[BucketOf(b)] /\ writes[BucketOf(b)] <= writes'[BucketOf(b)]
        BY ZenonT(60), <1>0, <1>m, <1>k, <3>1, <4>1 DEF Bounds, Summed
      <4>4. epoch[t] = writes[BucketOf(b)] /\ writes'[BucketOf(b)] = writes[BucketOf(b)]
        <5>1. epoch[t] = writes'[BucketOf(b)]
          BY ZenonT(60), <1>1, <3>3, <4>1 DEF Same
        <5> QED
          BY SMTT(60), <4>2, <4>3, <5>1
      <4>5. Good(v, b)
        BY ZenonT(60), <1>0, <3>1, <4>1, <4>4 DEF Finding
      <4>6. Good(v, b)'
        BY ZenonT(60), <1>0, <4>4, <4>5, StaysGood
      <4> QED
        BY ZenonT(60), <1>1, <4>1, <4>6 DEF Same
    <3> QED
      BY ZenonT(60), <3>2, <3>3
  <2> QED
    BY ZenonT(60), <2>1, <2>2
<1>2. ASSUME NEW b \in Block, BlockRead(s, b)
      PROVE  Find(s)' /\ Take(s)'
  <2>1. /\ pc'[s] = "find" /\ block'[s] = b /\ since'[s] = writes[BucketOf(b)] /\ floor'[s] = done[b]
        /\ cache' = cache
    BY ZenonT(60), <1>0, <1>2 DEF BlockRead, Goto, SumBegins, Types
  <2>2. ASSUME NEW c \in cache[s], c.block = b, c.epoch >= writes[BucketOf(b)]
        PROVE  c.data >= done[b]
    <3>1. c.epoch \in Nat /\ c.data \in Nat /\ writes[BucketOf(b)] \in Nat
      BY SMTT(60), <1>0, <1>k DEF Types, Copies
    <3>2. c.epoch = writes[BucketOf(b)]
      <4>1. c.epoch <= writes[BucketOf(b)]
        BY ZenonT(60), <1>0, <2>2 DEF Bounds
      <4> QED
        BY SMTT(60), <2>2, <3>1, <4>1
    <3> QED
      BY ZenonT(60), <1>0, <2>2, <3>2 DEF Fresh, Good, AtLeast
  <2> QED
    BY SMTT(60), <2>1, <2>2
<1>3. ASSUME EpochOf(s) PROVE Find(s)' /\ Take(s)'
  <2>1. /\ pc[s] = "epoch" /\ pc'[s] = "take" /\ since'[s] = total
        /\ UNCHANGED <<device, writes, total, done, run, block, data, owed, floor>>
    BY ZenonT(60), <1>0, <1>3 DEF EpochOf, Goto, SumBegins, Types, shared
  <2>2. ASSUME InRun(s, block[s])', run'[s].epoch >= total
        PROVE  /\ run'[s].data[block'[s]] >= floor'[s]
               /\ Good(run[s].data[block[s]], block[s])'
    <3>1. PICK v \in Nat, b \in Block : v = run[s].data[block[s]] /\ b = block[s]
      BY SMTT(60), <1>0 DEF Types, Runs
    <3>2. run[s].epoch \in Nat /\ total \in Nat
      BY ZenonT(60), <1>0 DEF Types, Runs
    <3>3. run[s].epoch = total /\ InRun(s, b)
      BY SMTT(60), <1>0, <2>1, <2>2, <3>1, <3>2 DEF Bounds, InRun
    <3>4. Good(v, b)
      BY ZenonT(60), <1>0, <3>1, <3>3 DEF Fresh
    <3>5. Good(v, b)'
      BY ZenonT(60), <1>0, <2>1, <3>4, StaysGood
    <3>6. v >= floor[s]
      BY SMTT(60), <1>0, <2>1, <3>1, <3>4, NewIsEnough DEF Good, Reading
    <3> QED
      BY ZenonT(60), <2>1, <3>1, <3>5, <3>6
  <2>3. Find(s)'
    BY ZenonT(60), <2>1
  <2>4. Take(s)'
    BY ZenonT(60), <2>1, <2>2
  <2> QED
    BY ZenonT(60), <2>3, <2>4
<1>4. ASSUME RunRead(s), pc'[s] = "retake" PROVE Find(s)' /\ Take(s)'
  <2>1. /\ pc[s] = "runread"
        /\ UNCHANGED <<device, writes, total, done, block, floor, epoch>>
    BY SMTT(60), <1>0, <1>4 DEF RunRead, Goto, Types, shared
  <2>2. ASSUME InRun(s, block[s])'
        PROVE  /\ run'[s].data[block'[s]] >= floor'[s]
               /\ Good(run[s].data[block[s]], block[s])'
    <3>1. PICK v \in Nat, b \in Block : v = device[block[s]] /\ b = block[s]
      BY SMTT(60), <1>0 DEF Types
    <3>2. Good(v, b)
      BY ZenonT(60), <1>0, <3>1, DeviceGood
    <3>3. Good(v, b)'
      BY SMTT(60), <1>0, <2>1, <3>2, StaysGood
    <3>4. v >= floor[s]
      BY SMTT(60), <1>0, <2>1, <3>1, <3>2, NewIsEnough DEF Good, Reading
    <3>5. run'[s].count # 0 /\ InRun(s, b)'
      BY ZenonT(60), <2>1, <2>2, <3>1 DEF InRun
    <3>6. run'[s].data[b] = v
      BY SMTT(60), <1>0, <1>4, <3>1, <3>5, RunChanges
    <3> QED
      BY ZenonT(60), <2>1, <3>1, <3>3, <3>4, <3>6
  <2>3. Find(s)'
    BY SMTT(60), <1>4
  <2>4. Take(s)'
    BY ZenonT(60), <2>2
  <2> QED
    BY ZenonT(60), <2>3, <2>4
<1>5. ASSUME pc'[s] \notin {"find", "take", "retake"} PROVE Find(s)' /\ Take(s)'
  BY SMTT(60), <1>5
<1>6. Find(s)' /\ Take(s)'
  BY ZenonT(60), <1>0, <1>2, <1>3, <1>4, <1>5, OtherSteps
<1>7. \A t \in Slot \ {s} : Same(t)
  BY SMTT(60), <1>0, Passive
<1>8. \A t \in Slot : Find(t)' /\ Take(t)'
  BY ZenonT(60), <1>1, <1>6, <1>7
<1> QED
  BY ZenonT(60), <1>8 DEF Finding

\* What a read takes and what a write has written is good for as long as the
\* epoch it was taken at is the present one.
LEMMA FillingKept ==
  ASSUME IInv, NEW s \in Slot, Step(s)
  PROVE  Filling'
<1>0. Types /\ Bounds /\ Finding /\ Filling /\ Types' /\ Bounds'
  BY SMTT(60), TypesKept, BoundsKept DEF IInv
<1>m. \A k \in Bucket : writes[k] <= writes'[k]
  BY SMTT(60), <1>0, Moves
<1>k. \A b \in Block : BucketOf(b) \in Bucket
  BY ZenonT(60), Buckets
<1>p. \A t \in Slot \ {s} : Same(t)
  BY SMTT(60), <1>0, Passive
<1> DEFINE Got(t) == pc[t] \in {"fill", "got"} => data[t] >= floor[t]
<1> DEFINE Fill(t) ==
      pc[t] = "fill" /\ epoch[t] = writes[BucketOf(block[t])] => Good(data[t], block[t])
<1> DEFINE Note(t) ==
      pc[t] = "note" /\ data[t] # 0 /\ epoch[t] = writes[BucketOf(block[t])] =>
        /\ AtLeast(data[t], block[t])
        /\ \/ data[t] = device[block[t]]
           \/ \E u \in Slot \ {t} : UncountedBy(u, block[t])
<1>1. ASSUME NEW t \in Slot \ {s} PROVE Got(t)' /\ Fill(t)' /\ Note(t)'
  <2>1. Same(t)
    BY ZenonT(60), <1>p
  <2>2. PICK v \in Nat, b \in Block : v = data[t] /\ b = block[t]
    BY ZenonT(60), <1>0 DEF Types
  <2>3. Got(t)'
    BY ZenonT(60), <1>0, <2>1 DEF Filling, Same
  <2>4. ASSUME pc[t] \in Summed, epoch[t] = writes'[BucketOf(b)]
        PROVE  epoch[t] = writes[BucketOf(b)] /\ writes'[BucketOf(b)] = writes[BucketOf(b)]
    <3>1. epoch[t] \in Nat /\ writes[BucketOf(b)] \in Nat /\ writes'[BucketOf(b)] \in Nat
      BY ZenonT(60), <1>0, <1>k DEF Types
    <3>2. epoch[t] <= writes[BucketOf(b)] /\ writes[BucketOf(b)] <= writes'[BucketOf(b)]
      BY ZenonT(60), <1>0, <1>m, <1>k, <2>2, <2>4 DEF Bounds
    <3> QED
      BY SMTT(60), <2>4, <3>1, <3>2
  <2>5. ASSUME pc'[t] = "fill", epoch'[t] = writes'[BucketOf(block'[t])]
        PROVE  Good(data[t], block[t])'
    <3>1. /\ pc[t] = "fill" /\ epoch[t] = writes[BucketOf(b)]
          /\ writes'[BucketOf(b)] = writes[BucketOf(b)]
      BY ZenonT(60), <2>1, <2>2, <2>4, <2>5 DEF Same, Summed
    <3>2. Good(v, b)
      BY ZenonT(60), <1>0, <2>2, <3>1 DEF Filling
    <3>3. Good(v, b)'
      BY ZenonT(60), <1>0, <3>1, <3>2, StaysGood
    <3> QED
      BY ZenonT(60), <2>1, <2>2, <3>3 DEF Same
  <2>6. ASSUME pc'[t] = "note", data'[t] # 0, epoch'[t] = writes'[BucketOf(block'[t])]
        PROVE  /\ AtLeast(data[t], block[t])'
               /\ \/ data'[t] = device'[block'[t]]
                  \/ \E u \in Slot \ {t} : UncountedBy(u, block[t])'
    <3>1. /\ pc[t] = "note" /\ v # 0 /\ epoch[t] = writes[BucketOf(b)]
          /\ writes'[BucketOf(b)] = writes[BucketOf(b)]
      BY ZenonT(60), <2>1, <2>2, <2>4, <2>6 DEF Same, Summed
    <3>2. AtLeast(v, b) /\ (v = device[b] \/ \E u \in Slot \ {t} : UncountedBy(u, b))
      BY ZenonT(60), <1>0, <2>2, <3>1 DEF Filling
    <3>3. AtLeast(v, b)'
      BY SMTT(60), <1>0, <3>1, <3>2, StaysNew
    <3>4. \A u \in Slot : UncountedBy(u, b) => UncountedBy(u, b)'
      <4>1. UncountedBy(s, b) => UncountedBy(s, b)'
        BY ZenonT(60), <1>0, <3>1, Keeps
      <4>2. ASSUME NEW u \in Slot \ {s} PROVE UncountedBy(u, b) => UncountedBy(u, b)'
        BY ZenonT(60), <1>p DEF Same, UncountedBy
      <4> QED
        BY ZenonT(60), <4>1, <4>2
    <3>5. device'[b] = device[b] \/ UncountedBy(s, b)'
      BY ZenonT(60), <1>0, <3>1, Keeps
    <3>6. v = device'[b] \/ \E u \in Slot \ {t} : UncountedBy(u, b)'
      BY ZenonT(60), <3>2, <3>4, <3>5
    <3> QED
      BY ZenonT(60), <2>1, <2>2, <3>3, <3>6 DEF Same
  <2> QED
    BY ZenonT(60), <2>3, <2>5, <2>6
<1>2. ASSUME pc'[s] \notin {"fill", "got", "note"} PROVE Got(s)' /\ Fill(s)' /\ Note(s)'
  BY ZenonT(60), <1>2
<1>3. ASSUME CacheFind(s) PROVE Got(s)' /\ Fill(s)' /\ Note(s)'
  <2>1. CASE pc'[s] # "got"
    BY SMTT(60), <1>0, <1>2, <1>3, <2>1 DEF CacheFind, Goto, Types
  <2>2. CASE pc'[s] = "got"
    <3>1. PICK c \in cache[s] :
            c.block = block[s] /\ c.epoch >= since[s] /\ data'[s] = c.data
      BY SMTT(60), <1>0, <1>3, <2>2 DEF CacheFind, Goto, Types
    <3>2. pc[s] = "find" /\ floor' = floor
      BY ZenonT(60), <1>3 DEF CacheFind, Goto
    <3>3. c.data >= floor[s]
      BY ZenonT(60), <1>0, <3>1, <3>2 DEF Finding
    <3> QED
      BY ZenonT(60), <2>2, <3>1, <3>2, <3>3
  <2> QED
    BY ZenonT(60), <2>1, <2>2
<1>4. ASSUME NEW from \in {"take", "retake"}, RunTake(s, from) PROVE Got(s)' /\ Fill(s)' /\ Note(s)'
  <2>1. CASE pc'[s] # "fill"
    BY ZenonT(60), <1>0, <1>2, <1>4, <2>1 DEF RunTake, Goto, Types
  <2>2. CASE pc'[s] = "fill"
    <3>0. PICK v \in Nat, b \in Block : v = run[s].data[block[s]] /\ b = block[s]
      BY SMTT(60), <1>0 DEF Types, Runs
    <3>1. PICK e \in since[s]..total : RunHit(s, e) /\ data'[s] = v
      BY ZenonT(60), <1>0, <1>4, <2>2, <3>0 DEF RunTake, Goto, Types
    <3>2. /\ pc[s] \in {"take", "retake"}
          /\ UNCHANGED <<device, writes, total, done, block, epoch, floor>>
      BY ZenonT(60), <1>4 DEF RunTake, Goto, shared
    <3>3. InRun(s, block[s]) /\ run[s].epoch >= since[s]
      BY SMTT(60), <1>0, <3>1 DEF RunHit, InRun, Types, Runs, Block
    <3>4. v >= floor[s] /\ (epoch[s] = writes[BucketOf(b)] => Good(v, b))
      BY ZenonT(60), <1>0, <3>0, <3>2, <3>3 DEF Finding
    <3>5. epoch[s] = writes[BucketOf(b)] => Good(v, b)'
      BY ZenonT(60), <1>0, <3>2, <3>4, StaysGood
    <3>6. Got(s)' /\ Note(s)'
      BY ZenonT(60), <2>2, <3>1, <3>2, <3>4
    <3>7. Fill(s)'
      BY ZenonT(60), <3>0, <3>1, <3>2, <3>5
    <3> QED
      BY ZenonT(60), <3>6, <3>7
  <2> QED
    BY ZenonT(60), <2>1, <2>2
<1>5. ASSUME ReadDevice(s) PROVE Got(s)' /\ Fill(s)' /\ Note(s)'
  <2>1. CASE pc'[s] # "fill"
    BY ZenonT(60), <1>0, <1>2, <1>5, <2>1 DEF ReadDevice, Return, Goto, Types
  <2>2. CASE pc'[s] = "fill"
    <3>0. PICK v \in Nat, b \in Block : v = device[b] /\ b = block[s]
      BY SMTT(60), <1>0 DEF Types
    <3>1. /\ pc[s] = "read" /\ data'[s] = v
          /\ UNCHANGED <<device, writes, total, done, block, epoch, floor>>
      BY ZenonT(60), <1>0, <1>5, <2>2, <3>0 DEF ReadDevice, Return, Goto, Types, shared
    <3>2. Good(v, b)
      BY SMTT(60), <1>0, <3>0, DeviceGood
    <3>3. Good(v, b)'
      BY ZenonT(60), <1>0, <3>1, <3>2, StaysGood
    <3>4. v >= floor[s]
      BY ZenonT(60), <1>0, <3>0, <3>1, <3>2, NewIsEnough DEF Good, Reading
    <3>5. Got(s)' /\ Note(s)'
      BY ZenonT(60), <2>2, <3>1, <3>4
    <3>6. Fill(s)'
      BY ZenonT(60), <3>0, <3>1, <3>3
    <3> QED
      BY ZenonT(60), <3>5, <3>6
  <2> QED
    BY ZenonT(60), <2>1, <2>2
<1>6. ASSUME CacheFill(s) PROVE Got(s)' /\ Fill(s)' /\ Note(s)'
  <2>1. pc[s] = "fill" /\ pc'[s] = "got" /\ UNCHANGED <<data, floor>>
    BY ZenonT(60), <1>0, <1>6 DEF CacheFill, Goto, Types
  <2> QED
    BY ZenonT(60), <1>0, <2>1 DEF Filling
<1>7. ASSUME WriteDevice(s) PROVE Got(s)' /\ Fill(s)' /\ Note(s)'
  <2>1. pc'[s] = "note" /\ (data'[s] # 0 => data'[s] = device'[block'[s]])
    <3>t. /\ pc \in [Slot -> PCs] /\ data \in [Slot -> Nat] /\ block \in [Slot -> Block]
          /\ device \in [Block -> Nat]
      BY SMTT(60), <1>0 DEF Types
    <3>1. pc'[s] = "note" /\ block' = block
      BY SMTT(60), <1>7, <3>t DEF WriteDevice, Goto
    <3>2. data'[s] # 0 => data'[s] = device'[block[s]]
      BY SMTT(60), <1>7, <3>t DEF WriteDevice
    <3> QED
      BY ZenonT(60), <3>1, <3>2
  <2>2. ASSUME data'[s] # 0 PROVE AtLeast(data[s], block[s])'
    BY ZenonT(60), <1>0, <2>1, <2>2 DEF AtLeast, Bounds, Types
  <2> QED
    BY ZenonT(60), <2>1, <2>2
<1>8. ASSUME NEW b \in Block, BlockRead(s, b) \/ BlockWrite(s, b) \/ Provision(s, b)
      PROVE  pc'[s] \notin {"fill", "got", "note"}
  BY ZenonT(60), <1>0, <1>8 DEF BlockRead, BlockWrite, Provision, Goto, Types
<1>9. ASSUME \/ EpochOf(s) \/ RunBegin(s) \/ RunRead(s) \/ ReadReturn(s)
             \/ EpochBefore(s) \/ NoteWrite(s) \/ ForgetOne(s)
      PROVE  pc'[s] \notin {"fill", "got", "note"}
  BY SMTT(60), <1>0, <1>9
  DEF EpochOf, RunBegin, RunRead, ReadReturn, EpochBefore, NoteWrite, ForgetOne, Goto, Return, Types
<1>10. Got(s)' /\ Fill(s)' /\ Note(s)'
  BY ZenonT(60), <1>2, <1>3, <1>4, <1>5, <1>6, <1>7, <1>8, <1>9 DEF Step
<1>11. \A t \in Slot : Got(t)' /\ Fill(t)' /\ Note(t)'
  BY ZenonT(60), <1>1, <1>10
<1> QED
  BY ZenonT(60), <1>11 DEF Filling
-----------------------------------------------------------------------------
\* The invariant holds when the kernel has read nothing yet.
LEMMA InitInv == Init => IInv
<1> SUFFICES ASSUME Init PROVE IInv
  OBVIOUS
<1>0. BlockCount \in Nat \ {0}
  BY SMTT(60), BlockCacheAssumption
<1>z. 0 \in Block
  BY SMTT(60), <1>0 DEF Block
<1>1. run \in [Slot -> Runs] /\ \A s \in Slot : run[s].count = 0 /\ run[s].epoch = 0 /\ run[s].first = 0
  BY ZenonT(60), <1>z DEF Init, Runs
<1>2. Types
  BY SMTT(60), <1>0, <1>1, <1>z DEF Init, Types, PCs
<1>3. \A b \in Block : BucketOf(b) \in Bucket
  BY ZenonT(60), Buckets
<1>4. Bounds
  BY SMTT(60), <1>1, <1>3, <1>z DEF Init, Bounds, Summed, Reading
<1>5. Fresh /\ Finding /\ Filling
  BY ZenonT(60), <1>1 DEF Init, Fresh, Finding, Filling, InRun
<1> QED
  BY SMTT(60), <1>2, <1>4, <1>5 DEF IInv

\* Every step of block_read, block_write and block_forget_all keeps the
\* invariant, for every number of slots, blocks and buckets.
THEOREM Invariance == Spec => []IInv
<1>1. IInv /\ [Next]_vars => IInv'
  <2> SUFFICES ASSUME IInv, [Next]_vars PROVE IInv'
    OBVIOUS
  <2>1. ASSUME NEW s \in Slot, Step(s) PROVE IInv'
    BY SMTT(60), <2>1, TypesKept, BoundsKept, FreshKept, FindingKept, FillingKept DEF IInv
  <2>2. CASE UNCHANGED vars
    <3>1. UNCHANGED <<device, writes, total, cache, run, pc, block, since, epoch, data, owed, done, floor>>
      BY ZenonT(60), <2>2 DEF vars
    <3>2. \A b : \A t : UncountedBy(t, b)' <=> UncountedBy(t, b)
      BY ZenonT(60), <3>1 DEF UncountedBy
    <3>3. \A v, b : AtLeast(v, b)' <=> AtLeast(v, b)
      BY ZenonT(60), <3>1 DEF AtLeast
    <3>4. \A v, b : Good(v, b)' <=> Good(v, b)
      BY ZenonT(60), <3>1, <3>2, <3>3 DEF Good
    <3>5. \A t, b : InRun(t, b)' <=> InRun(t, b)
      BY ZenonT(60), <3>1 DEF InRun
    <3>6. Types'
      BY ZenonT(60), <3>1 DEF IInv, Types
    <3>7. Bounds'
      BY ZenonT(60), <3>1 DEF IInv, Bounds
    <3>8. Fresh'
      BY ZenonT(60), <3>1, <3>4, <3>5 DEF IInv, Fresh
    <3>9. Finding'
      BY ZenonT(60), <3>1, <3>4, <3>5 DEF IInv, Finding
    <3>10. Filling'
      BY ZenonT(60), <3>1, <3>2, <3>3, <3>4 DEF IInv, Filling
    <3> QED
      BY ZenonT(60), <3>6, <3>7, <3>8, <3>9, <3>10 DEF IInv
  <2> QED
    BY SMTT(60), <2>1, <2>2 DEF Next, Step
<1> QED
  BY InitInv, <1>1, PTL DEF Spec

\* No read returns bytes older than the last write of the block that had
\* returned when block_read began, on whatever slot that write was.
THEOREM ReadsFresh == Spec => []FreshRead
<1>1. IInv => FreshRead
  BY ZenonT(60) DEF IInv, Filling, FreshRead
<1> QED
  BY Invariance, <1>1, PTL

\* A cached copy or a read-ahead run at the present epoch is what the device
\* holds, unless a write of the block is on its way to being counted.
THEOREM CopiesCurrent == Spec => []CopyCurrent
<1>1. IInv => CopyCurrent
  <2> SUFFICES ASSUME IInv, NEW s \in Slot
               PROVE  /\ \A c \in cache[s] :
                           c.epoch = writes[BucketOf(c.block)] /\ ~Uncounted(c.block)
                           => c.data = device[c.block]
                      /\ run[s].epoch = total =>
                           \A b \in run[s].first..run[s].first + run[s].count - 1 :
                             ~Uncounted(b) => run[s].data[b] = device[b]
    BY ZenonT(60) DEF CopyCurrent
  <2>1. \A b : Uncounted(b) <=> \E t \in Slot : UncountedBy(t, b)
    BY ZenonT(60) DEF Uncounted, UncountedBy
  <2>2. ASSUME NEW c \in cache[s], c.epoch = writes[BucketOf(c.block)], ~Uncounted(c.block)
        PROVE  c.data = device[c.block]
    BY ZenonT(60), <2>1, <2>2 DEF IInv, Fresh, Good
  <2>3. ASSUME run[s].epoch = total,
               NEW b \in run[s].first..run[s].first + run[s].count - 1, ~Uncounted(b)
        PROVE  run[s].data[b] = device[b]
    <3>1. /\ run[s].first \in Block /\ run[s].count \in Nat
          /\ run[s].first + run[s].count <= BlockCount /\ BlockCount \in Nat
      BY SMTT(60), BlockCacheAssumption DEF IInv, Types, Runs
    <3>2. b \in Block /\ InRun(s, b)
      <4>1. PICK f \in Nat, n \in Nat : f = run[s].first /\ n = run[s].count
        BY SMTT(60), <3>1 DEF Block
      <4>2. b \in Nat /\ f <= b /\ b - f < n /\ n # 0 /\ b < BlockCount
        BY SMTT(60), <3>1, <4>1
      <4>3. b \in Block
        BY SMTT(60), <3>1, <4>2 DEF Block
      <4> QED
        BY ZenonT(60), <4>1, <4>2, <4>3 DEF InRun
    <3> QED
      BY ZenonT(60), <2>1, <2>3, <3>2 DEF IInv, Fresh, Good
  <2> QED
    BY ZenonT(60), <2>2, <2>3
<1> QED
  BY Invariance, <1>1, PTL
===========================================================================
