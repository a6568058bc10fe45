---------------------------- MODULE BlockCache ----------------------------
(***************************************************************************)
(* kernel/drivers/block/block_cache.tkb and the block_read, block_write    *)
(* and block_forget_all of kernel/drivers/block/memory.tkb: a read cache   *)
(* and a read-ahead run per BlockSlot, write-through, with copies retired  *)
(* by counting writes.                                                     *)
(*                                                                         *)
(* A block operation holds one BlockSlot, so a slot is a sequential actor  *)
(* and its cache and run are its own.  Slots meet only at the device, which *)
(* its TaskMutex serialises, and at the write counts.  An epoch is a sum   *)
(* of counts loaded one by one while others move: it is any value between  *)
(* the sum when the loop began (`since`) and the sum when it ends.         *)
(***************************************************************************)
EXTENDS Integers, FiniteSets

CONSTANTS
  Slot,            \* BlockSlots
  BlockCount,      \* blocks of the device
  BucketCount,     \* BLOCK_CACHE_BUCKETS
  CacheSlots,      \* BLOCK_CACHE_SLOTS
  RunBlocks,       \* BLOCK_RUN_BLOCKS
  MaxWrites        \* bound: block_write and provisioning calls

ASSUME BlockCacheAssumption ==
  /\ {BlockCount, BucketCount, CacheSlots, RunBlocks} \subseteq Nat \ {0}
  /\ MaxWrites \in Nat

VARIABLES
  device,          \* [Block -> the version it holds]
  writes, total,   \* the sums of every slot's count, per bucket and in all
  cache,           \* [Slot -> set of valid copies]
  run,             \* [Slot -> the read-ahead run; count 0 is none]
  next,            \* [Slot -> the block after its last device read]
  pc, block, since, epoch, data, owed,
  begun,           \* writes begun, for the bound
  done, floor      \* history: the last version whose write returned; the
                   \* same when the slot's read began

Block == 0..BlockCount - 1
Bucket == 0..BucketCount - 1
Version == 0..MaxWrites
BucketOf(b) == b % BucketCount

vars == <<device, writes, total, cache, run, next, pc, block, since, epoch, data,
          owed, begun, done, floor>>
shared == <<device, writes, total, begun, done>>

PCs == {"idle", "find", "epoch", "take", "ahead", "runread", "retake", "read",
        "fill", "got", "before", "write", "note", "forget"}

Total == 0..MaxWrites * BucketCount

\* A slot's cache never holds more than its entries, its run never more than
\* the batch, and the counts stay within the writes begun.
TypeOK ==
  /\ device \in [Block -> Version]
  /\ writes \in [Bucket -> Version]
  /\ total \in Total
  /\ cache \in [Slot -> SUBSET [block : Block, epoch : Version, data : Version]]
  /\ \A s \in Slot : Cardinality(cache[s]) <= CacheSlots
  /\ run \in [Slot -> [first : Block, count : 0..RunBlocks, epoch : Total,
                       data : [Block -> Version]]]
  /\ next \in [Slot -> 0..BlockCount]
  /\ pc \in [Slot -> PCs]
  /\ block \in [Slot -> Block]
  /\ since \in [Slot -> Total]
  /\ epoch \in [Slot -> Version]
  /\ data \in [Slot -> Version]
  /\ owed \in [Slot -> SUBSET Bucket]
  /\ begun \in Version
  /\ done \in [Block -> Version]
  /\ floor \in [Slot -> Version]

Init ==
  /\ device = [b \in Block |-> 0]
  /\ writes = [k \in Bucket |-> 0]
  /\ total = 0
  /\ cache = [s \in Slot |-> {}]
  /\ run = [s \in Slot |-> [first |-> 0, count |-> 0, epoch |-> 0, data |-> [b \in Block |-> 0]]]
  /\ next = [s \in Slot |-> 0]
  /\ pc = [s \in Slot |-> "idle"]
  /\ block = [s \in Slot |-> 0]
  /\ since = [s \in Slot |-> 0]
  /\ epoch = [s \in Slot |-> 0]
  /\ data = [s \in Slot |-> 0]
  /\ owed = [s \in Slot |-> {}]
  /\ begun = 0
  /\ done = [b \in Block |-> 0]
  /\ floor = [s \in Slot |-> 0]

Goto(s, from, to) == pc[s] = from /\ pc' = [pc EXCEPT ![s] = to]
SumBegins(s, sum) == since' = [since EXCEPT ![s] = sum]
SumEnds(s) == SumBegins(s, 0)

\* block_cache_count_write: the slot's one word for the bucket.
CountWrite(k) ==
  /\ writes' = [writes EXCEPT ![k] = @ + 1]
  /\ total' = total + 1

\* The slot is released and the call's locals are gone.
Return(s, from) ==
  /\ Goto(s, from, "idle")
  /\ block' = [block EXCEPT ![s] = 0]
  /\ since' = [since EXCEPT ![s] = 0]
  /\ epoch' = [epoch EXCEPT ![s] = 0]
  /\ data' = [data EXCEPT ![s] = 0]
  /\ floor' = [floor EXCEPT ![s] = 0]

\* A copy put in the set by block_cache_store; which other entry makes room
\* for it is left open.
Store(s, b, e, v) ==
  \E out \in {{}} \cup {{c} : c \in cache[s]} :
    /\ Cardinality((cache[s] \ out) \cup {[block |-> b, epoch |-> e, data |-> v]}) <= CacheSlots
    /\ cache' = [cache EXCEPT ![s] = (@ \ out) \cup {[block |-> b, epoch |-> e, data |-> v]}]
-----------------------------------------------------------------------------
\* block_read: take the slot, and begin block_cache_find's sum.
BlockRead(s, b) ==
  /\ Goto(s, "idle", "find")
  /\ block' = [block EXCEPT ![s] = b]
  /\ SumBegins(s, writes[BucketOf(b)])
  /\ floor' = [floor EXCEPT ![s] = done[b]]
  /\ UNCHANGED <<shared, cache, run, next, epoch, data, owed>>

\* block_cache_read: a hit is a copy of the block at the epoch just summed; a
\* miss goes on to block_cache_epoch_of.
CacheFind(s) ==
  LET b == block[s]
  IN  \E e \in since[s]..writes[BucketOf(b)] :
        LET hits == {c \in cache[s] : c.block = b /\ c.epoch = e}
        IN  /\ IF hits = {}
               THEN /\ Goto(s, "find", "epoch")
                    /\ SumBegins(s, writes[BucketOf(b)])
                    /\ UNCHANGED data
               ELSE /\ Goto(s, "find", "got")
                    /\ \E c \in hits : data' = [data EXCEPT ![s] = c.data]
                    /\ SumEnds(s)
            /\ UNCHANGED <<shared, cache, run, next, block, epoch, owed, floor>>

\* block_cache_epoch_of, then the sum of block_run_hit_here begins.
EpochOf(s) ==
  /\ Goto(s, "epoch", "take")
  /\ \E e \in since[s]..writes[BucketOf(block[s])] : epoch' = [epoch EXCEPT ![s] = e]
  /\ SumBegins(s, total)
  /\ UNCHANGED <<shared, cache, run, next, block, data, owed, floor>>

RunHit(s, e) ==
  /\ run[s].count # 0
  /\ run[s].epoch = e
  /\ block[s] >= run[s].first
  /\ block[s] - run[s].first < run[s].count

\* block_run_take, before and after block_run_read: the run answers, or the
\* first time a sequential read wants a new run, or the single read follows.
RunTake(s, from) ==
  /\ \E e \in since[s]..total :
       IF RunHit(s, e)
       THEN Goto(s, from, "fill") /\ data' = [data EXCEPT ![s] = run[s].data[block[s]]]
       ELSE /\ Goto(s, from, IF from = "take" /\ next[s] = block[s] THEN "ahead" ELSE "read")
            /\ UNCHANGED data
  /\ SumEnds(s)
  /\ UNCHANGED <<shared, cache, run, next, block, epoch, owed, floor>>

\* block_run_read up to its sum: no run is left behind if it fails.
RunBegin(s) ==
  /\ Goto(s, "ahead", "runread")
  /\ run' = [run EXCEPT ![s].count = 0]
  /\ SumBegins(s, total)
  /\ UNCHANGED <<shared, cache, next, block, epoch, data, owed, floor>>

\* The run's epoch and, under the device lock, its transfer, which may fail.
\* A sum that ends before the transfer has one of the values it could still
\* have at the transfer.
RunRead(s) ==
  LET left == BlockCount - block[s]
      count == IF left > RunBlocks THEN RunBlocks ELSE left
      read == [b \in Block |-> IF b \in block[s]..block[s] + count - 1 THEN device[b] ELSE 0]
  IN  /\ \/ /\ Goto(s, "runread", "retake")
            /\ \E e \in since[s]..total :
                 run' = [run EXCEPT ![s] = [first |-> block[s], count |-> count,
                                            epoch |-> e, data |-> read]]
            /\ next' = [next EXCEPT ![s] = block[s] + count]
            /\ SumBegins(s, total)
         \/ /\ Goto(s, "runread", "read")
            /\ SumEnds(s)
            /\ UNCHANGED <<run, next>>
      /\ UNCHANGED <<shared, cache, block, epoch, data, owed, floor>>

\* block_read_device and block_run_note_single; a failed read ends the call.
ReadDevice(s) ==
  /\ \/ /\ Goto(s, "read", "fill")
        /\ data' = [data EXCEPT ![s] = device[block[s]]]
        /\ next' = [next EXCEPT ![s] = block[s] + 1]
        /\ UNCHANGED <<block, since, epoch, floor>>
     \/ /\ Return(s, "read")
        /\ UNCHANGED next
  /\ UNCHANGED <<shared, cache, run, owed>>

\* A mutant of CacheFill: the epoch is taken after the device read.
CacheFillLate(s) ==
  /\ Goto(s, "fill", "got")
  /\ Store(s, block[s], writes[BucketOf(block[s])], data[s])
  /\ UNCHANGED <<shared, run, next, block, since, epoch, data, owed, floor>>

\* block_cache_fill, at the epoch taken before the copy was made.
CacheFill(s) ==
  /\ Goto(s, "fill", "got")
  /\ Store(s, block[s], epoch[s], data[s])
  /\ UNCHANGED <<shared, run, next, block, since, epoch, data, owed, floor>>

\* block_read returns its bytes and the slot.
ReadReturn(s) ==
  /\ Return(s, "got")
  /\ UNCHANGED <<shared, cache, run, next, owed>>
-----------------------------------------------------------------------------
\* block_write: take the slot, and begin block_cache_epoch_of's sum.
BlockWrite(s, b) ==
  /\ begun < MaxWrites
  /\ begun' = begun + 1
  /\ Goto(s, "idle", "before")
  /\ block' = [block EXCEPT ![s] = b]
  /\ SumBegins(s, writes[BucketOf(b)])
  /\ UNCHANGED <<device, writes, total, done, cache, run, next, epoch, data, owed, floor>>

EpochBefore(s) ==
  /\ Goto(s, "before", "write")
  /\ \E e \in since[s]..writes[BucketOf(block[s])] : epoch' = [epoch EXCEPT ![s] = e]
  /\ SumEnds(s)
  /\ UNCHANGED <<shared, cache, run, next, block, data, owed, floor>>

\* block_write_device: done, or refused with or without the block changed.  A
\* write's version is its place in the device's order; data is 0 if refused.
WriteDevice(s) ==
  LET b == block[s]
      version == device[b] + 1
  IN  /\ Goto(s, "write", "note")
      /\ \/ /\ device' = [device EXCEPT ![b] = version]
            /\ data' = [data EXCEPT ![s] = version]
         \/ /\ device' \in {device, [device EXCEPT ![b] = version]}
            /\ data' = [data EXCEPT ![s] = 0]
      /\ UNCHANGED <<writes, total, begun, done, cache, run, next, block, since, epoch, owed, floor>>

\* A mutant of NoteWrite: a refused write is not counted.
NoteWriteIfWritten(s) ==
  /\ Return(s, "note")
  /\ IF data[s] # 0
     THEN /\ CountWrite(BucketOf(block[s]))
          /\ Store(s, block[s], epoch[s] + 1, data[s])
          /\ done' = [done EXCEPT ![block[s]] = IF data[s] > @ THEN data[s] ELSE @]
     ELSE UNCHANGED <<writes, total, cache, done>>
  /\ UNCHANGED <<device, begun, run, next, owed>>

\* block_cache_note_write and the return: the write is counted whatever its
\* outcome, and the writer keeps its bytes at the epoch before plus its count.
NoteWrite(s) ==
  LET b == block[s]
  IN  /\ Return(s, "note")
      /\ CountWrite(BucketOf(b))
      /\ IF data[s] # 0
         THEN /\ Store(s, b, epoch[s] + 1, data[s])
              /\ done' = [done EXCEPT ![b] = IF data[s] > @ THEN data[s] ELSE @]
         ELSE UNCHANGED <<cache, done>>
      /\ UNCHANGED <<device, begun, run, next, owed>>

\* A write around block_write (usb_provision_rootfs), with the block_forget_all
\* that follows it: every bucket is owed a count.
Provision(s, b) ==
  /\ begun < MaxWrites
  /\ begun' = begun + 1
  /\ Goto(s, "idle", "forget")
  /\ block' = [block EXCEPT ![s] = b]
  /\ device' = [device EXCEPT ![b] = @ + 1]
  /\ data' = [data EXCEPT ![s] = device'[b]]
  /\ owed' = [owed EXCEPT ![s] = Bucket]
  /\ UNCHANGED <<writes, total, done, cache, run, next, since, epoch, floor>>

\* block_cache_forget_all, one bucket a step.
ForgetOne(s) ==
  /\ pc[s] = "forget"
  /\ \E k \in owed[s] :
       /\ \A j \in owed[s] : k <= j
       /\ CountWrite(k)
       /\ owed' = [owed EXCEPT ![s] = @ \ {k}]
       /\ IF owed[s] = {k}
          THEN /\ Return(s, "forget")
               /\ done' = [done EXCEPT ![block[s]] = IF data[s] > @ THEN data[s] ELSE @]
          ELSE UNCHANGED <<pc, block, since, epoch, data, floor, done>>
  /\ UNCHANGED <<device, begun, cache, run, next>>

Next ==
  \E s \in Slot :
    \/ \E b \in Block : BlockRead(s, b) \/ BlockWrite(s, b) \/ Provision(s, b)
    \/ CacheFind(s) \/ EpochOf(s)
    \/ RunTake(s, "take") \/ RunBegin(s) \/ RunRead(s) \/ RunTake(s, "retake")
    \/ ReadDevice(s) \/ CacheFill(s) \/ ReadReturn(s)
    \/ EpochBefore(s) \/ WriteDevice(s) \/ NoteWrite(s)
    \/ ForgetOne(s)

Spec == Init /\ [][Next]_vars
-----------------------------------------------------------------------------
(***************************************************************************)
(* What block_read returns is no older than the last write of the block    *)
(* that had returned when the read began, on whatever slot: no cached copy *)
(* and no read-ahead run answers once a write has retired it.              *)
(***************************************************************************)
FreshRead == \A s \in Slot : pc[s] = "got" => data[s] >= floor[s]

\* A write of b that has reached the device and is still to be counted in b's
\* bucket.
Uncounted(b) ==
  \E s \in Slot : block[s] = b /\ (pc[s] = "note" \/ BucketOf(b) \in owed[s])

(***************************************************************************)
(* A copy or a run at the present epoch is what the device holds, unless a *)
(* write of the block is on its way to being counted.                      *)
(***************************************************************************)
CopyCurrent ==
  \A s \in Slot :
    /\ \A c \in cache[s] :
         c.epoch = writes[BucketOf(c.block)] /\ ~Uncounted(c.block) => c.data = device[c.block]
    /\ run[s].epoch = total =>
         \A b \in run[s].first..run[s].first + run[s].count - 1 :
           ~Uncounted(b) => run[s].data[b] = device[b]
=============================================================================
