----------------------------- MODULE CopyOnWrite -----------------------------
(***************************************************************************)
(* The user pages of the processes: the mapping count of a physical page   *)
(* (kernel/mm/page.tkb), the last-level entries of each root and what is   *)
(* done to them (kernel/mm/address_space.tkb, over kernel/arch/arm64/mm/   *)
(* mmu.tkb), and the copy of a root at fork, with its undo                 *)
(* (kernel/mm/process_image.tkb).                                          *)
(*                                                                         *)
(* Any number of processes are in these operations at once, each on its    *)
(* own core; a process is in one at a time, and a step of it is at most    *)
(* one hold of the page lock.  What its cores may have cached of a root is *)
(* kept beside the entries: an ASID names one root here (see Asid).        *)
(***************************************************************************)
EXTENDS Integers, FiniteSets

CONSTANTS
    Roots,       \* the slots a process and its root live in
    Vas,         \* the user pages of a root
    Pages,       \* the physical pages
    Values,      \* what a page can hold
    Zero,        \* a page never written
    Unmapped,    \* a user page with no entry
    Gone,        \* the memory of no process
    NoPage,      \* no physical page
    NoRoot,      \* no root
    NoVa         \* no user page

ASSUME CopyOnWriteAssumption ==
    /\ Zero \in Values /\ Unmapped \notin Values
    /\ NoPage \notin Pages /\ NoRoot \notin Roots /\ NoVa \notin Vas
    /\ Gone \notin [Vas -> Values \cup {Unmapped}]
    /\ IsFiniteSet(Roots) /\ IsFiniteSet(Vas)

VARIABLES
    state,       \* of each slot: free, building, live or dying
    pte,         \* the last-level entry of each user page
    tlb,         \* what may be cached of it, since its last invalidation
    occupied,    \* the pages PageMeta marks occupied
    refs,        \* PageMeta.map_refcount of each page
    content,     \* what each page holds
    limit,       \* how many roots a fork has seen there are
    op           \* the operation each process is in

vars == <<state, pte, tlb, occupied, refs, content, limit, op>>

\* A writable entry, and one that is read-only with USER_COW_BIT.  Read-only
\* text and MAP_SHARED pages are neither, and fork leaves theirs as it is.
Entry(p, mode) == [page |-> p, mode |-> mode]
NoEntry == Entry(NoPage, "none")
Present(r, v) == pte[r][v] # NoEntry
Mapped(r) == {v \in Vas : Present(r, v)}

\* user: none; fork, retain, entry, undo: into or out of dest; sole, copy: a
\* write fault, by what it saw of the count; map: page is to replace the one
\* at va; release: page has left the table; exec, exit: every mapping goes.
Steps == {"user", "fork", "retain", "entry", "undo", "sole", "copy", "map",
          "release", "exec", "exit"}
Op(at, va, page, dest, then) ==
    [at |-> at, va |-> va, page |-> page, dest |-> dest, then |-> then]
Plain(at) == Op(at, NoVa, NoPage, NoRoot, "user")
At(r, step) == op[r].at = step
Runs(r) == state[r] = "live" /\ At(r, "user")
Become(r, o) == op' = [op EXCEPT ![r] = o]

\* A mutant of LiveCount: neither root 0 nor the root being built counts.
LiveCountRunning == Cardinality({r \in Roots : state[r] = "live"})

\* address_space_live_count: the live roots and root 0.
LiveCount == Cardinality({r \in Roots : state[r] # "free"}) + 1

Init ==
    /\ \E r \in Roots :
          state = [s \in Roots |-> IF s = r THEN "live" ELSE "free"]
    /\ pte = [r \in Roots |-> [v \in Vas |-> NoEntry]]
    /\ tlb = [r \in Roots |-> [v \in Vas |-> {}]]
    /\ occupied = {}
    /\ refs = [p \in Pages |-> 0]
    /\ content = [p \in Pages |-> Zero]
    /\ limit = [r \in Roots |-> 0]
    /\ op = [r \in Roots |-> Plain("user")]

-----------------------------------------------------------------------------
(* The table and the pages.                                                 *)

\* A mutant of PteUpdate: the new entry is made without the invalidation.
PteUpdateUnflushed(r, v, e) ==
    /\ pte' = [pte EXCEPT ![r][v] = e]
    /\ tlb' = [tlb EXCEPT ![r][v] = @ \cup ({e} \ {NoEntry})]

\* mmu_pte_update of some entries of one root: an entry that was there is
\* broken and invalidated on every core before the new one is made.  A root
\* being built has no number and has never been walked.
PteUpdate(r, v, e) ==
    /\ pte' = [pte EXCEPT ![r][v] = e]
    /\ tlb' = [tlb EXCEPT ![r][v] = {e} \ {NoEntry}]

\* page_mapping_release_physical: one hold for the count and the free.
ReleasePage(p) ==
    /\ refs' = [refs EXCEPT ![p] = @ - 1]
    /\ occupied' = IF refs[p] = 1 THEN occupied \ {p} ELSE occupied
    /\ content' = IF refs[p] = 1 THEN [content EXCEPT ![p] = Zero]
                  ELSE content

-----------------------------------------------------------------------------
(* What a process does to its own pages.                                    *)

\* A store, through any translation its core may hold.
Store(r, v, x) ==
    /\ Runs(r)
    /\ \E e \in tlb[r][v] :
          /\ e.mode = "rw"
          /\ content' = [content EXCEPT ![e.page] = x]
    /\ UNCHANGED <<state, pte, tlb, occupied, refs, limit, op>>

\* The first touch of a page, or exec's map of one: address_space_map_page.
Touch(r, v, p) ==
    /\ Runs(r) /\ ~Present(r, v)
    /\ p \notin occupied
    /\ occupied' = occupied \cup {p}
    /\ content' = [content EXCEPT ![p] = Zero]
    /\ PteUpdate(r, v, Entry(p, "rw"))
    /\ refs' = [refs EXCEPT ![p] = 1]
    /\ UNCHANGED <<state, limit, op>>

\* munmap, and MADV_DONTNEED of an mmap page: address_space_pte_clear.
Unmap(r, v) ==
    /\ Runs(r) /\ Present(r, v)
    /\ PteUpdate(r, v, NoEntry)
    /\ Become(r, Op("release", v, pte[r][v].page, NoRoot, "user"))
    /\ UNCHANGED <<state, occupied, refs, content, limit>>

\* A mutant of Fault: a page with one other user passes for a sole mapping.
FaultSoleOfTwo(r, v) ==
    /\ Runs(r)
    /\ pte[r][v].mode = "cow"
    /\ Become(r, Op(IF refs[pte[r][v].page] <= 2 THEN "sole" ELSE "copy",
                    v, NoPage, NoRoot, "user"))
    /\ UNCHANGED <<state, pte, tlb, occupied, refs, content, limit>>

\* address_space_resolve_cow looks at the count, in a hold of its own ...
Fault(r, v) ==
    /\ Runs(r)
    /\ pte[r][v].mode = "cow"
    /\ Become(r, Op(IF refs[pte[r][v].page] = 1 THEN "sole" ELSE "copy",
                    v, NoPage, NoRoot, "user"))
    /\ UNCHANGED <<state, pte, tlb, occupied, refs, content, limit>>

\* ... gives a page nobody else maps its permission back ...
Sole(r) ==
    /\ At(r, "sole")
    /\ PteUpdate(r, op[r].va, Entry(pte[r][op[r].va].page, "rw"))
    /\ Become(r, Plain("user"))
    /\ UNCHANGED <<state, occupied, refs, content, limit>>

\* ... and copies any other (address_space_replace_with_copy), unless there
\* is no memory, in which case the entry stays and the fault is refused.
Copy(r, p) ==
    /\ At(r, "copy")
    /\ p \notin occupied
    /\ occupied' = occupied \cup {p}
    /\ content' = [content EXCEPT ![p] = content[pte[r][op[r].va].page]]
    /\ Become(r, Op("map", op[r].va, p, NoRoot, "user"))
    /\ UNCHANGED <<state, pte, tlb, refs, limit>>

CopyRefused(r) ==
    /\ At(r, "copy")
    /\ Become(r, Plain("user"))
    /\ UNCHANGED <<state, pte, tlb, occupied, refs, content, limit>>

\* MADV_DONTNEED of a page that stays mapped: address_space_replace_with_zero.
ReplaceWithZero(r, v, p) ==
    /\ Runs(r) /\ Present(r, v)
    /\ p \notin occupied
    /\ occupied' = occupied \cup {p}
    /\ content' = [content EXCEPT ![p] = Zero]
    /\ Become(r, Op("map", v, p, NoRoot, "user"))
    /\ UNCHANGED <<state, pte, tlb, refs, limit>>

\* The new mapping is whole before the old page's reference goes.
Map(r) ==
    LET v == op[r].va IN
    /\ At(r, "map")
    /\ PteUpdate(r, v, Entry(op[r].page, "rw"))
    /\ refs' = [refs EXCEPT ![op[r].page] = 1]
    /\ Become(r, Op("release", v, pte[r][v].page, NoRoot, "user"))
    /\ UNCHANGED <<state, occupied, content, limit>>

Release(r) ==
    /\ At(r, "release")
    /\ ReleasePage(op[r].page)
    /\ Become(r, Op(op[r].then, NoVa, NoPage, op[r].dest, "user"))
    /\ UNCHANGED <<state, pte, tlb, limit>>

-----------------------------------------------------------------------------
(* Fork: process_image_clone_vm_begin, and the undo of a failed one.        *)

Fork(r, q) ==
    /\ Runs(r)
    /\ state[q] = "free"
    /\ state' = [state EXCEPT ![q] = "building"]
    /\ Become(r, Op("fork", NoVa, NoPage, q, "user"))
    /\ UNCHANGED <<pte, tlb, occupied, refs, content, limit>>

\* One page of the parent's: the fork asks how many roots there are, in a
\* hold of the pool's lock ...
ForkCount(r, v) ==
    /\ At(r, "fork")
    /\ Present(r, v) /\ ~Present(op[r].dest, v)
    /\ limit' = [limit EXCEPT ![r] = LiveCount]
    /\ Become(r, Op("retain", v, pte[r][v].page, op[r].dest, "fork"))
    /\ UNCHANGED <<state, pte, tlb, occupied, refs, content>>

\* page_mapping_retain_physical: refused of a page not mapped, and of one
\* mapped into as many roots as there are.
Retainable(p, most) == p \in occupied /\ refs[p] \in 1 .. most - 1

\* ... and takes the page's count, in one of the page lock, against what it
\* was told: others may have forked or exited since ...
ForkRetain(r) ==
    /\ At(r, "retain")
    /\ IF Retainable(op[r].page, limit[r])
       THEN /\ refs' = [refs EXCEPT ![op[r].page] = @ + 1]
            /\ Become(r, Op("entry", op[r].va, op[r].page, op[r].dest, "fork"))
       ELSE /\ Become(r, Op("undo", NoVa, NoPage, op[r].dest, "user"))
            /\ UNCHANGED refs
    /\ limit' = [limit EXCEPT ![r] = 0]
    /\ UNCHANGED <<state, pte, tlb, occupied, content>>

\* A mutant of ForkEntry: the parent keeps its write permission.
ForkEntryParentWrites(r) ==
    LET q == op[r].dest
        v == op[r].va
    IN
    /\ At(r, "entry")
    /\ pte' = [pte EXCEPT ![q][v] = Entry(op[r].page, "cow")]
    /\ Become(r, Op("fork", NoVa, NoPage, q, "user"))
    /\ UNCHANGED <<state, tlb, occupied, refs, content, limit>>

\* ... then the child's entry is made and the parent's loses its write
\* permission.  The parent is in its fork and the child has not run, so
\* nobody looks at either entry in between ...
ForkEntry(r) ==
    LET q == op[r].dest
        v == op[r].va
        e == Entry(op[r].page, "cow")
    IN
    /\ At(r, "entry")
    /\ pte' = [pte EXCEPT ![q][v] = e, ![r][v] = e]
    /\ tlb' = [tlb EXCEPT ![r][v] = {e}]
    /\ Become(r, Op("fork", NoVa, NoPage, q, "user"))
    /\ UNCHANGED <<state, occupied, refs, content, limit>>

\* A mutant of ForkEntryRefused: the reference is not given back.
ForkEntryRefusedKept(r) ==
    /\ At(r, "entry")
    /\ Become(r, Op("undo", NoVa, NoPage, op[r].dest, "user"))
    /\ UNCHANGED <<state, pte, tlb, occupied, refs, content, limit>>

\* ... unless there is no memory for the child's table: the reference just
\* taken is given back before the undo.
ForkEntryRefused(r) ==
    /\ At(r, "entry")
    /\ Become(r, Op("release", op[r].va, op[r].page, op[r].dest, "undo"))
    /\ UNCHANGED <<state, pte, tlb, occupied, refs, content, limit>>

\* Every entry is copied, and the child may run.
ForkDone(r) ==
    LET q == op[r].dest IN
    /\ At(r, "fork")
    /\ Mapped(r) # {} /\ Mapped(q) = Mapped(r)
    /\ state' = [state EXCEPT ![q] = "live"]
    /\ tlb' = [tlb EXCEPT ![q] = [v \in Vas |-> {pte[q][v]} \ {NoEntry}]]
    /\ Become(r, Plain("user"))
    /\ UNCHANGED <<pte, occupied, refs, content, limit>>

\* No memory for the region list, no descriptors for the child, or nothing
\* to copy: process_clone_vm_rollback.
ForkFailed(r) ==
    /\ At(r, "fork")
    /\ Become(r, Op("undo", NoVa, NoPage, op[r].dest, "user"))
    /\ UNCHANGED <<state, pte, tlb, occupied, refs, content, limit>>

-----------------------------------------------------------------------------
(* Exec and exit, and the loop they share with the undo of a fork:          *)
(* address_space_release_user_mappings.                                     *)

Exec(r) ==
    /\ Runs(r)
    /\ Become(r, Plain("exec"))
    /\ UNCHANGED <<state, pte, tlb, occupied, refs, content, limit>>

Exit(r) ==
    /\ Runs(r)
    /\ state' = [state EXCEPT ![r] = "dying"]
    /\ Become(r, Plain("exit"))
    /\ UNCHANGED <<pte, tlb, occupied, refs, content, limit>>

Emptied(r) == IF At(r, "undo") THEN op[r].dest ELSE r

\* An entry is broken, and invalidated on every core, before its page goes.
ReleaseMapping(r, v) ==
    /\ op[r].at \in {"undo", "exec", "exit"}
    /\ Present(Emptied(r), v)
    /\ PteUpdate(Emptied(r), v, NoEntry)
    /\ Become(r, Op("release", v, pte[Emptied(r)][v].page, op[r].dest,
                    op[r].at))
    /\ UNCHANGED <<state, occupied, refs, content, limit>>

ReleasedMappings(r) ==
    /\ op[r].at \in {"undo", "exec", "exit"}
    /\ Mapped(Emptied(r)) = {}
    /\ state' = IF At(r, "exec") THEN state
                ELSE [state EXCEPT ![Emptied(r)] = "free"]
    /\ Become(r, Plain("user"))
    /\ UNCHANGED <<pte, tlb, occupied, refs, content, limit>>

Next ==
    \E r \in Roots :
       \/ \E v \in Vas :
             \/ \E x \in Values : Store(r, v, x)
             \/ \E p \in Pages : Touch(r, v, p) \/ ReplaceWithZero(r, v, p)
             \/ Unmap(r, v) \/ Fault(r, v)
             \/ ForkCount(r, v) \/ ReleaseMapping(r, v)
       \/ \E p \in Pages : Copy(r, p)
       \/ Sole(r) \/ CopyRefused(r) \/ Map(r) \/ Release(r)
       \/ \E q \in Roots : Fork(r, q)
       \/ ForkRetain(r) \/ ForkEntry(r) \/ ForkEntryRefused(r)
       \/ ForkDone(r) \/ ForkFailed(r)
       \/ Exec(r) \/ Exit(r) \/ ReleasedMappings(r)

Spec == Init /\ [][Next]_vars

-----------------------------------------------------------------------------
(* Properties.                                                              *)

Entries == {NoEntry} \cup [page : Pages, mode : {"rw", "cow"}]

\* The type invariant.
TypeOK ==
    /\ state \in [Roots -> {"free", "building", "live", "dying"}]
    /\ pte \in [Roots -> [Vas -> Entries]]
    /\ tlb \in [Roots -> [Vas -> SUBSET (Entries \ {NoEntry})]]
    /\ occupied \subseteq Pages
    /\ refs \in [Pages -> 0 .. Cardinality(Roots)]
    /\ content \in [Pages -> Values]
    /\ limit \in [Roots -> 0 .. Cardinality(Roots) + 1]
    /\ op \in [Roots -> [at : Steps, va : Vas \cup {NoVa},
                         page : Pages \cup {NoPage},
                         dest : Roots \cup {NoRoot}, then : Steps]]

\* The entries that map a page, and the operations that hold a reference no
\* entry stands for.
Maps(p) == {m \in Roots \X Vas : pte[m[1]][m[2]].page = p}
Owes(p) == {r \in Roots : op[r].at \in {"entry", "release"} /\ op[r].page = p}

\* The mapping count is what it says: the entries that name the page, the
\* fork that is about to make one and the releases under way, so that a page
\* is free exactly when nobody maps it and nobody is about to, whichever of its
\* holders lets go last.
CountExact ==
    \A p \in Pages :
       /\ refs[p] = Cardinality(Maps(p)) + Cardinality(Owes(p))
       /\ p \in occupied <=> \/ refs[p] > 0
                             \/ \E r \in Roots : At(r, "map") /\ op[r].page = p

\* A process that may write a page is alone with it, and one that gives a
\* page its permission back on the count it saw still is; only its own fork
\* may hold the page besides.
WriterAlone ==
    \A r \in Roots : \A v \in Vas :
       \/ pte[r][v].mode = "rw"
       \/ At(r, "sole") /\ op[r].va = v
       => /\ Maps(pte[r][v].page) = {<<r, v>>}
          /\ Owes(pte[r][v].page) \subseteq {r}

\* What a core may have cached of a root is what the root's entry says, since
\* mmu_pte_update returned.
Coherent ==
    \A r \in Roots : \A v \in Vas : tlb[r][v] \subseteq {pte[r][v]}

\* No core reaches a page that has gone to somebody else: "its physical page
\* may be released only after this function returns" (mmu.tkb:54).  The page
\* a cached translation leads to is never free, and one that may be written
\* is reached by no other, in a table or cached, of any root.
TranslationsHeld ==
    \A r \in Roots : \A v \in Vas : \A e \in tlb[r][v] :
       /\ e.page \in occupied
       /\ e.mode = "rw" =>
             \A s \in Roots : \A w \in Vas :
                <<s, w>> # <<r, v>> =>
                   /\ pte[s][w].page # e.page
                   /\ \A f \in tlb[s][w] : f.page # e.page

\* A page that a fork is to share is mapped into fewer roots than there are,
\* both when the fork reads how many and when it takes its count: "a page can
\* be mapped into an address space at most once, so it cannot be mapped into
\* more address spaces than exist" (address_space.tkb:172).  A count in order
\* never refuses a fork whose limit is still true.
RetainWithinBound ==
    \A r \in Roots :
       /\ \A v \in Vas :
             At(r, "fork") /\ Present(r, v) /\ ~Present(op[r].dest, v)
             => Retainable(pte[r][v].page, LiveCount)
       /\ At(r, "retain") => Retainable(op[r].page, LiveCount)

\* A fork is never refused by the count: "A page mapped into more address
\* spaces than exist says the count no longer matches reality"
\* (process_image.tkb:1178).  Two forks of the page between the two holds are
\* enough to break it.
RetainNeverRefused ==
    \A r \in Roots : At(r, "retain") => Retainable(op[r].page, limit[r])

\* What the processes see of all this.
Memory ==
    [r \in Roots |->
       IF state[r] # "live" THEN Gone
       ELSE [v \in Vas |-> IF Present(r, v) THEN content[pte[r][v].page]
                           ELSE Unmapped]]
P == INSTANCE PrivateMemory WITH memory <- Memory

\* Sharing pages until they are written is invisible: the memory of each
\* process is its own, and a fork gives the child a copy of the parent's.
PrivateMemory == P!Spec
=============================================================================
