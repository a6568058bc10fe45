-------------------------- MODULE CopyOnWriteProofs --------------------------
(***************************************************************************)
(* CopyOnWrite, for any number of roots, pages and user pages: that the    *)
(* mapping counts are exact and within their bound, that a page that is    *)
(* written is its writer's alone, that no core reaches a page that has     *)
(* gone to another, and that the processes see private memories.           *)
(***************************************************************************)
EXTENDS CopyOnWrite, TLAPS

Operations == [at : Steps, va : Vas \cup {NoVa}, page : Pages \cup {NoPage},
               dest : Roots \cup {NoRoot}, then : Steps]

\* The types this needs: those of everything but the counts.
Types ==
    /\ state \in [Roots -> {"free", "building", "live", "dying"}]
    /\ pte \in [Roots -> [Vas -> Entries]]
    /\ tlb \in [Roots -> [Vas -> SUBSET (Entries \ {NoEntry})]]
    /\ op \in [Roots -> Operations]

\* A process that makes or unmakes the root of a child.
Building(r) ==
    \/ op[r].at \in {"fork", "retain", "entry", "undo"}
    \/ op[r].at = "release" /\ op[r].then = "undo"

\* The steps whose entry or page is not their own to choose.
OpOK(r) ==
    /\ op[r].at \in {"sole", "copy", "map", "retain", "entry"} => op[r].va \in Vas
    /\ op[r].at \in {"map", "retain", "entry"} => op[r].page \in Pages
    /\ op[r].at = "release" => op[r].then \in {"user", "undo", "exec", "exit"}
    /\ op[r].at = "sole" => pte[r][op[r].va] # NoEntry

\* A root nobody runs on has no process in an operation and nothing cached; a
\* root being built is built by one process.
BuildOK ==
    /\ \A r \in Roots : state[r] \in {"free", "building"} =>
          op[r].at = "user" /\ \A v \in Vas : tlb[r][v] = {}
    /\ \A r \in Roots : Building(r) =>
          op[r].dest \in Roots /\ state[op[r].dest] = "building"
    /\ \A r, s \in Roots :
          Building(r) /\ Building(s) /\ op[r].dest = op[s].dest => r = s
    /\ \A r \in Roots : OpOK(r)

IInv == Types /\ BuildOK /\ Coherent

-----------------------------------------------------------------------------
(* The two ways a step changes an operation and the entries.                *)

\* What a process goes on to, in an operation of its own: it builds no root
\* it did not build before.
GoesOn(r) ==
    /\ state[r] \in {"live", "dying"}
    /\ op' \in [Roots -> Operations]
    /\ \A s \in Roots \ {r} : op'[s] = op[s]
    /\ Building(r)' => Building(r) /\ op'[r].dest = op[r].dest
    /\ OpOK(r)'

\* A step that changes no entry.
LEMMA Quiet ==
    ASSUME IInv, NEW r \in Roots, GoesOn(r), UNCHANGED <<state, pte, tlb>>
    PROVE  IInv'
<1> USE DEF IInv
<1>1. Types'
  BY ZenonT(60) DEF Types, GoesOn
<1>2. \A s \in Roots : OpOK(s)'
  BY SMTT(60) DEF BuildOK, OpOK, GoesOn
<1>3. \A s \in Roots : Building(s)' => Building(s) /\ op'[s].dest = op[s].dest
  BY ZenonT(60) DEF Building, GoesOn
<1>4. \A s \in Roots : state[s] \in {"free", "building"} =>
         op'[s].at = "user" /\ \A v \in Vas : tlb[s][v] = {}
  BY ZenonT(60) DEF BuildOK, GoesOn
<1>5. BuildOK'
  BY ZenonT(60), <1>2, <1>3, <1>4 DEF BuildOK
<1> QED
  BY ZenonT(60), <1>1, <1>5 DEF Coherent

\* mmu_pte_update of an entry of the process's own root, or the clearing of
\* one of the root it takes back.
LEMMA Update ==
    ASSUME IInv, NEW r \in Roots, GoesOn(r),
           NEW d \in Roots, NEW v \in Vas, NEW e \in Entries,
           PteUpdate(d, v, e), UNCHANGED state,
           d = r \/ (state[d] = "building" /\ e = NoEntry)
    PROVE  IInv'
<1> USE DEF IInv
<1>1. {e} \ {NoEntry} \in SUBSET (Entries \ {NoEntry})
  OBVIOUS
<1>2. Types'
  BY ZenonT(60), <1>1 DEF Types, GoesOn, PteUpdate
<1>3. \A s \in Roots \ {d} : pte'[s] = pte[s] /\ tlb'[s] = tlb[s]
  BY ZenonT(60) DEF Types, PteUpdate
<1>4. \A u \in Vas :
         /\ pte'[d][u] = IF u = v THEN e ELSE pte[d][u]
         /\ tlb'[d][u] = IF u = v THEN {e} \ {NoEntry} ELSE tlb[d][u]
  BY ZenonT(60) DEF Types, PteUpdate
<1>5. Coherent'
  <2>1. \A u \in Vas : tlb'[d][u] \subseteq {pte'[d][u]}
    BY ZenonT(60), <1>4 DEF Coherent
  <2> QED
    BY ZenonT(60), <1>3, <2>1 DEF Coherent
<1>6. \A s \in Roots : OpOK(s)'
  <2>1. ASSUME NEW s \in Roots \ {r}
        PROVE  OpOK(s)'
    <3>1. OpOK(s) /\ op'[s] = op[s]
      BY ZenonT(60), <2>1 DEF BuildOK, GoesOn
    <3>2. CASE s # d
      BY ZenonT(60), <1>3, <2>1, <3>1, <3>2 DEF OpOK
    <3>3. CASE s = d
      <4>1. op[s].at = "user"
        BY ZenonT(60), <2>1, <3>3 DEF BuildOK
      <4> QED
        BY ZenonT(60), <3>1, <4>1 DEF OpOK
    <3> QED
      BY ZenonT(60), <3>2, <3>3
  <2> QED
    BY ZenonT(60), <2>1 DEF GoesOn
<1>7. \A s \in Roots : Building(s)' => Building(s) /\ op'[s].dest = op[s].dest
  BY ZenonT(60) DEF Building, GoesOn
<1>8. \A s \in Roots : state[s] \in {"free", "building"} =>
         op'[s].at = "user" /\ \A u \in Vas : tlb'[s][u] = {}
  <2> SUFFICES ASSUME NEW s \in Roots, state[s] \in {"free", "building"}
               PROVE  op'[s].at = "user" /\ \A u \in Vas : tlb'[s][u] = {}
    OBVIOUS
  <2>1. s # r /\ op'[s] = op[s] /\ op[s].at = "user" /\ \A u \in Vas : tlb[s][u] = {}
    BY ZenonT(60) DEF BuildOK, GoesOn
  <2> QED
    BY ZenonT(60), <1>3, <1>4, <2>1
<1>9. BuildOK'
  BY ZenonT(60), <1>6, <1>7, <1>8 DEF BuildOK
<1> QED
  BY ZenonT(60), <1>2, <1>5, <1>9

\* Beginning an operation that builds nothing.
LEMMA GoesOnTo ==
    ASSUME IInv, NEW r \in Roots, state[r] \in {"live", "dying"},
           NEW a \in Steps \ {"fork", "retain", "entry", "undo", "map", "sole", "copy"},
           NEW u \in Vas \cup {NoVa}, NEW p \in Pages \cup {NoPage},
           NEW q \in Roots \cup {NoRoot},
           NEW t \in {"user", "undo", "exec", "exit"},
           Become(r, Op(a, u, p, q, t)),
           a = "release" /\ t = "undo" => Building(r) /\ q = op[r].dest
    PROVE  GoesOn(r)
<1>1. Op(a, u, p, q, t) \in Operations
  BY ZenonT(60) DEF Op, Operations, Steps
<1>2. op' \in [Roots -> Operations] /\ op'[r] = Op(a, u, p, q, t)
      /\ \A s \in Roots \ {r} : op'[s] = op[s]
  BY ZenonT(60), <1>1 DEF Become, IInv, Types
<1> QED
  BY SMTT(60), <1>2 DEF GoesOn, Building, OpOK, Op

\* A process in an operation is in a root that is not being built.
LEMMA Acting ==
    ASSUME IInv, NEW r \in Roots, Runs(r) \/ op[r].at # "user"
    PROVE  state[r] \in {"live", "dying"}
BY ZenonT(60) DEF IInv, Types, BuildOK, Runs

-----------------------------------------------------------------------------
(* Every step keeps the invariant.                                          *)

\* One step per action of CopyOnWrite.
LEMMA NextInv ==
    ASSUME IInv, [Next]_vars
    PROVE  IInv'
<1>0. CASE UNCHANGED vars
  BY SMTT(60), <1>0 DEF IInv, Types, BuildOK, Building, OpOK, Coherent, vars
<1>1. ASSUME NEW r \in Roots, NEW v \in Vas, NEW x \in Values, Store(r, v, x)
      PROVE  IInv'
  BY SMTT(60), <1>1 DEF Store, IInv, Types, BuildOK, Building, OpOK, Coherent
<1>2. ASSUME NEW r \in Roots, NEW v \in Vas, NEW p \in Pages, Touch(r, v, p)
      PROVE  IInv'
  <2>1. GoesOn(r)
    BY ZenonT(60), <1>2, Acting DEF Touch, GoesOn, IInv, Types, BuildOK, OpOK, Building, Runs, At
  <2>2. Entry(p, "rw") \in Entries
    BY ZenonT(60) DEF Entry, Entries
  <2> QED
    BY ZenonT(60), <1>2, <2>1, <2>2, Update DEF Touch
<1>3. ASSUME NEW r \in Roots, NEW v \in Vas, NEW p \in Pages, ReplaceWithZero(r, v, p)
      PROVE  IInv'
  <2>1. op'[r] = Op("map", v, p, NoRoot, "user")
        /\ (\A s \in Roots \ {r} : op'[s] = op[s]) /\ op' \in [Roots -> Operations]
    BY ZenonT(60), <1>3 DEF ReplaceWithZero, Become, IInv, Types, Op, Operations, Steps
  <2>2. GoesOn(r)
    BY SMTT(60), <1>3, <2>1, Acting DEF ReplaceWithZero, GoesOn, Building, OpOK, Op
  <2> QED
    BY ZenonT(60), <1>3, <2>2, Quiet DEF ReplaceWithZero
<1>4. ASSUME NEW r \in Roots, NEW v \in Vas, Unmap(r, v)
      PROVE  IInv'
  <2>1. pte[r][v].page \in Pages \cup {NoPage} /\ NoEntry \in Entries
    BY SMTT(60) DEF IInv, Types, Entries, NoEntry, Entry
  <2>2. GoesOn(r)
    BY ZenonT(60), <1>4, <2>1, Acting, GoesOnTo DEF Unmap, Steps
  <2> QED
    BY ZenonT(60), <1>4, <2>1, <2>2, Update DEF Unmap
<1>5. ASSUME NEW r \in Roots, NEW v \in Vas, Fault(r, v)
      PROVE  IInv'
  <2>1. pte[r][v] # NoEntry
    BY SMTT(60), <1>5 DEF Fault, NoEntry, Entry
  <2>2. op'[r] = Op(IF refs[pte[r][v].page] = 1 THEN "sole" ELSE "copy",
                    v, NoPage, NoRoot, "user")
        /\ (\A s \in Roots \ {r} : op'[s] = op[s]) /\ op' \in [Roots -> Operations]
    BY ZenonT(60), <1>5 DEF Fault, Become, IInv, Types, Op, Operations, Steps
  <2>3. GoesOn(r)
    BY SMTT(60), <1>5, <2>1, <2>2, Acting DEF Fault, GoesOn, Building, OpOK, Op
  <2> QED
    BY ZenonT(60), <1>5, <2>3, Quiet DEF Fault
<1>6. ASSUME NEW r \in Roots, NEW v \in Vas, ForkCount(r, v)
      PROVE  IInv'
  <2> DEFINE o == Op("retain", v, pte[r][v].page, op[r].dest, "fork")
  <2>1. op[r].at = "fork" /\ Building(r) /\ state[r] \in {"live", "dying"}
    BY ZenonT(60), <1>6, Acting DEF ForkCount, At, Building
  <2>2. op[r].dest \in Roots
    BY ZenonT(60), <2>1 DEF IInv, BuildOK
  <2>3. pte[r][v].page \in Pages
    BY ZenonT(60), <1>6 DEF ForkCount, Present, IInv, Types, Entries
  <2>4. /\ o \in Operations /\ o.dest = op[r].dest /\ o.at = "retain"
        /\ o.va \in Vas /\ o.page \in Pages
    BY SMTT(60), <2>2, <2>3 DEF Op, Operations, Steps
  <2> HIDE DEF o
  <2>5. op'[r] = o /\ (\A s \in Roots \ {r} : op'[s] = op[s])
        /\ op' \in [Roots -> Operations]
    BY ZenonT(60), <1>6, <2>4 DEF ForkCount, Become, IInv, Types, o
  <2>6. GoesOn(r)
    BY ZenonT(60), <2>1, <2>4, <2>5 DEF GoesOn, OpOK
  <2> QED
    BY ZenonT(60), <1>6, <2>6, Quiet DEF ForkCount
<1>21. ASSUME NEW r \in Roots, ForkRetain(r)
       PROVE  IInv'
  <2>1. op[r].at = "retain" /\ Building(r) /\ state[r] \in {"live", "dying"}
    BY ZenonT(60), <1>21, Acting DEF ForkRetain, At, Building
  <2>2. op[r].dest \in Roots /\ op[r].va \in Vas /\ op[r].page \in Pages
    BY ZenonT(60), <2>1 DEF IInv, BuildOK, OpOK
  <2>4. PICK o \in {Op("entry", op[r].va, op[r].page, op[r].dest, "fork"),
                    Op("undo", NoVa, NoPage, op[r].dest, "user")} : Become(r, o)
    BY ZenonT(60), <1>21 DEF ForkRetain
  <2>5. /\ o \in Operations /\ o.dest = op[r].dest /\ o.at \in {"entry", "undo"}
        /\ o.at = "entry" => o.va \in Vas /\ o.page \in Pages
    BY SMTT(60), <2>2, <2>4 DEF Op, Operations, Steps
  <2>6. op'[r] = o /\ (\A s \in Roots \ {r} : op'[s] = op[s])
        /\ op' \in [Roots -> Operations]
    BY ZenonT(60), <2>4, <2>5 DEF Become, IInv, Types
  <2>7. GoesOn(r)
    BY ZenonT(60), <2>1, <2>5, <2>6 DEF GoesOn, OpOK
  <2> QED
    BY ZenonT(60), <1>21, <2>7, Quiet DEF ForkRetain
<1>7. ASSUME NEW r \in Roots, NEW v \in Vas, ReleaseMapping(r, v)
      PROVE  IInv'
  <2>1. op[r].at \in {"undo", "exec", "exit"} /\ state[r] \in {"live", "dying"}
    BY ZenonT(60), <1>7, Acting DEF ReleaseMapping
  <2>2. /\ Emptied(r) \in Roots
        /\ Emptied(r) = r \/ state[Emptied(r)] = "building"
    BY ZenonT(60), <2>1 DEF IInv, BuildOK, Building, Emptied, At
  <2>3. pte[Emptied(r)][v].page \in Pages \cup {NoPage} /\ NoEntry \in Entries
    BY SMTT(60), <2>2 DEF IInv, Types, Entries, NoEntry, Entry
  <2>4. op[r].dest \in Roots \cup {NoRoot}
    BY ZenonT(60) DEF IInv, Types, Operations
  <2>5. GoesOn(r)
    BY ZenonT(60), <1>7, <2>1, <2>3, <2>4, GoesOnTo DEF ReleaseMapping, Steps, Building
  <2> QED
    BY ZenonT(60), <1>7, <2>2, <2>3, <2>5, Update DEF ReleaseMapping
<1>8. ASSUME NEW r \in Roots, NEW p \in Pages, Copy(r, p)
      PROVE  IInv'
  <2>1. op[r].at = "copy" /\ state[r] \in {"live", "dying"} /\ op[r].va \in Vas
    BY ZenonT(60), <1>8, Acting DEF Copy, At, IInv, BuildOK, OpOK
  <2>2. op'[r] = Op("map", op[r].va, p, NoRoot, "user")
        /\ (\A s \in Roots \ {r} : op'[s] = op[s]) /\ op' \in [Roots -> Operations]
    BY ZenonT(60), <1>8, <2>1 DEF Copy, Become, IInv, Types, Op, Operations, Steps
  <2>3. GoesOn(r)
    BY SMTT(60), <2>1, <2>2 DEF GoesOn, Building, OpOK, Op
  <2> QED
    BY ZenonT(60), <1>8, <2>3, Quiet DEF Copy
<1>9. ASSUME NEW r \in Roots, Sole(r)
      PROVE  IInv'
  <2>1. op[r].at = "sole" /\ state[r] \in {"live", "dying"}
    BY ZenonT(60), <1>9, Acting DEF Sole, At
  <2>2. op[r].va \in Vas /\ pte[r][op[r].va] # NoEntry
    BY ZenonT(60), <2>1 DEF IInv, BuildOK, OpOK
  <2>3. Entry(pte[r][op[r].va].page, "rw") \in Entries
    BY SMTT(60), <2>2 DEF IInv, Types, Entries, Entry
  <2>4. GoesOn(r)
    BY ZenonT(60), <1>9, <2>1, GoesOnTo DEF Sole, Plain, Steps
  <2> QED
    BY ZenonT(60), <1>9, <2>2, <2>3, <2>4, Update DEF Sole
<1>10. ASSUME NEW r \in Roots, CopyRefused(r)
       PROVE  IInv'
  <2>1. state[r] \in {"live", "dying"}
    BY ZenonT(60), <1>10, Acting DEF CopyRefused, At
  <2>2. GoesOn(r)
    BY ZenonT(60), <1>10, <2>1, GoesOnTo DEF CopyRefused, Plain, Steps
  <2> QED
    BY ZenonT(60), <1>10, <2>2, Quiet DEF CopyRefused
<1>11. ASSUME NEW r \in Roots, Map(r)
       PROVE  IInv'
  <2>1. op[r].at = "map" /\ state[r] \in {"live", "dying"}
    BY ZenonT(60), <1>11, Acting DEF Map, At
  <2>2. op[r].va \in Vas /\ op[r].page \in Pages
    BY ZenonT(60), <2>1 DEF IInv, BuildOK, OpOK
  <2>3. Entry(op[r].page, "rw") \in Entries
    BY ZenonT(60), <2>2 DEF Entries, Entry
  <2>4. pte[r][op[r].va].page \in Pages \cup {NoPage}
    BY SMTT(60), <2>2 DEF IInv, Types, Entries, NoEntry, Entry
  <2>5. GoesOn(r)
    BY ZenonT(60), <1>11, <2>1, <2>2, <2>4, GoesOnTo DEF Map, Steps
  <2> QED
    BY ZenonT(60), <1>11, <2>2, <2>3, <2>5, Update DEF Map
<1>12. ASSUME NEW r \in Roots, Release(r)
       PROVE  IInv'
  <2>1. op[r].at = "release" /\ state[r] \in {"live", "dying"}
    BY ZenonT(60), <1>12, Acting DEF Release, At
  <2>2. /\ op[r].then \in {"user", "undo", "exec", "exit"}
        /\ op[r].dest \in Roots \cup {NoRoot} /\ op[r] \in Operations
    BY ZenonT(60), <2>1 DEF IInv, BuildOK, OpOK, Types, Operations
  <2>3. op'[r] = Op(op[r].then, NoVa, NoPage, op[r].dest, "user")
        /\ (\A s \in Roots \ {r} : op'[s] = op[s]) /\ op' \in [Roots -> Operations]
    BY ZenonT(60), <1>12, <2>2 DEF Release, Become, IInv, Types, Op, Operations, Steps
  <2>4. GoesOn(r)
    BY SMTT(60), <2>1, <2>2, <2>3 DEF GoesOn, Building, OpOK, Op
  <2> QED
    BY ZenonT(60), <1>12, <2>4, Quiet DEF Release
<1>13. ASSUME NEW r \in Roots, NEW q \in Roots, Fork(r, q)
       PROVE  IInv'
  <2> USE DEF IInv
  <2>1. state[q] = "free" /\ state' = [state EXCEPT ![q] = "building"]
        /\ UNCHANGED <<pte, tlb>> /\ state[r] = "live" /\ op[r].at = "user"
    BY ZenonT(60), <1>13 DEF Fork, Runs, At
  <2>2. op'[r] = Op("fork", NoVa, NoPage, q, "user")
        /\ (\A s \in Roots \ {r} : op'[s] = op[s]) /\ op' \in [Roots -> Operations]
    BY ZenonT(60), <1>13 DEF Fork, Become, Types, Op, Operations, Steps
  <2>3. \A s \in Roots : state'[s] = IF s = q THEN "building" ELSE state[s]
    BY ZenonT(60), <2>1 DEF Types
  <2>4. Types'
    BY ZenonT(60), <2>1, <2>2 DEF Types
  <2>5. \A s \in Roots \ {r} : Building(s)' =>
           Building(s) /\ op'[s].dest = op[s].dest /\ op[s].dest # q
    BY SMTT(60), <2>1, <2>2 DEF Building, BuildOK
  <2>6. op'[r].dest = q
    BY SMTT(60), <2>2 DEF Op
  <2>7. \A s \in Roots : Building(s)' =>
           op'[s].dest \in Roots /\ state'[op'[s].dest] = "building"
    BY SMTT(60), <2>3, <2>5, <2>6 DEF BuildOK
  <2>8. \A s, t \in Roots :
           Building(s)' /\ Building(t)' /\ op'[s].dest = op'[t].dest => s = t
    BY ZenonT(60), <2>5, <2>6 DEF BuildOK
  <2>9. \A s \in Roots : OpOK(s)'
    BY SMTT(60), <2>1, <2>2 DEF BuildOK, OpOK, Op
  <2>10. \A s \in Roots : state'[s] \in {"free", "building"} =>
            op'[s].at = "user" /\ \A v \in Vas : tlb[s][v] = {}
    BY SMTT(60), <2>1, <2>2, <2>3 DEF BuildOK
  <2> QED
    BY ZenonT(60), <2>1, <2>4, <2>7, <2>8, <2>9, <2>10 DEF BuildOK, Coherent
<1>14. ASSUME NEW r \in Roots, ForkEntry(r)
       PROVE  IInv'
  <2> USE DEF IInv
  <2> DEFINE q == op[r].dest
             v == op[r].va
             e == Entry(op[r].page, "cow")
  <2>1. op[r].at = "entry" /\ Building(r) /\ state[r] \in {"live", "dying"}
    BY ZenonT(60), <1>14, Acting DEF ForkEntry, At, Building
  <2>2. q \in Roots /\ v \in Vas /\ op[r].page \in Pages /\ state[q] = "building"
    BY ZenonT(60), <2>1 DEF BuildOK, OpOK
  <2>3. q # r /\ op[q].at = "user" /\ \A u \in Vas : tlb[q][u] = {}
    BY ZenonT(60), <2>1, <2>2 DEF BuildOK
  <2>4. e \in Entries \ {NoEntry}
    BY ZenonT(60), <2>2 DEF Entries, NoEntry, Entry
  <2>5. /\ pte' = [pte EXCEPT ![q][v] = e, ![r][v] = e]
        /\ tlb' = [tlb EXCEPT ![r][v] = {e}]
        /\ UNCHANGED state
    BY ZenonT(60), <1>14 DEF ForkEntry
  <2> HIDE DEF e
  <2>6. op'[r] = Op("fork", NoVa, NoPage, q, "user")
        /\ (\A s \in Roots \ {r} : op'[s] = op[s]) /\ op' \in [Roots -> Operations]
    BY ZenonT(60), <1>14, <2>2 DEF ForkEntry, Become, Types, Op, Operations, Steps
  <2>7. Types'
    BY ZenonT(60), <2>2, <2>4, <2>5, <2>6 DEF Types
  <2>8. \A s \in Roots \ {q, r} : pte'[s] = pte[s] /\ tlb'[s] = tlb[s]
    BY ZenonT(60), <2>2, <2>5 DEF Types
  <2>9. /\ tlb'[q] = tlb[q]
        /\ \A u \in Vas :
             /\ pte'[r][u] = IF u = v THEN e ELSE pte[r][u]
             /\ tlb'[r][u] = IF u = v THEN {e} ELSE tlb[r][u]
    BY ZenonT(60), <2>2, <2>3, <2>5 DEF Types
  <2>10. Coherent'
    <3>1. \A u \in Vas : tlb'[q][u] \subseteq {pte'[q][u]}
      BY ZenonT(60), <2>3, <2>9
    <3>2. \A u \in Vas : tlb'[r][u] \subseteq {pte'[r][u]}
      BY ZenonT(60), <2>9 DEF Coherent
    <3> QED
      BY ZenonT(60), <2>8, <3>1, <3>2 DEF Coherent
  <2>11. \A s \in Roots : Building(s)' => Building(s) /\ op'[s].dest = op[s].dest
    BY SMTT(60), <2>1, <2>6 DEF Building, Op
  <2>12. \A s \in Roots : OpOK(s)'
    <3>1. OpOK(r)' /\ OpOK(q)'
      BY SMTT(60), <2>2, <2>3, <2>6 DEF OpOK, Op
    <3>2. \A s \in Roots \ {q, r} : OpOK(s)'
      BY SMTT(60), <2>6, <2>8 DEF BuildOK, OpOK
    <3> QED
      BY SMTT(60), <2>6, <3>1, <3>2 DEF Op
  <2>13. \A s \in Roots : state[s] \in {"free", "building"} =>
            op'[s].at = "user" /\ \A u \in Vas : tlb'[s][u] = {}
    BY SMTT(60), <2>1, <2>6, <2>8, <2>9 DEF BuildOK
  <2>14. BuildOK'
    BY ZenonT(60), <2>5, <2>11, <2>12, <2>13 DEF BuildOK
  <2> QED
    BY ZenonT(60), <2>7, <2>10, <2>14
<1>15. ASSUME NEW r \in Roots, ForkEntryRefused(r)
       PROVE  IInv'
  <2>1. op[r].at = "entry" /\ Building(r) /\ state[r] \in {"live", "dying"}
    BY ZenonT(60), <1>15, Acting DEF ForkEntryRefused, At, Building
  <2>2. op[r].va \in Vas /\ op[r].page \in Pages /\ op[r].dest \in Roots
    BY ZenonT(60), <2>1 DEF IInv, BuildOK, OpOK
  <2>3. GoesOn(r)
    BY ZenonT(60), <1>15, <2>1, <2>2, GoesOnTo DEF ForkEntryRefused, Steps
  <2> QED
    BY ZenonT(60), <1>15, <2>3, Quiet DEF ForkEntryRefused
<1>16. ASSUME NEW r \in Roots, ForkDone(r)
       PROVE  IInv'
  <2> USE DEF IInv
  <2> DEFINE q == op[r].dest
  <2>1. op[r].at = "fork" /\ Building(r) /\ state[r] \in {"live", "dying"}
    BY ZenonT(60), <1>16, Acting DEF ForkDone, At, Building
  <2>2. q \in Roots /\ state[q] = "building" /\ q # r /\ op[q].at = "user"
    BY ZenonT(60), <2>1 DEF BuildOK
  <2>3. /\ state' = [state EXCEPT ![q] = "live"] /\ UNCHANGED pte
        /\ tlb' = [tlb EXCEPT ![q] = [v \in Vas |-> {pte[q][v]} \ {NoEntry}]]
    BY ZenonT(60), <1>16 DEF ForkDone
  <2>4. op'[r] = Plain("user") /\ (\A s \in Roots \ {r} : op'[s] = op[s])
        /\ op' \in [Roots -> Operations]
    BY ZenonT(60), <1>16 DEF ForkDone, Become, Types, Plain, Op, Operations, Steps
  <2>5. [v \in Vas |-> {pte[q][v]} \ {NoEntry}] \in [Vas -> SUBSET (Entries \ {NoEntry})]
    BY SMTT(60), <2>2 DEF Types
  <2>6. Types'
    BY ZenonT(60), <2>2, <2>3, <2>4, <2>5 DEF Types
  <2>7. /\ \A s \in Roots \ {q} : tlb'[s] = tlb[s] /\ state'[s] = state[s]
        /\ \A v \in Vas : tlb'[q][v] = {pte[q][v]} \ {NoEntry}
        /\ state'[q] = "live"
    BY ZenonT(60), <2>2, <2>3 DEF Types
  <2>8. Coherent'
    BY SMTT(60), <2>3, <2>7 DEF Coherent
  <2>9. \A s \in Roots : Building(s)' =>
           s # r /\ Building(s) /\ op'[s].dest = op[s].dest /\ op[s].dest # q
    BY SMTT(60), <2>1, <2>4 DEF Building, BuildOK, Plain, Op
  <2>10. \A s \in Roots : Building(s)' =>
            op'[s].dest \in Roots /\ state'[op'[s].dest] = "building"
    BY SMTT(60), <2>7, <2>9 DEF BuildOK
  <2>11. \A s, t \in Roots :
            Building(s)' /\ Building(t)' /\ op'[s].dest = op'[t].dest => s = t
    BY ZenonT(60), <2>9 DEF BuildOK
  <2>12. \A s \in Roots : OpOK(s)'
    BY SMTT(60), <2>3, <2>4 DEF BuildOK, OpOK, Plain, Op
  <2>13. \A s \in Roots : state'[s] \in {"free", "building"} =>
            op'[s].at = "user" /\ \A v \in Vas : tlb'[s][v] = {}
    BY SMTT(60), <2>1, <2>4, <2>7 DEF BuildOK
  <2> QED
    BY ZenonT(60), <2>6, <2>8, <2>10, <2>11, <2>12, <2>13 DEF BuildOK
<1>17. ASSUME NEW r \in Roots, ForkFailed(r)
       PROVE  IInv'
  <2>1. op[r].at = "fork" /\ Building(r) /\ state[r] \in {"live", "dying"}
    BY ZenonT(60), <1>17, Acting DEF ForkFailed, At, Building
  <2>2. op'[r] = Op("undo", NoVa, NoPage, op[r].dest, "user")
        /\ (\A s \in Roots \ {r} : op'[s] = op[s]) /\ op' \in [Roots -> Operations]
    BY ZenonT(60), <1>17 DEF ForkFailed, Become, IInv, Types, Op, Operations, Steps
  <2>3. GoesOn(r)
    BY SMTT(60), <2>1, <2>2 DEF GoesOn, OpOK, Op
  <2> QED
    BY ZenonT(60), <1>17, <2>3, Quiet DEF ForkFailed
<1>18. ASSUME NEW r \in Roots, Exec(r)
       PROVE  IInv'
  <2>1. GoesOn(r)
    BY ZenonT(60), <1>18, Acting, GoesOnTo DEF Exec, Plain, Steps
  <2> QED
    BY ZenonT(60), <1>18, <2>1, Quiet DEF Exec
<1>19. ASSUME NEW r \in Roots, Exit(r)
       PROVE  IInv'
  <2> USE DEF IInv
  <2>1. state[r] = "live" /\ op[r].at = "user" /\ UNCHANGED <<pte, tlb>>
        /\ state' = [state EXCEPT ![r] = "dying"]
    BY ZenonT(60), <1>19 DEF Exit, Runs, At
  <2>2. op'[r] = Plain("exit") /\ (\A s \in Roots \ {r} : op'[s] = op[s])
        /\ op' \in [Roots -> Operations]
    BY ZenonT(60), <1>19 DEF Exit, Become, Types, Plain, Op, Operations, Steps
  <2>3. Types'
    BY ZenonT(60), <2>1, <2>2 DEF Types
  <2>4. \A s \in Roots : state'[s] = IF s = r THEN "dying" ELSE state[s]
    BY ZenonT(60), <2>1 DEF Types
  <2>5. \A s \in Roots : Building(s)' => Building(s) /\ op'[s].dest = op[s].dest
    BY SMTT(60), <2>2 DEF Building, Plain, Op
  <2>6. \A s \in Roots : Building(s) => op[s].dest # r
    BY ZenonT(60), <2>1 DEF BuildOK
  <2>7. \A s \in Roots : OpOK(s)'
    BY SMTT(60), <2>1, <2>2 DEF BuildOK, OpOK, Plain, Op
  <2>8. \A s \in Roots : state'[s] \in {"free", "building"} =>
           op'[s].at = "user" /\ \A v \in Vas : tlb[s][v] = {}
    BY ZenonT(60), <2>2, <2>4 DEF BuildOK
  <2>9. BuildOK'
    BY SMTT(60), <2>1, <2>4, <2>5, <2>6, <2>7, <2>8 DEF BuildOK
  <2> QED
    BY ZenonT(60), <2>1, <2>3, <2>9 DEF Coherent
<1>20. ASSUME NEW r \in Roots, ReleasedMappings(r)
       PROVE  IInv'
  <2> USE DEF IInv
  <2> DEFINE d == Emptied(r)
  <2>1. op[r].at \in {"undo", "exec", "exit"} /\ state[r] \in {"live", "dying"}
    BY ZenonT(60), <1>20, Acting DEF ReleasedMappings
  <2>2. CASE op[r].at = "exec"
    <3>1. GoesOn(r) /\ UNCHANGED <<state, pte, tlb>>
      BY ZenonT(60), <1>20, <2>1, <2>2, GoesOnTo DEF ReleasedMappings, At, Plain, Steps
    <3> QED
      BY ZenonT(60), <3>1, Quiet
  <2>3. CASE op[r].at # "exec"
    <3>1. d \in Roots /\ (d = r \/ (Building(r) /\ d = op[r].dest))
          /\ (d # r => op[d].at = "user")
      BY ZenonT(60), <2>1 DEF BuildOK, Building, Emptied, At
    <3>2. state' = [state EXCEPT ![d] = "free"] /\ UNCHANGED <<pte, tlb>>
          /\ \A v \in Vas : pte[d][v] = NoEntry
      BY ZenonT(60), <1>20, <2>3 DEF ReleasedMappings, At, Mapped, Present
    <3>3. op'[r] = Plain("user") /\ (\A s \in Roots \ {r} : op'[s] = op[s])
          /\ op' \in [Roots -> Operations]
      BY ZenonT(60), <1>20 DEF ReleasedMappings, Become, Types, Plain, Op, Operations, Steps
    <3>4. \A v \in Vas : tlb[d][v] = {}
      BY SMTT(60), <3>1, <3>2 DEF Coherent, Types
    <3>5. Types'
      BY ZenonT(60), <3>1, <3>2, <3>3 DEF Types
    <3>6. \A s \in Roots : state'[s] = IF s = d THEN "free" ELSE state[s]
      BY ZenonT(60), <3>2 DEF Types
    <3>7. \A s \in Roots : Building(s)' => s # r /\ Building(s) /\ op'[s].dest = op[s].dest
      BY SMTT(60), <3>3 DEF Building, Plain, Op
    <3>8. \A s \in Roots \ {r} : Building(s) => op[s].dest # d
      BY ZenonT(60), <2>1, <3>1 DEF BuildOK
    <3>9. \A s \in Roots : OpOK(s)'
      BY SMTT(60), <3>2, <3>3 DEF BuildOK, OpOK, Plain, Op
    <3>10. \A s \in Roots : state'[s] \in {"free", "building"} =>
              op'[s].at = "user" /\ \A v \in Vas : tlb[s][v] = {}
      BY SMTT(60), <3>1, <3>3, <3>4, <3>6 DEF BuildOK, Plain, Op
    <3>11. \A s \in Roots : Building(s)' =>
              op'[s].dest \in Roots /\ state'[op'[s].dest] = "building"
      BY SMTT(60), <3>6, <3>7, <3>8 DEF BuildOK
    <3>12. \A s, t \in Roots :
              Building(s)' /\ Building(t)' /\ op'[s].dest = op'[t].dest => s = t
      BY ZenonT(60), <3>7 DEF BuildOK
    <3> QED
      BY ZenonT(60), <3>2, <3>5, <3>9, <3>10, <3>11, <3>12 DEF BuildOK, Coherent
  <2> QED
    BY ZenonT(60), <2>2, <2>3
<1> QED
  BY ZenonT(60), <1>0, <1>1, <1>2, <1>3, <1>4, <1>5, <1>6, <1>7, <1>8, <1>9, <1>10, <1>11,
     <1>12, <1>13, <1>14, <1>15, <1>16, <1>17, <1>18, <1>19, <1>20, <1>21 DEF Next

\* Nothing is mapped or cached at first.
LEMMA InitInv == Init => IInv
<1> SUFFICES ASSUME Init PROVE IInv
  OBVIOUS
<1>1. NoEntry \in Entries /\ Plain("user") \in Operations
  BY ZenonT(60) DEF Entries, Plain, Op, Operations, Steps
<1>2. Types
  BY ZenonT(60), <1>1 DEF Init, Types
<1>3. BuildOK
  BY ZenonT(60) DEF Init, BuildOK, Building, OpOK, Plain, Op
<1> QED
  BY ZenonT(60), <1>2, <1>3 DEF IInv, Coherent, Init

\* Break-before-make keeps the cores' view of a root inside its table, whatever
\* is forked, copied, discarded or undone.
THEOREM Coherence == Spec => []Coherent
<1>1. IInv => Coherent
  BY ZenonT(60) DEF IInv
<1>2. IInv /\ [Next]_vars => IInv'
  BY ZenonT(60), NextInv
<1> QED
  BY <1>1, <1>2, InitInv, PTL DEF Spec

-----------------------------------------------------------------------------
(* The counts: their invariant.                                             *)

\* Operation r holds a reference of p that no entry stands for.
Owing(r, p) == op[r].at \in {"entry", "release"} /\ op[r].page = p

\* A user page at which p is mapped, or was by whoever still owes its release.
Spot(p, v) ==
    \/ \E s \in Roots : pte[s][v].page = p
    \/ \E s \in Roots : Owing(s, p) /\ op[s].va = v

\* The root in whose name r holds a reference: the child's, or its own.
Charge(r) == IF Building(r) THEN op[r].dest ELSE r

CountTypes ==
    /\ refs \in [Pages -> Nat]
    /\ occupied \subseteq Pages
    /\ content \in [Pages -> Values]

\* The two halves of CountExact.
Counts == \A p \in Pages : refs[p] = Cardinality(Maps(p)) + Cardinality(Owes(p))
Occupancy ==
    \A p \in Pages :
       p \in occupied <=> \/ refs[p] > 0
                          \/ \E r \in Roots : op[r].at = "map" /\ op[r].page = p

\* WriterAlone, without sets.
Writes(r, v) == pte[r][v].mode = "rw" \/ (op[r].at = "sole" /\ op[r].va = v)
Lone(r, v) ==
    \A s \in Roots :
       /\ \A w \in Vas : pte[s][w].page = pte[r][v].page => s = r /\ w = v
       /\ Owing(s, pte[r][v].page) => s = r
LoneWriter == \A r \in Roots : \A v \in Vas : Writes(r, v) => Lone(r, v)

\* What an operation knows of the entry and the page it is about.
Tied(r) ==
    /\ op[r].at \in {"copy", "map"} => pte[r][op[r].va] # NoEntry
    /\ op[r].at = "map" =>
          /\ refs[op[r].page] = 0
          /\ \A s \in Roots : op[s].at = "map" /\ op[s].page = op[r].page => s = r
    /\ op[r].at \in {"retain", "entry"} =>
          pte[r][op[r].va].page = op[r].page /\ pte[op[r].dest][op[r].va] = NoEntry
    /\ op[r].at = "release" => op[r].va \in Vas /\ op[r].page \in Pages
    /\ op[r].at \in {"entry", "release"} =>
          pte[Charge(r)][op[r].va].page # op[r].page

\* A page is at one user page in every root that has it: fork copies an entry
\* to its own place.
Aligned == \A p \in Pages : \A v, w \in Vas : Spot(p, v) /\ Spot(p, w) => v = w

FreeEmpty == \A r \in Roots : state[r] = "free" => \A v \in Vas : pte[r][v] = NoEntry

CInv == /\ CountTypes /\ Counts /\ Occupancy /\ LoneWriter /\ Aligned /\ FreeEmpty
        /\ \A r \in Roots : Tied(r)

-----------------------------------------------------------------------------
(* Counting.                                                                *)

Num(b) == IF b THEN 1 ELSE 0

\* What the steps need of finite sets.  It is a hypothesis of their lemmas, and
\* proved of the library's at the end: the library's facts would be in the
\* context of every proof that follows them.
Cardinalities ==
    /\ \A S : IsFiniteSet(S) =>
          /\ Cardinality(S) \in Nat
          /\ Cardinality(S) = 0 <=> S = {}
          /\ Cardinality(S) = 1 <=> \E x : S = {x}
    /\ \A S : \A T \in SUBSET S : IsFiniteSet(S) => IsFiniteSet(T)
    /\ \A S, T : IsFiniteSet(S) /\ IsFiniteSet(T) => IsFiniteSet(S \X T)
    /\ \A S, T, x : IsFiniteSet(S) /\ T \ {x} = S \ {x} =>
          Cardinality(T) = Cardinality(S) - Num(x \in S) + Num(x \in T)

\* There are finitely many entries and operations.
LEMMA Finite ==
    ASSUME Cardinalities
    PROVE  \A p : IsFiniteSet(Maps(p)) /\ IsFiniteSet(Owes(p))
<1> TAKE p
<1>1. Maps(p) \in SUBSET (Roots \X Vas) /\ Owes(p) \in SUBSET Roots
  BY ZenonT(60) DEF Maps, Owes
<1>2. IsFiniteSet(Roots \X Vas) /\ IsFiniteSet(Roots)
  BY ZenonT(60), CopyOnWriteAssumption DEF Cardinalities
<1> QED
  BY ZenonT(60), <1>1, <1>2 DEF Cardinalities

\* Who the sets of CountExact hold.
LEMMA Members ==
    /\ \A p : \A s \in Roots : \A w \in Vas :
          <<s, w>> \in Maps(p) <=> pte[s][w].page = p
    /\ \A p : \A s \in Roots : s \in Owes(p) <=> Owing(s, p)
<1>1. \A p : \A s \in Roots : \A w \in Vas :
          <<s, w>> \in Maps(p) <=> pte[s][w].page = p
  BY SMTT(60) DEF Maps
<1>2. \A p : \A s \in Roots : s \in Owes(p) <=> Owing(s, p)
  BY ZenonT(60) DEF Owes, Owing
<1> QED
  BY ZenonT(60), <1>1, <1>2

\* A step that changes the page of one entry and one operation counts right if
\* it changes the count by the difference.
LEMMA Recount ==
    ASSUME Cardinalities, CountTypes, Counts, NEW d \in Roots, NEW v \in Vas, NEW r \in Roots,
           \A s \in Roots : \A w \in Vas :
              s # d \/ w # v => pte'[s][w].page = pte[s][w].page,
           \A s \in Roots \ {r} : op'[s] = op[s],
           \A p \in Pages :
              refs'[p] = refs[p] + Num(pte'[d][v].page = p) - Num(pte[d][v].page = p)
                                 + Num(Owing(r, p)') - Num(Owing(r, p))
    PROVE  Counts'
<1> SUFFICES ASSUME NEW p \in Pages
             PROVE  refs'[p] = Cardinality(Maps(p)') + Cardinality(Owes(p)')
  BY ZenonT(60) DEF Counts
<1>1. Maps(p)' \ {<<d, v>>} = Maps(p) \ {<<d, v>>}
  BY SMTT(60) DEF Maps
<1>2. Owes(p)' \ {r} = Owes(p) \ {r}
  BY SMTT(60) DEF Owes
<1>f. IsFiniteSet(Maps(p)) /\ IsFiniteSet(Owes(p))
  BY ZenonT(60), Finite
<1>3. Cardinality(Maps(p)') = Cardinality(Maps(p)) - Num(<<d, v>> \in Maps(p))
                              + Num(<<d, v>> \in Maps(p)')
  BY <1>1, <1>f, SMT DEF Cardinalities
<1>o. Cardinality(Owes(p)') = Cardinality(Owes(p)) - Num(r \in Owes(p))
                              + Num(r \in Owes(p)')
  BY <1>2, <1>f, SMT DEF Cardinalities
<1>4. /\ <<d, v>> \in Maps(p) <=> pte[d][v].page = p
      /\ <<d, v>> \in Maps(p)' <=> pte'[d][v].page = p
  BY SMTT(60) DEF Maps
<1>5. (r \in Owes(p) <=> Owing(r, p)) /\ (r \in Owes(p)' <=> Owing(r, p)')
  BY ZenonT(60) DEF Owes, Owing
<1>6. Cardinality(Maps(p)) \in Nat /\ Cardinality(Owes(p)) \in Nat
  BY ZenonT(60), Finite DEF Cardinalities
<1>7. refs[p] = Cardinality(Maps(p)) + Cardinality(Owes(p))
  BY ZenonT(60) DEF Counts
<1> QED
  BY SMTT(60), <1>3, <1>o, <1>4, <1>5, <1>6, <1>7 DEF Num

\* What a count says of who has the page.
LEMMA Read ==
    ASSUME Cardinalities, CountTypes, Counts, NEW p \in Pages
    PROVE  /\ \A s \in Roots : \A w \in Vas : pte[s][w].page = p => refs[p] > 0
           /\ \A s \in Roots : Owing(s, p) => refs[p] > 0
           /\ \A s, t \in Roots : \A w \in Vas :
                 pte[s][w].page = p /\ Owing(t, p) => refs[p] # 1
           /\ \A s, t \in Roots : \A u, w \in Vas :
                 pte[s][u].page = p /\ pte[t][w].page = p /\ refs[p] = 1 => s = t /\ u = w
<1>1. /\ Cardinality(Maps(p)) \in Nat /\ Cardinality(Owes(p)) \in Nat
      /\ Cardinality(Maps(p)) = 0 <=> Maps(p) = {}
      /\ Cardinality(Owes(p)) = 0 <=> Owes(p) = {}
      /\ Cardinality(Maps(p)) = 1 => \E x : Maps(p) = {x}
  BY ZenonT(60), Finite DEF Cardinalities
<1>2. refs[p] = Cardinality(Maps(p)) + Cardinality(Owes(p))
  BY ZenonT(60) DEF Counts
<1>3. ASSUME NEW s \in Roots, NEW w \in Vas, pte[s][w].page = p
      PROVE  Cardinality(Maps(p)) > 0
  <2>1. Cardinality(Maps(p)) # 0
    BY ZenonT(60), <1>1, <1>3, Members
  <2> QED
    BY SMTT(60), <1>1, <2>1
<1>4. ASSUME NEW s \in Roots, Owing(s, p)
      PROVE  Cardinality(Owes(p)) > 0
  <2>1. Cardinality(Owes(p)) # 0
    BY ZenonT(60), <1>1, <1>4, Members
  <2> QED
    BY SMTT(60), <1>1, <2>1
<1>5. ASSUME NEW s \in Roots, NEW t \in Roots, NEW u \in Vas, NEW w \in Vas,
             pte[s][u].page = p, pte[t][w].page = p, refs[p] = 1
      PROVE  s = t /\ u = w
  <2>1. Cardinality(Maps(p)) > 0
    BY ZenonT(60), <1>3, <1>5
  <2>2. Cardinality(Maps(p)) = 1
    BY SMTT(60), <1>1, <1>2, <1>5, <2>1
  <2>3. <<s, u>> \in Maps(p) /\ <<t, w>> \in Maps(p)
    BY ZenonT(60), <1>5, Members
  <2>4. PICK x : Maps(p) = {x}
    BY ZenonT(60), <1>1, <2>2
  <2>5. <<s, u>> = x /\ <<t, w>> = x
    BY ZenonT(60), <2>3, <2>4
  <2>6. <<s, u>> = <<t, w>>
    BY ZenonT(60), <2>5
  <2> QED
    BY SMTT(60), <2>6
<1>6. /\ \A s \in Roots : \A w \in Vas : pte[s][w].page = p => refs[p] > 0
      /\ \A s \in Roots : Owing(s, p) => refs[p] > 0
  BY SMTT(60), <1>1, <1>2, <1>3, <1>4
<1>7. \A s, t \in Roots : \A w \in Vas :
         pte[s][w].page = p /\ Owing(t, p) => refs[p] # 1
  BY SMTT(60), <1>1, <1>2, <1>3, <1>4
<1> QED
  BY SMTT(60), <1>5, <1>6, <1>7

\* An entry names a page exactly when it is there.
LEMMA Paged ==
    /\ NoEntry.page \notin Pages /\ NoEntry.mode = "none"
    /\ \A e \in Entries : e.page \in Pages <=> e # NoEntry
    /\ \A e \in Entries : e.page \notin Pages => e.page = NoEntry.page
<1>1. NoEntry.page \notin Pages /\ NoEntry.mode = "none"
  BY SMTT(60), CopyOnWriteAssumption DEF NoEntry, Entry
<1> QED
  BY ZenonT(60), <1>1 DEF Entries

\* Nobody has a page of count zero, nor one that is not occupied.
LEMMA Unused ==
    ASSUME Cardinalities, CInv, NEW p \in Pages
    PROVE  /\ p \notin occupied => refs[p] = 0
           /\ p \notin occupied => \A s \in Roots : ~(op[s].at = "map" /\ op[s].page = p)
           /\ refs[p] = 0 => /\ \A s \in Roots : \A w \in Vas : pte[s][w].page # p
                             /\ \A s \in Roots : ~Owing(s, p)
                             /\ \A w \in Vas : ~Spot(p, w)
<1>1. refs[p] \in Nat
  BY ZenonT(60) DEF CInv, CountTypes
<1>2. (refs[p] = 0 <=> ~(refs[p] > 0))
  BY SMTT(60), <1>1
<1>3. /\ p \notin occupied => refs[p] = 0
      /\ p \notin occupied => \A s \in Roots : ~(op[s].at = "map" /\ op[s].page = p)
  BY ZenonT(60), <1>2 DEF CInv, Occupancy
<1>4. ASSUME refs[p] = 0
      PROVE  /\ \A s \in Roots : \A w \in Vas : pte[s][w].page # p
             /\ \A s \in Roots : ~Owing(s, p)
  <2>1. CountTypes /\ Counts
    BY ZenonT(60) DEF CInv
  <2> QED
    BY ZenonT(60), <1>2, <1>4, <2>1, Read
<1>5. ASSUME refs[p] = 0
      PROVE  \A w \in Vas : ~Spot(p, w)
  BY ZenonT(60), <1>4, <1>5 DEF Spot
<1> QED
  BY ZenonT(60), <1>3, <1>4, <1>5

-----------------------------------------------------------------------------
(* The three ways a step changes what is counted.                           *)

\* What the others are in stays as it is.
Alike(r) == \A s \in Roots \ {r} : op'[s] = op[s]

SamePages == \A s \in Roots : \A w \in Vas : pte'[s][w].page = pte[s][w].page

\* The counts change by the reference operation r takes or lets go.
Charges(r) == \A p \in Pages : refs'[p] = refs[p] + Num(Owing(r, p)') - Num(Owing(r, p))

\* It takes one only of a page its own root maps, where it is mapped.
TakesOwn(r) ==
    \A p \in Pages : Owing(r, p)' =>
       Spot(p, op'[r].va) /\ (Owing(r, p) \/ \E w \in Vas : pte[r][w].page = p)

NewWriters == \A s \in Roots : \A w \in Vas : Writes(s, w)' => Writes(s, w) \/ Lone(s, w)

\* No other operation is about to map a page this one has given a count.
Unmapping(r) == \A s \in Roots \ {r} : op[s].at = "map" => refs'[op[s].page] = 0

\* A builder's root is its own to change: it is not the one another process
\* runs in or builds.
LEMMA Apart ==
    ASSUME IInv, NEW r \in Roots, state[r] \in {"live", "dying"}, NEW s \in Roots \ {r}
    PROVE  /\ Building(s) => op[s].dest \in Roots /\ op[s].dest # r
           /\ Building(r) => op[r].dest \in Roots \ {r} /\ op[op[r].dest].at = "user"
           /\ Building(r) /\ Building(s) => op[s].dest # op[r].dest
           /\ Building(r) /\ op[s].at # "user" => op[r].dest # s
BY ZenonT(60) DEF IInv, BuildOK

\* A step that moves no page from one entry to another.
LEMMA Kept ==
    ASSUME Cardinalities, IInv, CInv, IInv', NEW r \in Roots, Alike(r), SamePages, Charges(r),
           TakesOwn(r),
           NewWriters, Unmapping(r), Tied(r)', CountTypes', Occupancy', FreeEmpty'
    PROVE  CInv'
<1>1. ASSUME NEW p \in Pages
      PROVE  refs'[p] = Cardinality(Maps(p)') + Cardinality(Owes(p)')
  <2>1. Maps(p)' = Maps(p)
    BY SMTT(60) DEF Maps, SamePages
  <2>2. Owes(p)' \ {r} = Owes(p) \ {r}
    BY SMTT(60) DEF Owes, Alike
  <2>3. IsFiniteSet(Owes(p)) /\ IsFiniteSet(Maps(p))
    BY ZenonT(60), Finite
  <2>4. Cardinality(Owes(p)) \in Nat /\ Cardinality(Maps(p)) \in Nat
    BY ZenonT(60), <2>3 DEF Cardinalities
  <2>5. Cardinality(Owes(p)') = Cardinality(Owes(p)) - Num(r \in Owes(p))
                                + Num(r \in Owes(p)')
    BY <2>2, <2>3, SMT DEF Cardinalities
  <2>6. (r \in Owes(p) <=> Owing(r, p)) /\ (r \in Owes(p)' <=> Owing(r, p)')
    BY ZenonT(60) DEF Owes, Owing
  <2>7. /\ refs[p] = Cardinality(Maps(p)) + Cardinality(Owes(p))
        /\ refs'[p] = refs[p] + Num(Owing(r, p)') - Num(Owing(r, p))
    BY ZenonT(60) DEF CInv, Counts, Charges
  <2> QED
    BY SMTT(60), <2>1, <2>4, <2>5, <2>6, <2>7 DEF Num
<1>2. ASSUME NEW p \in Pages, NEW w \in Vas, Spot(p, w)'
      PROVE  Spot(p, w)
  <2>1. CASE \E s \in Roots : pte'[s][w].page = p
    BY ZenonT(60), <2>1 DEF Spot, SamePages
  <2>2. ASSUME NEW s \in Roots, Owing(s, p)', op'[s].va = w
        PROVE  Spot(p, w)
    <3>1. CASE s = r
      BY ZenonT(60), <2>2, <3>1 DEF TakesOwn
    <3>2. CASE s # r
      <4>1. op'[s] = op[s]
        BY ZenonT(60), <2>2, <3>2 DEF Alike
      <4> QED
        BY ZenonT(60), <2>2, <4>1 DEF Spot, Owing
    <3> QED
      BY ZenonT(60), <3>1, <3>2
  <2> QED
    BY ZenonT(60), <1>2, <2>1, <2>2 DEF Spot
<1>3. Aligned'
  BY ZenonT(60), <1>2 DEF CInv, Aligned
<1>4. \A s \in Roots : \A w \in Vas :
         /\ pte'[s][w] = NoEntry <=> pte[s][w] = NoEntry
         /\ pte[s][w] # NoEntry => pte[s][w].page \in Pages
         /\ pte[s][w].mode = "rw" => pte[s][w] # NoEntry
  <2>1. \A s \in Roots : \A w \in Vas : pte[s][w] \in Entries /\ pte'[s][w] \in Entries
    BY ZenonT(60) DEF IInv, Types
  <2> QED
    BY SMTT(60), <2>1, Paged DEF SamePages
<1>5. LoneWriter'
  <2> SUFFICES ASSUME NEW s \in Roots, NEW w \in Vas, Writes(s, w)'
               PROVE  Lone(s, w)'
    BY ZenonT(60) DEF LoneWriter
  <2>1. Lone(s, w)
    BY ZenonT(60) DEF CInv, LoneWriter, NewWriters
  <2>2. \A t \in Roots : \A u \in Vas : pte'[t][u].page = pte'[s][w].page => t = s /\ u = w
    <3> SUFFICES ASSUME NEW t \in Roots, NEW u \in Vas, pte'[t][u].page = pte'[s][w].page
                 PROVE  t = s /\ u = w
      BY ZenonT(60)
    <3>1. pte[t][u].page = pte[s][w].page
      BY ZenonT(60) DEF SamePages
    <3> QED
      BY ZenonT(60), <2>1, <3>1 DEF Lone
  <2>3. pte[s][w].page \in Pages
    <3>1. pte'[s][w] # NoEntry
      <4>1. CASE pte'[s][w].mode = "rw"
        BY ZenonT(60), <4>1, Paged
      <4>2. CASE op'[s].at = "sole" /\ op'[s].va = w
        BY ZenonT(60), <4>2 DEF IInv, BuildOK, OpOK
      <4> QED
        BY ZenonT(60), <4>1, <4>2 DEF Writes
    <3> QED
      BY ZenonT(60), <1>4, <3>1
  <2>5. pte'[s][w].page = pte[s][w].page
    BY ZenonT(60) DEF SamePages
  <2>4. ASSUME NEW t \in Roots, Owing(t, pte[s][w].page)'
        PROVE  t = s
    <3>1. CASE t # r
      <4>1. op'[t] = op[t]
        BY ZenonT(60), <3>1 DEF Alike
      <4>2. Owing(t, pte[s][w].page)
        BY ZenonT(60), <2>4, <2>5, <4>1 DEF Owing
      <4> QED
        BY ZenonT(60), <2>1, <4>2 DEF Lone
    <3>2. CASE t = r
      <4>1. Owing(r, pte[s][w].page) \/ \E u \in Vas : pte[r][u].page = pte[s][w].page
        BY ZenonT(60), <2>3, <2>4, <2>5, <3>2 DEF TakesOwn
      <4> QED
        BY ZenonT(60), <2>1, <3>2, <4>1 DEF Lone
    <3> QED
      BY ZenonT(60), <3>1, <3>2
  <2> QED
    BY ZenonT(60), <2>2, <2>4, <2>5 DEF Lone
<1>6. ASSUME NEW s \in Roots \ {r}
      PROVE  Tied(s)'
  <2>1. op'[s] = op[s] /\ Tied(s) /\ OpOK(s)
    BY ZenonT(60), <1>6 DEF Alike, CInv, IInv, BuildOK
  <2>2. Charge(s)' = Charge(s) /\ Charge(s) \in Roots
    BY ZenonT(60), <2>1 DEF Charge, Building, IInv, BuildOK
  <2>3. op[s].at \in {"retain", "entry"} => op[s].dest \in Roots
    BY ZenonT(60) DEF IInv, BuildOK, Building
  <2>4. op[s].at \in {"copy", "map"} => pte'[s][op[s].va] # NoEntry
    BY ZenonT(60), <1>4, <2>1 DEF Tied, OpOK
  <2>5. op[s].at = "map" => \A t \in Roots :
           op'[t].at = "map" /\ op'[t].page = op[s].page => t = s
    <3> SUFFICES ASSUME op[s].at = "map", NEW t \in Roots,
                        op'[t].at = "map", op'[t].page = op[s].page
                 PROVE  t = s
      BY ZenonT(60)
    <3>1. CASE t = r
      BY ZenonT(60), <2>1, <3>1 DEF Tied
    <3>2. CASE t # r
      BY ZenonT(60), <2>1, <3>2 DEF Tied, Alike
    <3> QED
      BY ZenonT(60), <3>1, <3>2
  <2>6. op[s].at \in {"retain", "entry"} => /\ pte'[s][op[s].va].page = op[s].page
                                            /\ pte'[op[s].dest][op[s].va] = NoEntry
    BY ZenonT(60), <1>4, <2>1, <2>3 DEF Tied, OpOK, SamePages
  <2>7. op[s].at \in {"entry", "release"} => op[s].va \in Vas
    BY ZenonT(60), <2>1 DEF Tied, OpOK
  <2>8. op[s].at \in {"entry", "release"} =>
           pte'[Charge(s)][op[s].va].page # op[s].page
    BY ZenonT(60), <2>1, <2>2, <2>7 DEF Tied, SamePages
  <2>9. op[s].at = "map" => refs'[op[s].page] = 0
    BY ZenonT(60) DEF Unmapping
  <2>10. op[s].at = "release" => op[s].page \in Pages
    BY ZenonT(60), <2>1 DEF Tied
  <2> QED
    BY ZenonT(60), <2>1, <2>2, <2>4, <2>5, <2>6, <2>7, <2>8, <2>9, <2>10 DEF Tied
<1> QED
  BY ZenonT(60), <1>1, <1>3, <1>5, <1>6 DEF CInv, Counts

\* One entry changes.
OneEntry(d, v, e) ==
    \A s \in Roots : \A w \in Vas :
       pte'[s][w] = IF s = d /\ w = v THEN e ELSE pte[s][w]

\* The page that comes in is nobody's, and its count becomes one.
Fills(r, e) ==
    /\ e.page \in Pages => refs[e.page] = 0
    /\ \A s \in Roots \ {r} : op[s].at = "map" => op[s].page # e.page
    /\ \A p \in Pages : refs'[p] = IF p = e.page THEN 1 ELSE refs[p]

\* The page that goes out is r's to release, for the root it left.
Drops(r, d, v) ==
    /\ op[r].at \notin {"entry", "release"}
    /\ \/ op'[r].at = "user" /\ pte[d][v] = NoEntry
       \/ /\ op'[r].at = "release" /\ op'[r].va = v /\ op'[r].page = pte[d][v].page
          /\ Charge(r)' = d /\ pte[d][v] # NoEntry

\* A step that replaces an entry, by none or by one of a page nobody has.
LEMMA Replaced ==
    ASSUME Cardinalities, IInv, CInv, IInv', NEW r \in Roots, NEW d \in Roots, NEW v \in Vas,
           NEW e \in Entries, Alike(r), UNCHANGED state, state[r] \in {"live", "dying"},
           d = r \/ (Building(r) /\ d = op[r].dest),
           OneEntry(d, v, e), Fills(r, e), Drops(r, d, v), CountTypes', Occupancy'
    PROVE  CInv'
<1>1. \A p \in Pages : ~Owing(r, p) /\ (Owing(r, p)' <=> pte[d][v].page = p)
  <2>1. pte[d][v] = NoEntry <=> pte[d][v].page \notin Pages
    <3>1. pte[d][v] \in Entries
      BY ZenonT(60) DEF IInv, Types
    <3> QED
      BY ZenonT(60), <3>1, Paged
  <2> QED
    BY ZenonT(60), <2>1 DEF Drops, Owing
<1>2. ASSUME e.page \in Pages
      PROVE  /\ \A s \in Roots : \A w \in Vas : pte[s][w].page # e.page
             /\ \A s \in Roots : ~Owing(s, e.page)
  BY ZenonT(60), <1>2, Unused DEF Fills
<1>a. /\ pte'[d][v] = e
      /\ \A s \in Roots : \A w \in Vas : s # d \/ w # v => pte'[s][w] = pte[s][w]
  BY ZenonT(60) DEF OneEntry
<1>3. Counts'
  <2>1. \A s \in Roots : \A w \in Vas :
           s # d \/ w # v => pte'[s][w].page = pte[s][w].page
    BY ZenonT(60) DEF OneEntry
  <2>2. \A s \in Roots \ {r} : op'[s] = op[s]
    BY ZenonT(60) DEF Alike
  <2>3. CountTypes /\ Counts /\ refs \in [Pages -> Nat]
    BY ZenonT(60) DEF CInv, CountTypes
  <2>4. ASSUME NEW p \in Pages
        PROVE  refs'[p] = refs[p] + Num(pte'[d][v].page = p) - Num(pte[d][v].page = p)
                                  + Num(Owing(r, p)') - Num(Owing(r, p))
    <3>1. pte'[d][v] = e
      BY ZenonT(60) DEF OneEntry
    <3>2. /\ refs'[p] = IF p = e.page THEN 1 ELSE refs[p]
          /\ p = e.page => refs[p] = 0
      BY ZenonT(60) DEF Fills
    <3>3. ~Owing(r, p) /\ (Owing(r, p)' <=> pte[d][v].page = p)
      BY ZenonT(60), <1>1
    <3>4. refs[p] \in Nat
      BY ZenonT(60), <2>3
    <3> QED
      BY SMTT(60), <3>1, <3>2, <3>3, <3>4 DEF Num
  <2>5. \A p \in Pages :
           refs'[p] = refs[p] + Num(pte'[d][v].page = p) - Num(pte[d][v].page = p)
                              + Num(Owing(r, p)') - Num(Owing(r, p))
    BY ZenonT(60), <2>4
  <2> QED
    BY ZenonT(60), <2>1, <2>2, <2>3, <2>5, Recount
<1>4. ASSUME NEW p \in Pages, NEW w \in Vas, Spot(p, w)'
      PROVE  IF p = e.page THEN w = v ELSE Spot(p, w)
  <2>1. ASSUME NEW s \in Roots, pte'[s][w].page = p
        PROVE  IF p = e.page THEN w = v ELSE Spot(p, w)
    <3>1. CASE s = d /\ w = v
      BY ZenonT(60), <1>a, <2>1, <3>1
    <3>2. CASE s # d \/ w # v
      <4>1. pte[s][w].page = p
        BY ZenonT(60), <1>a, <2>1, <3>2
      <4>2. p # e.page
        BY ZenonT(60), <1>2, <4>1
      <4> QED
        BY ZenonT(60), <4>1, <4>2 DEF Spot
    <3> QED
      BY ZenonT(60), <3>1, <3>2
  <2>2. ASSUME NEW s \in Roots, Owing(s, p)', op'[s].va = w
        PROVE  IF p = e.page THEN w = v ELSE Spot(p, w)
    <3>1. CASE s = r
      <4>1. pte[d][v].page = p
        BY ZenonT(60), <1>1, <2>2, <3>1
      <4>2. p # e.page
        BY ZenonT(60), <1>2, <4>1
      <4>3. w = v
        BY ZenonT(60), <2>2, <3>1 DEF Owing, Drops
      <4> QED
        BY ZenonT(60), <4>1, <4>2, <4>3 DEF Spot
    <3>2. CASE s # r
      <4>1. op'[s] = op[s]
        BY ZenonT(60), <3>2 DEF Alike
      <4>2. Owing(s, p) /\ op[s].va = w
        BY ZenonT(60), <2>2, <4>1 DEF Owing
      <4> QED
        BY ZenonT(60), <1>2, <4>2 DEF Spot
    <3> QED
      BY ZenonT(60), <3>1, <3>2
  <2> QED
    BY ZenonT(60), <1>4, <2>1, <2>2 DEF Spot
<1>5. Aligned'
  <2> SUFFICES ASSUME NEW p \in Pages, NEW u \in Vas, NEW w \in Vas, Spot(p, u)', Spot(p, w)'
               PROVE  u = w
    BY ZenonT(60) DEF Aligned
  <2> QED
    BY ZenonT(60), <1>4 DEF CInv, Aligned
<1>6. \A s \in Roots : \A w \in Vas :
         /\ pte[s][w] # NoEntry => pte[s][w].page \in Pages
         /\ pte[s][w].mode = "rw" => pte[s][w] # NoEntry
  <2> SUFFICES ASSUME NEW s \in Roots, NEW w \in Vas
               PROVE  /\ pte[s][w] # NoEntry => pte[s][w].page \in Pages
                      /\ pte[s][w].mode = "rw" => pte[s][w] # NoEntry
    BY ZenonT(60)
  <2>1. pte[s][w] \in Entries
    BY ZenonT(60) DEF IInv, Types
  <2> QED
    BY ZenonT(60), <2>1, Paged
<1>7. d # r => op[d].at = "user" /\ op'[d] = op[d]
  BY ZenonT(60) DEF IInv, BuildOK, Alike
<1>8. LoneWriter'
  <2> SUFFICES ASSUME NEW s \in Roots, NEW w \in Vas, Writes(s, w)'
               PROVE  Lone(s, w)'
    BY ZenonT(60) DEF LoneWriter
  <2>1. CASE s = d /\ w = v
    <3>1. pte'[s][w] = e
      BY ZenonT(60), <2>1 DEF OneEntry
    <3>2. op'[d].at # "sole"
      BY ZenonT(60), <1>7 DEF Drops
    <3>3. e.mode = "rw" /\ e.page \in Pages
      BY ZenonT(60), <2>1, <3>1, <3>2, Paged DEF Writes
    <3>4. \A t \in Roots : \A u \in Vas : pte'[t][u].page = e.page => t = s /\ u = w
      <4> SUFFICES ASSUME NEW t \in Roots, NEW u \in Vas, pte'[t][u].page = e.page,
                          t # d \/ u # v
                   PROVE  FALSE
        BY ZenonT(60), <2>1
      <4>1. pte[t][u].page = e.page
        BY ZenonT(60), <1>a
      <4> QED
        BY ZenonT(60), <1>2, <3>3, <4>1
    <3>5. ASSUME NEW t \in Roots, Owing(t, e.page)'
          PROVE  FALSE
      <4>1. CASE t = r
        BY ZenonT(60), <1>1, <1>2, <3>3, <3>5, <4>1
      <4>2. CASE t # r
        <5>1. op'[t] = op[t]
          BY ZenonT(60), <4>2 DEF Alike
        <5>2. Owing(t, e.page)
          BY ZenonT(60), <3>5, <5>1 DEF Owing
        <5> QED
          BY ZenonT(60), <1>2, <3>3, <5>2
      <4> QED
        BY ZenonT(60), <4>1, <4>2
    <3> QED
      BY ZenonT(60), <3>1, <3>4, <3>5 DEF Lone, Owing
  <2>2. CASE ~(s = d /\ w = v)
    <3>1. pte'[s][w] = pte[s][w]
      BY ZenonT(60), <2>2 DEF OneEntry
    <3>2. Writes(s, w)
      <4>1. CASE s = r
        BY ZenonT(60), <3>1, <4>1 DEF Writes, Drops
      <4>2. CASE s # r
        BY ZenonT(60), <3>1, <4>2 DEF Writes, Alike
      <4> QED
        BY ZenonT(60), <4>1, <4>2
    <3>3. Lone(s, w)
      BY ZenonT(60), <3>2 DEF CInv, LoneWriter
    <3>4. pte[s][w].page \in Pages
      BY ZenonT(60), <1>6, <3>2 DEF Writes, IInv, BuildOK, OpOK
    <3>5. pte[s][w].page # e.page
      BY ZenonT(60), <1>2, <3>4
    <3>6. \A t \in Roots : \A u \in Vas : pte'[t][u].page = pte[s][w].page => t = s /\ u = w
      <4> SUFFICES ASSUME NEW t \in Roots, NEW u \in Vas, pte'[t][u].page = pte[s][w].page
                   PROVE  t = s /\ u = w
        BY ZenonT(60)
      <4>1. t # d \/ u # v
        BY ZenonT(60), <1>a, <3>5
      <4>2. pte[t][u].page = pte[s][w].page
        BY ZenonT(60), <1>a, <4>1
      <4> QED
        BY ZenonT(60), <3>3, <4>2 DEF Lone
    <3>7. ASSUME NEW t \in Roots, Owing(t, pte[s][w].page)'
          PROVE  t = s
      <4>1. CASE t = r
        <5>1. pte[d][v].page = pte[s][w].page
          BY ZenonT(60), <1>1, <3>1, <3>4, <3>7, <4>1
        <5> QED
          BY ZenonT(60), <2>2, <3>3, <5>1 DEF Lone
      <4>2. CASE t # r
        <5>1. op'[t] = op[t]
          BY ZenonT(60), <4>2 DEF Alike
        <5>2. Owing(t, pte[s][w].page)
          BY ZenonT(60), <3>1, <3>7, <5>1 DEF Owing
        <5> QED
          BY ZenonT(60), <3>3, <5>2 DEF Lone
      <4> QED
        BY ZenonT(60), <4>1, <4>2
    <3> QED
      BY ZenonT(60), <3>1, <3>6, <3>7 DEF Lone
  <2> QED
    BY ZenonT(60), <2>1, <2>2
<1>9. FreeEmpty'
  <2>1. state[d] # "free"
    BY ZenonT(60) DEF IInv, BuildOK
  <2> SUFFICES ASSUME NEW s \in Roots, state[s] = "free", NEW w \in Vas
               PROVE  pte'[s][w] = NoEntry
    BY ZenonT(60) DEF FreeEmpty
  <2>2. s # d /\ pte[s][w] = NoEntry
    BY ZenonT(60), <2>1 DEF CInv, FreeEmpty
  <2> QED
    BY ZenonT(60), <1>a, <2>2
<1>10. Tied(r)'
  <2>1. pte'[d][v] = e
    BY ZenonT(60) DEF OneEntry
  <2>2. pte[d][v] # NoEntry => pte[d][v].page \in Pages /\ pte[d][v].page # e.page
    BY ZenonT(60), <1>2, <1>6
  <2> QED
    BY ZenonT(60), <2>1, <2>2 DEF Tied, Drops
<1>11. ASSUME NEW s \in Roots \ {r}
       PROVE  Tied(s)'
  <2>1. op'[s] = op[s] /\ Tied(s) /\ OpOK(s)
    BY ZenonT(60), <1>11 DEF Alike, CInv, IInv, BuildOK
  <2>2. Charge(s)' = Charge(s)
    BY ZenonT(60), <2>1 DEF Charge, Building
  <2>3. /\ Building(s) => op[s].dest \in Roots /\ op[s].dest # d
        /\ op[s].at # "user" => s # d
    <3>1. CASE d = r
      BY ZenonT(60), <1>11, <3>1, Apart
    <3>2. CASE Building(r) /\ d = op[r].dest
      BY ZenonT(60), <1>11, <3>2, Apart
    <3> QED
      BY ZenonT(60), <3>1, <3>2
  <2>4. op[s].at # "user" => \A w \in Vas : pte'[s][w] = pte[s][w]
    BY ZenonT(60), <2>3 DEF OneEntry
  <2>5. op[s].at \in {"copy", "map"} => pte'[s][op[s].va] # NoEntry
    BY ZenonT(60), <2>1, <2>4 DEF Tied, OpOK
  <2>6. op[s].at = "map" => \A t \in Roots :
           op'[t].at = "map" /\ op'[t].page = op[s].page => t = s
    <3> SUFFICES ASSUME op[s].at = "map", NEW t \in Roots,
                        op'[t].at = "map", op'[t].page = op[s].page
                 PROVE  t = s
      BY ZenonT(60)
    <3>1. t # r
      BY ZenonT(60) DEF Drops
    <3> QED
      BY ZenonT(60), <2>1, <3>1 DEF Tied, Alike
  <2>7. op[s].at \in {"retain", "entry"} => /\ pte'[s][op[s].va].page = op[s].page
                                            /\ pte'[op[s].dest][op[s].va] = NoEntry
    BY ZenonT(60), <2>1, <2>3, <2>4 DEF Tied, OpOK, OneEntry, Building
  <2>8. op[s].at \in {"entry", "release"} => op[s].va \in Vas /\ op[s].page \in Pages
    BY ZenonT(60), <2>1 DEF Tied, OpOK
  <2>9. op[s].at \in {"entry", "release"} =>
           pte'[Charge(s)][op[s].va].page # op[s].page
    <3> SUFFICES ASSUME op[s].at \in {"entry", "release"}
                 PROVE  pte'[Charge(s)][op[s].va].page # op[s].page
      BY ZenonT(60)
    <3>1. Charge(s) \in Roots \ {d}
      BY ZenonT(60), <2>3 DEF Charge
    <3> QED
      BY ZenonT(60), <2>1, <2>8, <3>1 DEF Tied, OneEntry
  <2>10. op[s].at = "map" => refs'[op[s].page] = 0
    BY ZenonT(60), <2>1 DEF Tied, Fills, OpOK
  <2> QED
    BY ZenonT(60), <2>1, <2>2, <2>5, <2>6, <2>7, <2>8, <2>9, <2>10 DEF Tied
<1> QED
  BY ZenonT(60), <1>3, <1>5, <1>8, <1>9, <1>10, <1>11 DEF CInv

\* Fork's entry: the reference it took becomes the child's entry, and the
\* parent's entry keeps its page and loses its permission.
LEMMA Shared ==
    ASSUME Cardinalities, IInv, CInv, IInv', NEW r \in Roots, ForkEntry(r)
    PROVE  CInv'
<1> DEFINE q == op[r].dest
           v == op[r].va
           p == op[r].page
           e == Entry(p, "cow")
<1>1. op[r].at = "entry" /\ Building(r) /\ state[r] \in {"live", "dying"}
  BY ZenonT(60), Acting DEF ForkEntry, At, Building
<1>2. /\ q \in Roots \ {r} /\ v \in Vas /\ p \in Pages /\ state[q] = "building"
      /\ op[q].at = "user"
  BY ZenonT(60), <1>1 DEF IInv, BuildOK, OpOK
<1>3. pte[r][v].page = p /\ pte[q][v] = NoEntry /\ Owing(r, p)
  BY ZenonT(60), <1>1 DEF CInv, Tied, Owing
<1>4. e.page = p /\ e.mode = "cow"
  BY SMTT(60) DEF Entry
<1>5. /\ UNCHANGED <<state, occupied, refs, content>>
      /\ pte' = [pte EXCEPT ![q][v] = e, ![r][v] = e]
      /\ Become(r, Op("fork", NoVa, NoPage, q, "user"))
  BY ZenonT(60) DEF ForkEntry
<1> HIDE DEF e
<1>6. /\ pte'[q][v] = e /\ pte'[r][v] = e
      /\ \A s \in Roots : \A w \in Vas :
            ~(s \in {q, r} /\ w = v) => pte'[s][w] = pte[s][w]
  <2>1. pte \in [Roots -> [Vas -> Entries]]
    BY ZenonT(60) DEF IInv, Types
  <2> HIDE DEF q, v
  <2> QED
    BY SMTT(60), <1>2, <1>5, <2>1
<1>7. /\ op'[r].at = "fork"
      /\ \A s \in Roots \ {r} : op'[s] = op[s]
  <2>1. op'[r] = Op("fork", NoVa, NoPage, q, "user")
        /\ \A s \in Roots \ {r} : op'[s] = op[s]
    BY ZenonT(60), <1>5 DEF Become, IInv, Types
  <2> QED
    BY SMTT(60), <2>1 DEF Op
<1> HIDE DEF q, v, p
<1>8. \A s \in Roots : \A w \in Vas : s # q \/ w # v => pte'[s][w].page = pte[s][w].page
  <2> SUFFICES ASSUME NEW s \in Roots, NEW w \in Vas, s # q \/ w # v
               PROVE  pte'[s][w].page = pte[s][w].page
    BY ZenonT(60)
  <2>1. CASE s = r /\ w = v
    BY ZenonT(60), <1>3, <1>4, <1>6, <2>1
  <2>2. CASE ~(s = r /\ w = v)
    BY ZenonT(60), <1>6, <2>2
  <2> QED
    BY ZenonT(60), <2>1, <2>2
<1>9. \A k \in Pages : ~Owing(r, k)' /\ (Owing(r, k) <=> k = p)
  BY ZenonT(60), <1>1, <1>7 DEF Owing, p
<1>10. Counts'
  <2>1. CountTypes /\ Counts /\ refs \in [Pages -> Nat]
    BY ZenonT(60) DEF CInv, CountTypes
  <2>2. ASSUME NEW k \in Pages
        PROVE  refs'[k] = refs[k] + Num(pte'[q][v].page = k) - Num(pte[q][v].page = k)
                                  + Num(Owing(r, k)') - Num(Owing(r, k))
    <3>1. /\ pte'[q][v].page = k <=> k = p
          /\ pte[q][v].page # k
      BY ZenonT(60), <1>3, <1>4, <1>6, Paged
    <3>2. ~Owing(r, k)' /\ (Owing(r, k) <=> k = p)
      BY ZenonT(60), <1>9
    <3>3. refs'[k] = refs[k] /\ refs[k] \in Nat
      BY ZenonT(60), <1>5, <2>1
    <3> QED
      BY SMTT(60), <3>1, <3>2, <3>3 DEF Num
  <2>3. \A k \in Pages :
           refs'[k] = refs[k] + Num(pte'[q][v].page = k) - Num(pte[q][v].page = k)
                              + Num(Owing(r, k)') - Num(Owing(r, k))
    BY ZenonT(60), <2>2
  <2>4. \A s \in Roots \ {r} : op'[s] = op[s]
    BY ZenonT(60), <1>7
  <2>5. q \in Roots /\ v \in Vas
    BY ZenonT(60), <1>2
  <2> QED
    BY ZenonT(60), <1>8, <2>1, <2>3, <2>4, <2>5, Recount
<1>11. Occupancy'
  <2>1. ASSUME NEW s \in Roots, NEW k
        PROVE  op'[s].at = "map" /\ op'[s].page = k <=> op[s].at = "map" /\ op[s].page = k
    BY ZenonT(60), <1>1, <1>7
  <2> QED
    BY ZenonT(60), <1>5, <2>1 DEF CInv, Occupancy
<1>12. ASSUME NEW k \in Pages, NEW w \in Vas, Spot(k, w)'
       PROVE  Spot(k, w)
  <2>1. ASSUME NEW s \in Roots, pte'[s][w].page = k
        PROVE  Spot(k, w)
    <3>1. CASE s = q /\ w = v
      <4>1. k = p
        BY ZenonT(60), <1>4, <1>6, <2>1, <3>1
      <4> QED
        BY ZenonT(60), <1>3, <3>1, <4>1 DEF Spot
    <3>2. CASE s # q \/ w # v
      BY ZenonT(60), <1>8, <2>1, <3>2 DEF Spot
    <3> QED
      BY ZenonT(60), <3>1, <3>2
  <2>2. ASSUME NEW s \in Roots, Owing(s, k)', op'[s].va = w
        PROVE  Spot(k, w)
    <3>1. s # r
      BY ZenonT(60), <1>9, <2>2
    <3>2. Owing(s, k) /\ op[s].va = w
      BY ZenonT(60), <1>7, <2>2, <3>1 DEF Owing
    <3> QED
      BY ZenonT(60), <3>2 DEF Spot
  <2> QED
    BY ZenonT(60), <1>12, <2>1, <2>2 DEF Spot
<1>13. Aligned'
  BY ZenonT(60), <1>12 DEF CInv, Aligned
<1>14. LoneWriter'
  <2> SUFFICES ASSUME NEW s \in Roots, NEW w \in Vas, Writes(s, w)'
               PROVE  Lone(s, w)'
    BY ZenonT(60) DEF LoneWriter
  <2>1. op'[s].at = "sole" => s \notin {q, r}
    BY ZenonT(60), <1>2, <1>7
  <2>2. ~(s \in {q, r} /\ w = v)
    BY ZenonT(60), <1>4, <1>6, <2>1 DEF Writes
  <2>3. pte'[s][w] = pte[s][w]
    BY ZenonT(60), <1>6, <2>2
  <2>4. Writes(s, w)
    BY ZenonT(60), <1>7, <2>1, <2>3 DEF Writes
  <2>5. Lone(s, w)
    BY ZenonT(60), <2>4 DEF CInv, LoneWriter
  <2>6. pte[s][w].page # p
    BY ZenonT(60), <1>2, <1>3, <2>2, <2>5 DEF Lone
  <2>7. \A t \in Roots : \A u \in Vas : pte'[t][u].page = pte[s][w].page => t = s /\ u = w
    <3> SUFFICES ASSUME NEW t \in Roots, NEW u \in Vas, pte'[t][u].page = pte[s][w].page
                 PROVE  t = s /\ u = w
      BY ZenonT(60)
    <3>1. t # q \/ u # v
      BY ZenonT(60), <1>4, <1>6, <2>6
    <3>2. pte[t][u].page = pte[s][w].page
      BY ZenonT(60), <1>8, <3>1
    <3> QED
      BY ZenonT(60), <2>5, <3>2 DEF Lone
  <2>8. ASSUME NEW t \in Roots, Owing(t, pte[s][w].page)'
        PROVE  t = s
    <3>1. t # r
      BY ZenonT(60), <1>7, <2>8 DEF Owing
    <3>2. Owing(t, pte[s][w].page)
      BY ZenonT(60), <1>7, <2>3, <2>8, <3>1 DEF Owing
    <3> QED
      BY ZenonT(60), <2>5, <3>2 DEF Lone
  <2> QED
    BY ZenonT(60), <2>3, <2>7, <2>8 DEF Lone
<1>15. FreeEmpty'
  <2>1. state[q] # "free" /\ state[r] # "free"
    BY ZenonT(60), <1>1, <1>2
  <2>2. \A s \in Roots : state[s] = "free" => \A w \in Vas : pte'[s][w] = pte[s][w]
    BY ZenonT(60), <1>6, <2>1
  <2>3. UNCHANGED state
    BY ZenonT(60), <1>5
  <2> SUFFICES ASSUME NEW s \in Roots, state[s] = "free", NEW w \in Vas
               PROVE  pte'[s][w] = NoEntry
    BY ZenonT(60), <2>3 DEF FreeEmpty
  <2>4. pte[s][w] = NoEntry
    BY ZenonT(60) DEF CInv, FreeEmpty
  <2> QED
    BY ZenonT(60), <2>2, <2>4
<1>16. Tied(r)'
  BY ZenonT(60), <1>7 DEF Tied
<1>17. ASSUME NEW s \in Roots \ {r}
       PROVE  Tied(s)'
  <2>1. op'[s] = op[s] /\ Tied(s) /\ OpOK(s)
    BY ZenonT(60), <1>7 DEF CInv, IInv, BuildOK
  <2>2. Charge(s)' = Charge(s)
    BY ZenonT(60), <2>1 DEF Charge, Building
  <2>3. /\ Building(s) => op[s].dest \in Roots \ {q, r}
        /\ op[s].at # "user" => s \notin {q, r}
    BY ZenonT(60), <1>1, <1>2, <1>17, Apart DEF q
  <2>4. \A t \in Roots \ {q, r} : \A w \in Vas : pte'[t][w] = pte[t][w]
    BY ZenonT(60), <1>6
  <2>5. op[s].at \in {"copy", "map"} => pte'[s][op[s].va] # NoEntry
    BY ZenonT(60), <2>1, <2>3, <2>4 DEF Tied, OpOK
  <2>6. op[s].at = "map" => \A t \in Roots :
           op'[t].at = "map" /\ op'[t].page = op[s].page => t = s
    BY ZenonT(60), <1>7, <2>1 DEF Tied
  <2>7. op[s].at \in {"retain", "entry"} => /\ pte'[s][op[s].va].page = op[s].page
                                            /\ pte'[op[s].dest][op[s].va] = NoEntry
    BY ZenonT(60), <2>1, <2>3, <2>4 DEF Tied, OpOK, Building
  <2>8. op[s].at \in {"entry", "release"} => op[s].va \in Vas /\ op[s].page \in Pages
    BY ZenonT(60), <2>1 DEF Tied, OpOK
  <2>9. op[s].at \in {"entry", "release"} =>
           pte'[Charge(s)][op[s].va].page # op[s].page
    <3> SUFFICES ASSUME op[s].at \in {"entry", "release"}
                 PROVE  pte'[Charge(s)][op[s].va].page # op[s].page
      BY ZenonT(60)
    <3>1. Charge(s) \in Roots \ {q, r}
      BY ZenonT(60), <2>3 DEF Charge
    <3> QED
      BY ZenonT(60), <2>1, <2>4, <2>8, <3>1 DEF Tied
  <2>10. op[s].at = "map" => refs'[op[s].page] = 0
    BY ZenonT(60), <1>5, <2>1 DEF Tied
  <2> QED
    BY ZenonT(60), <2>1, <2>2, <2>5, <2>6, <2>7, <2>8, <2>9, <2>10 DEF Tied
<1>18. CountTypes'
  BY ZenonT(60), <1>5 DEF CInv, CountTypes
<1> QED
  BY ZenonT(60), <1>10, <1>11, <1>13, <1>14, <1>15, <1>16, <1>17, <1>18 DEF CInv

-----------------------------------------------------------------------------
(* The steps that change no entry.                                          *)

\* The steps of an operation that are about a page of their own.
Paging == {"map", "entry", "release"}

\* A process goes on to one operation, and the others stay in theirs.
LEMMA Becomes ==
    ASSUME IInv, NEW r \in Roots, NEW o, Become(r, o)
    PROVE  op'[r] = o /\ Alike(r)
BY ZenonT(60) DEF IInv, Types, Become, Alike

\* A page stays free or taken while its count and its allocations stand.
LEMMA StillOccupied ==
    ASSUME Occupancy, UNCHANGED <<refs, occupied>>,
           \A s \in Roots : \A p :
              op'[s].at = "map" /\ op'[s].page = p <=> op[s].at = "map" /\ op[s].page = p
    PROVE  Occupancy'
<1> SUFFICES ASSUME NEW p \in Pages
             PROVE  p \in occupied' <=> \/ refs'[p] > 0
                                       \/ \E s \in Roots : op'[s].at = "map" /\ op'[s].page = p
  BY ZenonT(60) DEF Occupancy
<1>1. p \in occupied <=> \/ refs[p] > 0
                         \/ \E s \in Roots : op[s].at = "map" /\ op[s].page = p
  BY ZenonT(60) DEF Occupancy
<1>2. (\E s \in Roots : op[s].at = "map" /\ op[s].page = p)
      <=> (\E s \in Roots : op'[s].at = "map" /\ op'[s].page = p)
  BY ZenonT(60)
<1>3. refs'[p] = refs[p] /\ occupied' = occupied
  BY ZenonT(60)
<1> QED
  BY ZenonT(60), <1>1, <1>2, <1>3

\* A step that neither takes nor gives up a page.
LEMMA Idle ==
    ASSUME Cardinalities, IInv, CInv, IInv', NEW r \in Roots, Alike(r), UNCHANGED <<pte, refs,
           occupied>>,
           CountTypes', FreeEmpty', op[r].at \notin Paging, op'[r].at \notin Paging,
           op'[r].at = "sole" => Lone(r, op'[r].va),
           op'[r].at = "copy" => pte[r][op'[r].va] # NoEntry,
           op'[r].at = "retain" => /\ pte[r][op'[r].va].page = op'[r].page
                                   /\ pte[op'[r].dest][op'[r].va] = NoEntry
    PROVE  CInv'
<1>1. SamePages
  BY ZenonT(60) DEF SamePages
<1>2. \A p : ~Owing(r, p) /\ ~Owing(r, p)'
  BY ZenonT(60) DEF Owing, Paging
<1>3. Charges(r)
  <2> SUFFICES ASSUME NEW p \in Pages
               PROVE  refs'[p] = refs[p] + Num(Owing(r, p)') - Num(Owing(r, p))
    BY ZenonT(60) DEF Charges
  <2>1. refs[p] \in Nat
    BY ZenonT(60) DEF CInv, CountTypes
  <2> QED
    BY SMTT(60), <1>2, <2>1 DEF Num
<1>4. TakesOwn(r)
  BY ZenonT(60), <1>2 DEF TakesOwn
<1>5. NewWriters
  BY ZenonT(60) DEF NewWriters, Writes, Alike
<1>6. Unmapping(r)
  BY ZenonT(60) DEF Unmapping, CInv, Tied
<1>7. Tied(r)'
  BY ZenonT(60) DEF Tied, Paging
<1>8. Occupancy'
  <2>1. ASSUME NEW s \in Roots, NEW p
        PROVE  op'[s].at = "map" /\ op'[s].page = p <=> op[s].at = "map" /\ op[s].page = p
    BY ZenonT(60) DEF Alike, Paging
  <2>2. Occupancy /\ UNCHANGED <<refs, occupied>>
    BY ZenonT(60) DEF CInv
  <2> QED
    BY ZenonT(60), <2>1, <2>2, StillOccupied
<1> QED
  BY ZenonT(60), <1>1, <1>3, <1>4, <1>5, <1>6, <1>7, <1>8, Kept

\* A step that allocates the page a mapping is to be replaced by.
LEMMA Allocated ==
    ASSUME Cardinalities, IInv, CInv, IInv', NEW r \in Roots, Alike(r), UNCHANGED <<state,
           pte, refs>>,
           CountTypes', op[r].at \notin Paging,
           NEW p \in Pages, p \notin occupied, occupied' = occupied \cup {p},
           op'[r].at = "map", op'[r].page = p, pte[r][op'[r].va] # NoEntry
    PROVE  CInv'
<1>1. SamePages
  BY ZenonT(60) DEF SamePages
<1>2. \A k : ~Owing(r, k) /\ ~Owing(r, k)'
  BY ZenonT(60) DEF Owing, Paging
<1>3. Charges(r)
  <2> SUFFICES ASSUME NEW k \in Pages
               PROVE  refs'[k] = refs[k] + Num(Owing(r, k)') - Num(Owing(r, k))
    BY ZenonT(60) DEF Charges
  <2>1. refs[k] \in Nat
    BY ZenonT(60) DEF CInv, CountTypes
  <2> QED
    BY SMTT(60), <1>2, <2>1 DEF Num
<1>4. TakesOwn(r)
  BY ZenonT(60), <1>2 DEF TakesOwn
<1>5. NewWriters
  BY ZenonT(60) DEF NewWriters, Writes, Alike
<1>6. Unmapping(r)
  BY ZenonT(60) DEF Unmapping, CInv, Tied
<1>7. refs[p] = 0 /\ \A s \in Roots : ~(op[s].at = "map" /\ op[s].page = p)
  BY ZenonT(60), Unused
<1>8. Tied(r)'
  <2>1. \A s \in Roots : op'[s].at = "map" /\ op'[s].page = p => s = r
    BY ZenonT(60), <1>7 DEF Alike
  <2> QED
    BY ZenonT(60), <1>7, <2>1 DEF Tied
<1>9. Occupancy'
  <2> SUFFICES ASSUME NEW k \in Pages
               PROVE  k \in occupied' <=>
                         \/ refs'[k] > 0
                         \/ \E s \in Roots : op'[s].at = "map" /\ op'[s].page = k
    BY ZenonT(60) DEF Occupancy
  <2>1. CASE k = p
    BY ZenonT(60), <2>1
  <2>2. CASE k # p
    <3>1. \A s \in Roots : op'[s].at = "map" /\ op'[s].page = k
                           <=> op[s].at = "map" /\ op[s].page = k
      BY ZenonT(60), <2>2 DEF Alike, Paging
    <3> QED
      BY ZenonT(60), <2>2, <3>1 DEF CInv, Occupancy
  <2> QED
    BY ZenonT(60), <2>1, <2>2
<1>10. FreeEmpty'
  BY ZenonT(60) DEF CInv, FreeEmpty
<1> QED
  BY ZenonT(60), <1>1, <1>3, <1>4, <1>5, <1>6, <1>8, <1>9, <1>10, Kept

\* The last hold of a release: the count loses what the operation held, and the
\* page is free when nothing else holds it.
LEMMA Released ==
    ASSUME Cardinalities, IInv, CInv, IInv', NEW r \in Roots, Release(r)
    PROVE  CInv'
<1> DEFINE p == op[r].page
<1>1. op[r].at = "release" /\ p \in Pages /\ Owing(r, p)
      /\ op[r].then \in {"user", "undo", "exec", "exit"}
  BY ZenonT(60) DEF Release, At, CInv, Tied, Owing, IInv, BuildOK, OpOK
<1>2. /\ refs' = [refs EXCEPT ![p] = @ - 1]
      /\ occupied' = IF refs[p] = 1 THEN occupied \ {p} ELSE occupied
      /\ content' = IF refs[p] = 1 THEN [content EXCEPT ![p] = Zero] ELSE content
      /\ UNCHANGED <<state, pte>>
      /\ Become(r, Op(op[r].then, NoVa, NoPage, op[r].dest, "user"))
  BY ZenonT(60) DEF Release, ReleasePage
<1> HIDE DEF p
<1>3. /\ Alike(r)
      /\ op'[r].at \in {"user", "undo", "exec", "exit"}
  <2>1. Alike(r) /\ op'[r] = Op(op[r].then, NoVa, NoPage, op[r].dest, "user")
    BY ZenonT(60), <1>2, Becomes
  <2> QED
    BY SMTT(60), <1>1, <2>1 DEF Op
<1>4. CountTypes /\ Counts /\ refs[p] \in Nat /\ refs[p] > 0
  BY ZenonT(60), <1>1, Read DEF CInv, CountTypes
<1>5. refs'[p] = refs[p] - 1 /\ \A k \in Pages \ {p} : refs'[k] = refs[k]
  BY ZenonT(60), <1>1, <1>2, <1>4 DEF CountTypes
<1>6. CountTypes'
  <2>1. refs[p] - 1 \in Nat
    BY SMTT(60), <1>4
  <2>2. refs' \in [Pages -> Nat]
    BY ZenonT(60), <1>2, <1>4, <2>1 DEF CountTypes
  <2>3. occupied' \subseteq Pages
    BY ZenonT(60), <1>2, <1>4 DEF CountTypes
  <2>4. content' \in [Pages -> Values]
    BY ZenonT(60), <1>2, <1>4, CopyOnWriteAssumption DEF CountTypes
  <2> QED
    BY ZenonT(60), <2>2, <2>3, <2>4 DEF CountTypes
<1>7. SamePages
  BY ZenonT(60), <1>2 DEF SamePages
<1>8. \A k \in Pages : ~Owing(r, k)' /\ (Owing(r, k) <=> k = p)
  BY ZenonT(60), <1>1, <1>3 DEF Owing, p
<1>9. Charges(r)
  <2> SUFFICES ASSUME NEW k \in Pages
               PROVE  refs'[k] = refs[k] + Num(Owing(r, k)') - Num(Owing(r, k))
    BY ZenonT(60) DEF Charges
  <2>1. refs[k] \in Nat
    BY ZenonT(60), <1>4 DEF CountTypes
  <2> QED
    BY SMTT(60), <1>5, <1>8, <2>1 DEF Num
<1>10. TakesOwn(r)
  BY ZenonT(60), <1>8 DEF TakesOwn
<1>11. NewWriters
  BY ZenonT(60), <1>2, <1>3 DEF NewWriters, Writes, Alike
<1>12. \A s \in Roots : ~(op[s].at = "map" /\ op[s].page = p)
  BY SMTT(60), <1>4 DEF CInv, Tied
<1>13. Unmapping(r)
  <2> SUFFICES ASSUME NEW s \in Roots \ {r}, op[s].at = "map"
               PROVE  refs'[op[s].page] = 0
    BY ZenonT(60) DEF Unmapping
  <2>1. op[s].page \in Pages \ {p} /\ refs[op[s].page] = 0
    BY ZenonT(60), <1>12 DEF CInv, Tied, IInv, BuildOK, OpOK
  <2> QED
    BY ZenonT(60), <1>5, <2>1
<1>14. Tied(r)'
  BY ZenonT(60), <1>3 DEF Tied
<1>15. Occupancy'
  <2> SUFFICES ASSUME NEW k \in Pages
               PROVE  k \in occupied' <=>
                         \/ refs'[k] > 0
                         \/ \E s \in Roots : op'[s].at = "map" /\ op'[s].page = k
    BY ZenonT(60) DEF Occupancy
  <2>1. \A s \in Roots : op'[s].at = "map" /\ op'[s].page = k
                         <=> op[s].at = "map" /\ op[s].page = k
    BY ZenonT(60), <1>1, <1>3 DEF Alike
  <2>2. k \in occupied <=> \/ refs[k] > 0
                           \/ \E s \in Roots : op[s].at = "map" /\ op[s].page = k
    BY ZenonT(60) DEF CInv, Occupancy
  <2>3. CASE k = p
    <3>1. ~\E s \in Roots : op'[s].at = "map" /\ op'[s].page = k
      BY ZenonT(60), <1>12, <2>1, <2>3
    <3>2. k \in occupied
      BY ZenonT(60), <1>4, <2>2, <2>3
    <3>3. refs'[k] > 0 <=> refs[p] # 1
      BY SMTT(60), <1>4, <1>5, <2>3
    <3> QED
      BY ZenonT(60), <1>2, <2>3, <3>1, <3>2, <3>3
  <2>4. CASE k # p
    <3>1. refs'[k] = refs[k] /\ (k \in occupied' <=> k \in occupied)
      BY ZenonT(60), <1>2, <1>5, <2>4
    <3> QED
      BY ZenonT(60), <2>1, <2>2, <3>1
  <2> QED
    BY ZenonT(60), <2>3, <2>4
<1>16. FreeEmpty'
  BY ZenonT(60), <1>2 DEF CInv, FreeEmpty
<1> QED
  BY ZenonT(60), <1>3, <1>6, <1>7, <1>9, <1>10, <1>11, <1>13, <1>14, <1>15, <1>16, Kept

\* Fork asks about a page of its own root's that the child's has not.
LEMMA Asked ==
    ASSUME Cardinalities, IInv, CInv, IInv', NEW r \in Roots, NEW v \in Vas, ForkCount(r, v)
    PROVE  CInv'
<1>1. /\ UNCHANGED <<state, pte, refs, occupied, content>>
      /\ op[r].at = "fork" /\ pte[op[r].dest][v] = NoEntry
  BY ZenonT(60) DEF ForkCount, At, Present
<1>2. Alike(r) /\ op'[r] = Op("retain", v, pte[r][v].page, op[r].dest, "fork")
  BY ZenonT(60), Becomes DEF ForkCount
<1>3. /\ op'[r].at = "retain" /\ op'[r].va = v /\ op'[r].page = pte[r][v].page
      /\ op'[r].dest = op[r].dest
  BY SMTT(60), <1>2 DEF Op
<1>4. CountTypes' /\ FreeEmpty'
  BY ZenonT(60), <1>1 DEF CInv, CountTypes, FreeEmpty
<1>5. op[r].at \notin Paging /\ op'[r].at \notin Paging
  BY ZenonT(60), <1>1, <1>3 DEF Paging
<1> QED
  BY ZenonT(60), <1>1, <1>2, <1>3, <1>4, <1>5, Idle

\* Fork takes the reference of the entry it is about to make, or undoes.
LEMMA Retained ==
    ASSUME Cardinalities, IInv, CInv, IInv', NEW r \in Roots, ForkRetain(r)
    PROVE  CInv'
<1> DEFINE v == op[r].va
           p == op[r].page
           q == op[r].dest
<1>1. /\ op[r].at = "retain" /\ q \in Roots /\ v \in Vas /\ p \in Pages
      /\ pte[r][v].page = p /\ pte[q][v] = NoEntry
  <2>1. op[r].at = "retain"
    BY ZenonT(60) DEF ForkRetain, At
  <2> QED
    BY ZenonT(60), <2>1 DEF IInv, BuildOK, Building, OpOK, CInv, Tied
<1>2. p \in Pages /\ pte[r][v] \in Entries
  BY ZenonT(60), <1>1 DEF IInv, Types
<1>3. CountTypes /\ Counts /\ UNCHANGED <<state, pte, occupied, content>>
  BY ZenonT(60) DEF ForkRetain, CInv
<1>4. refs[p] \in Nat /\ refs[p] > 0
  BY ZenonT(60), <1>1, <1>3, Read DEF CountTypes
<1>5. FreeEmpty'
  BY ZenonT(60), <1>3 DEF CInv, FreeEmpty
<1>6. CASE refs' = refs /\ Become(r, Op("undo", NoVa, NoPage, q, "user"))
  <2>1. op'[r] = Op("undo", NoVa, NoPage, q, "user") /\ Alike(r)
    BY ZenonT(60), <1>6, Becomes
  <2>2. op'[r].at = "undo"
    BY SMTT(60), <2>1 DEF Op
  <2>3. CountTypes'
    BY ZenonT(60), <1>3, <1>6 DEF CountTypes
  <2> QED
    BY ZenonT(60), <1>1, <1>3, <1>5, <1>6, <2>1, <2>2, <2>3, Idle DEF Paging
<1>7. CASE refs' = [refs EXCEPT ![p] = @ + 1] /\ Become(r, Op("entry", v, p, q, "fork"))
  <2> HIDE DEF p, q, v
  <2>1. Alike(r) /\ op'[r].at = "entry" /\ op'[r].va = v /\ op'[r].page = p
        /\ op'[r].dest = q
    <3>1. op'[r] = Op("entry", v, p, q, "fork") /\ Alike(r)
      BY ZenonT(60), <1>7, Becomes
    <3> QED
      BY SMTT(60), <3>1 DEF Op
  <2>2. refs'[p] = refs[p] + 1 /\ \A k \in Pages \ {p} : refs'[k] = refs[k]
    BY ZenonT(60), <1>2, <1>3, <1>7 DEF CountTypes
  <2>3. CountTypes'
    <3>1. refs[p] + 1 \in Nat
      BY SMTT(60), <1>4
    <3> QED
      BY ZenonT(60), <1>3, <1>7, <3>1 DEF CountTypes
  <2>4. SamePages
    BY ZenonT(60), <1>3 DEF SamePages
  <2>5. \A k \in Pages : ~Owing(r, k) /\ (Owing(r, k)' <=> k = p)
    BY ZenonT(60), <1>1, <2>1 DEF Owing
  <2>6. Charges(r)
    <3> SUFFICES ASSUME NEW k \in Pages
                 PROVE  refs'[k] = refs[k] + Num(Owing(r, k)') - Num(Owing(r, k))
      BY ZenonT(60) DEF Charges
    <3>1. refs[k] \in Nat
      BY ZenonT(60), <1>3 DEF CountTypes
    <3> QED
      BY SMTT(60), <2>2, <2>5, <3>1 DEF Num
  <2>7. TakesOwn(r)
    <3>1. Spot(p, v) /\ \E w \in Vas : pte[r][w].page = p
      BY ZenonT(60), <1>1 DEF Spot
    <3> QED
      BY ZenonT(60), <2>1, <2>5, <3>1 DEF TakesOwn
  <2>8. NewWriters
    BY ZenonT(60), <1>3, <2>1 DEF NewWriters, Writes, Alike
  <2>9. Unmapping(r)
    <3> SUFFICES ASSUME NEW s \in Roots \ {r}, op[s].at = "map"
                 PROVE  refs'[op[s].page] = 0
      BY ZenonT(60) DEF Unmapping
    <3>1. op[s].page \in Pages /\ refs[op[s].page] = 0
      BY ZenonT(60) DEF CInv, Tied, IInv, BuildOK, OpOK
    <3>2. op[s].page # p
      BY SMTT(60), <1>4, <3>1
    <3> QED
      BY ZenonT(60), <2>2, <3>1, <3>2
  <2>10. Tied(r)'
    <3>1. Charge(r)' = q
      BY ZenonT(60), <2>1 DEF Charge, Building
    <3>2. pte'[r][v].page = p /\ pte'[q][v] = NoEntry /\ pte'[q][v].page # p
      BY ZenonT(60), <1>1, <1>2, <1>3, Paged
    <3> QED
      BY ZenonT(60), <2>1, <3>1, <3>2 DEF Tied
  <2>11. Occupancy'
    <3> SUFFICES ASSUME NEW k \in Pages
                 PROVE  k \in occupied' <=>
                           \/ refs'[k] > 0
                           \/ \E s \in Roots : op'[s].at = "map" /\ op'[s].page = k
      BY ZenonT(60) DEF Occupancy
    <3>1. \A s \in Roots : op'[s].at = "map" /\ op'[s].page = k
                           <=> op[s].at = "map" /\ op[s].page = k
      BY ZenonT(60), <1>1, <2>1 DEF Alike
    <3>2. refs'[k] > 0 <=> refs[k] > 0
      BY SMTT(60), <1>4, <2>2
    <3> QED
      BY ZenonT(60), <1>3, <3>1, <3>2 DEF CInv, Occupancy
  <2> QED
    BY ZenonT(60), <1>5, <2>1, <2>3, <2>4, <2>6, <2>7, <2>8, <2>9, <2>10, <2>11, Kept
<1> QED
  BY ZenonT(60), <1>6, <1>7 DEF ForkRetain

\* Giving back the reference of an entry fork could not make.
LEMMA Refused ==
    ASSUME Cardinalities, IInv, CInv, IInv', NEW r \in Roots, ForkEntryRefused(r)
    PROVE  CInv'
<1> DEFINE p == op[r].page
           v == op[r].va
           q == op[r].dest
<1>1. op[r].at = "entry" /\ p \in Pages /\ v \in Vas /\ q \in Roots /\ Owing(r, p)
  BY ZenonT(60) DEF ForkEntryRefused, At, IInv, BuildOK, OpOK, Building, Owing
<1>2. UNCHANGED <<state, pte, occupied, refs, content>> /\ CountTypes
  BY ZenonT(60) DEF ForkEntryRefused, CInv
<1>3. /\ Alike(r)
      /\ op'[r].at = "release" /\ op'[r].va = v /\ op'[r].page = p
      /\ op'[r].dest = q /\ op'[r].then = "undo"
  <2>1. op'[r] = Op("release", v, p, q, "undo") /\ Alike(r)
    BY ZenonT(60), Becomes DEF ForkEntryRefused
  <2> QED
    BY SMTT(60), <2>1 DEF Op
<1>4. Tied(r)'
  <2>1. Charge(r) = q /\ Charge(r)' = q
    BY ZenonT(60), <1>1, <1>3 DEF Charge, Building
  <2>2. pte[q][v].page # p
    BY ZenonT(60), <1>1, <2>1 DEF CInv, Tied
  <2> QED
    BY ZenonT(60), <1>1, <1>2, <1>3, <2>1, <2>2 DEF Tied
<1> HIDE DEF p, v, q
<1>5. SamePages
  BY ZenonT(60), <1>2 DEF SamePages
<1>6. \A k \in Pages : Owing(r, k)' <=> Owing(r, k)
  BY ZenonT(60), <1>1, <1>3 DEF Owing, p
<1>7. Charges(r)
  <2> SUFFICES ASSUME NEW k \in Pages
               PROVE  refs'[k] = refs[k] + Num(Owing(r, k)') - Num(Owing(r, k))
    BY ZenonT(60) DEF Charges
  <2>1. refs[k] \in Nat
    BY ZenonT(60), <1>2 DEF CountTypes
  <2> QED
    BY SMTT(60), <1>2, <1>6, <2>1 DEF Num
<1>8. TakesOwn(r)
  BY ZenonT(60), <1>3, <1>6 DEF TakesOwn, Spot, v
<1>9. NewWriters
  BY ZenonT(60), <1>2, <1>3 DEF NewWriters, Writes, Alike
<1>10. Unmapping(r)
  BY ZenonT(60), <1>2 DEF Unmapping, CInv, Tied
<1>11. CountTypes'
  BY ZenonT(60), <1>2 DEF CountTypes
<1>12. Occupancy'
  <2>1. ASSUME NEW s \in Roots, NEW k
        PROVE  op'[s].at = "map" /\ op'[s].page = k <=> op[s].at = "map" /\ op[s].page = k
    BY ZenonT(60), <1>1, <1>3 DEF Alike
  <2> QED
    BY ZenonT(60), <1>2, <2>1 DEF CInv, Occupancy
<1>13. FreeEmpty'
  BY ZenonT(60), <1>2 DEF CInv, FreeEmpty
<1> QED
  BY ZenonT(60), <1>3, <1>4, <1>5, <1>7, <1>8, <1>9, <1>10, <1>11, <1>12, <1>13, Kept

\* Giving a page nobody else maps its permission back.
LEMMA Permitted ==
    ASSUME Cardinalities, IInv, CInv, IInv', NEW r \in Roots, Sole(r)
    PROVE  CInv'
<1> DEFINE v == op[r].va
           e == Entry(pte[r][v].page, "rw")
<1>1. op[r].at = "sole" /\ v \in Vas
  BY ZenonT(60) DEF Sole, At, IInv, BuildOK, OpOK
<1>2. /\ UNCHANGED <<state, occupied, refs, content>> /\ CountTypes
      /\ pte' = [pte EXCEPT ![r][v] = e]
  BY ZenonT(60) DEF Sole, PteUpdate, CInv
<1>3. Alike(r) /\ op'[r].at = "user"
  <2>1. op'[r] = Plain("user") /\ Alike(r)
    BY ZenonT(60), Becomes DEF Sole
  <2> QED
    BY SMTT(60), <2>1 DEF Plain, Op
<1>4. e.page = pte[r][v].page
  BY SMTT(60) DEF Entry
<1> HIDE DEF v, e
<1>5. /\ pte'[r][v] = e
      /\ \A s \in Roots : \A w \in Vas : s # r \/ w # v => pte'[s][w] = pte[s][w]
  BY ZenonT(60), <1>1, <1>2 DEF IInv, Types
<1>6. SamePages
  BY ZenonT(60), <1>4, <1>5 DEF SamePages
<1>7. \A k : ~Owing(r, k) /\ ~Owing(r, k)'
  BY ZenonT(60), <1>1, <1>3 DEF Owing
<1>8. Charges(r)
  <2> SUFFICES ASSUME NEW k \in Pages
               PROVE  refs'[k] = refs[k] + Num(Owing(r, k)') - Num(Owing(r, k))
    BY ZenonT(60) DEF Charges
  <2>1. refs[k] \in Nat
    BY ZenonT(60), <1>2 DEF CountTypes
  <2> QED
    BY SMTT(60), <1>2, <1>7, <2>1 DEF Num
<1>9. TakesOwn(r)
  BY ZenonT(60), <1>7 DEF TakesOwn
<1>10. NewWriters
  <2> SUFFICES ASSUME NEW s \in Roots, NEW w \in Vas, Writes(s, w)'
               PROVE  Writes(s, w)
    BY ZenonT(60) DEF NewWriters
  <2>1. CASE s = r /\ w = v
    BY ZenonT(60), <1>1, <2>1 DEF Writes, v
  <2>2. CASE ~(s = r /\ w = v)
    BY ZenonT(60), <1>3, <1>5, <2>2 DEF Writes, Alike
  <2> QED
    BY ZenonT(60), <2>1, <2>2
<1>11. Unmapping(r)
  BY ZenonT(60), <1>2 DEF Unmapping, CInv, Tied
<1>12. Tied(r)'
  BY ZenonT(60), <1>3 DEF Tied
<1>13. CountTypes'
  BY ZenonT(60), <1>2 DEF CountTypes
<1>14. Occupancy'
  <2>1. ASSUME NEW s \in Roots, NEW k
        PROVE  op'[s].at = "map" /\ op'[s].page = k <=> op[s].at = "map" /\ op[s].page = k
    BY ZenonT(60), <1>1, <1>3 DEF Alike
  <2> QED
    BY ZenonT(60), <1>2, <2>1 DEF CInv, Occupancy
<1>15. FreeEmpty'
  <2>1. state[r] # "free"
    BY ZenonT(60), <1>1 DEF IInv, BuildOK
  <2>2. \A s \in Roots \ {r} : \A w \in Vas : pte'[s][w] = pte[s][w]
    BY ZenonT(60), <1>5
  <2> SUFFICES ASSUME NEW s \in Roots, state[s] = "free", NEW w \in Vas
               PROVE  pte'[s][w] = NoEntry
    BY ZenonT(60), <1>2 DEF FreeEmpty
  <2>3. s \in Roots \ {r} /\ pte[s][w] = NoEntry
    BY ZenonT(60), <2>1 DEF CInv, FreeEmpty
  <2> QED
    BY ZenonT(60), <2>2, <2>3
<1> QED
  BY ZenonT(60), <1>3, <1>6, <1>8, <1>9, <1>10, <1>11, <1>12, <1>13, <1>14, <1>15, Kept

-----------------------------------------------------------------------------
(* The steps that change an entry.                                          *)

\* What mmu_pte_update leaves in the tables.
LEMMA Updated ==
    ASSUME IInv, NEW d \in Roots, NEW v \in Vas, NEW e, PteUpdate(d, v, e)
    PROVE  OneEntry(d, v, e)
<1>1. /\ pte' = [pte EXCEPT ![d][v] = e]
      /\ pte \in [Roots -> [Vas -> Entries]]
  BY ZenonT(60) DEF PteUpdate, IInv, Types
<1> QED
  BY SMTT(60), <1>1 DEF OneEntry

\* An entry that goes leaves its reference with the operation that clears it.
LEMMA Cleared ==
    ASSUME Cardinalities, IInv, CInv, IInv', NEW r \in Roots, NEW d \in Roots, NEW v \in Vas,
           Alike(r),
           UNCHANGED <<state, occupied, refs, content>>, state[r] \in {"live", "dying"},
           d = r \/ (Building(r) /\ d = op[r].dest),
           PteUpdate(d, v, NoEntry), pte[d][v] # NoEntry, op[r].at \notin Paging,
           op'[r].at = "release", op'[r].va = v, op'[r].page = pte[d][v].page,
           Charge(r)' = d
    PROVE  CInv'
<1>1. OneEntry(d, v, NoEntry)
  BY ZenonT(60), Updated
<1>2. NoEntry \in Entries /\ NoEntry.page \notin Pages
  BY ZenonT(60), Paged DEF Entries
<1>3. Fills(r, NoEntry)
  <2>1. \A s \in Roots : op[s].at = "map" => op[s].page \in Pages
    BY ZenonT(60) DEF IInv, BuildOK, OpOK
  <2> QED
    BY ZenonT(60), <1>2, <2>1 DEF Fills
<1>4. Drops(r, d, v)
  BY ZenonT(60) DEF Drops, Paging
<1>5. CountTypes'
  BY ZenonT(60) DEF CInv, CountTypes
<1>6. Occupancy'
  <2> SUFFICES ASSUME NEW k \in Pages
               PROVE  k \in occupied' <=>
                         \/ refs'[k] > 0
                         \/ \E s \in Roots : op'[s].at = "map" /\ op'[s].page = k
    BY ZenonT(60) DEF Occupancy
  <2>1. \A s \in Roots : op'[s].at = "map" /\ op'[s].page = k
                         <=> op[s].at = "map" /\ op[s].page = k
    BY ZenonT(60) DEF Alike, Paging
  <2>2. occupied' = occupied /\ refs' = refs
    BY ZenonT(60)
  <2>3. k \in occupied <=> \/ refs[k] > 0
                           \/ \E s \in Roots : op[s].at = "map" /\ op[s].page = k
    BY ZenonT(60) DEF CInv, Occupancy
  <2> QED
    BY ZenonT(60), <2>1, <2>2, <2>3
<1> QED
  BY ZenonT(60), <1>1, <1>2, <1>3, <1>4, <1>5, <1>6, Replaced

\* The first touch of a page.
LEMMA Touched ==
    ASSUME Cardinalities, IInv, CInv, IInv', NEW r \in Roots, NEW v \in Vas, NEW p \in Pages,
           Touch(r, v, p)
    PROVE  CInv'
<1> DEFINE e == Entry(p, "rw")
<1>1. /\ op[r].at = "user" /\ state[r] = "live" /\ pte[r][v] = NoEntry /\ p \notin occupied
      /\ occupied' = occupied \cup {p} /\ content' = [content EXCEPT ![p] = Zero]
      /\ PteUpdate(r, v, e) /\ refs' = [refs EXCEPT ![p] = 1]
      /\ UNCHANGED <<state, op>> /\ CountTypes
  BY ZenonT(60) DEF Touch, Runs, At, Present, CInv
<1>2. e \in Entries /\ e.page = p
  BY SMTT(60) DEF Entry, Entries
<1> HIDE DEF e
<1>3. OneEntry(r, v, e)
  BY ZenonT(60), <1>1, Updated
<1>4. refs[p] = 0 /\ \A s \in Roots : ~(op[s].at = "map" /\ op[s].page = p)
  BY ZenonT(60), <1>1, Unused
<1>5. refs'[p] = 1 /\ \A k \in Pages \ {p} : refs'[k] = refs[k]
  BY ZenonT(60), <1>1 DEF CountTypes
<1>6. Fills(r, e)
  BY ZenonT(60), <1>2, <1>4, <1>5 DEF Fills
<1>7. Drops(r, r, v) /\ Alike(r)
  BY ZenonT(60), <1>1 DEF Drops, Alike
<1>8. CountTypes'
  <2>1. 1 \in Nat
    OBVIOUS
  <2> QED
    BY ZenonT(60), <1>1, <2>1, CopyOnWriteAssumption DEF CountTypes
<1>9. Occupancy'
  <2> SUFFICES ASSUME NEW k \in Pages
               PROVE  k \in occupied' <=>
                         \/ refs'[k] > 0
                         \/ \E s \in Roots : op'[s].at = "map" /\ op'[s].page = k
    BY ZenonT(60) DEF Occupancy
  <2>1. CASE k = p
    <3>1. k \in occupied'
      BY ZenonT(60), <1>1, <2>1
    <3>2. refs'[k] > 0
      BY SMTT(60), <1>5, <2>1
    <3> QED
      BY ZenonT(60), <3>1, <3>2
  <2>2. CASE k # p
    BY ZenonT(60), <1>1, <1>5, <2>2 DEF CInv, Occupancy
  <2> QED
    BY ZenonT(60), <2>1, <2>2
<1> QED
  BY ZenonT(60), <1>1, <1>2, <1>3, <1>6, <1>7, <1>8, <1>9, Replaced

\* The mapping of the page allocated for a copy or for zeroes.
LEMMA Remapped ==
    ASSUME Cardinalities, IInv, CInv, IInv', NEW r \in Roots, Map(r)
    PROVE  CInv'
<1> DEFINE v == op[r].va
           p == op[r].page
           e == Entry(p, "rw")
<1>1. op[r].at = "map" /\ state[r] \in {"live", "dying"} /\ v \in Vas /\ p \in Pages
  BY ZenonT(60), Acting DEF Map, At, IInv, BuildOK, OpOK
<1>2. /\ pte[r][v] # NoEntry /\ refs[p] = 0
      /\ \A s \in Roots : op[s].at = "map" /\ op[s].page = p => s = r
  BY ZenonT(60), <1>1 DEF CInv, Tied
<1>3. /\ PteUpdate(r, v, e) /\ refs' = [refs EXCEPT ![p] = 1]
      /\ UNCHANGED <<state, occupied, content>> /\ CountTypes
  BY ZenonT(60) DEF Map, CInv
<1>4. /\ Alike(r)
      /\ op'[r].at = "release" /\ op'[r].va = v /\ op'[r].page = pte[r][v].page
      /\ op'[r].then = "user"
  <2>1. op'[r] = Op("release", v, pte[r][v].page, NoRoot, "user") /\ Alike(r)
    BY ZenonT(60), Becomes DEF Map
  <2> QED
    BY SMTT(60), <2>1 DEF Op
<1>5. e \in Entries /\ e.page = p
  BY SMTT(60), <1>1 DEF Entry, Entries
<1>6. p \in occupied
  BY ZenonT(60), <1>1 DEF CInv, Occupancy
<1> HIDE DEF v, p, e
<1>7. OneEntry(r, v, e)
  BY ZenonT(60), <1>1, <1>3, Updated
<1>8. refs'[p] = 1 /\ \A k \in Pages \ {p} : refs'[k] = refs[k]
  BY ZenonT(60), <1>1, <1>3 DEF CountTypes
<1>9. Fills(r, e)
  BY ZenonT(60), <1>2, <1>5, <1>8 DEF Fills
<1>10. Drops(r, r, v)
  <2>1. Charge(r)' = r
    BY ZenonT(60), <1>4 DEF Charge, Building
  <2> QED
    BY ZenonT(60), <1>1, <1>2, <1>4, <2>1 DEF Drops
<1>11. CountTypes'
  <2>1. 1 \in Nat
    OBVIOUS
  <2> QED
    BY ZenonT(60), <1>3, <2>1 DEF CountTypes
<1>12. Occupancy'
  <2> SUFFICES ASSUME NEW k \in Pages
               PROVE  k \in occupied' <=>
                         \/ refs'[k] > 0
                         \/ \E s \in Roots : op'[s].at = "map" /\ op'[s].page = k
    BY ZenonT(60) DEF Occupancy
  <2>1. CASE k = p
    <3>1. refs'[k] > 0
      BY SMTT(60), <1>8, <2>1
    <3> QED
      BY ZenonT(60), <1>3, <1>6, <2>1, <3>1
  <2>2. CASE k # p
    <3>1. \A s \in Roots : op'[s].at = "map" /\ op'[s].page = k
                           <=> op[s].at = "map" /\ op[s].page = k
      BY ZenonT(60), <1>4, <2>2 DEF Alike, p
    <3> QED
      BY ZenonT(60), <1>3, <1>8, <2>2, <3>1 DEF CInv, Occupancy
  <2> QED
    BY ZenonT(60), <2>1, <2>2
<1> QED
  BY ZenonT(60), <1>1, <1>3, <1>4, <1>5, <1>7, <1>9, <1>10, <1>11, <1>12, Replaced

-----------------------------------------------------------------------------
(* Every step keeps the counts.                                             *)

\* One step per action of CopyOnWrite.
LEMMA CountStep ==
    ASSUME Cardinalities, IInv, CInv, IInv', [Next]_vars
    PROVE  CInv'
<1> USE DEF Paging
<1>0. CASE UNCHANGED vars
  <2>1. UNCHANGED <<state, pte, occupied, refs, content, op>>
    BY ZenonT(60), <1>0 DEF vars
  <2>2. CountTypes' /\ Occupancy' /\ FreeEmpty'
    BY ZenonT(60), <2>1 DEF CInv, CountTypes, Occupancy, FreeEmpty
  <2>3. Counts'
    BY ZenonT(60), <2>1 DEF CInv, Counts, Maps, Owes
  <2>4. LoneWriter'
    <3>1. \A r, v : (Writes(r, v)' <=> Writes(r, v)) /\ (Lone(r, v)' <=> Lone(r, v))
      BY SMTT(60), <2>1 DEF Writes, Lone, Owing
    <3> QED
      BY ZenonT(60), <3>1 DEF CInv, LoneWriter
  <2>5. Aligned'
    <3>1. \A p, v : Spot(p, v)' <=> Spot(p, v)
      BY SMTT(60), <2>1 DEF Spot, Owing
    <3> QED
      BY ZenonT(60), <3>1 DEF CInv, Aligned
  <2>6. \A r \in Roots : Tied(r)'
    BY ZenonT(60), <2>1 DEF CInv, Tied, Charge, Building
  <2> QED
    BY ZenonT(60), <2>2, <2>3, <2>4, <2>5, <2>6 DEF CInv
<1>1. ASSUME NEW r \in Roots, NEW v \in Vas, NEW x \in Values, Store(r, v, x)
      PROVE  CInv'
  <2>1. UNCHANGED <<state, pte, occupied, refs, op>> /\ op[r].at = "user"
    BY ZenonT(60), <1>1 DEF Store, Runs, At
  <2>2. content' \in [Pages -> Values]
    BY ZenonT(60), <1>1 DEF Store, CInv, CountTypes
  <2>3. CountTypes' /\ FreeEmpty' /\ Alike(r)
    BY ZenonT(60), <2>1, <2>2 DEF CInv, CountTypes, FreeEmpty, Alike
  <2> QED
    BY ZenonT(60), <2>1, <2>3, Idle
<1>2. ASSUME NEW r \in Roots, NEW v \in Vas, NEW p \in Pages, Touch(r, v, p)
      PROVE  CInv'
  BY ZenonT(60), <1>2, Touched
<1>3. ASSUME NEW r \in Roots, NEW v \in Vas, NEW p \in Pages, ReplaceWithZero(r, v, p)
      PROVE  CInv'
  <2>1. /\ UNCHANGED <<state, pte, refs>> /\ op[r].at = "user" /\ pte[r][v] # NoEntry
        /\ p \notin occupied /\ occupied' = occupied \cup {p}
        /\ content' = [content EXCEPT ![p] = Zero]
    BY ZenonT(60), <1>3 DEF ReplaceWithZero, Runs, At, Present
  <2>2. Alike(r) /\ op'[r] = Op("map", v, p, NoRoot, "user")
    BY ZenonT(60), <1>3, Becomes DEF ReplaceWithZero
  <2>3. op'[r].at = "map" /\ op'[r].page = p /\ op'[r].va = v
    BY SMTT(60), <2>2 DEF Op
  <2>4. CountTypes'
    BY ZenonT(60), <2>1, CopyOnWriteAssumption DEF CInv, CountTypes
  <2> QED
    BY ZenonT(60), <2>1, <2>2, <2>3, <2>4, Allocated
<1>4. ASSUME NEW r \in Roots, NEW v \in Vas, Unmap(r, v)
      PROVE  CInv'
  <2>1. /\ UNCHANGED <<state, occupied, refs, content>> /\ op[r].at = "user"
        /\ state[r] = "live" /\ pte[r][v] # NoEntry /\ PteUpdate(r, v, NoEntry)
    BY ZenonT(60), <1>4 DEF Unmap, Runs, At, Present
  <2>2. Alike(r) /\ op'[r] = Op("release", v, pte[r][v].page, NoRoot, "user")
    BY ZenonT(60), <1>4, Becomes DEF Unmap
  <2>3. /\ op'[r].at = "release" /\ op'[r].page = pte[r][v].page /\ op'[r].va = v
        /\ op'[r].then = "user"
    BY SMTT(60), <2>2 DEF Op
  <2>4. Charge(r)' = r
    BY ZenonT(60), <2>3 DEF Charge, Building
  <2> QED
    BY ZenonT(60), <2>1, <2>2, <2>3, <2>4, Cleared
<1>5. ASSUME NEW r \in Roots, NEW v \in Vas, Fault(r, v)
      PROVE  CInv'
  <2> DEFINE p == pte[r][v].page
  <2>1. /\ UNCHANGED <<state, pte, occupied, refs, content>> /\ op[r].at = "user"
        /\ pte[r][v].mode = "cow"
    BY ZenonT(60), <1>5 DEF Fault, Runs, At
  <2>7. PICK a \in {"sole", "copy"} : /\ a = "sole" => refs[p] = 1
                                     /\ Become(r, Op(a, v, NoPage, NoRoot, "user"))
    BY ZenonT(60), <1>5 DEF Fault
  <2>2. Alike(r) /\ op'[r] = Op(a, v, NoPage, NoRoot, "user")
    BY ZenonT(60), <2>7, Becomes
  <2>3. op'[r].at = a /\ op'[r].va = v
    BY SMTT(60), <2>2 DEF Op
  <2>4. pte[r][v] # NoEntry /\ p \in Pages
    <3>1. pte[r][v] \in Entries /\ pte[r][v].mode # "none"
      BY ZenonT(60), <2>1 DEF IInv, Types
    <3> QED
      BY ZenonT(60), <3>1, Paged
  <2>5. refs[p] = 1 => Lone(r, v)
    <3>1. CountTypes /\ Counts
      BY ZenonT(60) DEF CInv
    <3> QED
      BY ZenonT(60), <2>4, <3>1, Read DEF Lone
  <2>6. CountTypes' /\ FreeEmpty'
    BY ZenonT(60), <2>1 DEF CInv, CountTypes, FreeEmpty
  <2> HIDE DEF p
  <2> QED
    BY ZenonT(60), <2>1, <2>2, <2>3, <2>4, <2>5, <2>6, <2>7, Idle
<1>6. ASSUME NEW r \in Roots, NEW v \in Vas, ForkCount(r, v)
      PROVE  CInv'
  BY ZenonT(60), <1>6, Asked
<1>21. ASSUME NEW r \in Roots, ForkRetain(r)
       PROVE  CInv'
  BY ZenonT(60), <1>21, Retained
<1>7. ASSUME NEW r \in Roots, NEW v \in Vas, ReleaseMapping(r, v)
      PROVE  CInv'
  <2> DEFINE d == Emptied(r)
  <2>1. /\ UNCHANGED <<state, occupied, refs, content>>
        /\ op[r].at \in {"undo", "exec", "exit"} /\ state[r] \in {"live", "dying"}
        /\ pte[d][v] # NoEntry /\ PteUpdate(d, v, NoEntry)
    BY ZenonT(60), <1>7, Acting DEF ReleaseMapping, Present
  <2>2. Alike(r) /\ op'[r] = Op("release", v, pte[d][v].page, op[r].dest, op[r].at)
    BY ZenonT(60), <1>7, Becomes DEF ReleaseMapping
  <2>3. /\ op'[r].at = "release" /\ op'[r].page = pte[d][v].page /\ op'[r].va = v
        /\ op'[r].then = op[r].at /\ op'[r].dest = op[r].dest
    BY SMTT(60), <2>2 DEF Op
  <2>4. Charge(r)' = d
    BY ZenonT(60), <2>1, <2>3 DEF Charge, Building, Emptied, At
  <2>5. d \in Roots /\ (d = r \/ (Building(r) /\ d = op[r].dest))
    BY ZenonT(60), <2>1 DEF IInv, BuildOK, Building, Emptied, At
  <2> HIDE DEF d
  <2> QED
    BY ZenonT(60), <2>1, <2>2, <2>3, <2>4, <2>5, Cleared
<1>8. ASSUME NEW r \in Roots, NEW p \in Pages, Copy(r, p)
      PROVE  CInv'
  <2> DEFINE v == op[r].va
  <2>1. /\ UNCHANGED <<state, pte, refs>> /\ op[r].at = "copy" /\ v \in Vas
        /\ p \notin occupied /\ occupied' = occupied \cup {p}
        /\ content' = [content EXCEPT ![p] = content[pte[r][v].page]]
    BY ZenonT(60), <1>8 DEF Copy, At, IInv, BuildOK, OpOK
  <2>2. Alike(r) /\ op'[r] = Op("map", v, p, NoRoot, "user")
    BY ZenonT(60), <1>8, Becomes DEF Copy
  <2>3. op'[r].at = "map" /\ op'[r].page = p /\ op'[r].va = v
    BY SMTT(60), <2>2 DEF Op
  <2>4. pte[r][v] # NoEntry /\ pte[r][v] \in Entries
    <3>1. Tied(r) /\ pte \in [Roots -> [Vas -> Entries]]
      BY ZenonT(60) DEF CInv, IInv, Types
    <3> QED
      BY ZenonT(60), <2>1, <3>1 DEF Tied
  <2>5. pte[r][v].page \in Pages
    BY ZenonT(60), <2>4, Paged
  <2>6. CountTypes'
    BY ZenonT(60), <2>1, <2>5 DEF CInv, CountTypes
  <2> QED
    BY ZenonT(60), <2>1, <2>2, <2>3, <2>4, <2>6, Allocated
<1>9. ASSUME NEW r \in Roots, Sole(r)
      PROVE  CInv'
  BY ZenonT(60), <1>9, Permitted
<1>11. ASSUME NEW r \in Roots, Map(r)
       PROVE  CInv'
  BY ZenonT(60), <1>11, Remapped
<1>12. ASSUME NEW r \in Roots, Release(r)
       PROVE  CInv'
  BY ZenonT(60), <1>12, Released
<1>14. ASSUME NEW r \in Roots, ForkEntry(r)
       PROVE  CInv'
  BY ZenonT(60), <1>14, Shared
<1>15. ASSUME NEW r \in Roots, ForkEntryRefused(r)
       PROVE  CInv'
  BY ZenonT(60), <1>15, Refused
<1>a. ASSUME NEW r \in Roots, NEW o, Become(r, o), op[r].at \notin Paging,
             o.at \notin Paging \cup {"sole", "copy", "retain"}, FreeEmpty',
             UNCHANGED <<pte, occupied, refs, content>>
      PROVE  CInv'
  <2>1. Alike(r) /\ op'[r] = o
    BY ZenonT(60), <1>a, Becomes
  <2>2. CountTypes'
    BY ZenonT(60), <1>a DEF CInv, CountTypes
  <2> QED
    BY ZenonT(60), <1>a, <2>1, <2>2, Idle
<1>b. /\ \A a : Plain(a).at = a
      /\ \A a, v, p, q, t : Op(a, v, p, q, t).at = a
  BY SMTT(60) DEF Plain, Op
<1>10. ASSUME NEW r \in Roots, CopyRefused(r)
       PROVE  CInv'
  <2>1. FreeEmpty'
    BY ZenonT(60), <1>10 DEF CopyRefused, CInv, FreeEmpty
  <2>2. /\ Become(r, Plain("user")) /\ op[r].at \notin Paging
        /\ UNCHANGED <<pte, occupied, refs, content>>
    BY ZenonT(60), <1>10 DEF CopyRefused, At
  <2>3. Plain("user").at \notin Paging \cup {"sole", "copy", "retain"}
    BY SMTT(60) DEF Plain, Op
  <2> QED
    BY ZenonT(60), <1>a, <2>1, <2>2, <2>3
<1>13. ASSUME NEW r \in Roots, NEW q \in Roots, Fork(r, q)
       PROVE  CInv'
  <2>1. \A s \in Roots : state'[s] = "free" => state[s] = "free"
    BY ZenonT(60), <1>13 DEF Fork, IInv, Types
  <2>2. FreeEmpty'
    BY ZenonT(60), <1>13, <2>1 DEF Fork, CInv, FreeEmpty
  <2>3. /\ Become(r, Op("fork", NoVa, NoPage, q, "user")) /\ op[r].at \notin Paging
        /\ UNCHANGED <<pte, occupied, refs, content>>
    BY ZenonT(60), <1>13 DEF Fork, Runs, At
  <2>4. Op("fork", NoVa, NoPage, q, "user").at \notin Paging \cup {"sole", "copy", "retain"}
    BY SMTT(60) DEF Plain, Op
  <2> QED
    BY ZenonT(60), <1>a, <2>2, <2>3, <2>4
<1>16. ASSUME NEW r \in Roots, ForkDone(r)
       PROVE  CInv'
  <2>1. \A s \in Roots : state'[s] = "free" => state[s] = "free"
    BY ZenonT(60), <1>16 DEF ForkDone, IInv, Types
  <2>2. FreeEmpty'
    BY ZenonT(60), <1>16, <2>1 DEF ForkDone, CInv, FreeEmpty
  <2> QED
    BY ZenonT(60), <1>16, <1>a, <1>b, <2>2 DEF ForkDone, At
<1>17. ASSUME NEW r \in Roots, ForkFailed(r)
       PROVE  CInv'
  <2>1. FreeEmpty'
    BY ZenonT(60), <1>17 DEF ForkFailed, CInv, FreeEmpty
  <2>2. /\ Become(r, Op("undo", NoVa, NoPage, op[r].dest, "user")) /\ op[r].at \notin Paging
        /\ UNCHANGED <<pte, occupied, refs, content>>
    BY ZenonT(60), <1>17 DEF ForkFailed, At
  <2>3. Op("undo", NoVa, NoPage, op[r].dest, "user").at \notin Paging \cup {"sole", "copy", "retain"}
    BY SMTT(60) DEF Plain, Op
  <2> QED
    BY ZenonT(60), <1>a, <2>1, <2>2, <2>3
<1>18. ASSUME NEW r \in Roots, Exec(r)
       PROVE  CInv'
  <2>1. FreeEmpty'
    BY ZenonT(60), <1>18 DEF Exec, CInv, FreeEmpty
  <2> QED
    BY ZenonT(60), <1>18, <1>a, <1>b, <2>1 DEF Exec, Runs, At
<1>19. ASSUME NEW r \in Roots, Exit(r)
       PROVE  CInv'
  <2>1. \A s \in Roots : state'[s] = "free" => state[s] = "free"
    BY ZenonT(60), <1>19 DEF Exit, IInv, Types
  <2>2. FreeEmpty'
    BY ZenonT(60), <1>19, <2>1 DEF Exit, CInv, FreeEmpty
  <2> QED
    BY ZenonT(60), <1>19, <1>a, <1>b, <2>2 DEF Exit, Runs, At
<1>20. ASSUME NEW r \in Roots, ReleasedMappings(r)
       PROVE  CInv'
  <2>1. \A v \in Vas : pte[Emptied(r)][v] = NoEntry
    BY ZenonT(60), <1>20 DEF ReleasedMappings, Mapped, Present
  <2>2. \A s \in Roots : state'[s] = "free" => state[s] = "free" \/ s = Emptied(r)
    BY ZenonT(60), <1>20 DEF ReleasedMappings, IInv, Types
  <2>3. FreeEmpty'
    BY ZenonT(60), <1>20, <2>1, <2>2 DEF ReleasedMappings, CInv, FreeEmpty
  <2> QED
    BY ZenonT(60), <1>20, <1>a, <1>b, <2>3 DEF ReleasedMappings
<1> QED
  BY ZenonT(60), <1>0, <1>1, <1>2, <1>3, <1>4, <1>5, <1>6, <1>7, <1>8, <1>9, <1>10, <1>11,
     <1>12, <1>13, <1>14, <1>15, <1>16, <1>17, <1>18, <1>19, <1>20, <1>21 DEF Next

-----------------------------------------------------------------------------
(* That the sharing is invisible: CopyOnWrite implements PrivateMemory.     *)

\* A process that is giving up its mappings to exit.
Exiting(r) == op[r].at = "exit" \/ (op[r].at = "release" /\ op[r].then = "exit")

\* A copy on its way holds what it replaces, a child's page is the parent's,
\* and who exits runs no more.
Faith(r) ==
    /\ op[r].at = "map" =>
          content[op[r].page] \in {Zero, content[pte[r][op[r].va].page]}
    /\ op[r].at \in {"fork", "retain", "entry"} =>
          /\ state[r] = "live"
          /\ \A v \in Vas : \/ pte[op[r].dest][v] = NoEntry
                            \/ pte[op[r].dest][v].page = pte[r][v].page
    /\ Exiting(r) => state[r] # "live"
Faithful == \A r \in Roots : Faith(r)

\* What a process sees at a user page, and of its memory.
Cell(r, v) == IF Present(r, v) THEN content[pte[r][v].page] ELSE Unmapped
View(r) == IF state[r] # "live" THEN Gone ELSE [v \in Vas |-> Cell(r, v)]

\* The root r makes or takes back, and the pages that are not r's own affair.
Makes(r, s) == Building(r) /\ s = op[r].dest
Theirs(r, p) ==
    \E s \in Roots \ {r} : \/ \E w \in Vas : pte[s][w].page = p
                           \/ op[s].at = "map" /\ op[s].page = p

\* A step of r leaves the others' operations, tables and pages as they are.
Foreign(r) ==
    /\ state[r] \in {"live", "dying"}
    /\ \A s \in Roots \ {r} : op'[s] = op[s]
    /\ \A s \in Roots \ {r} : ~Makes(r, s) =>
          pte'[s] = pte[s] /\ (state'[s] = "live" <=> state[s] = "live")
    /\ \A p \in Pages : Theirs(r, p) => content'[p] = content[p]

\* The others' copies and children are not disturbed.
LEMMA OthersFaithful ==
    ASSUME IInv, CInv, Faithful, NEW r \in Roots, Foreign(r), NEW s \in Roots \ {r}
    PROVE  Faith(s)'
<1>1. op'[s] = op[s] /\ Faith(s) /\ OpOK(s) /\ Tied(s)
  BY ZenonT(60) DEF Foreign, Faithful, IInv, BuildOK, CInv
<1>2. op[s].at # "user" => pte'[s] = pte[s] /\ (state'[s] = "live" <=> state[s] = "live")
  <2>1. state[r] \in {"live", "dying"}
    BY ZenonT(60) DEF Foreign
  <2>2. op[s].at # "user" => ~Makes(r, s)
    BY ZenonT(60), <2>1, Apart DEF Makes
  <2> QED
    BY ZenonT(60), <2>2 DEF Foreign
<1>3. op[s].at = "map" => content'[op[s].page] \in {Zero, content'[pte'[s][op[s].va].page]}
  <2> SUFFICES ASSUME op[s].at = "map"
               PROVE  content'[op[s].page] \in {Zero, content'[pte'[s][op[s].va].page]}
    BY ZenonT(60)
  <2>1. op[s].va \in Vas /\ op[s].page \in Pages /\ pte[s][op[s].va] # NoEntry
        /\ content[op[s].page] \in {Zero, content[pte[s][op[s].va].page]}
    BY ZenonT(60), <1>1 DEF OpOK, Tied, Faith
  <2>2. pte[s][op[s].va].page \in Pages
    <3>1. pte[s][op[s].va] \in Entries
      BY ZenonT(60), <2>1 DEF IInv, Types
    <3> QED
      BY ZenonT(60), <2>1, <3>1, Paged
  <2>3. Theirs(r, op[s].page) /\ Theirs(r, pte[s][op[s].va].page)
    BY ZenonT(60), <2>1 DEF Theirs
  <2>4. /\ content'[op[s].page] = content[op[s].page]
        /\ content'[pte[s][op[s].va].page] = content[pte[s][op[s].va].page]
    BY ZenonT(60), <2>1, <2>2, <2>3 DEF Foreign
  <2>5. pte'[s] = pte[s]
    BY ZenonT(60), <1>2
  <2> QED
    BY ZenonT(60), <2>1, <2>4, <2>5
<1>4. op[s].at \in {"fork", "retain", "entry"} =>
         /\ state'[s] = "live"
         /\ \A v \in Vas : \/ pte'[op[s].dest][v] = NoEntry
                           \/ pte'[op[s].dest][v].page = pte'[s][v].page
  <2> SUFFICES ASSUME op[s].at \in {"fork", "retain", "entry"}
               PROVE  /\ state'[s] = "live"
                      /\ \A v \in Vas : \/ pte'[op[s].dest][v] = NoEntry
                                        \/ pte'[op[s].dest][v].page = pte'[s][v].page
    BY ZenonT(60)
  <2>1. Building(s)
    BY ZenonT(60) DEF Building
  <2>2. op[s].dest \in Roots \ {r} /\ ~Makes(r, op[s].dest)
    BY ZenonT(60), <2>1, Apart DEF Makes, Foreign
  <2>3. pte'[op[s].dest] = pte[op[s].dest]
    BY ZenonT(60), <2>2 DEF Foreign
  <2>4. pte'[s] = pte[s] /\ (state'[s] = "live" <=> state[s] = "live")
    BY ZenonT(60), <1>2
  <2> QED
    BY ZenonT(60), <1>1, <2>3, <2>4 DEF Faith
<1>5. Exiting(s)' => state'[s] # "live"
  <2>1. Exiting(s)' => Exiting(s) /\ op[s].at # "user"
    BY ZenonT(60), <1>1 DEF Exiting
  <2> QED
    BY ZenonT(60), <1>1, <1>2, <2>1 DEF Faith
<1>6. op'[s].at = "map" =>
         content'[op'[s].page] \in {Zero, content'[pte'[s][op'[s].va].page]}
  BY ZenonT(60), <1>1, <1>3
<1>7. op'[s].at \in {"fork", "retain", "entry"} =>
         /\ state'[s] = "live"
         /\ \A v \in Vas : \/ pte'[op'[s].dest][v] = NoEntry
                           \/ pte'[op'[s].dest][v].page = pte'[s][v].page
  BY ZenonT(60), <1>1, <1>4
<1> QED
  BY ZenonT(60), <1>5, <1>6, <1>7 DEF Faith

\* A step by which r's own obligations hold keeps those of all.
LEMMA Keeps ==
    ASSUME IInv, CInv, Faithful, NEW r \in Roots, Foreign(r), Faith(r)'
    PROVE  Faithful'
BY ZenonT(60), OthersFaithful DEF Faithful

\* Nor do the others see anything of it.
LEMMA Unseen ==
    ASSUME IInv, CInv, NEW r \in Roots, Foreign(r), NEW s \in Roots \ {r},
           Makes(r, s) => state'[s] # "live"
    PROVE  View(s)' = View(s)
<1>1. CASE Makes(r, s)
  <2>1. state[s] # "live"
    BY ZenonT(60), <1>1 DEF Makes, IInv, BuildOK
  <2> QED
    BY ZenonT(60), <1>1, <2>1 DEF View
<1>2. CASE ~Makes(r, s)
  <2>1. pte'[s] = pte[s] /\ (state'[s] = "live" <=> state[s] = "live")
    BY ZenonT(60), <1>2 DEF Foreign
  <2>2. ASSUME NEW w \in Vas
        PROVE  Cell(s, w)' = Cell(s, w)
    <3>1. CASE pte[s][w] = NoEntry
      BY ZenonT(60), <2>1, <3>1 DEF Cell, Present
    <3>2. CASE pte[s][w] # NoEntry
      <4>1. pte[s][w] \in Entries
        BY ZenonT(60) DEF IInv, Types
      <4>2. pte[s][w].page \in Pages /\ Theirs(r, pte[s][w].page)
        BY ZenonT(60), <3>2, <4>1, Paged DEF Theirs
      <4>3. content'[pte[s][w].page] = content[pte[s][w].page]
        BY ZenonT(60), <4>2 DEF Foreign
      <4> QED
        BY ZenonT(60), <2>1, <3>2, <4>3 DEF Cell, Present
    <3> QED
      BY ZenonT(60), <3>1, <3>2
  <2> QED
    BY ZenonT(60), <2>1, <2>2 DEF View
<1> QED
  BY ZenonT(60), <1>1, <1>2

\* The memory is the views.
LEMMA Views ==
    /\ Memory = [s \in Roots |-> View(s)]
    /\ CountTypes /\ Types => \A s \in Roots : \A w \in Vas :
          Cell(s, w) \in Values \cup {Unmapped} /\ (Present(s, w) => Cell(s, w) \in Values)
    /\ CountTypes /\ Types => \A s \in Roots : View(s) # Gone <=> state[s] = "live"
<1>1. Memory = [s \in Roots |-> View(s)]
  BY ZenonT(60) DEF Memory, View, Cell
<1>2. ASSUME CountTypes, Types, NEW s \in Roots, NEW w \in Vas
      PROVE  Cell(s, w) \in Values \cup {Unmapped} /\ (Present(s, w) => Cell(s, w) \in Values)
  <2>1. pte[s][w] \in Entries
    BY ZenonT(60), <1>2 DEF Types
  <2>2. Present(s, w) => content[pte[s][w].page] \in Values
    BY ZenonT(60), <1>2, <2>1, Paged DEF Present, CountTypes
  <2> QED
    BY ZenonT(60), <2>2 DEF Cell
<1>3. ASSUME CountTypes, Types, NEW s \in Roots
      PROVE  View(s) # Gone <=> state[s] = "live"
  <2>1. [v \in Vas |-> Cell(s, v)] \in [Vas -> Values \cup {Unmapped}]
    BY ZenonT(60), <1>2, <1>3
  <2> QED
    BY ZenonT(60), <2>1, CopyOnWriteAssumption DEF View
<1> QED
  BY ZenonT(60), <1>1, <1>2, <1>3

\* A step that changes no cell of a process that runs.
LEMMA Stutters ==
    ASSUME IInv, CInv, NEW r \in Roots, Foreign(r), View(r)' = View(r),
           \A s \in Roots : Makes(r, s) => state'[s] # "live"
    PROVE  Memory' = Memory
<1>1. \A s \in Roots : View(s)' = View(s)
  BY ZenonT(60), Unseen
<1>2. Memory = [s \in Roots |-> View(s)] /\ Memory' = [s \in Roots |-> View(s)']
  BY ZenonT(60) DEF Memory, View, Cell
<1> QED
  BY ZenonT(60), <1>1, <1>2

\* A step that changes one.
LEMMA Changes ==
    ASSUME IInv, CInv, NEW r \in Roots, Foreign(r), NEW v \in Vas, NEW x,
           \A s \in Roots : Makes(r, s) => state'[s] # "live",
           state[r] = "live", state'[r] = "live", Cell(r, v)' = x,
           \A w \in Vas \ {v} : Cell(r, w)' = Cell(r, w)
    PROVE  P!Change(r, v, x)
<1>1. \A s \in Roots \ {r} : View(s)' = View(s)
  BY ZenonT(60), Unseen
<1>2. Memory = [s \in Roots |-> View(s)] /\ Memory' = [s \in Roots |-> View(s)']
  BY ZenonT(60) DEF Memory, View, Cell
<1>3. Memory[r] # Gone
  BY ZenonT(60), <1>2, Views DEF CInv, IInv
<1>4. View(r) = [w \in Vas |-> Cell(r, w)]
  BY ZenonT(60) DEF View
<1>5. View(r)' = [w \in Vas |-> Cell(r, w)']
  BY ZenonT(60) DEF View
<1>6. View(r)' = [View(r) EXCEPT ![v] = x]
  BY ZenonT(60), <1>4, <1>5
<1>7. Memory' = [Memory EXCEPT ![r] = [View(r) EXCEPT ![v] = x]]
  BY ZenonT(60), <1>1, <1>2, <1>6
<1>8. Memory' = [Memory EXCEPT ![r][v] = x]
  BY ZenonT(60), <1>2, <1>7
<1> QED
  BY ZenonT(60), <1>3, <1>8 DEF P!Change, P!Held

\* A step of the processes' own memory, or none.
Seen == P!Next \/ Memory' = Memory

\* A step that only moves an operation on.
LEMMA Hidden ==
    ASSUME IInv, CInv, Faithful, NEW r \in Roots, state[r] \in {"live", "dying"}, Alike(r),
           UNCHANGED <<pte, content>>, Faith(r)',
           \A s \in Roots : state'[s] = "live" <=> state[s] = "live"
    PROVE  Faithful' /\ Memory' = Memory
<1>1. Foreign(r)
  BY ZenonT(60) DEF Foreign, Alike
<1>2. \A s \in Roots : Makes(r, s) => state'[s] # "live"
  BY ZenonT(60) DEF Makes, IInv, BuildOK
<1>3. View(r)' = View(r)
  BY ZenonT(60) DEF View, Cell, Present
<1> QED
  BY ZenonT(60), <1>1, <1>2, <1>3, Keeps, Stutters

\* A page that is not occupied is no page of anybody's.
LEMMA Nobodys ==
    ASSUME Cardinalities, CInv, NEW p \in Pages, p \notin occupied
    PROVE  /\ \A s \in Roots : \A w \in Vas : pte[s][w].page # p
           /\ \A s \in Roots : ~(op[s].at = "map" /\ op[s].page = p)
           /\ \A s \in Roots : ~Theirs(s, p)
<1>1. refs[p] = 0 /\ \A s \in Roots : ~(op[s].at = "map" /\ op[s].page = p)
  BY ZenonT(60), Unused
<1>2. \A s \in Roots : \A w \in Vas : pte[s][w].page # p
  BY ZenonT(60), <1>1, Unused
<1> QED
  BY ZenonT(60), <1>1, <1>2 DEF Theirs

\* The page a mapping is to be replaced by is written before anybody sees it.
LEMMA Prepared ==
    ASSUME Cardinalities, IInv, CInv, Faithful, NEW r \in Roots, state[r] \in {"live",
           "dying"}, Alike(r),
           UNCHANGED <<state, pte>>, NEW p \in Pages, p \notin occupied, NEW x,
           content' = [content EXCEPT ![p] = x], Faith(r)'
    PROVE  Faithful' /\ Memory' = Memory
<1>1. \A k \in Pages \ {p} : content'[k] = content[k]
  BY ZenonT(60) DEF CInv, CountTypes
<1>2. Foreign(r)
  BY ZenonT(60), <1>1, Nobodys DEF Foreign, Alike
<1>3. \A s \in Roots : Makes(r, s) => state'[s] # "live"
  BY ZenonT(60) DEF Makes, IInv, BuildOK
<1>4. ASSUME NEW w \in Vas
      PROVE  Cell(r, w)' = Cell(r, w)
  <2>1. Present(r, w) => pte[r][w].page \in Pages \ {p}
    <3>1. pte[r][w] \in Entries
      BY ZenonT(60) DEF IInv, Types
    <3> QED
      BY ZenonT(60), <3>1, Paged, Nobodys DEF Present
  <2>2. Present(r, w)' <=> Present(r, w)
    BY ZenonT(60) DEF Present
  <2> QED
    BY ZenonT(60), <1>1, <2>1, <2>2 DEF Cell
<1>5. View(r)' = View(r)
  BY ZenonT(60), <1>4 DEF View
<1> QED
  BY ZenonT(60), <1>2, <1>3, <1>5, Keeps, Stutters

\* A step that replaces an entry of r's own by e, and leaves every page mapped
\* as it is: r sees what e maps.
LEMMA Shown ==
    ASSUME IInv, CInv, Faithful, NEW r \in Roots, state[r] \in {"live", "dying"}, Alike(r),
           UNCHANGED state, NEW v \in Vas, NEW e \in Entries, PteUpdate(r, v, e),
           \A k \in Pages : (\E s \in Roots : \E w \in Vas : pte[s][w].page = k)
                            \/ Theirs(r, k) => content'[k] = content[k],
           Faith(r)'
    PROVE  /\ Faithful'
           /\ \/ /\ state[r] = "live"
                 /\ P!Change(r, v, IF e = NoEntry THEN Unmapped ELSE content'[e.page])
              \/ Memory' = Memory
           /\ e # NoEntry /\ Present(r, v) /\ content'[e.page] = content[pte[r][v].page]
              => Memory' = Memory
<1> DEFINE x == IF e = NoEntry THEN Unmapped ELSE content'[e.page]
<1>1. \A s \in Roots \ {r} : pte'[s] = pte[s]
  BY ZenonT(60) DEF PteUpdate, IInv, Types
<1>2. pte'[r][v] = e /\ \A w \in Vas \ {v} : pte'[r][w] = pte[r][w]
  BY ZenonT(60) DEF PteUpdate, IInv, Types
<1>3. Foreign(r)
  BY ZenonT(60), <1>1 DEF Foreign, Alike
<1>4. \A s \in Roots : Makes(r, s) => state'[s] # "live"
  BY ZenonT(60) DEF Makes, IInv, BuildOK
<1>5. Cell(r, v)' = x
  BY ZenonT(60), <1>2 DEF Cell, Present
<1>6. ASSUME NEW w \in Vas \ {v}
      PROVE  Cell(r, w)' = Cell(r, w)
  <2>1. Present(r, w) => content'[pte[r][w].page] = content[pte[r][w].page]
    <3>1. pte[r][w] \in Entries
      BY ZenonT(60) DEF IInv, Types
    <3>2. Present(r, w) => pte[r][w].page \in Pages
      BY ZenonT(60), <3>1, Paged DEF Present
    <3> QED
      BY ZenonT(60), <3>2
  <2> QED
    BY ZenonT(60), <1>2, <2>1 DEF Cell, Present
<1> HIDE DEF x
<1>7. CASE state[r] = "live"
  <2>1. P!Change(r, v, x)
    BY ZenonT(60), <1>3, <1>4, <1>5, <1>6, <1>7, Changes
  <2>2. ASSUME e # NoEntry, Present(r, v), content'[e.page] = content[pte[r][v].page]
        PROVE  Memory' = Memory
    <3>1. x = Cell(r, v)
      BY ZenonT(60), <2>2 DEF Cell, x
    <3>2. \A w \in Vas : Cell(r, w)' = Cell(r, w)
      BY ZenonT(60), <1>5, <1>6, <3>1
    <3>3. View(r)' = View(r)
      BY ZenonT(60), <3>2 DEF View
    <3> QED
      BY ZenonT(60), <1>3, <1>4, <3>3, Stutters
  <2> QED
    BY ZenonT(60), <1>3, <1>7, <2>1, <2>2, Keeps DEF x
<1>8. CASE state[r] # "live"
  <2>1. View(r)' = View(r)
    BY ZenonT(60), <1>8 DEF View
  <2> QED
    BY ZenonT(60), <1>3, <1>4, <2>1, Keeps, Stutters
<1> QED
  BY ZenonT(60), <1>7, <1>8

\* A store, through what its core has cached: the page is r's alone.
LEMMA Stored ==
    ASSUME Cardinalities, IInv, CInv, Faithful, NEW r \in Roots, NEW v \in Vas, NEW x \in Values,
           Store(r, v, x)
    PROVE  Faithful' /\ P!Next
<1> DEFINE p == pte[r][v].page
<1>1. /\ state[r] = "live" /\ op[r].at = "user" /\ UNCHANGED <<state, pte, op>>
      /\ pte[r][v].mode = "rw" /\ content' = [content EXCEPT ![p] = x]
  BY ZenonT(60) DEF Store, Runs, At, IInv, Coherent
<1>2. pte[r][v] # NoEntry /\ p \in Pages
  <2>1. pte[r][v] \in Entries /\ pte[r][v] # NoEntry
    BY ZenonT(60), <1>1, Paged DEF IInv, Types
  <2> QED
    BY ZenonT(60), <2>1, Paged
<1>3. Lone(r, v)
  BY ZenonT(60), <1>1 DEF CInv, LoneWriter, Writes
<1>4. refs[p] > 0
  BY ZenonT(60), <1>2, Read DEF CInv
<1>5. \A s \in Roots : ~(op[s].at = "map" /\ op[s].page = p)
  BY SMTT(60), <1>4 DEF CInv, Tied
<1>6. ~Theirs(r, p)
  BY ZenonT(60), <1>3, <1>5 DEF Theirs, Lone
<1>7. content'[p] = x /\ \A k \in Pages \ {p} : content'[k] = content[k]
  BY ZenonT(60), <1>1, <1>2 DEF CInv, CountTypes
<1>8. Foreign(r)
  BY ZenonT(60), <1>1, <1>6, <1>7 DEF Foreign
<1>9. \A s \in Roots : Makes(r, s) => state'[s] # "live"
  BY ZenonT(60), <1>1 DEF Makes, IInv, BuildOK
<1>10. Cell(r, v)' = x
  BY ZenonT(60), <1>1, <1>2, <1>7 DEF Cell, Present
<1>11. ASSUME NEW w \in Vas \ {v}
       PROVE  Cell(r, w)' = Cell(r, w)
  <2>1. Present(r, w) => pte[r][w].page \in Pages \ {p}
    <3>1. pte[r][w] \in Entries
      BY ZenonT(60) DEF IInv, Types
    <3> QED
      BY ZenonT(60), <1>3, <3>1, Paged DEF Present, Lone
  <2>2. Present(r, w)' <=> Present(r, w)
    BY ZenonT(60), <1>1 DEF Present
  <2> QED
    BY ZenonT(60), <1>1, <1>7, <2>1, <2>2 DEF Cell
<1>12. P!Change(r, v, x)
  BY ZenonT(60), <1>1, <1>8, <1>9, <1>10, <1>11, Changes
<1>13. Memory[r] # Gone /\ Memory[r][v] # Unmapped
  <2>1. Memory[r] = View(r) /\ View(r) # Gone
    BY ZenonT(60), <1>1, Views DEF CInv, IInv
  <2>2. View(r)[v] = Cell(r, v)
    BY ZenonT(60), <1>1 DEF View
  <2>3. Cell(r, v) \in Values
    BY ZenonT(60), <1>2, Views DEF CInv, IInv, Present
  <2> QED
    BY ZenonT(60), <2>1, <2>2, <2>3, CopyOnWriteAssumption
<1>14. Faith(r)'
  BY ZenonT(60), <1>1 DEF Faith, Exiting
<1> QED
  BY ZenonT(60), <1>8, <1>12, <1>13, <1>14, Keeps DEF P!Next

\* Fork's entry: the parent sees the same page, and the child does not run yet.
LEMMA Lent ==
    ASSUME IInv, CInv, Faithful, NEW r \in Roots, ForkEntry(r)
    PROVE  Faithful' /\ Memory' = Memory
<1>0. PICK q, v, p : q = op[r].dest /\ v = op[r].va /\ p = op[r].page
  BY ZenonT(60)
<1> DEFINE e == Entry(p, "cow")
<1>1. op[r].at = "entry" /\ Building(r) /\ state[r] = "live"
  BY ZenonT(60) DEF ForkEntry, At, Building, Faithful, Faith
<1>2. q \in Roots \ {r} /\ v \in Vas /\ p \in Pages /\ state[q] = "building"
  BY ZenonT(60), <1>0, <1>1 DEF IInv, BuildOK, OpOK
<1>3. pte[r][v].page = p
  BY ZenonT(60), <1>0, <1>1 DEF CInv, Tied
<1>4. e.page = p /\ e \in Entries /\ e # NoEntry
  <2>1. e.page = p /\ e \in Entries
    BY SMTT(60), <1>2 DEF Entry, Entries
  <2> QED
    BY ZenonT(60), <1>2, <2>1, Paged
<1>5. /\ UNCHANGED <<state, content>>
      /\ pte' = [pte EXCEPT ![q][v] = e, ![r][v] = e]
  BY ZenonT(60), <1>0 DEF ForkEntry
<1>6. Alike(r) /\ op'[r].at = "fork" /\ op'[r].dest = q
  <2>1. Alike(r) /\ op'[r] = Op("fork", NoVa, NoPage, q, "user")
    BY ZenonT(60), <1>0, Becomes DEF ForkEntry
  <2> QED
    BY SMTT(60), <2>1 DEF Op
<1>7. \A w \in Vas : \/ pte[q][w] = NoEntry
                     \/ pte[q][w].page = pte[r][w].page
  BY ZenonT(60), <1>0, <1>1 DEF Faithful, Faith
<1>m. \A s \in Roots : Makes(r, s) <=> s = q
  BY ZenonT(60), <1>0, <1>1 DEF Makes
<1> HIDE DEF e
<1>8. /\ pte'[q][v] = e /\ pte'[r][v] = e
      /\ \A w \in Vas \ {v} : pte'[q][w] = pte[q][w] /\ pte'[r][w] = pte[r][w]
      /\ \A s \in Roots \ {q, r} : pte'[s] = pte[s]
  <2>1. pte \in [Roots -> [Vas -> Entries]]
    BY ZenonT(60) DEF IInv, Types
  <2> QED
    BY SMTT(60), <1>2, <1>5, <2>1
<1>9. Foreign(r)
  BY ZenonT(60), <1>1, <1>5, <1>6, <1>8, <1>m DEF Foreign, Alike
<1>10. Faith(r)'
  <2>1. \A w \in Vas : \/ pte'[q][w] = NoEntry
                       \/ pte'[q][w].page = pte'[r][w].page
    BY ZenonT(60), <1>7, <1>8
  <2> QED
    BY ZenonT(60), <1>1, <1>5, <1>6, <2>1 DEF Faith, Exiting
<1>11. View(r)' = View(r)
  <2>1. Present(r, v)
    BY ZenonT(60), <1>2, <1>3, Paged DEF Present
  <2>c. content' = content /\ pte'[r][v] = e
        /\ \A w \in Vas \ {v} : pte'[r][w] = pte[r][w]
    BY ZenonT(60), <1>5, <1>8
  <2>2. Cell(r, v)' = Cell(r, v)
    BY ZenonT(60), <1>3, <1>4, <2>1, <2>c DEF Cell, Present
  <2>3. \A w \in Vas \ {v} : Cell(r, w)' = Cell(r, w)
    BY ZenonT(60), <2>c DEF Cell, Present
  <2>4. \A w \in Vas : Cell(r, w)' = Cell(r, w)
    BY ZenonT(60), <2>2, <2>3
  <2> QED
    BY ZenonT(60), <1>5, <2>4 DEF View
<1>12. \A s \in Roots : Makes(r, s) => state'[s] # "live"
  BY ZenonT(60), <1>2, <1>5, <1>m
<1> QED
  BY ZenonT(60), <1>9, <1>10, <1>11, <1>12, Keeps, Stutters

\* The end of a fork: the child has the parent's pages.
LEMMA Forked ==
    ASSUME IInv, CInv, Faithful, NEW r \in Roots, ForkDone(r)
    PROVE  Faithful' /\ P!Next
<1>0. PICK q : q = op[r].dest
  BY ZenonT(60)
<1>1. op[r].at = "fork" /\ Building(r) /\ state[r] = "live"
  BY ZenonT(60) DEF ForkDone, At, Building, Faithful, Faith
<1>2. q \in Roots \ {r} /\ state[q] = "building"
  BY ZenonT(60), <1>0, <1>1 DEF IInv, BuildOK
<1>3. /\ state' = [state EXCEPT ![q] = "live"] /\ UNCHANGED <<pte, content>>
      /\ \A w \in Vas : Present(q, w) <=> Present(r, w)
  BY ZenonT(60), <1>0 DEF ForkDone, Mapped
<1>4. Alike(r) /\ op'[r].at = "user"
  <2>1. Alike(r) /\ op'[r] = Plain("user")
    BY ZenonT(60), Becomes DEF ForkDone
  <2> QED
    BY SMTT(60), <2>1 DEF Plain, Op
<1>5. \A w \in Vas : \/ pte[q][w] = NoEntry
                     \/ pte[q][w].page = pte[r][w].page
  BY ZenonT(60), <1>0, <1>1 DEF Faithful, Faith
<1>m. \A s \in Roots : Makes(r, s) <=> s = q
  BY ZenonT(60), <1>0, <1>1 DEF Makes
<1>6. state'[q] = "live" /\ \A s \in Roots \ {q} : state'[s] = state[s]
  BY ZenonT(60), <1>2, <1>3 DEF IInv, Types
<1>7. Foreign(r) /\ Faith(r)'
  BY ZenonT(60), <1>1, <1>3, <1>4, <1>6, <1>m DEF Foreign, Alike, Faith, Exiting
<1>8. \A s \in Roots \ {q} : View(s)' = View(s)
  BY ZenonT(60), <1>3, <1>6 DEF View, Cell, Present
<1>9. \A w \in Vas : Cell(q, w)' = Cell(r, w)
  BY ZenonT(60), <1>3, <1>5 DEF Cell, Present
<1>10. View(q)' = View(r)
  BY ZenonT(60), <1>1, <1>6, <1>9 DEF View
<1>11. Memory = [s \in Roots |-> View(s)] /\ Memory' = [s \in Roots |-> View(s)']
  BY ZenonT(60) DEF Memory, View, Cell
<1>12. Memory[r] # Gone /\ Memory[q] = Gone
  BY ZenonT(60), <1>1, <1>2, <1>11, Views DEF CInv, IInv
<1>13. Memory' = [Memory EXCEPT ![q] = Memory[r]]
  BY ZenonT(60), <1>2, <1>8, <1>10, <1>11
<1>14. P!Fork(r, q)
  BY ZenonT(60), <1>12, <1>13 DEF P!Fork, P!Held
<1> QED
  BY ZenonT(60), <1>2, <1>7, <1>14, Keeps DEF P!Next

\* An exit: the memory goes, whatever is still to be released.
LEMMA Left ==
    ASSUME IInv, CInv, Faithful, NEW r \in Roots, Exit(r)
    PROVE  Faithful' /\ P!Next
<1>1. state[r] = "live" /\ op[r].at = "user" /\ UNCHANGED <<pte, content>>
      /\ state' = [state EXCEPT ![r] = "dying"]
  BY ZenonT(60) DEF Exit, Runs, At
<1>2. Alike(r) /\ op'[r].at = "exit"
  <2>1. Alike(r) /\ op'[r] = Plain("exit")
    BY ZenonT(60), Becomes DEF Exit
  <2> QED
    BY SMTT(60), <2>1 DEF Plain, Op
<1>3. state'[r] = "dying" /\ \A s \in Roots \ {r} : state'[s] = state[s]
  BY ZenonT(60), <1>1 DEF IInv, Types
<1>4. Foreign(r) /\ Faith(r)'
  BY ZenonT(60), <1>1, <1>2, <1>3 DEF Foreign, Alike, Faith, Exiting
<1>5. \A s \in Roots \ {r} : View(s)' = View(s)
  BY ZenonT(60), <1>1, <1>3 DEF View, Cell, Present
<1>6. View(r)' = Gone
  BY ZenonT(60), <1>3 DEF View
<1>7. Memory = [s \in Roots |-> View(s)] /\ Memory' = [s \in Roots |-> View(s)']
  BY ZenonT(60) DEF Memory, View, Cell
<1>8. Memory[r] # Gone
  BY ZenonT(60), <1>1, <1>7, Views DEF CInv, IInv
<1>9. Memory' = [Memory EXCEPT ![r] = Gone]
  BY ZenonT(60), <1>5, <1>6, <1>7
<1>10. P!Exit(r)
  BY ZenonT(60), <1>8, <1>9 DEF P!Exit, P!Held
<1> QED
  BY ZenonT(60), <1>4, <1>10, Keeps DEF P!Next

\* The last reference of a page goes when nobody sees the page.
LEMMA GivenBack ==
    ASSUME Cardinalities, IInv, CInv, Faithful, NEW r \in Roots, Release(r)
    PROVE  Faithful' /\ Memory' = Memory
<1> DEFINE p == op[r].page
<1>1. op[r].at = "release" /\ p \in Pages /\ Owing(r, p) /\ state[r] \in {"live", "dying"}
      /\ op[r].then \in {"user", "undo", "exec", "exit"}
  BY ZenonT(60), Acting DEF Release, At, CInv, Tied, Owing, IInv, BuildOK, OpOK
<1>2. /\ content' = IF refs[p] = 1 THEN [content EXCEPT ![p] = Zero] ELSE content
      /\ UNCHANGED <<state, pte>>
  BY ZenonT(60) DEF Release, ReleasePage
<1>3. Alike(r) /\ op'[r].at = op[r].then
  <2>1. Alike(r) /\ op'[r] = Op(op[r].then, NoVa, NoPage, op[r].dest, "user")
    BY ZenonT(60), Becomes DEF Release
  <2> QED
    BY SMTT(60), <2>1 DEF Op
<1>f. Faith(r)
  BY ZenonT(60) DEF Faithful
<1> HIDE DEF p
<1>4. CountTypes /\ Counts /\ refs[p] > 0
  BY ZenonT(60), <1>1, Read DEF CInv
<1>5. ASSUME refs[p] = 1, NEW s \in Roots
      PROVE  (\A w \in Vas : pte[s][w].page # p) /\ ~(op[s].at = "map" /\ op[s].page = p)
  <2>1. \A w \in Vas : pte[s][w].page # p
    BY ZenonT(60), <1>1, <1>4, <1>5, Read
  <2>2. ~(op[s].at = "map" /\ op[s].page = p)
    BY SMTT(60), <1>4 DEF CInv, Tied
  <2> QED
    BY ZenonT(60), <2>1, <2>2
<1>6. \A k \in Pages : (\E s \in Roots : \E w \in Vas : pte[s][w].page = k) \/ Theirs(r, k)
                       => content'[k] = content[k]
  BY ZenonT(60), <1>2, <1>4, <1>5 DEF CountTypes, Theirs
<1>7. Foreign(r) /\ Faith(r)'
  BY ZenonT(60), <1>1, <1>2, <1>3, <1>6, <1>f DEF Foreign, Alike, Faith, Exiting
<1>8. ASSUME NEW w \in Vas
      PROVE  Cell(r, w)' = Cell(r, w)
  <2>1. pte[r][w] \in Entries
    BY ZenonT(60) DEF IInv, Types
  <2>2. Present(r, w) => content'[pte[r][w].page] = content[pte[r][w].page]
    BY ZenonT(60), <1>6, <2>1, Paged DEF Present
  <2>3. Present(r, w)' <=> Present(r, w)
    BY ZenonT(60), <1>2 DEF Present
  <2> QED
    BY ZenonT(60), <1>2, <2>2, <2>3 DEF Cell
<1>9. View(r)' = View(r)
  BY ZenonT(60), <1>2, <1>8 DEF View
<1>10. \A s \in Roots : Makes(r, s) => state'[s] # "live"
  BY ZenonT(60), <1>2 DEF Makes, IInv, BuildOK
<1> QED
  BY ZenonT(60), <1>7, <1>9, <1>10, Keeps, Stutters

\* Every step of CopyOnWrite is a step of some process's memory or is not seen:
\* one step per action.
LEMMA SeenStep ==
    ASSUME Cardinalities, IInv, CInv, Faithful, [Next]_vars
    PROVE  Faithful' /\ Seen
<1>0. CASE UNCHANGED vars
  <2>1. Faithful'
    BY ZenonT(60), <1>0 DEF vars, Faithful, Faith, Exiting
  <2>2. Memory' = Memory
    BY ZenonT(60), <1>0 DEF vars, Memory, Present
  <2> QED
    BY ZenonT(60), <2>1, <2>2 DEF Seen
<1>f. /\ \A r, v : Runs(r) => state[r] \in {"live", "dying"}
      /\ \A r \in Roots : op[r].at # "user" => state[r] \in {"live", "dying"}
  BY ZenonT(60), Acting DEF Runs
<1>1. ASSUME NEW r \in Roots, NEW v \in Vas, NEW x \in Values, Store(r, v, x)
      PROVE  Faithful' /\ Seen
  BY ZenonT(60), <1>1, Stored DEF Seen
<1>2. ASSUME NEW r \in Roots, NEW v \in Vas, NEW p \in Pages, Touch(r, v, p)
      PROVE  Faithful' /\ Seen
  <2> DEFINE e == Entry(p, "rw")
  <2>1. /\ op[r].at = "user" /\ state[r] = "live" /\ p \notin occupied
        /\ content' = [content EXCEPT ![p] = Zero]
        /\ PteUpdate(r, v, e) /\ UNCHANGED <<state, op>>
    BY ZenonT(60), <1>2 DEF Touch, Runs, At
  <2>2. e \in Entries /\ e.page = p /\ e # NoEntry
    <3>1. e \in Entries /\ e.page = p
      BY SMTT(60) DEF Entry, Entries
    <3> QED
      BY ZenonT(60), <3>1, Paged
  <2> HIDE DEF e
  <2>3. content'[p] = Zero /\ \A k \in Pages \ {p} : content'[k] = content[k]
    BY ZenonT(60), <2>1 DEF CInv, CountTypes
  <2>4. \A k \in Pages : (\E s \in Roots : \E w \in Vas : pte[s][w].page = k)
                         \/ Theirs(r, k) => content'[k] = content[k]
    <3>1. /\ \A s \in Roots : \A w \in Vas : pte[s][w].page # p
          /\ ~Theirs(r, p)
      BY ZenonT(60), <2>1, Nobodys
    <3> QED
      BY ZenonT(60), <2>3, <3>1
  <2>5. Alike(r) /\ Faith(r)'
    BY ZenonT(60), <2>1 DEF Alike, Faith, Exiting
  <2>6. Faithful' /\ (P!Change(r, v, Zero) \/ Memory' = Memory)
    <3>1. /\ Faithful'
          /\ \/ P!Change(r, v, IF e = NoEntry THEN Unmapped ELSE content'[e.page])
             \/ Memory' = Memory
      <4>1. state[r] \in {"live", "dying"} /\ UNCHANGED state /\ PteUpdate(r, v, e)
        BY ZenonT(60), <2>1
      <4> QED
        BY ZenonT(60), <2>2, <2>4, <2>5, <4>1, Shown
    <3>2. (IF e = NoEntry THEN Unmapped ELSE content'[e.page]) = Zero
      BY ZenonT(60), <2>2, <2>3
    <3> QED
      BY ZenonT(60), <3>1, <3>2
  <2> QED
    BY ZenonT(60), <2>6 DEF Seen, P!Next
<1>3. ASSUME NEW r \in Roots, NEW v \in Vas, NEW p \in Pages, ReplaceWithZero(r, v, p)
      PROVE  Faithful' /\ Seen
  <2>1. /\ UNCHANGED <<state, pte>> /\ state[r] = "live"
        /\ p \notin occupied /\ content' = [content EXCEPT ![p] = Zero]
    BY ZenonT(60), <1>3 DEF ReplaceWithZero, Runs
  <2>2. Alike(r) /\ op'[r] = Op("map", v, p, NoRoot, "user")
    BY ZenonT(60), <1>3, Becomes DEF ReplaceWithZero
  <2>3. op'[r].at = "map" /\ op'[r].page = p
    BY SMTT(60), <2>2 DEF Op
  <2>4. content'[p] = Zero
    BY ZenonT(60), <2>1 DEF CInv, CountTypes
  <2>5. Faith(r)'
    BY ZenonT(60), <2>3, <2>4 DEF Faith, Exiting
  <2> QED
    BY ZenonT(60), <2>1, <2>2, <2>5, Prepared DEF Seen
<1>4. ASSUME NEW r \in Roots, NEW v \in Vas, Unmap(r, v)
      PROVE  Faithful' /\ Seen
  <2>1. UNCHANGED <<state, content>> /\ state[r] = "live" /\ PteUpdate(r, v, NoEntry)
    BY ZenonT(60), <1>4 DEF Unmap, Runs
  <2>2. Alike(r) /\ op'[r] = Op("release", v, pte[r][v].page, NoRoot, "user")
    BY ZenonT(60), <1>4, Becomes DEF Unmap
  <2>3. op'[r].at = "release" /\ op'[r].then = "user"
    BY SMTT(60), <2>2 DEF Op
  <2>4. Faith(r)' /\ NoEntry \in Entries
    BY ZenonT(60), <2>3 DEF Faith, Exiting, Entries
  <2>5. Faithful' /\ (P!Change(r, v, Unmapped) \/ Memory' = Memory)
    BY ZenonT(60), <2>1, <2>2, <2>4, Shown
  <2> QED
    BY ZenonT(60), <2>5 DEF Seen, P!Next
<1>5. ASSUME NEW r \in Roots, NEW v \in Vas, Fault(r, v)
      PROVE  Faithful' /\ Seen
  <2>1. UNCHANGED <<state, pte, content>> /\ state[r] = "live"
    BY ZenonT(60), <1>5 DEF Fault, Runs
  <2>2. PICK a \in {"sole", "copy"} : Become(r, Op(a, v, NoPage, NoRoot, "user"))
    BY ZenonT(60), <1>5 DEF Fault
  <2>3. Alike(r) /\ op'[r] = Op(a, v, NoPage, NoRoot, "user")
    BY ZenonT(60), <2>2, Becomes
  <2>4. op'[r].at \in {"sole", "copy"}
    BY SMTT(60), <2>2, <2>3 DEF Op
  <2>5. Faith(r)'
    BY ZenonT(60), <2>4 DEF Faith, Exiting
  <2> QED
    BY ZenonT(60), <2>1, <2>3, <2>5, Hidden DEF Seen
<1>6. ASSUME NEW r \in Roots, NEW v \in Vas, ForkCount(r, v)
      PROVE  Faithful' /\ Seen
  <2>1. UNCHANGED <<state, pte, content>> /\ op[r].at = "fork" /\ Faith(r)
    BY ZenonT(60), <1>6 DEF ForkCount, At, Faithful
  <2>2. Alike(r) /\ op'[r] = Op("retain", v, pte[r][v].page, op[r].dest, "fork")
    BY ZenonT(60), <1>6, Becomes DEF ForkCount
  <2>3. op'[r].at = "retain" /\ op'[r].dest = op[r].dest
    BY SMTT(60), <2>2 DEF Op
  <2>4. Faith(r)'
    BY ZenonT(60), <2>1, <2>3 DEF Faith, Exiting
  <2>5. state[r] \in {"live", "dying"}
    BY ZenonT(60), <1>f, <2>1
  <2> QED
    BY ZenonT(60), <2>1, <2>2, <2>4, <2>5, Hidden DEF Seen
<1>21. ASSUME NEW r \in Roots, ForkRetain(r)
       PROVE  Faithful' /\ Seen
  <2>1. UNCHANGED <<state, pte, content>> /\ op[r].at = "retain" /\ Faith(r)
    BY ZenonT(60), <1>21 DEF ForkRetain, At, Faithful
  <2>2. PICK o \in {Op("entry", op[r].va, op[r].page, op[r].dest, "fork"),
                    Op("undo", NoVa, NoPage, op[r].dest, "user")} : Become(r, o)
    BY ZenonT(60), <1>21 DEF ForkRetain
  <2>3. o.at \in {"entry", "undo"} /\ o.dest = op[r].dest
    BY SMTT(60), <2>2 DEF Op
  <2>4. Alike(r) /\ op'[r] = o
    BY ZenonT(60), <2>2, Becomes
  <2>5. Faith(r)'
    BY ZenonT(60), <2>1, <2>3, <2>4 DEF Faith, Exiting
  <2>6. state[r] \in {"live", "dying"}
    BY ZenonT(60), <1>f, <2>1
  <2> QED
    BY ZenonT(60), <2>1, <2>4, <2>5, <2>6, Hidden DEF Seen
<1>7. ASSUME NEW r \in Roots, NEW v \in Vas, ReleaseMapping(r, v)
      PROVE  Faithful' /\ Seen
  <2>1. PICK d : d = Emptied(r)
    BY ZenonT(60)
  <2>2. /\ UNCHANGED <<state, content>> /\ op[r].at \in {"undo", "exec", "exit"}
        /\ state[r] \in {"live", "dying"} /\ PteUpdate(d, v, NoEntry)
    BY ZenonT(60), <1>7, <1>f, <2>1 DEF ReleaseMapping
  <2>3. Alike(r) /\ op'[r] = Op("release", v, pte[d][v].page, op[r].dest, op[r].at)
    BY ZenonT(60), <1>7, <2>1, Becomes DEF ReleaseMapping
  <2>4. op'[r].at = "release" /\ op'[r].then = op[r].at
    BY SMTT(60), <2>3 DEF Op
  <2>5. Faith(r)' /\ NoEntry \in Entries
    <3>1. Faith(r)
      BY ZenonT(60) DEF Faithful
    <3> QED
      BY ZenonT(60), <2>2, <2>4, <3>1 DEF Faith, Exiting, Entries
  <2>6. CASE d = r
    <3>1. Faithful' /\ (P!Change(r, v, Unmapped) \/ Memory' = Memory)
      BY ZenonT(60), <2>2, <2>3, <2>5, <2>6, Shown
    <3> QED
      BY ZenonT(60), <3>1 DEF Seen, P!Next
  <2>7. CASE d # r
    <3>1. Makes(r, d) /\ d \in Roots /\ state[d] = "building"
      BY ZenonT(60), <2>1, <2>7 DEF Emptied, At, Makes, Building, IInv, BuildOK
    <3>2. \A s \in Roots \ {d} : pte'[s] = pte[s]
      BY ZenonT(60), <2>2 DEF PteUpdate, IInv, Types
    <3>3. Foreign(r)
      BY ZenonT(60), <2>2, <2>3, <3>1, <3>2 DEF Foreign, Alike
    <3>4. View(r)' = View(r)
      BY ZenonT(60), <2>2, <2>7, <3>2 DEF View, Cell, Present
    <3>5. \A s \in Roots : Makes(r, s) => state'[s] # "live"
      BY ZenonT(60), <2>2 DEF Makes, IInv, BuildOK
    <3> QED
      BY ZenonT(60), <2>5, <3>3, <3>4, <3>5, Keeps, Stutters DEF Seen
  <2> QED
    BY ZenonT(60), <2>6, <2>7
<1>8. ASSUME NEW r \in Roots, NEW p \in Pages, Copy(r, p)
      PROVE  Faithful' /\ Seen
  <2>1. PICK v : v = op[r].va
    BY ZenonT(60)
  <2>2. /\ UNCHANGED <<state, pte>> /\ op[r].at = "copy" /\ v \in Vas
        /\ p \notin occupied /\ content' = [content EXCEPT ![p] = content[pte[r][v].page]]
        /\ state[r] \in {"live", "dying"}
    BY ZenonT(60), <1>8, <1>f, <2>1 DEF Copy, At, IInv, BuildOK, OpOK
  <2>3. Alike(r) /\ op'[r] = Op("map", v, p, NoRoot, "user")
    BY ZenonT(60), <1>8, <2>1, Becomes DEF Copy
  <2>4. op'[r].at = "map" /\ op'[r].page = p /\ op'[r].va = v
    BY SMTT(60), <2>3 DEF Op
  <2>5. pte[r][v].page \in Pages \ {p}
    <3>1. Tied(r) /\ pte \in [Roots -> [Vas -> Entries]]
      BY ZenonT(60) DEF CInv, IInv, Types
    <3>2. pte[r][v] \in Entries /\ pte[r][v] # NoEntry
      BY ZenonT(60), <2>1, <2>2, <3>1 DEF Tied
    <3> QED
      BY ZenonT(60), <2>2, <3>2, Paged, Nobodys
  <2>6. /\ content'[p] = content[pte[r][v].page]
        /\ content'[pte[r][v].page] = content[pte[r][v].page]
    BY ZenonT(60), <2>2, <2>5 DEF CInv, CountTypes
  <2>7. Faith(r)'
    BY ZenonT(60), <2>2, <2>4, <2>6 DEF Faith, Exiting
  <2> QED
    BY ZenonT(60), <2>2, <2>3, <2>7, Prepared DEF Seen
<1>9. ASSUME NEW r \in Roots, Sole(r)
      PROVE  Faithful' /\ Seen
  <2>1. PICK v, e : v = op[r].va /\ e = Entry(pte[r][v].page, "rw")
    BY ZenonT(60)
  <2>2. /\ op[r].at = "sole" /\ v \in Vas /\ state[r] \in {"live", "dying"}
        /\ UNCHANGED <<state, content>> /\ PteUpdate(r, v, e) /\ pte[r][v] # NoEntry
    BY ZenonT(60), <1>9, <1>f, <2>1 DEF Sole, At, IInv, BuildOK, OpOK
  <2>3. Alike(r) /\ op'[r] = Plain("user")
    BY ZenonT(60), <1>9, Becomes DEF Sole
  <2>4. op'[r].at = "user"
    BY SMTT(60), <2>3 DEF Plain, Op
  <2>5. e \in Entries /\ e # NoEntry /\ e.page = pte[r][v].page
    <3>1. pte[r][v].page \in Pages
      <4>1. pte[r][v] \in Entries
        BY ZenonT(60), <2>2 DEF IInv, Types
      <4> QED
        BY ZenonT(60), <2>2, <4>1, Paged
    <3>2. e \in Entries /\ e.page = pte[r][v].page
      BY SMTT(60), <2>1, <3>1 DEF Entry, Entries
    <3> QED
      BY ZenonT(60), <3>1, <3>2, Paged
  <2>6. Faith(r)' /\ Present(r, v)
    BY ZenonT(60), <2>2, <2>4 DEF Faith, Exiting, Present
  <2>7. content'[e.page] = content[pte[r][v].page]
    BY ZenonT(60), <2>2, <2>5
  <2> QED
    BY ZenonT(60), <2>2, <2>3, <2>5, <2>6, <2>7, Shown DEF Seen
<1>11. ASSUME NEW r \in Roots, Map(r)
       PROVE  Faithful' /\ Seen
  <2>1. PICK v, p, e : v = op[r].va /\ p = op[r].page /\ e = Entry(p, "rw")
    BY ZenonT(60)
  <2>2. /\ op[r].at = "map" /\ v \in Vas /\ p \in Pages /\ state[r] \in {"live", "dying"}
        /\ UNCHANGED <<state, content>> /\ PteUpdate(r, v, e)
    BY ZenonT(60), <1>11, <1>f, <2>1 DEF Map, At, IInv, BuildOK, OpOK
  <2>3. Alike(r) /\ op'[r] = Op("release", v, pte[r][v].page, NoRoot, "user")
    BY ZenonT(60), <1>11, <2>1, Becomes DEF Map
  <2>4. op'[r].at = "release" /\ op'[r].then = "user"
    BY SMTT(60), <2>3 DEF Op
  <2>5. e \in Entries /\ e # NoEntry /\ e.page = p
    <3>1. e \in Entries /\ e.page = p
      BY SMTT(60), <2>1, <2>2 DEF Entry, Entries
    <3> QED
      BY ZenonT(60), <2>2, <3>1, Paged
  <2>6. Faith(r)' /\ Present(r, v)
    BY ZenonT(60), <2>1, <2>2, <2>4 DEF Faith, Exiting, Present, CInv, Tied
  <2>7. content[p] \in {Zero, content[pte[r][v].page]}
    BY ZenonT(60), <2>1, <2>2 DEF Faithful, Faith
  <2>8. /\ Faithful'
        /\ P!Change(r, v, content'[e.page]) \/ Memory' = Memory
        /\ content'[e.page] = content[pte[r][v].page] => Memory' = Memory
    BY ZenonT(60), <2>2, <2>3, <2>5, <2>6, Shown
  <2>9. P!Change(r, v, Zero) \/ Memory' = Memory
    BY ZenonT(60), <2>2, <2>5, <2>7, <2>8
  <2> QED
    BY ZenonT(60), <2>2, <2>8, <2>9 DEF Seen, P!Next
<1>12. ASSUME NEW r \in Roots, Release(r)
       PROVE  Faithful' /\ Seen
  BY ZenonT(60), <1>12, GivenBack DEF Seen
<1>14. ASSUME NEW r \in Roots, ForkEntry(r)
       PROVE  Faithful' /\ Seen
  BY ZenonT(60), <1>14, Lent DEF Seen
<1>16. ASSUME NEW r \in Roots, ForkDone(r)
       PROVE  Faithful' /\ Seen
  BY ZenonT(60), <1>16, Forked DEF Seen
<1>19. ASSUME NEW r \in Roots, Exit(r)
       PROVE  Faithful' /\ Seen
  BY ZenonT(60), <1>19, Left DEF Seen
<1>a. ASSUME NEW r \in Roots, NEW o, Become(r, o), state[r] \in {"live", "dying"},
             o.at \notin {"map", "fork", "retain", "entry", "exit"}, o.then # "exit",
             UNCHANGED <<pte, content>>,
             \A s \in Roots : state'[s] = "live" <=> state[s] = "live"
      PROVE  Faithful' /\ Seen
  <2>1. Alike(r) /\ op'[r] = o
    BY ZenonT(60), <1>a, Becomes
  <2>2. Faith(r)'
    BY ZenonT(60), <1>a, <2>1 DEF Faith, Exiting
  <2> QED
    BY ZenonT(60), <1>a, <2>1, <2>2, Hidden DEF Seen
<1>b. \A a : Plain(a).at = a /\ Plain(a).then = "user"
  BY SMTT(60) DEF Plain, Op
<1>10. ASSUME NEW r \in Roots, CopyRefused(r)
       PROVE  Faithful' /\ Seen
  <2>1. Become(r, Plain("user")) /\ UNCHANGED <<state, pte, content>>
        /\ state[r] \in {"live", "dying"}
    BY ZenonT(60), <1>10, <1>f DEF CopyRefused, At
  <2> QED
    BY ZenonT(60), <1>a, <1>b, <2>1
<1>13. ASSUME NEW r \in Roots, NEW q \in Roots, Fork(r, q)
       PROVE  Faithful' /\ Seen
  <2>1. /\ state[r] = "live" /\ state[q] = "free" /\ UNCHANGED <<pte, content>>
        /\ state' = [state EXCEPT ![q] = "building"]
    BY ZenonT(60), <1>13 DEF Fork, Runs
  <2>2. Alike(r) /\ op'[r] = Op("fork", NoVa, NoPage, q, "user")
    BY ZenonT(60), <1>13, Becomes DEF Fork
  <2>3. op'[r].at = "fork" /\ op'[r].dest = q
    BY SMTT(60), <2>2 DEF Op
  <2>4. \A s \in Roots : state'[s] = "live" <=> state[s] = "live"
    BY ZenonT(60), <2>1 DEF IInv, Types
  <2>5. Faith(r)'
    BY ZenonT(60), <2>1, <2>3, <2>4 DEF Faith, Exiting, CInv, FreeEmpty
  <2> QED
    BY ZenonT(60), <2>1, <2>2, <2>4, <2>5, Hidden DEF Seen
<1>15. ASSUME NEW r \in Roots, ForkEntryRefused(r)
       PROVE  Faithful' /\ Seen
  <2>1. /\ Become(r, Op("release", op[r].va, op[r].page, op[r].dest, "undo"))
        /\ UNCHANGED <<state, pte, content>> /\ state[r] \in {"live", "dying"}
    BY ZenonT(60), <1>15, <1>f DEF ForkEntryRefused, At
  <2>2. /\ Op("release", op[r].va, op[r].page, op[r].dest, "undo").at = "release"
        /\ Op("release", op[r].va, op[r].page, op[r].dest, "undo").then = "undo"
    BY SMTT(60) DEF Op
  <2> QED
    BY ZenonT(60), <1>a, <2>1, <2>2
<1>17. ASSUME NEW r \in Roots, ForkFailed(r)
       PROVE  Faithful' /\ Seen
  <2>1. /\ Become(r, Op("undo", NoVa, NoPage, op[r].dest, "user"))
        /\ UNCHANGED <<state, pte, content>> /\ state[r] \in {"live", "dying"}
    BY ZenonT(60), <1>17, <1>f DEF ForkFailed, At
  <2>2. /\ Op("undo", NoVa, NoPage, op[r].dest, "user").at = "undo"
        /\ Op("undo", NoVa, NoPage, op[r].dest, "user").then = "user"
    BY SMTT(60) DEF Op
  <2> QED
    BY ZenonT(60), <1>a, <2>1, <2>2
<1>18. ASSUME NEW r \in Roots, Exec(r)
       PROVE  Faithful' /\ Seen
  <2>1. Become(r, Plain("exec")) /\ UNCHANGED <<state, pte, content>>
        /\ state[r] \in {"live", "dying"}
    BY ZenonT(60), <1>18 DEF Exec, Runs
  <2>2. Plain("exec").at = "exec" /\ Plain("exec").then = "user"
    BY ZenonT(60), <1>b
  <2> QED
    BY ZenonT(60), <1>a, <2>1, <2>2
<1>20. ASSUME NEW r \in Roots, ReleasedMappings(r)
       PROVE  Faithful' /\ Seen
  <2>1. /\ Become(r, Plain("user")) /\ UNCHANGED <<pte, content>>
        /\ op[r].at \in {"undo", "exec", "exit"} /\ state[r] \in {"live", "dying"}
        /\ state' = IF At(r, "exec") THEN state ELSE [state EXCEPT ![Emptied(r)] = "free"]
    BY ZenonT(60), <1>20, <1>f DEF ReleasedMappings
  <2>2. op[r].at # "exec" => state[Emptied(r)] # "live"
    <3>1. op[r].at = "exit" => state[r] # "live"
      BY ZenonT(60) DEF Faithful, Faith, Exiting
    <3>2. op[r].at = "undo" => state[op[r].dest] = "building"
      BY ZenonT(60) DEF IInv, BuildOK, Building
    <3> QED
      BY ZenonT(60), <2>1, <3>1, <3>2 DEF Emptied, At
  <2>3. \A s \in Roots : state'[s] = "live" <=> state[s] = "live"
    BY ZenonT(60), <2>1, <2>2 DEF IInv, Types, At
  <2> QED
    BY ZenonT(60), <1>a, <1>b, <2>1, <2>3
<1> QED
  BY ZenonT(60), <1>0, <1>1, <1>2, <1>3, <1>4, <1>5, <1>6, <1>7, <1>8, <1>9, <1>10, <1>11,
     <1>12, <1>13, <1>14, <1>15, <1>16, <1>17, <1>18, <1>19, <1>20, <1>21 DEF Next

\* One process runs at first, with nothing mapped.
LEMMA SeenInit ==
    ASSUME Init
    PROVE  Faithful /\ P!Init
<1>1. \A s \in Roots : op[s].at = "user"
  BY SMTT(60) DEF Init, Plain, Op
<1>2. Faithful
  BY ZenonT(60), <1>1 DEF Faithful, Faith, Exiting
<1>3. PICK r \in Roots : state = [s \in Roots |-> IF s = r THEN "live" ELSE "free"]
  BY ZenonT(60) DEF Init
<1>4. \A s \in Roots : \A v \in Vas : ~Present(s, v)
  BY ZenonT(60) DEF Init, Present
<1>5. Memory = [s \in Roots |-> IF s = r THEN [v \in Vas |-> Unmapped] ELSE Gone]
  BY ZenonT(60), <1>3, <1>4 DEF Memory
<1> QED
  BY ZenonT(60), <1>2, <1>5 DEF P!Init

-----------------------------------------------------------------------------
(* The theorems.                                                            *)

INSTANCE FiniteSetTheorems

\* A set that differs from another in one element.
LEMMA Differs ==
    ASSUME NEW S, IsFiniteSet(S), NEW T, NEW x, T \ {x} = S \ {x}
    PROVE  Cardinality(T) = Cardinality(S) - Num(x \in S) + Num(x \in T)
<1> DEFINE U == S \ {x}
<1>1. IsFiniteSet(U) /\ Cardinality(U) = IF x \in S THEN Cardinality(S) - 1 ELSE Cardinality(S)
  BY ZenonT(60), FS_RemoveElement
<1>2. Cardinality(U \cup {x}) = Cardinality(U) + 1
  <2>1. x \notin U
    OBVIOUS
  <2> QED
    BY ZenonT(60), <1>1, <2>1, FS_AddElement
<1>3. T = IF x \in T THEN U \cup {x} ELSE U
  OBVIOUS
<1>4. Cardinality(S) \in Nat /\ Cardinality(U) \in Nat
  BY ZenonT(60), <1>1, FS_CardinalityType
<1>5. Cardinality(T) = IF x \in T THEN Cardinality(U) + 1 ELSE Cardinality(U)
  BY ZenonT(60), <1>2, <1>3
<1> QED
  BY SMTT(60), <1>1, <1>4, <1>5 DEF Num

\* The library's finite sets are the ones the steps count with.
LEMMA Counted == Cardinalities
<1>1. \A S : IsFiniteSet(S) =>
         /\ Cardinality(S) \in Nat
         /\ Cardinality(S) = 0 <=> S = {}
         /\ Cardinality(S) = 1 <=> \E x : S = {x}
  BY ZenonT(60), FS_CardinalityType, FS_EmptySet, FS_Singleton
<1>2. \A S : \A T \in SUBSET S : IsFiniteSet(S) => IsFiniteSet(T)
  BY ZenonT(60), FS_Subset
<1>3. \A S, T : IsFiniteSet(S) /\ IsFiniteSet(T) => IsFiniteSet(S \X T)
  BY ZenonT(60), FS_Product
<1>4. \A S, T, x : IsFiniteSet(S) /\ T \ {x} = S \ {x} =>
         Cardinality(T) = Cardinality(S) - Num(x \in S) + Num(x \in T)
  BY ZenonT(60), Differs
<1> QED
  BY ZenonT(60), <1>1, <1>2, <1>3, <1>4 DEF Cardinalities

\* Nothing is mapped and nothing is owed at first.
LEMMA CountInit ==
    ASSUME Init
    PROVE  CInv
<1>1. \A s \in Roots : \A w \in Vas : pte[s][w] = NoEntry
  BY ZenonT(60) DEF Init
<1>2. \A s \in Roots : op[s].at = "user"
  BY SMTT(60) DEF Init, Plain, Op
<1>3. \A s \in Roots : \A p : ~Owing(s, p)
  BY ZenonT(60), <1>2 DEF Owing
<1>4. ASSUME NEW p \in Pages
      PROVE  Maps(p) = {} /\ Owes(p) = {} /\ refs[p] = 0 /\ p \notin occupied
  <2>1. \A s \in Roots : \A w \in Vas : pte[s][w].page # p
    BY ZenonT(60), <1>1, Paged
  <2> QED
    BY SMTT(60), <1>2, <2>1 DEF Maps, Owes, Init
<1>5. CountTypes
  <2>1. 0 \in Nat
    OBVIOUS
  <2> QED
    BY ZenonT(60), <2>1, CopyOnWriteAssumption DEF Init, CountTypes
<1>6. Counts
  BY SMTT(60), <1>4, FS_EmptySet DEF Counts
<1>7. Occupancy
  BY SMTT(60), <1>2, <1>4 DEF Occupancy
<1>8. LoneWriter
  BY ZenonT(60), <1>1, <1>2, Paged DEF LoneWriter, Writes
<1>9. Aligned
  <2>1. \A p \in Pages : \A w \in Vas : ~Spot(p, w)
    BY ZenonT(60), <1>1, <1>3, Paged DEF Spot
  <2> QED
    BY ZenonT(60), <2>1 DEF Aligned
<1>10. \A r \in Roots : Tied(r)
  BY ZenonT(60), <1>2 DEF Tied
<1> QED
  BY ZenonT(60), <1>1, <1>5, <1>6, <1>7, <1>8, <1>9, <1>10 DEF CInv, FreeEmpty

\* The counts hold of every state.
LEMMA CountInv == Spec => [](IInv /\ CInv)
<1>1. Init => IInv /\ CInv
  BY ZenonT(60), InitInv, CountInit
<1>2. IInv /\ CInv /\ [Next]_vars => (IInv /\ CInv)'
  BY ZenonT(60), NextInv, CountStep, Counted
<1> QED
  BY <1>1, <1>2, PTL DEF Spec

\* The mapping count of a page is the number of entries that name it and of
\* references on their way in or out, and the page is free exactly when there
\* are none and nobody is about to map it, however forks, faults, discards,
\* exits and undos interleave.
THEOREM CountsExact == Spec => []CountExact
<1>1. CInv => CountExact
  BY ZenonT(60) DEF CInv, Counts, Occupancy, CountExact, At
<1> QED
  BY <1>1, CountInv, PTL

\* What may be written, or is about to be made writable on a count already
\* read, is mapped by that one entry, and nobody else holds a reference to it.
THEOREM WritersAlone == Spec => []WriterAlone
<1>1. ASSUME CInv
      PROVE  WriterAlone
  <2> SUFFICES ASSUME NEW r \in Roots, NEW v \in Vas,
                      pte[r][v].mode = "rw" \/ (At(r, "sole") /\ op[r].va = v)
               PROVE  /\ Maps(pte[r][v].page) = {<<r, v>>}
                      /\ Owes(pte[r][v].page) \subseteq {r}
    BY ZenonT(60) DEF WriterAlone
  <2>1. Lone(r, v)
    BY ZenonT(60), <1>1 DEF CInv, LoneWriter, Writes, At
  <2>2. Maps(pte[r][v].page) = {<<r, v>>}
    BY SMTT(60), <2>1 DEF Lone, Maps
  <2>3. Owes(pte[r][v].page) \subseteq {r}
    BY ZenonT(60), <2>1 DEF Lone, Owes, Owing
  <2> QED
    BY ZenonT(60), <2>2, <2>3
<1> QED
  BY <1>1, CountInv, PTL

-----------------------------------------------------------------------------
(* How large a count can be.                                                *)

\* Distinct elements with distinct images are no more than the images.
LEMMA Injects ==
    ASSUME NEW S, IsFiniteSet(S), NEW T, IsFiniteSet(T), NEW f \in [S -> T],
           \A x, y \in S : f[x] = f[y] => x = y
    PROVE  Cardinality(S) <= Cardinality(T)
<1>1. Cardinality(S) \in Nat /\ Cardinality(T) \in Nat
  BY ZenonT(60), FS_CardinalityType
<1>2. ASSUME Cardinality(T) < Cardinality(S)
      PROVE  FALSE
  <2>1. \E x, y \in S : x # y /\ f[x] = f[y]
    BY SMTT(60), <1>2, FS_PigeonHole
  <2> QED
    BY ZenonT(60), <2>1
<1> QED
  BY SMTT(60), <1>1, <1>2

\* A page is in a root at most once, by an entry or by the reference held for
\* one, so its count is at most the number of roots in use.
LEMMA CountBounded ==
    ASSUME IInv, CInv, NEW p \in Pages
    PROVE  refs[p] <= Cardinality({s \in Roots : state[s] # "free"})
<1> DEFINE N == {s \in Roots : state[s] # "free"}
           A == {s \in N : \E w \in Vas : pte[s][w].page = p}
           B == {s \in N : \E t \in Roots : Owing(t, p) /\ Charge(t) = s}
<1>1. IsFiniteSet(N) /\ IsFiniteSet(A) /\ IsFiniteSet(B)
  <2>1. N \in SUBSET Roots /\ A \in SUBSET Roots /\ B \in SUBSET Roots
    OBVIOUS
  <2> QED
    BY ZenonT(60), <2>1, FS_Subset, CopyOnWriteAssumption
<1>2. ASSUME NEW t \in Roots, Owing(t, p)
      PROVE  /\ Charge(t) \in N /\ Spot(p, op[t].va) /\ op[t].va \in Vas
             /\ pte[Charge(t)][op[t].va].page # p
             /\ ~Building(t) => Charge(t) = t
             /\ Building(t) => Charge(t) = op[t].dest /\ op[Charge(t)].at = "user"
  <2>1. op[t].at \in {"entry", "release"} /\ op[t].page = p /\ Tied(t) /\ OpOK(t)
    BY ZenonT(60), <1>2 DEF Owing, CInv, IInv, BuildOK
  <2>2. op[t].va \in Vas /\ pte[Charge(t)][op[t].va].page # p
    BY ZenonT(60), <2>1 DEF Tied, OpOK
  <2>3. Spot(p, op[t].va)
    BY ZenonT(60), <1>2 DEF Spot
  <2>4. CASE Building(t)
    <3>1. op[t].dest \in Roots /\ state[op[t].dest] = "building"
      BY ZenonT(60), <2>4 DEF IInv, BuildOK
    <3>2. op[op[t].dest].at = "user"
      BY ZenonT(60), <3>1 DEF IInv, BuildOK
    <3> QED
      BY ZenonT(60), <2>2, <2>3, <2>4, <3>1, <3>2 DEF Charge
  <2>5. CASE ~Building(t)
    <3>1. state[t] # "free"
      BY ZenonT(60), <2>1 DEF IInv, BuildOK
    <3> QED
      BY ZenonT(60), <2>2, <2>3, <2>5, <3>1 DEF Charge
  <2> QED
    BY ZenonT(60), <2>4, <2>5
<1>3. \A s \in Roots : \A w \in Vas : pte[s][w].page = p => s \in A /\ Spot(p, w)
  <2> SUFFICES ASSUME NEW s \in Roots, NEW w \in Vas, pte[s][w].page = p
               PROVE  s \in A /\ Spot(p, w)
    BY ZenonT(60)
  <2>1. state[s] # "free"
    BY ZenonT(60), Paged DEF CInv, FreeEmpty
  <2> QED
    BY ZenonT(60), <2>1 DEF Spot
<1>4. Cardinality(Maps(p)) <= Cardinality(A)
  <2> DEFINE f == [m \in Maps(p) |-> m[1]]
  <2>1. \A m \in Maps(p) : m = <<m[1], m[2]>> /\ m[1] \in Roots /\ m[2] \in Vas
                           /\ pte[m[1]][m[2]].page = p
    BY SMTT(60) DEF Maps
  <2>2. \A m \in Maps(p) : m[1] \in A /\ Spot(p, m[2])
    BY ZenonT(60), <1>3, <2>1
  <2>3. f \in [Maps(p) -> A]
    BY ZenonT(60), <2>2
  <2>4. ASSUME NEW x \in Maps(p), NEW y \in Maps(p), f[x] = f[y]
        PROVE  x = y
    <3>1. x[2] = y[2]
      BY ZenonT(60), <2>1, <2>2 DEF CInv, Aligned
    <3>2. x[1] = y[1]
      BY ZenonT(60), <2>4
    <3>3. x = <<x[1], x[2]>> /\ y = <<y[1], y[2]>>
      BY ZenonT(60), <2>1
    <3> QED
      BY <3>1, <3>2, <3>3, Zenon
  <2> HIDE DEF f, A
  <2> QED
    BY ZenonT(60), <1>1, <2>3, <2>4, Finite, Counted, Injects
<1>5. Cardinality(Owes(p)) <= Cardinality(B)
  <2> DEFINE g == [t \in Owes(p) |-> Charge(t)]
  <2>1. \A t \in Owes(p) : t \in Roots /\ Owing(t, p)
    BY ZenonT(60) DEF Owes, Owing
  <2>2. \A t \in Owes(p) : Charge(t) \in B
    BY ZenonT(60), <1>2, <2>1
  <2>3. g \in [Owes(p) -> B]
    BY ZenonT(60), <2>2
  <2>4. ASSUME NEW x \in Owes(p), NEW y \in Owes(p), g[x] = g[y]
        PROVE  x = y
    <3>1. Charge(x) = Charge(y) /\ x \in Roots /\ y \in Roots /\ Owing(x, p) /\ Owing(y, p)
      BY ZenonT(60), <2>1, <2>4
    <3>2. op[x].at # "user" /\ op[y].at # "user"
      BY ZenonT(60), <3>1 DEF Owing
    <3>3. CASE Building(x) /\ Building(y)
      <4>1. op[x].dest = op[y].dest
        BY ZenonT(60), <3>1, <3>3 DEF Charge
      <4> QED
        BY ZenonT(60), <3>1, <3>3, <4>1 DEF IInv, BuildOK
    <3>4. /\ Building(x) => op[Charge(x)].at = "user"
          /\ Building(y) => op[Charge(y)].at = "user"
      BY ZenonT(60), <1>2, <3>1
    <3>5. /\ ~Building(x) => Charge(x) = x
          /\ ~Building(y) => Charge(y) = y
      BY ZenonT(60), <1>2, <3>1
    <3>6. CASE ~(Building(x) /\ Building(y))
      BY ZenonT(60), <3>1, <3>2, <3>4, <3>5, <3>6
    <3> QED
      BY ZenonT(60), <3>3, <3>6
  <2> HIDE DEF g, B
  <2> QED
    BY ZenonT(60), <1>1, <2>3, <2>4, Finite, Counted, Injects
<1>6. A \cap B = {}
  <2> SUFFICES ASSUME NEW t \in Roots, Owing(t, p), NEW w \in Vas,
                      pte[Charge(t)][w].page = p
               PROVE  FALSE
    BY ZenonT(60)
  <2>1. Charge(t) \in Roots
    BY ZenonT(60), <1>2
  <2>2. w = op[t].va
    BY ZenonT(60), <1>2, <1>3, <2>1 DEF CInv, Aligned
  <2> QED
    BY ZenonT(60), <1>2, <2>2
<1>7. Cardinality(A \cup B) <= Cardinality(N)
  <2>1. A \cup B \in SUBSET N
    OBVIOUS
  <2> QED
    BY ZenonT(60), <1>1, <2>1, FS_Subset
<1>8. Cardinality(A \cup B) = Cardinality(A) + Cardinality(B)
  <2> HIDE DEF A, B
  <2>1. Cardinality(A) \in Nat /\ Cardinality(B) \in Nat
    BY ZenonT(60), <1>1, FS_CardinalityType
  <2>2. Cardinality(A \cup B) = Cardinality(A) + Cardinality(B) - Cardinality({})
    BY SMTT(60), <1>1, <1>6, FS_Union
  <2> QED
    BY SMTT(60), <2>1, <2>2, FS_EmptySet
<1>9. refs[p] = Cardinality(Maps(p)) + Cardinality(Owes(p))
  BY ZenonT(60) DEF CInv, Counts
<1>10. /\ Cardinality(A) \in Nat /\ Cardinality(B) \in Nat /\ Cardinality(N) \in Nat
       /\ Cardinality(Maps(p)) \in Nat /\ Cardinality(Owes(p)) \in Nat
  BY ZenonT(60), <1>1, Finite, Counted, FS_CardinalityType
<1> HIDE DEF A, B, N
<1>11. refs[p] <= Cardinality(N)
  BY SMTT(60), <1>4, <1>5, <1>7, <1>8, <1>9, <1>10
<1> QED
  BY ZenonT(60), <1>11 DEF N

\* A page some root maps is occupied, and mapped into no more roots than
\* there are.
LEMMA InBound ==
    ASSUME IInv, CInv, NEW r \in Roots, NEW v \in Vas, NEW p \in Pages,
           pte[r][v].page = p
    PROVE  Retainable(p, LiveCount)
<1> DEFINE c == Cardinality({s \in Roots : state[s] # "free"})
<1>1. refs[p] > 0 /\ refs[p] \in Nat
  BY ZenonT(60), Read, Counted DEF CInv, CountTypes
<1>2. p \in occupied
  BY ZenonT(60), <1>1 DEF CInv, Occupancy
<1>3. refs[p] <= c
  BY ZenonT(60), CountBounded
<1>4. c \in Nat
  <2>1. {s \in Roots : state[s] # "free"} \in SUBSET Roots
    OBVIOUS
  <2> QED
    BY ZenonT(60), <2>1, FS_Subset, FS_CardinalityType, CopyOnWriteAssumption
<1>5. LiveCount = c + 1
  BY ZenonT(60) DEF LiveCount
<1> HIDE DEF c
<1>6. refs[p] \in 1 .. LiveCount - 1
  BY SMTT(60), <1>1, <1>3, <1>4, <1>5
<1> QED
  BY ZenonT(60), <1>2, <1>6 DEF Retainable

\* page_mapping_retain_physical, with a limit that is still true, refuses no
\* fork: what the parent maps is occupied, counted, and in no more roots than
\* there are.
THEOREM RetainsGranted == Spec => []RetainWithinBound
<1>1. ASSUME IInv, CInv
      PROVE  RetainWithinBound
  <2>1. ASSUME NEW r \in Roots, NEW v \in Vas, Present(r, v)
        PROVE  Retainable(pte[r][v].page, LiveCount)
    <3>1. pte[r][v] \in Entries /\ pte[r][v] # NoEntry
      BY ZenonT(60), <1>1, <2>1 DEF Present, IInv, Types
    <3>2. pte[r][v].page \in Pages
      BY ZenonT(60), <3>1, Paged
    <3> QED
      BY ZenonT(60), <1>1, <3>2, InBound
  <2>2. ASSUME NEW r \in Roots, At(r, "retain")
        PROVE  Retainable(op[r].page, LiveCount)
    <3>1. /\ op[r].va \in Vas /\ op[r].page \in Pages
          /\ pte[r][op[r].va].page = op[r].page
      BY ZenonT(60), <1>1, <2>2 DEF At, IInv, BuildOK, OpOK, CInv, Tied
    <3> QED
      BY ZenonT(60), <1>1, <3>1, InBound
  <2> QED
    BY ZenonT(60), <2>1, <2>2 DEF RetainWithinBound
<1> QED
  BY <1>1, CountInv, PTL

\* What a core has cached leads to a page that is still its root's, and a page
\* it may write is reached from nowhere else: a page goes back to the
\* allocator, and to another process, only after its entry's invalidation.
THEOREM PagesHeld == Spec => []TranslationsHeld
<1>1. ASSUME IInv, CInv
      PROVE  TranslationsHeld
  <2> SUFFICES ASSUME NEW r \in Roots, NEW v \in Vas, NEW e \in tlb[r][v]
               PROVE  /\ e.page \in occupied
                      /\ e.mode = "rw" =>
                            \A s \in Roots : \A w \in Vas :
                               <<s, w>> # <<r, v>> =>
                                  /\ pte[s][w].page # e.page
                                  /\ \A f \in tlb[s][w] : f.page # e.page
    BY ZenonT(60) DEF TranslationsHeld
  <2>1. \A s \in Roots : \A w \in Vas : \A f \in tlb[s][w] : f = pte[s][w]
    BY ZenonT(60), <1>1 DEF IInv, Coherent
  <2>2. e = pte[r][v] /\ e.page \in Pages
    <3>1. e \in Entries \ {NoEntry}
      BY ZenonT(60), <1>1 DEF IInv, Types
    <3> QED
      BY ZenonT(60), <2>1, <3>1, Paged
  <2>3. e.page \in occupied
    BY ZenonT(60), <1>1, <2>2, InBound DEF Retainable
  <2>4. ASSUME e.mode = "rw", NEW s \in Roots, NEW w \in Vas, <<s, w>> # <<r, v>>
        PROVE  /\ pte[s][w].page # e.page
               /\ \A f \in tlb[s][w] : f.page # e.page
    <3>1. Lone(r, v)
      BY ZenonT(60), <1>1, <2>2, <2>4 DEF CInv, LoneWriter, Writes
    <3>2. s # r \/ w # v
      BY SMTT(60), <2>4
    <3>3. pte[s][w].page # e.page
      BY ZenonT(60), <2>2, <3>1, <3>2 DEF Lone
    <3> QED
      BY ZenonT(60), <2>1, <3>3
  <2> QED
    BY ZenonT(60), <2>3, <2>4
<1> QED
  BY <1>1, CountInv, PTL

\* What a fork reads of address_space_live_count.
Limits == limit \in [Roots -> 0 .. Cardinality(Roots) + 1]
LEMMA LimitStep ==
    ASSUME Limits, [Next]_vars
    PROVE  Limits'
<1>1. 0 \in 0 .. Cardinality(Roots) + 1 /\ LiveCount \in 0 .. Cardinality(Roots) + 1
  <2> DEFINE N == {s \in Roots : state[s] # "free"}
  <2>1. N \in SUBSET Roots
    OBVIOUS
  <2>2. /\ Cardinality(N) <= Cardinality(Roots)
        /\ Cardinality(N) \in Nat /\ Cardinality(Roots) \in Nat
    BY ZenonT(60), <2>1, FS_Subset, FS_CardinalityType, CopyOnWriteAssumption
  <2>3. LiveCount = Cardinality(N) + 1
    BY ZenonT(60) DEF LiveCount
  <2> HIDE DEF N
  <2> QED
    BY SMTT(60), <2>2, <2>3
<1>2. \/ limit' = limit
      \/ \E r \in Roots : \E n \in {0, LiveCount} : limit' = [limit EXCEPT ![r] = n]
  <2>1. CASE UNCHANGED vars
    BY ZenonT(60), <2>1 DEF vars
  <2>2. ASSUME NEW r \in Roots, \/ ForkRetain(r)
                                \/ \E v \in Vas : ForkCount(r, v)
        PROVE  \E n \in {0, LiveCount} : limit' = [limit EXCEPT ![r] = n]
    BY ZenonT(60), <2>2 DEF ForkRetain, ForkCount
  <2>3. ASSUME NEW r \in Roots, NEW v \in Vas,
               \/ \E x \in Values : Store(r, v, x)
               \/ \E p \in Pages : Touch(r, v, p) \/ ReplaceWithZero(r, v, p)
               \/ Unmap(r, v) \/ Fault(r, v) \/ ReleaseMapping(r, v)
        PROVE  limit' = limit
    BY ZenonT(60), <2>3 DEF Store, Touch, ReplaceWithZero, Unmap, Fault, ReleaseMapping
  <2>4. ASSUME NEW r \in Roots,
               \/ \E p \in Pages : Copy(r, p)
               \/ Sole(r) \/ CopyRefused(r) \/ Map(r) \/ Release(r)
               \/ \E q \in Roots : Fork(r, q)
               \/ ForkEntry(r) \/ ForkEntryRefused(r) \/ ForkDone(r) \/ ForkFailed(r)
               \/ Exec(r) \/ Exit(r) \/ ReleasedMappings(r)
        PROVE  limit' = limit
    BY ZenonT(60), <2>4 DEF Copy, Sole, CopyRefused, Map, Release, Fork, ForkEntry,
       ForkEntryRefused, ForkDone, ForkFailed, Exec, Exit, ReleasedMappings
  <2> QED
    BY ZenonT(60), <2>1, <2>2, <2>3, <2>4 DEF Next
<1> QED
  BY ZenonT(60), <1>1, <1>2 DEF Limits

\* Every variable keeps its type, and a count never exceeds the roots there are.
THEOREM TypeCorrect == Spec => []TypeOK
<1>1. ASSUME IInv, CInv, Limits
      PROVE  TypeOK
  <2>1. \A p \in Pages : refs[p] \in 0 .. Cardinality(Roots)
    <3> SUFFICES ASSUME NEW p \in Pages
                 PROVE  refs[p] \in 0 .. Cardinality(Roots)
      BY ZenonT(60)
    <3> DEFINE N == {s \in Roots : state[s] # "free"}
    <3>1. N \in SUBSET Roots
      OBVIOUS
    <3>2. /\ Cardinality(N) <= Cardinality(Roots)
          /\ Cardinality(N) \in Nat /\ Cardinality(Roots) \in Nat
      BY ZenonT(60), <3>1, FS_Subset, FS_CardinalityType, CopyOnWriteAssumption
    <3>3. refs[p] <= Cardinality(N) /\ refs[p] \in Nat
      BY ZenonT(60), <1>1, CountBounded DEF CInv, CountTypes
    <3> HIDE DEF N
    <3> QED
      BY SMTT(60), <3>2, <3>3
  <2>2. refs \in [Pages -> 0 .. Cardinality(Roots)]
    BY ZenonT(60), <1>1, <2>1 DEF CInv, CountTypes
  <2> QED
    BY ZenonT(60), <1>1, <2>2 DEF CInv, CountTypes, IInv, Types, Operations, TypeOK, Limits
<1>2. Init => Limits
  <2>1. 0 \in 0 .. Cardinality(Roots) + 1
    <3>1. Cardinality(Roots) \in Nat
      BY ZenonT(60), FS_CardinalityType, CopyOnWriteAssumption
    <3> QED
      BY SMTT(60), <3>1
  <2> QED
    BY ZenonT(60), <2>1 DEF Init, Limits
<1>3. Limits /\ [Next]_vars => Limits'
  BY ZenonT(60), LimitStep
<1> QED
  BY <1>1, <1>2, <1>3, CountInv, PTL DEF Spec

\* Sharing pages until they are written is invisible: whatever the processes
\* do, in whatever order their steps come, each sees the memory of a process
\* that shares none, and a child is born with a copy of its parent's.
THEOREM MemoryPrivate == Spec => PrivateMemory
<1>1. Init => Faithful /\ P!Init
  BY ZenonT(60), SeenInit
<1>2. IInv /\ CInv /\ Faithful /\ [Next]_vars => Faithful' /\ [P!Next]_Memory
  BY ZenonT(60), SeenStep, Counted DEF Seen
<1> QED
  BY <1>1, <1>2, CountInv, PTL DEF Spec, PrivateMemory, P!Spec
=============================================================================
