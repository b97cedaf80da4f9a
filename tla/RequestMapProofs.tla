-------------------------- MODULE RequestMapProofs --------------------------
(***************************************************************************)
(* Machine-checked facts about RequestMap for every number of queries,     *)
(* slots and ids: type correctness, exclusive ownership of the inline      *)
(* sender storage, its initialisation, the entry counter, the place of     *)
(* every sender, and the refinement of RequestTable.                       *)
(***************************************************************************)
EXTENDS RequestMap, FiniteSetTheorems, TLAPS

\* Every probe step lands on a slot of the table.
LEMMA ProbeIndexInSlots ==
    ASSUME NEW id \in Ids, NEW step \in Nat
    PROVE  ProbeIndex(id, step) \in Slots
<1>1. id * HashMult \in Nat
  BY SizesAssumption DEF Ids
<1>2. id * HashMult + step \in Nat
  BY <1>1
<1>3. \A n \in Nat, m \in Nat \ {0} : n % m \in 0 .. m - 1
  OBVIOUS
<1>. QED
  BY <1>2, <1>3, SizesAssumption DEF ProbeIndex, Slots

\* The index of the loop a thread is in the middle of is still below the bound.
StepBelow(p) ==
    pc[p] \in {"clearTombstone", "drop", "detach"} => loc[p].step < SlotCount

TypeInv == TypeOK /\ \A p \in Procs : StepBelow(p)

LEMMA NextIdInIds == issued \in Nat => nextId \in Ids
<1>1. \A n \in Nat, m \in Nat \ {0} : n % m \in 0 .. m - 1
  OBVIOUS
<1>. QED
  BY <1>1, SizesAssumption DEF nextId, Ids

\* What may be written into a thread's locals.
LEMMA LocalsFacts ==
    /\ \A id, start \in Ids, tx \in Queries \cup {None} :
            Walk(id, start, tx) \in Locals
    /\ Blank \in Locals
    /\ \A l \in Locals : /\ l.id \in Ids /\ l.start \in Ids
                         /\ l.step \in 0 .. SlotCount
                         /\ l.tomb \in Slots \cup {NoSlot}
                         /\ l.slot \in Slots /\ l.hand \in Queries \cup {None}
    /\ \A l \in Locals, s \in Slots : /\ [l EXCEPT !.slot = s] \in Locals
                                      /\ [l EXCEPT !.tomb = s] \in Locals
    /\ \A l \in Locals, n \in 0 .. SlotCount : [l EXCEPT !.step = n] \in Locals
BY SizesAssumption DEF Walk, Blank, Locals, Ids, Slots, NoSlot

LEMMA StepFacts ==
    ASSUME NEW l \in Locals, l.step < SlotCount
    PROVE  /\ l.step + 1 \in 0 .. SlotCount
           /\ l.step \in Nat
           /\ l.step \in Slots
           /\ ProbeIndex(l.id, l.step) \in Slots
<1>1. l.step \in 0 .. SlotCount /\ l.id \in Ids
  BY LocalsFacts
<1>2. l.step \in Nat /\ l.step \in Slots /\ l.step + 1 \in 0 .. SlotCount
  BY <1>1, SizesAssumption DEF Slots
<1>. QED
  BY <1>1, <1>2, ProbeIndexInSlots

\* What may be written into a slot.
LEMMA MetaFacts ==
    /\ Empty \in Metas /\ Tombstone \in Metas
    /\ \A id \in Ids : Reserved(id) \in Metas /\ Full(id) \in Metas
    /\ \A m \in Metas : m.state \in {"RESERVED", "FULL"} => m.id \in Ids
BY DEF Metas, Empty, Tombstone, Reserved, Full

\* The counter wraps within sixteen bits.
LEMMA SizeFacts ==
    \A n \in 0 .. SizeMod - 1 :
        /\ (n + 1) % SizeMod \in 0 .. SizeMod - 1
        /\ (n + SizeMod - 1) % SizeMod \in 0 .. SizeMod - 1
<1>1. \A n \in Nat, m \in Nat \ {0} : n % m \in 0 .. m - 1
  OBVIOUS
<1>2. SizeMod \in Nat \ {0}
  BY DEF SizeMod
<1>. HIDE DEF SizeMod
<1>. QED
  BY <1>1, <1>2

\* A step that leaves the shared words alone and rewrites the locals of one
\* thread, its place and channels keeps every type.
LEMMA LocalStep ==
    ASSUME TypeInv, NEW p \in Procs, NEW l \in Locals, NEW label \in PCs,
           loc' = [loc EXCEPT ![p] = l], pc' = [pc EXCEPT ![p] = label],
           label \in {"clearTombstone", "drop", "detach"} => l.step < SlotCount,
           meta' \in [Slots -> Metas], sender' \in [Slots -> Queries \cup {None}],
           issued' \in Nat, size' \in 0 .. SizeMod - 1,
           rx' \in [Queries -> {"open", "answered", "dropped"}]
    PROVE  TypeInv'
BY DEF TypeInv, TypeOK, StepBelow

LEMMA TypeInit == Init => TypeInv
<1>. SUFFICES ASSUME Init PROVE TypeInv
  OBVIOUS
<1>1. TypeOK
  BY LocalsFacts, MetaFacts DEF Init, TypeOK, SizeMod, PCs
<1>2. \A p \in Procs : StepBelow(p)
  BY DEF Init, StepBelow
<1>. QED
  BY <1>1, <1>2 DEF TypeInv

LEMMA TypeStore ==
    ASSUME TypeInv, NEW q \in Queries, Store(q)
    PROVE  TypeInv'
<1>t. /\ meta \in [Slots -> Metas] /\ sender \in [Slots -> Queries \cup {None}]
      /\ issued \in Nat /\ size \in 0 .. SizeMod - 1
      /\ rx \in [Queries -> {"open", "answered", "dropped"}]
      /\ pc \in [Procs -> PCs] /\ loc \in [Procs -> Locals]
  BY DEF TypeInv, TypeOK
<1>q. q \in Procs
  BY DEF Procs
<1>0. loc[q] \in Locals
  BY <1>t, <1>q
<1>r. ASSUME NEW tx \in Queries \cup {None}, Retry(q, tx),
             UNCHANGED <<meta, sender, issued, size>>
      PROVE  TypeInv'
  <2>1. (loc[q].id + 1) % IdSpace \in Ids
    BY <1>0, LocalsFacts, SizesAssumption DEF Ids
  <2>. DEFINE exhausted == (loc[q].id + 1) % IdSpace = loc[q].start
  <2>. DEFINE l == IF exhausted THEN Blank
                   ELSE Walk((loc[q].id + 1) % IdSpace, loc[q].start, tx)
  <2>2. l \in Locals /\ loc' = [loc EXCEPT ![q] = l]
    BY <1>r, <1>0, <2>1, LocalsFacts DEF Retry
  <2>. DEFINE label == IF exhausted THEN "failed" ELSE "probe"
  <2>3. pc' = [pc EXCEPT ![q] = label]
    BY <1>r DEF Retry, Goto
  <2>4. rx' \in [Queries -> {"open", "answered", "dropped"}]
    BY <1>r, <1>t DEF Retry
  <2>a. label \in {"failed", "probe"}
    BY SMT
  <2>5. label \in PCs /\ label \notin {"clearTombstone", "drop", "detach"}
    <3>. HIDE DEF label
    <3>. QED BY <2>a DEF PCs
  <2>. HIDE DEF l, label
  <2>. QED BY <1>r, <1>t, <1>q, <2>2, <2>3, <2>4, <2>5, LocalStep
<1>b. ASSUME NEW s \in Slots, BeginClaim(q, s),
             UNCHANGED <<meta, sender, issued, size, rx>>
      PROVE  TypeInv'
  <2>1. CASE loc[q].hand = None
    BY <1>b, <1>t, <1>q, <2>1, LocalsFacts, LocalStep DEF BeginClaim, Goto, PCs
  <2>2. CASE loc[q].hand # None
    BY <1>b, <1>t, <1>q, <1>0, <2>2, LocalsFacts, LocalStep
    DEF BeginClaim, Goto, PCs
  <2>. QED BY <2>1, <2>2
<1>1. CASE StoreStart(q)
  <2>1. nextId \in Ids
    BY <1>t, NextIdInIds
  <2>. QED
    <3>1. Walk(nextId, nextId, q) \in Locals
      BY <2>1, LocalsFacts
    <3>2. pc' = [pc EXCEPT ![q] = "probe"] /\ "probe" \in PCs /\ issued' \in Nat
      BY <1>1, <1>t DEF StoreStart, Goto, PCs
    <3>. QED
      BY <1>1, <1>t, <1>q, <3>1, <3>2, LocalStep DEF StoreStart
<1>2. CASE ProbeFree(q)
  <2>1. Probed(q) \in Slots
    BY <1>2, <1>0, StepFacts DEF ProbeFree, Probed
  <2>2. (IF loc[q].tomb = NoSlot THEN Probed(q) ELSE loc[q].tomb) \in Slots
    BY <1>0, <2>1, LocalsFacts
  <2>. QED BY <1>2, <1>b, <2>2 DEF ProbeFree
<1>3. CASE ProbeTombstone(q)
  <2>. DEFINE next == [loc[q] EXCEPT !.step = loc[q].step + 1]
  <2>1. Probed(q) \in Slots /\ next \in Locals
    BY <1>3, <1>0, StepFacts, LocalsFacts DEF ProbeTombstone, Probed
  <2>. DEFINE l == IF next.tomb # NoSlot THEN next
                   ELSE [next EXCEPT !.tomb = Probed(q)]
  <2>2. l \in Locals
    BY <2>1, LocalsFacts
  <2>3. loc' = [loc EXCEPT ![q] = l]
    BY <1>3 DEF ProbeTombstone
  <2>4. pc' = [pc EXCEPT ![q] = "probe"]
    BY <1>3, <1>t, <1>q DEF ProbeTombstone
  <2>. HIDE DEF l
  <2>. QED
    BY <1>3, <1>t, <1>q, <2>2, <2>3, <2>4, LocalStep DEF ProbeTombstone, PCs
<1>n. ASSUME loc[q].step < SlotCount, NextStep(q), pc[q] = "probe",
             UNCHANGED <<meta, sender, issued, size, pc, rx>>
      PROVE  TypeInv'
  <2>1. [loc[q] EXCEPT !.step = loc[q].step + 1] \in Locals
    BY <1>n, <1>0, StepFacts, LocalsFacts
  <2>2. pc' = [pc EXCEPT ![q] = "probe"]
    BY <1>n, <1>t, <1>q
  <2>3. loc' = [loc EXCEPT ![q] = [loc[q] EXCEPT !.step = loc[q].step + 1]]
    BY <1>n, <1>q, <1>t DEF NextStep
  <2>. QED BY <1>n, <1>t, <1>q, <2>1, <2>2, <2>3, LocalStep DEF PCs
<1>4. CASE ProbeOccupied(q)
  <2>1. CASE meta[Probed(q)].id = loc[q].id
    BY <1>4, <2>1, <1>r, <1>0, LocalsFacts DEF ProbeOccupied
  <2>2. CASE meta[Probed(q)].id # loc[q].id
    BY <1>4, <2>2, <1>n DEF ProbeOccupied
  <2>. QED BY <2>1, <2>2
<1>5. CASE ProbeEnd(q)
  <2>1. CASE loc[q].tomb # NoSlot
    <3>1. loc[q].tomb \in Slots
      BY <1>0, <2>1, LocalsFacts
    <3>. QED BY <1>5, <2>1, <3>1, <1>b DEF ProbeEnd
  <2>2. CASE loc[q].tomb = NoSlot
    <3>1. rx' \in [Queries -> {"open", "answered", "dropped"}]
      BY <1>5, <1>t, <2>2 DEF ProbeEnd
    <3>. QED
      BY <1>5, <1>t, <1>q, <2>2, <3>1, LocalsFacts, LocalStep
      DEF ProbeEnd, Goto, PCs
  <2>. QED BY <2>1, <2>2
<1>6. CASE Claim(q)
  <2>1. meta' \in [Slots -> Metas]
    BY <1>6, <1>0, <1>t, LocalsFacts, MetaFacts DEF Claim
  <2>2. loc' = [loc EXCEPT ![q] = loc[q]]
    BY <1>6, <1>t, <1>q DEF Claim
  <2>. QED
    BY <1>6, <1>0, <1>t, <1>q, <2>1, <2>2, LocalStep DEF Claim, Goto, PCs
<1>7. CASE ClaimLost(q)
  BY <1>7, <1>r DEF ClaimLost
<1>8. CASE Publish(q)
  <2>1. loc[q].id \in Ids /\ loc[q].slot \in Slots
        /\ loc[q].hand \in Queries \cup {None} /\ 0 \in Ids
    BY <1>0, LocalsFacts, SizesAssumption DEF Ids
  <2>2. /\ meta' \in [Slots -> Metas]
        /\ sender' \in [Slots -> Queries \cup {None}]
    BY <1>8, <1>t, <2>1, MetaFacts DEF Publish
  <2>3. Walk(loc[q].id, 0, None) \in Locals
    BY <2>1, LocalsFacts
  <2>. QED
    BY <1>8, <1>t, <1>q, <2>2, <2>3, LocalStep DEF Publish, Goto, PCs
<1>9. CASE CountStored(q)
  <2>1. loc' = [loc EXCEPT ![q] = loc[q]]
    BY <1>9, <1>t, <1>q DEF CountStored
  <2>2. size' \in 0 .. SizeMod - 1
    BY <1>9, <1>t, SizeFacts DEF CountStored
  <2>. QED
    BY <1>9, <1>0, <1>t, <1>q, <2>1, <2>2, LocalStep DEF CountStored, Goto, PCs
<1>. QED
  BY <1>1, <1>2, <1>3, <1>4, <1>5, <1>6, <1>7, <1>8, <1>9 DEF Store

LEMMA TypeLookup ==
    ASSUME TypeInv, NEW p \in Queries \cup {Listener}, Lookup(p)
    PROVE  TypeInv'
<1>t. /\ meta \in [Slots -> Metas] /\ sender \in [Slots -> Queries \cup {None}]
      /\ issued \in Nat /\ size \in 0 .. SizeMod - 1
      /\ rx \in [Queries -> {"open", "answered", "dropped"}]
      /\ pc \in [Procs -> PCs] /\ loc \in [Procs -> Locals]
  BY DEF TypeInv, TypeOK
<1>p. p \in Procs
  BY DEF Procs
<1>0. loc[p] \in Locals
  BY <1>t, <1>p
<1>s. loc' = loc => loc' = [loc EXCEPT ![p] = loc[p]]
  BY <1>t, <1>p
<1>r. ASSUME Return(p), UNCHANGED <<meta, sender, issued, size>>
      PROVE  TypeInv'
  <2>. DEFINE label == IF p = Listener THEN "idle" ELSE "done"
  <2>1. pc' = [pc EXCEPT ![p] = label]
    BY <1>r DEF Return, Goto
  <2>2. rx' \in [Queries -> {"open", "answered", "dropped"}]
    BY <1>r, <1>t DEF Return, Answer
  <2>3. label \in PCs /\ label \notin {"clearTombstone", "drop", "detach"}
    <3>1. label \in {"idle", "done"}
      OBVIOUS
    <3>. HIDE DEF label
    <3>. QED BY <3>1 DEF PCs
  <2>4. loc' = [loc EXCEPT ![p] = Blank]
    BY <1>r DEF Return
  <2>. HIDE DEF label
  <2>. QED BY <1>r, <1>t, <1>p, <2>1, <2>2, <2>3, <2>4, LocalsFacts, LocalStep
<1>n. ASSUME loc[p].step < SlotCount, NextStep(p), NEW label \in {"lookup", "reset"},
             pc' = [pc EXCEPT ![p] = label], meta' \in [Slots -> Metas],
             UNCHANGED <<sender, issued, size, rx>>
      PROVE  TypeInv'
  <2>1. [loc[p] EXCEPT !.step = loc[p].step + 1] \in Locals
    BY <1>n, <1>0, StepFacts, LocalsFacts
  <2>2. loc' = [loc EXCEPT ![p] = [loc[p] EXCEPT !.step = loc[p].step + 1]]
    BY <1>n, <1>p, <1>t DEF NextStep
  <2>3. label \in PCs /\ label \notin {"clearTombstone", "drop", "detach"}
    BY DEF PCs
  <2>. QED BY <1>n, <1>t, <1>p, <2>1, <2>2, <2>3, LocalStep
<1>1. CASE LookupEmpty(p)
  BY <1>1, <1>r DEF LookupEmpty
<1>2. CASE LookupEnd(p)
  BY <1>2, <1>r DEF LookupEnd
<1>3. CASE LookupOther(p)
  <2>1. pc' = [pc EXCEPT ![p] = "lookup"]
    BY <1>3, <1>t, <1>p DEF LookupOther
  <2>. QED BY <1>3, <1>t, <1>n, <2>1 DEF LookupOther
<1>4. CASE LookupMatch(p)
  <2>1. [loc[p] EXCEPT !.slot = Probed(p)] \in Locals
    BY <1>4, <1>0, StepFacts, LocalsFacts DEF LookupMatch, Probed
  <2>2. [loc[p] EXCEPT !.slot = Probed(p)].step < SlotCount
    BY <1>4, <1>0 DEF LookupMatch, Locals
  <2>. QED
    BY <1>4, <1>t, <1>p, <2>1, <2>2, LocalStep DEF LookupMatch, Goto, PCs
<1>5. CASE Detach(p)
  <2>1. meta' \in [Slots -> Metas]
    BY <1>5, <1>0, <1>t, LocalsFacts, MetaFacts DEF Detach
  <2>. QED
    BY <1>5, <1>0, <1>t, <1>p, <1>s, <2>1, LocalStep DEF Detach, Goto, PCs
<1>6. CASE DetachLost(p)
  <2>1. loc[p].step < SlotCount
    BY <1>6, <1>p DEF DetachLost, TypeInv, StepBelow
  <2>. QED BY <1>6, <1>t, <1>n, <2>1 DEF DetachLost, Goto
<1>7. CASE Bury(p)
  <2>1. loc[p].id \in Ids /\ loc[p].slot \in Slots /\ 0 \in Ids
    BY <1>0, LocalsFacts, SizesAssumption DEF Ids
  <2>2. Walk(loc[p].id, 0, sender[loc[p].slot]) \in Locals
    BY <1>t, <2>1, LocalsFacts
  <2>3. /\ meta' \in [Slots -> Metas]
        /\ sender' \in [Slots -> Queries \cup {None}]
    BY <1>7, <1>t, <2>1, MetaFacts DEF Bury
  <2>. QED BY <1>7, <1>t, <1>p, <2>2, <2>3, LocalStep DEF Bury, Goto, PCs
<1>8. CASE CountDetached(p)
  <2>1. size' \in 0 .. SizeMod - 1
    BY <1>8, <1>t, SizeFacts DEF CountDetached
  <2>. QED
    BY <1>8, <1>0, <1>t, <1>p, <1>s, <2>1, LocalStep DEF CountDetached, Goto, PCs
<1>9. CASE CheckEmpty(p)
  <2>1. CASE size = 0
    BY <1>9, <1>0, <1>t, <1>p, <1>s, <2>1, LocalStep DEF CheckEmpty, Goto, PCs
  <2>2. CASE size # 0
    BY <1>9, <1>r, <2>2 DEF CheckEmpty
  <2>. QED BY <2>1, <2>2
<1>10. CASE ResetSlot(p)
  <2>1. meta' \in [Slots -> Metas]
    BY <1>10, <1>t, MetaFacts DEF ResetSlot
  <2>2. pc' = [pc EXCEPT ![p] = "reset"]
    BY <1>10, <1>t, <1>p DEF ResetSlot
  <2>. QED BY <1>10, <1>n, <2>1, <2>2 DEF ResetSlot
<1>11. CASE ResetEnd(p)
  BY <1>11, <1>r DEF ResetEnd
<1>. QED
  BY <1>1, <1>2, <1>3, <1>4, <1>5, <1>6, <1>7, <1>8, <1>9, <1>10, <1>11
  DEF Lookup

LEMMA TypeClear ==
    ASSUME TypeInv, Clear
    PROVE  TypeInv'
<1>t. /\ meta \in [Slots -> Metas] /\ sender \in [Slots -> Queries \cup {None}]
      /\ issued \in Nat /\ size \in 0 .. SizeMod - 1
      /\ rx \in [Queries -> {"open", "answered", "dropped"}]
      /\ pc \in [Procs -> PCs] /\ loc \in [Procs -> Locals]
  BY DEF TypeInv, TypeOK
<1>p. Closer \in Procs
  BY DEF Procs
<1>0. loc[Closer] \in Locals
  BY <1>t, <1>p
<1>s. loc' = loc => loc' = [loc EXCEPT ![Closer] = loc[Closer]]
  BY <1>t, <1>p
<1>n. ASSUME loc[Closer].step < SlotCount, NextStep(Closer),
             pc' = [pc EXCEPT ![Closer] = "clear"], meta' \in [Slots -> Metas],
             UNCHANGED <<sender, issued, size, rx>>
      PROVE  TypeInv'
  <2>1. [loc[Closer] EXCEPT !.step = loc[Closer].step + 1] \in Locals
    BY <1>n, <1>0, StepFacts, LocalsFacts
  <2>2. loc' = [loc EXCEPT ![Closer] =
                    [loc[Closer] EXCEPT !.step = loc[Closer].step + 1]]
    BY <1>n, <1>p, <1>t DEF NextStep
  <2>. QED BY <1>n, <1>t, <1>p, <2>1, <2>2, LocalStep DEF PCs
<1>1. CASE ClearStart
  BY <1>1, <1>0, <1>t, <1>p, <1>s, LocalStep DEF ClearStart, Goto, PCs
<1>2. CASE ClearEmpty
  <2>1. pc' = [pc EXCEPT ![Closer] = "clear"]
    BY <1>2, <1>t, <1>p DEF ClearEmpty
  <2>. QED BY <1>2, <1>t, <1>n, <2>1 DEF ClearEmpty
<1>3. CASE ClearTombstoneSeen
  BY <1>3, <1>0, <1>t, <1>p, <1>s, LocalStep DEF ClearTombstoneSeen, Goto, PCs
<1>4. CASE ClearTombstone
  <2>1. meta' \in [Slots -> Metas]
    BY <1>4, <1>t, MetaFacts DEF ClearTombstone
  <2>2. loc[Closer].step < SlotCount
    BY <1>4, <1>p DEF ClearTombstone, TypeInv, StepBelow
  <2>. QED BY <1>4, <1>n, <2>1, <2>2 DEF ClearTombstone, Goto
<1>5. CASE ClearClaim
  <2>1. loc[Closer].step \in Slots
    BY <1>5, <1>0, StepFacts DEF ClearClaim
  <2>2. meta[loc[Closer].step] \in Metas
    BY <1>t, <2>1
  <2>3. Reserved(meta[loc[Closer].step].id) \in Metas
    BY <1>5, <2>2, MetaFacts DEF ClearClaim
  <2>4. meta' \in [Slots -> Metas]
    BY <1>5, <1>t, <2>3 DEF ClearClaim
  <2>5. [loc[Closer] EXCEPT !.slot = loc[Closer].step] \in Locals
    BY <1>0, <2>1, LocalsFacts
  <2>6. [loc[Closer] EXCEPT !.slot = loc[Closer].step].step < SlotCount
    BY <1>5, <1>0 DEF ClearClaim, Locals
  <2>. QED
    BY <1>5, <1>t, <1>p, <2>4, <2>5, <2>6, LocalStep DEF ClearClaim, Goto, PCs
<1>6. CASE ClearDrop
  <2>1. loc[Closer].step < SlotCount
    BY <1>6, <1>p DEF ClearDrop, TypeInv, StepBelow
  <2>2. [Blank EXCEPT !.step = loc[Closer].step + 1] \in Locals
    BY <1>0, <2>1, StepFacts, LocalsFacts
  <2>3. /\ meta' \in [Slots -> Metas]
        /\ sender' \in [Slots -> Queries \cup {None}]
        /\ rx' \in [Queries -> {"open", "answered", "dropped"}]
    BY <1>6, <1>0, <1>t, MetaFacts, LocalsFacts DEF ClearDrop
  <2>. QED BY <1>6, <1>t, <1>p, <2>2, <2>3, LocalStep DEF ClearDrop, Goto, PCs
<1>7. CASE ClearEnd
  <2>1. 0 \in 0 .. SizeMod - 1
    BY DEF SizeMod
  <2>. QED
    BY <1>7, <1>0, <1>t, <1>p, <1>s, <2>1, LocalStep DEF ClearEnd, Goto, PCs
<1>. QED
  BY <1>1, <1>2, <1>3, <1>4, <1>5, <1>6, <1>7 DEF Clear

LEMMA TypeStep == TypeInv /\ [Next]_vars => TypeInv'
<1>. SUFFICES ASSUME TypeInv, [Next]_vars PROVE TypeInv'
  OBVIOUS
<1>t. /\ meta \in [Slots -> Metas] /\ sender \in [Slots -> Queries \cup {None}]
      /\ issued \in Nat /\ size \in 0 .. SizeMod - 1
      /\ rx \in [Queries -> {"open", "answered", "dropped"}]
      /\ pc \in [Procs -> PCs] /\ loc \in [Procs -> Locals]
  BY DEF TypeInv, TypeOK
<1>1. ASSUME NEW q \in Queries, Disarm(q) PROVE TypeInv'
  BY <1>1, <1>t, LocalsFacts, LocalStep DEF Disarm, Goto, Procs, PCs
<1>2. ASSUME NEW q \in Queries, RemoveStart(q) PROVE TypeInv'
  <2>1. q \in Procs /\ loc[q] \in Locals /\ loc' = [loc EXCEPT ![q] = loc[q]]
    BY <1>2, <1>t DEF RemoveStart, Procs
  <2>. QED BY <1>2, <1>t, <2>1, LocalStep DEF RemoveStart, Goto, PCs
<1>3. CASE TakeStart
  <2>1. PICK id \in Ids : loc' = [loc EXCEPT ![Listener] = Walk(id, 0, None)]
    BY <1>3 DEF TakeStart
  <2>0. 0 \in Ids
    BY SizesAssumption DEF Ids
  <2>2. Walk(id, 0, None) \in Locals
    BY <2>0, LocalsFacts
  <2>3. Listener \in Procs
    BY DEF Procs
  <2>. QED
    BY <1>3, <1>t, <2>1, <2>2, <2>3, LocalStep DEF TakeStart, Goto, PCs
<1>4. CASE Churn
  <2>1. PICK k \in Slots :
          meta' = IF size = 0
                  THEN Drained([meta EXCEPT ![ProbeIndex(nextId, k)] = Empty])
                  ELSE [meta EXCEPT ![ProbeIndex(nextId, k)] = Tombstone]
    BY <1>4 DEF Churn
  <2>a. /\ [meta EXCEPT ![ProbeIndex(nextId, k)] = Empty] \in [Slots -> Metas]
        /\ [meta EXCEPT ![ProbeIndex(nextId, k)] = Tombstone] \in [Slots -> Metas]
    BY <1>t, MetaFacts
  <2>b. \A table \in [Slots -> Metas] : Drained(table) \in [Slots -> Metas]
    BY MetaFacts DEF Drained
  <2>2. meta' \in [Slots -> Metas]
    BY <2>1, <2>a, <2>b
  <2>3. issued' \in Nat
    BY <1>4, <1>t DEF Churn
  <2>. QED BY <1>4, <2>2, <2>3 DEF Churn, TypeInv, TypeOK, StepBelow
<1>5. CASE UNCHANGED vars
  BY <1>5 DEF vars, TypeInv, TypeOK, StepBelow
<1>. QED
  BY <1>1, <1>2, <1>3, <1>4, <1>5, TypeStore, TypeLookup, TypeClear
  DEF Next, QueryStep, ListenerStep

\* Every variable keeps its type in every reachable state, for any number of
\* queries, slots and ids.
THEOREM TypeCorrect == Spec => []TypeOK
<1>1. TypeInv => TypeOK
  BY DEF TypeInv
<1>. QED
  BY TypeInit, TypeStep, <1>1, PTL DEF Spec
-----------------------------------------------------------------------------
(***************************************************************************)
(* Ownership.  StorageExclusive is not inductive by itself: releasing a    *)
(* slot needs to know that the slot's content matches its state, and a     *)
(* claim that the claiming thread still holds its sender.                  *)
(***************************************************************************)
Owners == {"write", "move", "drop"}

\* A free slot holds no sender, a FULL slot holds one.
SlotContent(s) ==
    /\ meta[s].state \in {"EMPTY", "TOMBSTONE"} => sender[s] = None
    /\ meta[s].state = "FULL" => sender[s] # None

\* What a thread that owns a slot, or is about to claim one, relies on.
ThreadContent(p) ==
    /\ pc[p] \in {"move", "drop"} => sender[loc[p].slot] # None
    /\ pc[p] = "write" => sender[loc[p].slot] = None
    /\ pc[p] \in {"claim", "write"} => loc[p].hand # None

OwnInv ==
    /\ TypeInv
    /\ StorageExclusive
    /\ ReservedHasOwner
    /\ \A s \in Slots : SlotContent(s)
    /\ \A p \in Procs : ThreadContent(p)

\* The step is one of thread p alone.
Others(p) == \A r \in Procs \ {p} : pc'[r] = pc[r] /\ loc'[r] = loc[r]

LEMMA StateFacts ==
    /\ Empty.state = "EMPTY" /\ Tombstone.state = "TOMBSTONE"
    /\ \A id \in Ids : Reserved(id).state = "RESERVED" /\ Full(id).state = "FULL"
    /\ \A m \in Metas : /\ m.state \in {"EMPTY", "TOMBSTONE", "RESERVED", "FULL"}
                        /\ m.state = "EMPTY" => m = Empty
                        /\ m.state = "TOMBSTONE" => m = Tombstone
BY DEF Empty, Tombstone, Reserved, Full, Metas

\* A step of a thread that owns no slot and only turns free slots into free ones.
LEMMA FreeStep ==
    ASSUME OwnInv, TypeInv', NEW p \in Procs, Others(p),
           pc[p] \notin Owners, pc'[p] \notin Owners,
           pc'[p] = "claim" => loc'[p].hand # None,
           sender' = sender,
           \A s \in Slots : \/ meta'[s] = meta[s]
                            \/ /\ meta[s] \in {Empty, Tombstone}
                               /\ meta'[s] \in {Empty, Tombstone}
    PROVE  OwnInv'
<1>. USE DEF Owners
<1>1. \A s \in Slots : /\ meta'[s].state = "RESERVED" <=> meta[s].state = "RESERVED"
                       /\ meta'[s].state = "FULL" <=> meta[s].state = "FULL"
  BY StateFacts
<1>2. \A r \in Procs : Owns(r)' <=> Owns(r)
  BY DEF Owns, Others
<1>3. \A r \in Procs : Owns(r) => loc'[r].slot = loc[r].slot /\ loc[r].slot \in Slots
  BY LocalsFacts DEF Owns, Others, OwnInv, TypeInv, TypeOK
<1>4. StorageExclusive'
  BY <1>1, <1>2, <1>3 DEF StorageExclusive, OwnInv, Owns
<1>5. ReservedHasOwner'
  BY <1>1, <1>2, <1>3 DEF ReservedHasOwner, OwnInv, Owns
<1>6. \A s \in Slots : SlotContent(s)'
  BY StateFacts DEF OwnInv, SlotContent, TypeInv, TypeOK
<1>7. \A r \in Procs : ThreadContent(r)'
  BY DEF OwnInv, ThreadContent, Others
<1>. QED
  BY <1>4, <1>5, <1>6, <1>7 DEF OwnInv

\* A step by which a thread makes an unreserved slot its own.
LEMMA AcquireStep ==
    ASSUME OwnInv, TypeInv', NEW p \in Procs, Others(p), pc[p] \notin Owners,
           NEW s \in Slots, NEW id \in Ids, meta[s].state # "RESERVED",
           meta' = [meta EXCEPT ![s] = Reserved(id)], sender' = sender,
           loc'[p].slot = s,
           \/ pc'[p] = "write" /\ sender[s] = None /\ loc'[p].hand # None
           \/ pc'[p] \in {"move", "drop"} /\ sender[s] # None
    PROVE  OwnInv'
<1>. USE DEF Owners
<1>t. meta \in [Slots -> Metas]
  BY DEF OwnInv, TypeInv, TypeOK
<1>1. \A r \in Procs \ {p} : Owns(r)' <=> Owns(r)
  BY DEF Owns, Others
<1>2. \A r \in Procs \ {p} : Owns(r) => loc'[r].slot = loc[r].slot
                                        /\ loc[r].slot \in Slots /\ loc[r].slot # s
  BY LocalsFacts DEF Owns, Others, OwnInv, TypeInv, TypeOK, StorageExclusive
<1>3. Owns(p)'
  BY DEF Owns
<1>4. StorageExclusive'
  <2>1. ASSUME NEW r \in Procs, Owns(r)' PROVE meta'[loc'[r].slot].state = "RESERVED"
    BY <1>t, <1>1, <1>2, <2>1, StateFacts DEF OwnInv, StorageExclusive
  <2>2. ASSUME NEW r \in Procs, NEW t \in Procs, Owns(r)', Owns(t)',
               loc'[r].slot = loc'[t].slot
        PROVE  r = t
    BY <1>1, <1>2, <2>2 DEF OwnInv, StorageExclusive
  <2>. QED BY <2>1, <2>2 DEF StorageExclusive, Owns
<1>5. ReservedHasOwner'
  <2>1. ASSUME NEW t \in Slots, meta'[t].state = "RESERVED"
        PROVE  \E r \in Procs : Owns(r)' /\ loc'[r].slot = t
    <3>1. CASE t = s
      BY <1>3, <3>1
    <3>2. CASE t # s
      <4>1. PICK r \in Procs : Owns(r) /\ loc[r].slot = t
        BY <1>t, <2>1, <3>2 DEF OwnInv, ReservedHasOwner
      <4>2. r # p
        BY <4>1 DEF Owns
      <4>. QED BY <4>1, <4>2, <1>1, <1>2
    <3>. QED BY <3>1, <3>2
  <2>. QED BY <2>1 DEF ReservedHasOwner, Owns
<1>6. \A t \in Slots : SlotContent(t)'
  BY <1>t, StateFacts DEF OwnInv, SlotContent
<1>7. \A r \in Procs : ThreadContent(r)'
  BY DEF OwnInv, ThreadContent, Others
<1>. QED
  BY <1>4, <1>5, <1>6, <1>7 DEF OwnInv

\* A step by which a thread gives up its slot, leaving a sender in it exactly
\* if it leaves it FULL.
LEMMA ReleaseStep ==
    ASSUME OwnInv, TypeInv', NEW p \in Procs, Others(p), Owns(p),
           pc'[p] \notin Owners \cup {"claim"},
           NEW m \in Metas, m.state # "RESERVED",
           NEW x \in Queries \cup {None}, x # None <=> m.state = "FULL",
           meta' = [meta EXCEPT ![loc[p].slot] = m],
           sender' = [sender EXCEPT ![loc[p].slot] = x]
    PROVE  OwnInv'
<1>. USE DEF Owners
<1>t. meta \in [Slots -> Metas] /\ sender \in [Slots -> Queries \cup {None}]
  BY DEF OwnInv, TypeInv, TypeOK
<1>s. PICK s \in Slots : s = loc[p].slot
  BY LocalsFacts DEF OwnInv, TypeInv, TypeOK
<1>1. \A r \in Procs \ {p} : Owns(r)' <=> Owns(r)
  BY DEF Owns, Others
<1>2. \A r \in Procs \ {p} : Owns(r) => loc'[r].slot = loc[r].slot
                                        /\ loc[r].slot \in Slots /\ loc[r].slot # s
  BY <1>s, LocalsFacts DEF Owns, Others, OwnInv, TypeInv, TypeOK, StorageExclusive
<1>3. ~ Owns(p)'
  BY DEF Owns
<1>u. \A t \in Slots \ {s} : meta'[t] = meta[t] /\ sender'[t] = sender[t]
  BY <1>t, <1>s
<1>v. meta'[s] = m /\ sender'[s] = x
  BY <1>t, <1>s
<1>4. StorageExclusive'
  <2>1. ASSUME NEW r \in Procs, Owns(r)' PROVE meta'[loc'[r].slot].state = "RESERVED"
    BY <1>u, <1>1, <1>2, <1>3, <2>1 DEF OwnInv, StorageExclusive
  <2>2. ASSUME NEW r \in Procs, NEW t \in Procs, Owns(r)', Owns(t)',
               loc'[r].slot = loc'[t].slot
        PROVE  r = t
    BY <1>1, <1>2, <1>3, <2>2 DEF OwnInv, StorageExclusive
  <2>. QED BY <2>1, <2>2 DEF StorageExclusive, Owns
<1>5. ReservedHasOwner'
  <2>1. ASSUME NEW t \in Slots, meta'[t].state = "RESERVED"
        PROVE  \E r \in Procs : Owns(r)' /\ loc'[r].slot = t
    <3>1. t # s
      BY <1>v, <2>1
    <3>2. PICK r \in Procs : Owns(r) /\ loc[r].slot = t
      BY <1>u, <2>1, <3>1 DEF OwnInv, ReservedHasOwner
    <3>3. r # p
      BY <3>1, <3>2, <1>s
    <3>. QED BY <3>2, <3>3, <1>1, <1>2
  <2>. QED BY <2>1 DEF ReservedHasOwner, Owns
<1>6. \A t \in Slots : SlotContent(t)'
  <2>1. SlotContent(s)'
    BY <1>v, StateFacts DEF SlotContent
  <2>. QED BY <2>1, <1>u DEF OwnInv, SlotContent
<1>7. \A r \in Procs : ThreadContent(r)'
  <2>1. ThreadContent(p)'
    BY DEF ThreadContent
  <2>2. ASSUME NEW r \in Procs \ {p} PROVE ThreadContent(r)'
    <3>1. pc'[r] = pc[r] /\ loc'[r] = loc[r]
      BY DEF Others
    <3>2. Owns(r) => sender'[loc[r].slot] = sender[loc[r].slot]
      BY <1>2, <1>u
    <3>3. ThreadContent(r)
      BY DEF OwnInv
    <3>. QED BY <3>1, <3>2, <3>3 DEF ThreadContent, Owns
  <2>. QED BY <2>1, <2>2 DEF ThreadContent
<1>. QED
  BY <1>4, <1>5, <1>6, <1>7 DEF OwnInv

LEMMA OwnInit == Init => OwnInv
<1>. SUFFICES ASSUME Init PROVE OwnInv
  OBVIOUS
<1>1. TypeInv
  BY TypeInit
<1>2. \A s \in Slots : meta[s].state = "EMPTY" /\ sender[s] = None
  BY StateFacts DEF Init
<1>3. \A p \in Procs : pc[p] \in {"start", "idle"}
  BY DEF Init
<1>. QED
  BY <1>1, <1>2, <1>3 DEF OwnInv, StorageExclusive, ReservedHasOwner, Owns,
     SlotContent, ThreadContent

\* What writing one thread's place and locals does to the others.
LEMMA OneThread ==
    ASSUME TypeInv, NEW p \in Procs, NEW label, NEW l,
           pc' = [pc EXCEPT ![p] = label] \/ (pc' = pc /\ label = pc[p]),
           loc' = [loc EXCEPT ![p] = l] \/ (loc' = loc /\ l = loc[p])
    PROVE  Others(p) /\ pc'[p] = label /\ loc'[p] = l
BY DEF TypeInv, TypeOK, Others

LEMMA OwnStore ==
    ASSUME OwnInv, NEW q \in Queries, Store(q)
    PROVE  OwnInv'
<1>t. /\ TypeInv /\ meta \in [Slots -> Metas]
      /\ sender \in [Slots -> Queries \cup {None}] /\ loc \in [Procs -> Locals]
      /\ pc \in [Procs -> PCs]
  BY DEF OwnInv, TypeInv, TypeOK
<1>u. TypeInv'
  BY <1>t, TypeStore
<1>q. q \in Procs
  BY DEF Procs
<1>. USE DEF Owners
<1>f. ASSUME NEW label, NEW l, label \notin Owners, pc[q] \notin Owners,
             label = "claim" => l.hand # None, UNCHANGED <<meta, sender>>,
             pc' = [pc EXCEPT ![q] = label] \/ (pc' = pc /\ label = pc[q]),
             loc' = [loc EXCEPT ![q] = l] \/ (loc' = loc /\ l = loc[q])
      PROVE  OwnInv'
  BY <1>f, <1>t, <1>u, <1>q, OneThread, FreeStep
<1>r. ASSUME NEW tx, Retry(q, tx), pc[q] \in {"probe", "claim"},
             UNCHANGED <<meta, sender>>
      PROVE  OwnInv'
  <2>1. Others(q) /\ pc'[q] \in {"failed", "probe"}
    BY <1>r, <1>t, <1>q DEF Retry, Goto, Others
  <2>. QED BY <1>r, <1>u, <1>q, <2>1, FreeStep
<1>b. ASSUME NEW s, BeginClaim(q, s), pc[q] = "probe", UNCHANGED <<meta, sender>>
      PROVE  OwnInv'
  <2>1. CASE loc[q].hand = None
    BY <1>b, <1>f, <2>1 DEF BeginClaim, Goto
  <2>2. CASE loc[q].hand # None
    <3>1. [loc[q] EXCEPT !.slot = s].hand # None
      BY <1>t, <1>q, <2>2 DEF Locals
    <3>2. loc' = [loc EXCEPT ![q] = [loc[q] EXCEPT !.slot = s]]
      BY <1>b, <2>2 DEF BeginClaim
    <3>3. Others(q) /\ pc'[q] = "claim" /\ loc'[q].hand # None
      BY <1>b, <1>t, <1>q, <2>2, <3>1, <3>2 DEF BeginClaim, Goto, Others
    <3>. QED BY <1>b, <1>u, <1>q, <3>3, FreeStep
  <2>. QED BY <2>1, <2>2
<1>1. CASE StoreStart(q)
  <2>1. Others(q) /\ pc'[q] = "probe"
    BY <1>1, <1>t, <1>q DEF StoreStart, Goto, NextStep, Others
  <2>. QED BY <1>1, <1>u, <1>q, <2>1, FreeStep DEF StoreStart
<1>2. CASE ProbeFree(q)
  BY <1>2, <1>b DEF ProbeFree
<1>3. CASE ProbeTombstone(q)
  BY <1>3, <1>f DEF ProbeTombstone
<1>4. CASE ProbeOccupied(q)
  <2>1. CASE meta[Probed(q)].id = loc[q].id
    BY <1>4, <1>r, <2>1 DEF ProbeOccupied
  <2>2. CASE meta[Probed(q)].id # loc[q].id
    BY <1>4, <1>f, <2>2 DEF ProbeOccupied, NextStep
  <2>. QED BY <2>1, <2>2
<1>5. CASE ProbeEnd(q)
  <2>1. CASE loc[q].tomb # NoSlot
    BY <1>5, <1>b, <2>1 DEF ProbeEnd
  <2>2. CASE loc[q].tomb = NoSlot
    BY <1>5, <1>f, <2>2 DEF ProbeEnd, Goto
  <2>. QED BY <2>1, <2>2
<1>6. CASE Claim(q)
  <2>1. loc[q].slot \in Slots /\ loc[q].id \in Ids
    BY <1>t, <1>q, LocalsFacts
  <2>2. sender[loc[q].slot] = None /\ loc[q].hand # None
    BY <1>6, <1>q, <2>1 DEF Claim, OwnInv, SlotContent, ThreadContent
  <2>3. Others(q) /\ pc'[q] = "write" /\ loc'[q] = loc[q]
    BY <1>6, <1>t, <1>q, OneThread DEF Claim, Goto
  <2>. QED
    BY <1>6, <1>u, <1>q, <2>1, <2>2, <2>3, AcquireStep DEF Claim
<1>7. CASE ClaimLost(q)
  BY <1>7, <1>r DEF ClaimLost
<1>8. CASE Publish(q)
  <2>1. loc[q].hand \in Queries /\ loc[q].id \in Ids
    <3>1. loc[q].hand # None
      BY <1>8, <1>q DEF Publish, OwnInv, ThreadContent
    <3>. QED BY <3>1, <1>t, <1>q, LocalsFacts
  <2>2. Others(q) /\ pc'[q] = "count"
    BY <1>8, <1>t, <1>q, OneThread DEF Publish, Goto
  <2>3. Owns(q)
    BY <1>8 DEF Publish, Owns
  <2>4. Full(loc[q].id) \in Metas /\ Full(loc[q].id).state = "FULL"
    BY <2>1, MetaFacts, StateFacts
  <2>5. loc[q].hand # None
    BY <2>1, ProcsAssumption
  <2>. QED
    BY <1>8, <1>u, <1>q, <2>1, <2>2, <2>3, <2>4, <2>5, ReleaseStep DEF Publish
<1>9. CASE CountStored(q)
  <2>1. Others(q) /\ pc'[q] = "stored"
    BY <1>9, <1>t, <1>q DEF CountStored, Goto, NextStep, Others
  <2>. QED BY <1>9, <1>u, <1>q, <2>1, FreeStep DEF CountStored
<1>. QED
  BY <1>1, <1>2, <1>3, <1>4, <1>5, <1>6, <1>7, <1>8, <1>9 DEF Store

LEMMA OwnLookup ==
    ASSUME OwnInv, NEW p \in Queries \cup {Listener}, Lookup(p)
    PROVE  OwnInv'
<1>t. /\ TypeInv /\ meta \in [Slots -> Metas]
      /\ sender \in [Slots -> Queries \cup {None}] /\ loc \in [Procs -> Locals]
      /\ pc \in [Procs -> PCs]
  BY DEF OwnInv, TypeInv, TypeOK
<1>u. TypeInv'
  BY <1>t, TypeLookup
<1>p. p \in Procs
  BY DEF Procs
<1>. USE DEF Owners
<1>f. ASSUME NEW label, NEW l, label \notin Owners \cup {"claim"},
             pc[p] \notin Owners, sender' = sender,
             \A s \in Slots : \/ meta'[s] = meta[s]
                              \/ /\ meta[s] \in {Empty, Tombstone}
                                 /\ meta'[s] \in {Empty, Tombstone},
             pc' = [pc EXCEPT ![p] = label] \/ (pc' = pc /\ label = pc[p]),
             loc' = [loc EXCEPT ![p] = l] \/ (loc' = loc /\ l = loc[p])
      PROVE  OwnInv'
  BY <1>f, <1>t, <1>u, <1>p, OneThread, FreeStep
<1>r. ASSUME Return(p), pc[p] \in {"lookup", "check", "reset"},
             UNCHANGED <<meta, sender>>
      PROVE  OwnInv'
  <2>. DEFINE label == IF p = Listener THEN "idle" ELSE "done"
  <2>1. label \in {"idle", "done"}
    OBVIOUS
  <2>2. pc' = [pc EXCEPT ![p] = label]
    BY <1>r DEF Return, Goto
  <2>. HIDE DEF label
  <2>. QED BY <1>r, <1>f, <2>1, <2>2 DEF Return
<1>1. CASE LookupEmpty(p)
  BY <1>1, <1>r DEF LookupEmpty
<1>2. CASE LookupEnd(p)
  BY <1>2, <1>r DEF LookupEnd
<1>3. CASE LookupOther(p)
  BY <1>3, <1>f DEF LookupOther, NextStep
<1>4. CASE LookupMatch(p)
  <2>1. Others(p) /\ pc'[p] = "detach"
    BY <1>4, <1>t, <1>p DEF LookupMatch, Goto, NextStep, Others
  <2>. QED BY <1>4, <1>u, <1>p, <2>1, FreeStep DEF LookupMatch
<1>5. CASE Detach(p)
  <2>1. loc[p].slot \in Slots /\ loc[p].id \in Ids
    BY <1>t, <1>p, LocalsFacts
  <2>2. meta[loc[p].slot].state = "FULL"
    BY <1>5, <2>1, StateFacts DEF Detach
  <2>3. sender[loc[p].slot] # None
    BY <2>1, <2>2 DEF OwnInv, SlotContent
  <2>4. Others(p) /\ pc'[p] = "move" /\ loc'[p] = loc[p]
    BY <1>5, <1>t, <1>p, OneThread DEF Detach, Goto
  <2>. QED
    BY <1>5, <1>u, <1>p, <2>1, <2>2, <2>3, <2>4, AcquireStep DEF Detach
<1>6. CASE DetachLost(p)
  <2>1. Others(p) /\ pc'[p] = "lookup"
    BY <1>6, <1>t, <1>p DEF DetachLost, Goto, NextStep, Others
  <2>. QED BY <1>6, <1>u, <1>p, <2>1, FreeStep DEF DetachLost
<1>7. CASE Bury(p)
  <2>1. Others(p) /\ pc'[p] = "uncount"
    BY <1>7, <1>t, <1>p, OneThread DEF Bury, Goto
  <2>2. Owns(p)
    BY <1>7 DEF Bury, Owns
  <2>. QED
    BY <1>7, <1>u, <1>p, <2>1, <2>2, MetaFacts, StateFacts, ReleaseStep DEF Bury
<1>8. CASE CountDetached(p)
  <2>1. Others(p) /\ pc'[p] = "check"
    BY <1>8, <1>t, <1>p DEF CountDetached, Goto, NextStep, Others
  <2>. QED BY <1>8, <1>u, <1>p, <2>1, FreeStep DEF CountDetached
<1>9. CASE CheckEmpty(p)
  <2>1. CASE size = 0
    BY <1>9, <1>f, <2>1 DEF CheckEmpty, Goto
  <2>2. CASE size # 0
    BY <1>9, <1>r, <2>2 DEF CheckEmpty
  <2>. QED BY <2>1, <2>2
<1>10. CASE ResetSlot(p)
  <2>1. \A s \in Slots : \/ meta'[s] = meta[s]
                         \/ /\ meta[s] \in {Empty, Tombstone}
                            /\ meta'[s] \in {Empty, Tombstone}
    BY <1>10, <1>t DEF ResetSlot
  <2>. QED BY <1>10, <1>f, <2>1 DEF ResetSlot, NextStep
<1>11. CASE ResetEnd(p)
  BY <1>11, <1>r DEF ResetEnd
<1>. QED
  BY <1>1, <1>2, <1>3, <1>4, <1>5, <1>6, <1>7, <1>8, <1>9, <1>10, <1>11
  DEF Lookup

LEMMA OwnClear ==
    ASSUME OwnInv, Clear
    PROVE  OwnInv'
<1>t. /\ TypeInv /\ meta \in [Slots -> Metas]
      /\ sender \in [Slots -> Queries \cup {None}] /\ loc \in [Procs -> Locals]
      /\ pc \in [Procs -> PCs]
  BY DEF OwnInv, TypeInv, TypeOK
<1>u. TypeInv'
  BY <1>t, TypeClear
<1>p. Closer \in Procs
  BY DEF Procs
<1>. USE DEF Owners
<1>f. ASSUME NEW label, NEW l, label \notin Owners \cup {"claim"},
             pc[Closer] \notin Owners, sender' = sender,
             \A s \in Slots : \/ meta'[s] = meta[s]
                              \/ /\ meta[s] \in {Empty, Tombstone}
                                 /\ meta'[s] \in {Empty, Tombstone},
             pc' = [pc EXCEPT ![Closer] = label] \/ (pc' = pc /\ label = pc[Closer]),
             loc' = [loc EXCEPT ![Closer] = l] \/ (loc' = loc /\ l = loc[Closer])
      PROVE  OwnInv'
  BY <1>f, <1>t, <1>u, <1>p, OneThread, FreeStep
<1>1. CASE ClearStart
  <2>1. Others(Closer) /\ pc'[Closer] = "clear"
    BY <1>1, <1>t, <1>p DEF ClearStart, Goto, NextStep, Others
  <2>. QED BY <1>1, <1>u, <1>p, <2>1, FreeStep DEF ClearStart
<1>2. CASE ClearEmpty
  BY <1>2, <1>f DEF ClearEmpty, NextStep
<1>3. CASE ClearTombstoneSeen
  <2>1. Others(Closer) /\ pc'[Closer] = "clearTombstone"
    BY <1>3, <1>t, <1>p DEF ClearTombstoneSeen, Goto, NextStep, Others
  <2>. QED BY <1>3, <1>u, <1>p, <2>1, FreeStep DEF ClearTombstoneSeen
<1>4. CASE ClearTombstone
  <2>1. \A s \in Slots : \/ meta'[s] = meta[s]
                         \/ /\ meta[s] \in {Empty, Tombstone}
                            /\ meta'[s] \in {Empty, Tombstone}
    BY <1>4, <1>t DEF ClearTombstone
  <2>2. Others(Closer) /\ pc'[Closer] = "clear"
    BY <1>4, <1>t, <1>p DEF ClearTombstone, Goto, NextStep, Others
  <2>. QED BY <1>4, <1>u, <1>p, <2>1, <2>2, FreeStep DEF ClearTombstone
<1>5. CASE ClearClaim
  <2>. DEFINE s == loc[Closer].step
  <2>1. s \in Slots /\ meta[s].state = "FULL"
    BY <1>5, <1>t, <1>p, StepFacts DEF ClearClaim
  <2>2. meta[s].id \in Ids
    BY <1>t, <2>1, MetaFacts
  <2>3. sender[s] # None
    BY <2>1 DEF OwnInv, SlotContent
  <2>4. Others(Closer) /\ pc'[Closer] = "drop"
        /\ loc'[Closer] = [loc[Closer] EXCEPT !.slot = s]
    BY <1>5, <1>t, <1>p, OneThread DEF ClearClaim, Goto
  <2>5. loc'[Closer].slot = s
    BY <2>4, <1>t, <1>p DEF Locals
  <2>6. meta' = [meta EXCEPT ![s] = Reserved(meta[s].id)] /\ sender' = sender
        /\ pc[Closer] = "clear"
    BY <1>5, <2>1, <1>t DEF ClearClaim
  <2>. HIDE DEF s
  <2>. QED
    BY <1>u, <1>p, <2>1, <2>2, <2>3, <2>4, <2>5, <2>6, AcquireStep
<1>6. CASE ClearDrop
  <2>1. Others(Closer) /\ pc'[Closer] = "clear"
    BY <1>6, <1>t, <1>p, OneThread DEF ClearDrop, Goto
  <2>2. Owns(Closer)
    BY <1>6 DEF ClearDrop, Owns
  <2>. QED
    BY <1>6, <1>u, <1>p, <2>1, <2>2, MetaFacts, StateFacts, ReleaseStep
    DEF ClearDrop
<1>7. CASE ClearEnd
  <2>1. Others(Closer) /\ pc'[Closer] = "cleared"
    BY <1>7, <1>t, <1>p DEF ClearEnd, Goto, NextStep, Others
  <2>. QED BY <1>7, <1>u, <1>p, <2>1, FreeStep DEF ClearEnd
<1>. QED
  BY <1>1, <1>2, <1>3, <1>4, <1>5, <1>6, <1>7 DEF Clear

LEMMA OwnStep == OwnInv /\ [Next]_vars => OwnInv'
<1>. SUFFICES ASSUME OwnInv, [Next]_vars PROVE OwnInv'
  OBVIOUS
<1>. USE DEF Owners
<1>t. TypeInv /\ TypeInv'
  BY TypeStep DEF OwnInv
<1>1. ASSUME NEW q \in Queries, Disarm(q) PROVE OwnInv'
  <2>1. q \in Procs /\ Others(q) /\ pc'[q] = "done"
    BY <1>1, <1>t, OneThread DEF Disarm, Goto, Procs
  <2>. QED BY <1>1, <1>t, <2>1, FreeStep DEF Disarm
<1>2. ASSUME NEW q \in Queries, RemoveStart(q) PROVE OwnInv'
  <2>1. q \in Procs /\ Others(q) /\ pc'[q] = "lookup"
    BY <1>2, <1>t, OneThread DEF RemoveStart, Goto, Procs
  <2>. QED BY <1>2, <1>t, <2>1, FreeStep DEF RemoveStart
<1>3. CASE TakeStart
  <2>1. Listener \in Procs /\ Others(Listener) /\ pc'[Listener] = "lookup"
    BY <1>3, <1>t, OneThread DEF TakeStart, Goto, Procs
  <2>. QED BY <1>3, <1>t, <2>1, FreeStep DEF TakeStart
<1>4. CASE Churn
  <2>1. PICK k \in Slots :
          /\ ~ Occupied(ProbeIndex(nextId, k))
          /\ meta' = IF size = 0
                     THEN Drained([meta EXCEPT ![ProbeIndex(nextId, k)] = Empty])
                     ELSE [meta EXCEPT ![ProbeIndex(nextId, k)] = Tombstone]
    BY <1>4 DEF Churn
  <2>2. PICK h \in Slots : h = ProbeIndex(nextId, k)
    <3>1. k \in Nat /\ nextId \in Ids
      BY <1>t, NextIdInIds, SizesAssumption DEF Slots, TypeInv, TypeOK
    <3>. QED BY <3>1, ProbeIndexInSlots
  <2>3. meta \in [Slots -> Metas] /\ meta[h] \in {Empty, Tombstone}
    BY <1>t, <2>1, <2>2, StateFacts DEF TypeInv, TypeOK, Occupied
  <2>4. \A s \in Slots : \/ meta'[s] = meta[s]
                         \/ /\ meta[s] \in {Empty, Tombstone}
                            /\ meta'[s] \in {Empty, Tombstone}
    BY <2>1, <2>2, <2>3 DEF Drained
  <2>5. Closer \in Procs /\ Others(Closer) /\ pc'[Closer] = pc[Closer]
        /\ pc[Closer] \notin Owners \cup {"claim"} /\ sender' = sender
    BY <1>4 DEF Churn, Quiescent, Procs, Others
  <2>. QED BY <1>t, <2>4, <2>5, FreeStep
<1>5. CASE UNCHANGED vars
  BY <1>5, <1>t DEF vars, OwnInv, StorageExclusive, ReservedHasOwner, Owns,
     SlotContent, ThreadContent
<1>. QED
  BY <1>1, <1>2, <1>3, <1>4, <1>5, OwnStore, OwnLookup, OwnClear
  DEF Next, QueryStep, ListenerStep

\* The inline sender storage is only ever touched by the one thread that owns
\* the slot: request_map.rs's reason for `unsafe impl Sync`.
THEOREM ExclusiveStorage == Spec => []StorageExclusive
<1>1. OwnInv => StorageExclusive
  BY DEF OwnInv
<1>. QED
  BY OwnInit, OwnStep, <1>1, PTL DEF Spec

\* Every RESERVED slot that clear may spin on has a thread about to release it.
THEOREM ReservedIsOwned == Spec => []ReservedHasOwner
<1>1. OwnInv => ReservedHasOwner
  BY DEF OwnInv
<1>. QED
  BY OwnInit, OwnStep, <1>1, PTL DEF Spec

\* assume_init_read and assume_init_drop only see initialised storage, and no
\* sender is overwritten.
THEOREM InitialisedStorage == Spec => []StorageInitialised
<1>1. OwnInv => StorageInitialised
  BY DEF OwnInv, StorageInitialised, SlotContent, ThreadContent
<1>. QED
  BY OwnInit, OwnStep, <1>1, PTL DEF Spec

\* The whole claim behind `unsafe impl Sync for RequestMap`.
THEOREM StorageIsSafe == Spec => []StorageSafe
<1>1. OwnInv => StorageSafe
  BY DEF OwnInv, StorageSafe, StorageInitialised, SlotContent, ThreadContent
<1>. QED
  BY OwnInit, OwnStep, <1>1, PTL DEF Spec
-----------------------------------------------------------------------------
(***************************************************************************)
(* The counter.  Until the clear, size is the number of FULL slots, plus   *)
(* the detached entries that are not uncounted yet, minus the stored ones  *)
(* that are not counted yet, modulo SizeMod: a listener may take an entry  *)
(* and uncount it before the query that published it counts it, so that    *)
(* size wraps below zero for a moment.                                     *)
(***************************************************************************)
FullSlots == {s \in Slots : meta[s].state = "FULL"}
Detaching == {p \in Procs : pc[p] \in {"move", "uncount"}}
Counting  == {p \in Procs : pc[p] = "count"}

\* Where the closer may be once it has begun.
ClearPlaces == {"clear", "clearTombstone", "drop", "cleared"}

SizeInv ==
    /\ pc[Closer] \in ClearPlaces \cup {"idle"}
    /\ pc[Closer] = "idle" =>
        /\ IsFiniteSet(Detaching)
        /\ IsFiniteSet(Counting)
        /\ \E k \in Int : size = Cardinality(FullSlots) + Cardinality(Detaching)
                                   - Cardinality(Counting) + k * SizeMod

\* There are no more FULL slots than slots.
LEMMA FullSlotsFinite ==
    /\ IsFiniteSet(FullSlots)
    /\ Cardinality(FullSlots) \in 0 .. SlotCount
<1>1. SlotCount \in Nat /\ 0 \in Int /\ SlotCount - 1 \in Int
  BY SizesAssumption
<1>2. IsFiniteSet(Slots) /\ Cardinality(Slots) = SlotCount
  BY <1>1, FS_Interval DEF Slots
<1>3. FullSlots \in SUBSET Slots
  BY DEF FullSlots
<1>4. IsFiniteSet(FullSlots) /\ Cardinality(FullSlots) <= SlotCount
  BY <1>2, <1>3, FS_Subset
<1>. QED
  BY <1>1, <1>4, FS_CardinalityType

\* The counter moves on by one in either direction, wrapping.
LEMMA WrapFacts ==
    \A n \in 0 .. SizeMod - 1 :
        /\ \E k \in Int : (n + 1) % SizeMod = n + 1 + k * SizeMod
        /\ \E k \in Int : (n + SizeMod - 1) % SizeMod = n - 1 + k * SizeMod
<1>. SUFFICES ASSUME NEW n \in 0 .. SizeMod - 1
     PROVE  /\ \E k \in Int : (n + 1) % SizeMod = n + 1 + k * SizeMod
            /\ \E k \in Int : (n + SizeMod - 1) % SizeMod = n - 1 + k * SizeMod
  OBVIOUS
<1>1. n \in Int /\ 0 <= n /\ n <= 65535
  BY DEF SizeMod
<1>2. CASE n = 65535
  <2>1. (n + 1) % SizeMod = n + 1 + (-1) * SizeMod
    BY <1>2 DEF SizeMod
  <2>2. (n + SizeMod - 1) % SizeMod = n - 1 + 0 * SizeMod
    BY <1>2 DEF SizeMod
  <2>. QED BY <2>1, <2>2
<1>3. CASE n = 0
  <2>1. (n + 1) % SizeMod = n + 1 + 0 * SizeMod
    BY <1>3 DEF SizeMod
  <2>2. (n + SizeMod - 1) % SizeMod = n - 1 + 1 * SizeMod
    BY <1>3 DEF SizeMod
  <2>. QED BY <2>1, <2>2
<1>4. CASE 0 < n /\ n < 65535
  <2>1. n + 1 \in Int /\ 0 < n + 1 /\ n + 1 < 65536
    BY <1>1, <1>4
  <2>2. (n + 1) % 65536 = n + 1
    BY <2>1
  <2>3. (n + 1) % SizeMod = n + 1 + 0 * SizeMod
    BY <1>1, <2>2 DEF SizeMod
  <2>4. (n + SizeMod - 1) % SizeMod = n - 1 + 0 * SizeMod
    <3>1. \A m \in Int : 0 <= m /\ m < 65535 => (m + 65536) % 65536 = m
      OBVIOUS
    <3>2. n - 1 \in Int /\ 0 <= n - 1 /\ n - 1 < 65535
      BY <1>1, <1>4
    <3>3. ((n - 1) + 65536) % 65536 = n - 1
      BY <3>1, <3>2
    <3>4. n + 65536 - 1 = (n - 1) + 65536
      BY <1>1
    <3>. QED BY <1>1, <3>3, <3>4 DEF SizeMod
  <2>. QED BY <2>3, <2>4
<1>. QED
  BY <1>1, <1>2, <1>3, <1>4

\* The clear, once begun, does not end in idle, and nobody else moves Closer.
LEMMA CloserStaysIdle ==
    ASSUME TypeInv, NEW p \in Procs \ {Closer}, NEW label,
           pc' = [pc EXCEPT ![p] = label]
    PROVE  pc'[Closer] = pc[Closer]
BY DEF TypeInv, TypeOK, Procs

\* A step that neither publishes, takes nor counts an entry.
LEMMA SizeQuiet ==
    ASSUME TypeInv, SizeInv, NEW p \in Procs, NEW label,
           pc' = [pc EXCEPT ![p] = label],
           label \in {"move", "uncount"} <=> pc[p] \in {"move", "uncount"},
           label = "count" <=> pc[p] = "count",
           pc'[Closer] = pc[Closer],
           \A s \in Slots : meta'[s].state = "FULL" <=> meta[s].state = "FULL",
           size' = size
    PROVE  SizeInv'
<1>1. FullSlots' = FullSlots
  BY DEF FullSlots
<1>2. \A r \in Procs : /\ pc'[r] \in {"move", "uncount"} <=> pc[r] \in {"move", "uncount"}
                       /\ pc'[r] = "count" <=> pc[r] = "count"
  BY DEF TypeInv, TypeOK
<1>3. Detaching' = Detaching
  BY <1>2 DEF Detaching
<1>4. Counting' = Counting
  BY <1>2 DEF Counting
<1>. QED
  BY <1>1, <1>3, <1>4 DEF SizeInv

\* What the counter's equation becomes when its terms move together.
LEMMA SizeMoves ==
    ASSUME TypeInv, SizeInv, pc[Closer] = "idle", pc'[Closer] = pc[Closer],
           IsFiniteSet(Detaching'), IsFiniteSet(Counting'),
           NEW d \in Int,
           Cardinality(FullSlots') + Cardinality(Detaching') - Cardinality(Counting')
             = Cardinality(FullSlots) + Cardinality(Detaching) - Cardinality(Counting) + d,
           \E j \in Int : size' = size + d + j * SizeMod
    PROVE  SizeInv'
<1>1. PICK k \in Int : size = Cardinality(FullSlots) + Cardinality(Detaching)
                                - Cardinality(Counting) + k * SizeMod
  BY DEF SizeInv
<1>2. PICK j \in Int : size' = size + d + j * SizeMod
  OBVIOUS
<1>3. /\ Cardinality(FullSlots) \in Nat /\ Cardinality(FullSlots') \in Nat
      /\ Cardinality(Detaching) \in Nat /\ Cardinality(Detaching') \in Nat
      /\ Cardinality(Counting) \in Nat /\ Cardinality(Counting') \in Nat
  <2>1. IsFiniteSet(Detaching) /\ IsFiniteSet(Counting) /\ IsFiniteSet(FullSlots)
    BY FullSlotsFinite DEF SizeInv
  <2>2. IsFiniteSet(FullSlots)'
    BY FullSlotsFinite, PTL
  <2>. QED BY <2>1, <2>2, FS_CardinalityType
<1>4. size \in Int
  BY DEF TypeInv, TypeOK
<1>5. /\ k + j \in Int
      /\ size' = Cardinality(FullSlots') + Cardinality(Detaching')
                   - Cardinality(Counting') + (k + j) * SizeMod
  BY <1>1, <1>2, <1>3, <1>4 DEF SizeMod
<1>. QED
  BY <1>5 DEF SizeInv

\* store publishes an entry that is yet to be counted.
LEMMA SizePublish ==
    ASSUME OwnInv, SizeInv, NEW q \in Queries, Publish(q)
    PROVE  SizeInv'
<1>c. pc'[Closer] = pc[Closer]
  BY CloserStaysIdle, ProcsAssumption DEF Publish, Goto, OwnInv, Procs
<1>1. CASE pc[Closer] # "idle"
  BY <1>1, <1>c DEF SizeInv
<1>2. CASE pc[Closer] = "idle"
  <2>1. /\ q \in Procs /\ pc[q] = "write" /\ loc[q].slot \in Slots
        /\ meta[loc[q].slot].state = "RESERVED"
    BY LocalsFacts DEF Publish, OwnInv, TypeInv, TypeOK, StorageExclusive, Owns, Procs
  <2>2. PICK s \in Slots : s = loc[q].slot
    BY <2>1
  <2>3. FullSlots' = FullSlots \cup {s} /\ s \notin FullSlots
    BY <2>1, <2>2, StateFacts DEF FullSlots, Publish, OwnInv, TypeInv, TypeOK, Full
  <2>4. Detaching' = Detaching
    BY <2>1 DEF Detaching, Publish, Goto, OwnInv, TypeInv, TypeOK
  <2>5. Counting' = Counting \cup {q} /\ q \notin Counting
    BY <2>1 DEF Counting, Publish, Goto, OwnInv, TypeInv, TypeOK
  <2>6. IsFiniteSet(Detaching) /\ IsFiniteSet(Counting) /\ IsFiniteSet(FullSlots)
    BY <1>2, FullSlotsFinite DEF SizeInv
  <2>7. /\ Cardinality(FullSlots') = Cardinality(FullSlots) + 1
        /\ Cardinality(Counting') = Cardinality(Counting) + 1
        /\ IsFiniteSet(Counting')
    BY <2>3, <2>5, <2>6, FS_AddElement
  <2>8. /\ Cardinality(FullSlots) \in Nat /\ Cardinality(Counting) \in Nat
        /\ Cardinality(Detaching) \in Nat
    BY <2>6, FS_CardinalityType
  <2>9. Cardinality(FullSlots') + Cardinality(Detaching') - Cardinality(Counting')
          = Cardinality(FullSlots) + Cardinality(Detaching) - Cardinality(Counting) + 0
    BY <2>4, <2>7, <2>8
  <2>10. size' = size + 0 + 0 * SizeMod
    <3>1. size \in Int /\ size' = size
      BY DEF Publish, OwnInv, TypeInv, TypeOK
    <3>. QED BY <3>1 DEF SizeMod
  <2>11. \E j \in Int : size' = size + 0 + j * SizeMod
    BY <2>10
  <2>. QED BY <1>2, <1>c, <2>4, <2>6, <2>7, <2>9, <2>11, SizeMoves DEF OwnInv
<1>. QED
  BY <1>1, <1>2

\* store counts the entry it published.
LEMMA SizeCountStored ==
    ASSUME OwnInv, SizeInv, NEW q \in Queries, CountStored(q)
    PROVE  SizeInv'
<1>c. pc'[Closer] = pc[Closer]
  BY CloserStaysIdle, ProcsAssumption DEF CountStored, Goto, OwnInv, Procs
<1>1. CASE pc[Closer] # "idle"
  BY <1>1, <1>c DEF SizeInv
<1>2. CASE pc[Closer] = "idle"
  <2>1. q \in Procs /\ pc[q] = "count"
    BY DEF CountStored, Procs
  <2>3. FullSlots' = FullSlots
    BY DEF FullSlots, CountStored
  <2>4. Detaching' = Detaching
    BY <2>1 DEF Detaching, CountStored, Goto, OwnInv, TypeInv, TypeOK
  <2>5. Counting' = Counting \ {q} /\ q \in Counting
    BY <2>1 DEF Counting, CountStored, Goto, OwnInv, TypeInv, TypeOK
  <2>6. IsFiniteSet(Detaching) /\ IsFiniteSet(Counting) /\ IsFiniteSet(FullSlots)
    BY <1>2, FullSlotsFinite DEF SizeInv
  <2>7. /\ Cardinality(Counting') = Cardinality(Counting) - 1
        /\ IsFiniteSet(Counting')
    BY <2>5, <2>6, FS_RemoveElement
  <2>8. /\ Cardinality(FullSlots) \in Nat /\ Cardinality(Counting) \in Nat
        /\ Cardinality(Detaching) \in Nat
    BY <2>6, FS_CardinalityType
  <2>9. Cardinality(FullSlots') + Cardinality(Detaching') - Cardinality(Counting')
          = Cardinality(FullSlots) + Cardinality(Detaching) - Cardinality(Counting) + 1
    BY <2>3, <2>4, <2>7, <2>8
  <2>10. \E j \in Int : size' = size + 1 + j * SizeMod
    BY WrapFacts DEF CountStored, OwnInv, TypeInv, TypeOK
  <2>. QED BY <1>2, <1>c, <2>4, <2>6, <2>7, <2>9, <2>10, SizeMoves DEF OwnInv
<1>. QED
  BY <1>1, <1>2

\* detach takes an entry that is still counted.
LEMMA SizeDetach ==
    ASSUME OwnInv, SizeInv, NEW p \in Queries \cup {Listener}, Detach(p)
    PROVE  SizeInv'
<1>p. p \in Procs /\ p # Closer
  BY ProcsAssumption DEF Procs
<1>c. pc'[Closer] = pc[Closer]
  BY <1>p, CloserStaysIdle DEF Detach, Goto, OwnInv
<1>1. CASE pc[Closer] # "idle"
  BY <1>1, <1>c DEF SizeInv
<1>2. CASE pc[Closer] = "idle"
  <2>1. /\ pc[p] = "detach" /\ loc[p].slot \in Slots
        /\ meta[loc[p].slot] = Full(loc[p].id)
    BY <1>p, LocalsFacts DEF Detach, OwnInv, TypeInv, TypeOK
  <2>2. PICK s \in Slots : s = loc[p].slot
    BY <2>1
  <2>3. FullSlots' = FullSlots \ {s} /\ s \in FullSlots
    BY <2>1, <2>2, StateFacts DEF FullSlots, Detach, OwnInv, TypeInv, TypeOK, Full, Reserved
  <2>4. Detaching' = Detaching \cup {p} /\ p \notin Detaching
    BY <1>p, <2>1 DEF Detaching, Detach, Goto, OwnInv, TypeInv, TypeOK
  <2>5. Counting' = Counting
    BY <1>p, <2>1 DEF Counting, Detach, Goto, OwnInv, TypeInv, TypeOK
  <2>6. IsFiniteSet(Detaching) /\ IsFiniteSet(Counting) /\ IsFiniteSet(FullSlots)
    BY <1>2, FullSlotsFinite DEF SizeInv
  <2>7. /\ Cardinality(FullSlots') = Cardinality(FullSlots) - 1
        /\ Cardinality(Detaching') = Cardinality(Detaching) + 1
        /\ IsFiniteSet(Detaching')
    BY <2>3, <2>4, <2>6, FS_AddElement, FS_RemoveElement
  <2>8. /\ Cardinality(FullSlots) \in Nat /\ Cardinality(Counting) \in Nat
        /\ Cardinality(Detaching) \in Nat
    BY <2>6, FS_CardinalityType
  <2>9. Cardinality(FullSlots') + Cardinality(Detaching') - Cardinality(Counting')
          = Cardinality(FullSlots) + Cardinality(Detaching) - Cardinality(Counting) + 0
    BY <2>5, <2>7, <2>8
  <2>10. size' = size + 0 + 0 * SizeMod
    <3>1. size \in Int /\ size' = size
      BY DEF Detach, OwnInv, TypeInv, TypeOK
    <3>. QED BY <3>1 DEF SizeMod
  <2>11. \E j \in Int : size' = size + 0 + j * SizeMod
    BY <2>10
  <2>. QED BY <1>2, <1>c, <2>5, <2>6, <2>7, <2>9, <2>11, SizeMoves DEF OwnInv
<1>. QED
  BY <1>1, <1>2

\* detach uncounts the entry it took.
LEMMA SizeCountDetached ==
    ASSUME OwnInv, SizeInv, NEW p \in Queries \cup {Listener}, CountDetached(p)
    PROVE  SizeInv'
<1>p. p \in Procs /\ p # Closer
  BY ProcsAssumption DEF Procs
<1>c. pc'[Closer] = pc[Closer]
  BY <1>p, CloserStaysIdle DEF CountDetached, Goto, OwnInv
<1>1. CASE pc[Closer] # "idle"
  BY <1>1, <1>c DEF SizeInv
<1>2. CASE pc[Closer] = "idle"
  <2>1. pc[p] = "uncount"
    BY DEF CountDetached
  <2>3. FullSlots' = FullSlots
    BY DEF FullSlots, CountDetached
  <2>4. Detaching' = Detaching \ {p} /\ p \in Detaching
    BY <1>p, <2>1 DEF Detaching, CountDetached, Goto, OwnInv, TypeInv, TypeOK
  <2>5. Counting' = Counting
    BY <1>p, <2>1 DEF Counting, CountDetached, Goto, OwnInv, TypeInv, TypeOK
  <2>6. IsFiniteSet(Detaching) /\ IsFiniteSet(Counting) /\ IsFiniteSet(FullSlots)
    BY <1>2, FullSlotsFinite DEF SizeInv
  <2>7. /\ Cardinality(Detaching') = Cardinality(Detaching) - 1
        /\ IsFiniteSet(Detaching')
    BY <2>4, <2>6, FS_RemoveElement
  <2>8. /\ Cardinality(FullSlots) \in Nat /\ Cardinality(Counting) \in Nat
        /\ Cardinality(Detaching) \in Nat
    BY <2>6, FS_CardinalityType
  <2>9. Cardinality(FullSlots') + Cardinality(Detaching') - Cardinality(Counting')
          = Cardinality(FullSlots) + Cardinality(Detaching) - Cardinality(Counting) + (-1)
    BY <2>3, <2>5, <2>7, <2>8
  <2>10. \E j \in Int : size' = size - 1 + j * SizeMod
    BY WrapFacts DEF CountDetached, OwnInv, TypeInv, TypeOK
  <2>11. \E j \in Int : size' = size + (-1) + j * SizeMod
    BY <2>10 DEF OwnInv, TypeInv, TypeOK, SizeMod
  <2>. QED BY <1>2, <1>c, <2>5, <2>6, <2>7, <2>9, <2>11, SizeMoves DEF OwnInv
<1>. QED
  BY <1>1, <1>2

\* A step of a query or of the listener that moves it alone, or not at all.
LEMMA SizeStill ==
    ASSUME OwnInv, SizeInv, NEW p \in Queries \cup {Listener}, NEW label,
           Goto(p, label) \/ (pc' = pc /\ label = pc[p]),
           label \in {"move", "uncount"} <=> pc[p] \in {"move", "uncount"},
           label = "count" <=> pc[p] = "count",
           \A s \in Slots : meta'[s].state = "FULL" <=> meta[s].state = "FULL",
           size' = size
    PROVE  SizeInv'
<1>1. p \in Procs \ {Closer} /\ TypeInv /\ pc \in [Procs -> PCs]
  BY ProcsAssumption DEF Procs, OwnInv, TypeInv, TypeOK
<1>2. pc' = [pc EXCEPT ![p] = label]
  BY <1>1 DEF Goto
<1>3. pc'[Closer] = pc[Closer]
  BY <1>1, <1>2, CloserStaysIdle
<1>. QED
  BY <1>1, <1>2, <1>3, SizeQuiet

LEMMA SizeStore ==
    ASSUME OwnInv, SizeInv, NEW q \in Queries, Store(q)
    PROVE  SizeInv'
<1>f. ASSUME NEW label, label \notin {"move", "uncount", "count"},
             pc[q] \notin {"move", "uncount", "count"}, UNCHANGED <<meta, size>>,
             Goto(q, label) \/ (pc' = pc /\ label = pc[q])
      PROVE  SizeInv'
  BY <1>f, SizeStill
<1>r. ASSUME NEW tx, Retry(q, tx), pc[q] \in {"probe", "claim"},
             UNCHANGED <<meta, size>>
      PROVE  SizeInv'
  BY <1>r, <1>f DEF Retry
<1>b. ASSUME NEW s, BeginClaim(q, s), pc[q] = "probe", UNCHANGED <<meta, size>>
      PROVE  SizeInv'
  BY <1>b, <1>f DEF BeginClaim
<1>1. CASE StoreStart(q)
  BY <1>1, <1>f DEF StoreStart
<1>2. CASE ProbeFree(q)
  BY <1>2, <1>b DEF ProbeFree
<1>3. CASE ProbeTombstone(q)
  BY <1>3, <1>f DEF ProbeTombstone
<1>4. CASE ProbeOccupied(q)
  BY <1>4, <1>f, <1>r DEF ProbeOccupied
<1>5. CASE ProbeEnd(q)
  BY <1>5, <1>f, <1>b DEF ProbeEnd
<1>6. CASE Claim(q)
  <2>1. \A s \in Slots : meta'[s].state = "FULL" <=> meta[s].state = "FULL"
    BY <1>6, StateFacts DEF Claim, Reserved, OwnInv, TypeInv, TypeOK
  <2>. QED BY <1>6, <2>1, SizeStill DEF Claim
<1>7. CASE ClaimLost(q)
  BY <1>7, <1>r DEF ClaimLost
<1>. QED
  BY <1>1, <1>2, <1>3, <1>4, <1>5, <1>6, <1>7, SizePublish, SizeCountStored DEF Store

LEMMA SizeLookup ==
    ASSUME OwnInv, SizeInv, NEW p \in Queries \cup {Listener}, Lookup(p)
    PROVE  SizeInv'
<1>t. p \in Procs /\ loc[p] \in Locals /\ meta \in [Slots -> Metas]
  BY DEF Procs, OwnInv, TypeInv, TypeOK
<1>f. ASSUME NEW label, label \notin {"move", "uncount", "count"},
             pc[p] \notin {"move", "uncount", "count"}, UNCHANGED <<meta, size>>,
             Goto(p, label) \/ (pc' = pc /\ label = pc[p])
      PROVE  SizeInv'
  BY <1>f, SizeStill
<1>r. ASSUME Return(p), pc[p] \in {"lookup", "check", "reset"}, UNCHANGED <<meta, size>>
      PROVE  SizeInv'
  BY <1>r, <1>f DEF Return
<1>1. CASE LookupEmpty(p)
  BY <1>1, <1>r DEF LookupEmpty
<1>2. CASE LookupEnd(p)
  BY <1>2, <1>r DEF LookupEnd
<1>3. CASE LookupOther(p)
  BY <1>3, <1>f DEF LookupOther
<1>4. CASE LookupMatch(p)
  BY <1>4, <1>f DEF LookupMatch
<1>5. CASE DetachLost(p)
  BY <1>5, <1>f DEF DetachLost
<1>6. CASE Bury(p)
  <2>1. meta[loc[p].slot].state = "RESERVED"
    BY <1>6, <1>t DEF Bury, OwnInv, StorageExclusive, Owns
  <2>2. \A s \in Slots : meta'[s].state = "FULL" <=> meta[s].state = "FULL"
    BY <1>6, <1>t, <2>1, StateFacts DEF Bury
  <2>. QED BY <1>6, <2>2, SizeStill DEF Bury
<1>7. CASE CheckEmpty(p)
  BY <1>7, <1>f, <1>r DEF CheckEmpty
<1>8. CASE ResetSlot(p)
  <2>1. \A s \in Slots : meta'[s].state = "FULL" <=> meta[s].state = "FULL"
    BY <1>8, <1>t, StateFacts DEF ResetSlot
  <2>. QED BY <1>8, <2>1, SizeStill DEF ResetSlot
<1>9. CASE ResetEnd(p)
  BY <1>9, <1>r DEF ResetEnd
<1>. QED
  BY <1>1, <1>2, <1>3, <1>4, <1>5, <1>6, <1>7, <1>8, <1>9,
     SizeDetach, SizeCountDetached DEF Lookup

\* The closer leaves idle with its first step.
LEMMA SizeClear == TypeInv /\ Clear => pc'[Closer] \in ClearPlaces
<1>. SUFFICES ASSUME TypeInv, Clear PROVE pc'[Closer] \in ClearPlaces
  OBVIOUS
<1>1. Closer \in Procs /\ pc \in [Procs -> PCs]
  BY DEF Procs, TypeInv, TypeOK
<1>. QED
  BY <1>1 DEF Clear, ClearStart, ClearEmpty, ClearTombstoneSeen, ClearTombstone,
     ClearClaim, ClearDrop, ClearEnd, ClearPlaces, Goto

LEMMA SizeInit == Init => SizeInv
<1>. SUFFICES ASSUME Init PROVE SizeInv
  OBVIOUS
<1>0. pc[Closer] = "idle"
  BY ProcsAssumption DEF Init, Procs
<1>1. FullSlots = {} /\ Detaching = {} /\ Counting = {}
  BY DEF Init, FullSlots, Detaching, Counting, Empty
<1>2. size = 0 + 0 - 0 + 0 * SizeMod
  BY DEF Init, SizeMod
<1>. QED
  BY <1>0, <1>1, <1>2, FS_EmptySet DEF SizeInv

LEMMA SizeStep == OwnInv /\ SizeInv /\ [Next]_vars => SizeInv'
<1>. SUFFICES ASSUME OwnInv, SizeInv, [Next]_vars PROVE SizeInv'
  OBVIOUS
<1>t. TypeInv
  BY DEF OwnInv
<1>1. ASSUME NEW q \in Queries, Disarm(q) PROVE SizeInv'
  BY <1>1, SizeStill DEF Disarm
<1>2. ASSUME NEW q \in Queries, RemoveStart(q) PROVE SizeInv'
  BY <1>2, SizeStill DEF RemoveStart
<1>3. CASE TakeStart
  BY <1>3, SizeStill DEF TakeStart
<1>4. CASE Clear
  BY <1>4, <1>t, SizeClear DEF SizeInv, ClearPlaces
<1>5. CASE Churn
  <2>1. PICK k \in Slots :
          /\ ~ Occupied(ProbeIndex(nextId, k))
          /\ meta' = IF size = 0
                     THEN Drained([meta EXCEPT ![ProbeIndex(nextId, k)] = Empty])
                     ELSE [meta EXCEPT ![ProbeIndex(nextId, k)] = Tombstone]
    BY <1>5 DEF Churn
  <2>2. \A s \in Slots : meta'[s].state = "FULL" <=> meta[s].state = "FULL"
    BY <1>t, <2>1, StateFacts DEF Drained, Occupied, TypeInv, TypeOK
  <2>3. Listener \in Queries \cup {Listener} /\ pc' = pc /\ size' = size
    BY <1>5 DEF Churn
  <2>. QED BY <2>2, <2>3, SizeStill
<1>6. CASE UNCHANGED vars
  BY <1>6 DEF vars, SizeInv, FullSlots, Detaching, Counting
<1>. QED
  BY <1>1, <1>2, <1>3, <1>4, <1>5, <1>6, SizeStore, SizeLookup
  DEF Next, QueryStep, ListenerStep

\* What the pools read as using_count is exact whenever the map is at rest, for
\* the tables whose slots a sixteen-bit counter can count (256 slots at the
\* default limit of 64 queries), however often it wrapped on the way.
THEOREM SizeIsExact == SlotCount < SizeMod => (Spec => []SizeCountsEntries)
<1>. SUFFICES ASSUME SlotCount < SizeMod PROVE Spec => []SizeCountsEntries
  OBVIOUS
<1>1. OwnInv /\ SizeInv => SizeCountsEntries
  <2>. SUFFICES ASSUME OwnInv, SizeInv, Quiescent PROVE size = Cardinality(FullSlots)
    BY DEF SizeCountsEntries, FullSlots
  <2>1. Detaching = {} /\ Counting = {} /\ pc[Closer] = "idle"
    <3>1. Detaching = {} /\ Counting = {}
      BY DEF Quiescent, Detaching, Counting
    <3>2. pc[Closer] = "idle"
      BY DEF Quiescent, Procs, SizeInv, ClearPlaces
    <3>. QED BY <3>1, <3>2
  <2>2. PICK k \in Int : size = Cardinality(FullSlots) + 0 - 0 + k * SizeMod
    BY <2>1, FS_EmptySet DEF SizeInv
  <2>3. Cardinality(FullSlots) \in 0 .. SlotCount /\ SlotCount \in Nat
    BY FullSlotsFinite, SizesAssumption
  <2>4. size \in 0 .. SizeMod - 1
    BY DEF OwnInv, TypeInv, TypeOK
  <2>5. PICK c \in Nat : c = Cardinality(FullSlots) /\ c < 65536
    BY <2>3 DEF SizeMod
  <2>6. size = c + 0 - 0 + k * 65536
    BY <2>2, <2>5 DEF SizeMod
  <2>7. 0 <= size /\ size < 65536 /\ size \in Int
    BY <2>4 DEF SizeMod
  <2>8. size = c + k * 65536
    BY <2>5, <2>6, <2>7
  <2>9. size = c
    BY <2>5, <2>7, <2>8
  <2>. QED BY <2>5, <2>9
<1>2. OwnInv /\ SizeInv /\ [Next]_vars => OwnInv' /\ SizeInv'
  BY OwnStep, SizeStep
<1>. QED
  BY OwnInit, SizeInit, <1>1, <1>2, PTL DEF Spec
-----------------------------------------------------------------------------
(***************************************************************************)
(* RequestMap implements RequestTable, for every number of queries, slots  *)
(* and ids.  On top of the ownership above the invariant says where each   *)
(* sender is and under which id.                                           *)
(***************************************************************************)
Storing   == {"probe", "claim", "write"}
Leaving   == {"uncount", "check", "reset"}
Looking   == {"lookup", "detach", "move"} \cup Leaving
Clearing  == {"clear", "clearTombstone", "drop", "cleared"}

\* Each thread runs its own operations.
PlaceOf(p) ==
    /\ p = Listener => pc[p] \in {"idle"} \cup Looking
    /\ p = Closer => pc[p] \in {"idle"} \cup Clearing
    /\ p \in Queries => pc[p] \notin {"idle"} \cup Clearing

\* What a thread may have in its hand, and which entry it is moving.
HandInv(p) ==
    /\ pc[p] \in Storing => loc[p].hand \in {p, None}
    /\ pc[p] \notin Storing \cup Leaving => loc[p].hand = None
    /\ pc[p] = "move" => meta[loc[p].slot] = Reserved(loc[p].id)

\* The sender of a query whose store has not been published is its own secret.
Unpublished(q) == pc[q] \in {"start", "failed", "panicked"} \cup Storing
SecretInv(q) == Unpublished(q) =>
    /\ \A s \in Slots : sender[s] # q
    /\ \A p \in Procs : loc[p].hand = q => p = q
StartInv(q) ==
    /\ pc[q] = "start" => rx[q] = "open"
    /\ Unpublished(q) => rx[q] # "answered"

\* A query's sender is known under the id of its guard.
IdInv(q) == Armed(q) =>
    /\ \A s \in Slots : sender[s] = q => meta[s].id = loc[q].id
    /\ \A p \in Procs : loc[p].hand = q => loc[p].id = loc[q].id

PlaceInv ==
    /\ OwnInv
    /\ SenderInOnePlace
    /\ \A p \in Procs : PlaceOf(p) /\ HandInv(p)
    /\ \A q \in Queries : SecretInv(q) /\ StartInv(q) /\ IdInv(q)
-----------------------------------------------------------------------------
LEMMA Types ==
    ASSUME OwnInv
    PROVE  /\ meta \in [Slots -> Metas]
           /\ sender \in [Slots -> Queries \cup {None}]
           /\ pc \in [Procs -> PCs] /\ loc \in [Procs -> Locals]
           /\ rx \in [Queries -> {"open", "answered", "dropped"}]
           /\ \A p \in Procs : /\ loc[p].hand \in Queries \cup {None}
                               /\ loc[p].slot \in Slots /\ loc[p].id \in Ids
           /\ Queries \subseteq Procs /\ None \notin Queries
           /\ IdSpace \notin Ids
BY SizesAssumption, ProcsAssumption DEF OwnInv, TypeInv, TypeOK, Locals, Procs, Ids

\* The table's entries, element by element.
Held(q, id) ==
    \/ \E s \in Slots : sender[s] = q /\ meta[s].id = id
    \/ \E p \in Procs : Detached(p) /\ loc[p].hand = q /\ loc[p].id = id

LEMMA EntriesHeld ==
    ASSUME NEW q, NEW id, q # None
    PROVE  <<q, id>> \in Entries <=> Held(q, id)
BY DEF Entries, Held, Detached

\* The table holds senders of queries under ids.
LEMMA EntriesTyped == OwnInv => Entries \subseteq Queries \X Ids
<1>. SUFFICES ASSUME OwnInv PROVE Entries \subseteq Queries \X Ids
  OBVIOUS
<1>t. /\ meta \in [Slots -> Metas] /\ sender \in [Slots -> Queries \cup {None}]
      /\ \A p \in Procs : /\ loc[p].hand \in Queries \cup {None}
                          /\ loc[p].id \in Ids
  BY Types
<1>1. ASSUME NEW s \in Slots, sender[s] # None
      PROVE  sender[s] \in Queries /\ meta[s].id \in Ids
  <2>1. meta[s].state \notin {"EMPTY", "TOMBSTONE"}
    BY <1>1 DEF OwnInv, SlotContent
  <2>2. meta[s] \in Metas
    BY <1>t
  <2>3. meta[s].id \in Ids
    BY <2>1, <2>2 DEF Metas, Empty, Tombstone
  <2>. QED BY <1>1, <1>t, <2>3
<1>2. ASSUME NEW p \in Procs, Detached(p)
      PROVE  loc[p].hand \in Queries /\ loc[p].id \in Ids
  BY <1>2, <1>t DEF Detached
<1>. QED BY <1>1, <1>2 DEF Entries

\* Two sets of entries are equal when every sender is held alike.
LEMMA EntriesEqual ==
    ASSUME OwnInv, OwnInv', NEW d, d \subseteq Queries \X Ids,
           \A q \in Queries, id \in Ids : Held(q, id)' <=> <<q, id>> \in d
    PROVE  Entries' = d
<1>1. Entries' \subseteq Queries \X Ids
  <2>1. (OwnInv => Entries \subseteq Queries \X Ids)'
    BY EntriesTyped, PTL
  <2>. QED BY <2>1
<1>2. \A q \in Queries, id \in Ids : <<q, id>> \in Entries' <=> Held(q, id)'
  <2>1. ASSUME NEW q \in Queries, NEW id \in Ids
        PROVE  <<q, id>> \in Entries' <=> Held(q, id)'
    <3>1. q # None
      BY Types
    <3>. QED BY <3>1 DEF Entries, Held, Detached
  <2>. QED BY <2>1
<1>. QED BY <1>1, <1>2

\* A step of thread p that moves no sender and ends no channel.
LEMMA QuietStep ==
    ASSUME PlaceInv, OwnInv', NEW p \in Procs, Others(p),
           sender' = sender, rx' = rx,
           \A s \in Slots : /\ sender[s] # None => meta'[s].id = meta[s].id
                            /\ meta'[s] = meta[s] \/ meta[s].state # "RESERVED",
           loc'[p].hand = loc[p].hand,
           loc[p].hand = None \/ loc'[p].id = loc[p].id \/ pc[p] \in Storing,
           PlaceOf(p)', HandInv(p)',
           Unpublished(p)' => Unpublished(p),
           pc'[p] = "start" <=> pc[p] = "start",
           p \in Queries /\ Armed(p)' => Armed(p) /\ loc'[p].id = loc[p].id,
           Detached(p)' <=> Detached(p)
    PROVE  PlaceInv' /\ Entries' = Entries
<1>t. /\ meta \in [Slots -> Metas] /\ sender \in [Slots -> Queries \cup {None}]
      /\ \A r \in Procs : /\ loc[r].hand \in Queries \cup {None}
                          /\ loc[r].slot \in Slots /\ loc[r].id \in Ids
      /\ Queries \subseteq Procs /\ None \notin Queries
  BY Types DEF PlaceInv
<1>o. \A r \in Procs \ {p} : pc'[r] = pc[r] /\ loc'[r] = loc[r]
  BY DEF Others
<1>h. \A r \in Procs : loc'[r].hand = loc[r].hand
  BY <1>o
<1>d. \A r \in Procs : Detached(r)' <=> Detached(r)
  BY <1>o DEF Detached
<1>i. \A r \in Procs : loc[r].hand # None => loc'[r].id = loc[r].id \/ pc[r] \in Storing
  BY <1>o
<1>j. \A r \in Procs : Detached(r) => loc'[r].id = loc[r].id
  BY <1>i DEF Detached, Storing
<1>1. SenderInOnePlace'
  <2>1. \A q \in Queries : (InHand(q)' <=> InHand(q)) /\ (InSlot(q)' <=> InSlot(q))
    BY <1>h DEF InHand, InSlot
  <2>2. \A q \in Queries : pc'[q] = "start" <=> pc[q] = "start"
    BY <1>o, <1>t
  <2>. QED BY <2>1, <2>2, <1>h DEF PlaceInv, SenderInOnePlace
<1>2. \A r \in Procs : PlaceOf(r)' /\ HandInv(r)'
  <2>1. ASSUME NEW r \in Procs \ {p} PROVE PlaceOf(r)' /\ HandInv(r)'
    <3>1. PlaceOf(r) /\ HandInv(r)
      BY DEF PlaceInv
    <3>2. pc[r] = "move" => meta'[loc[r].slot] = meta[loc[r].slot]
      BY <1>t DEF PlaceInv, OwnInv, StorageExclusive, Owns
    <3>. QED BY <1>o, <3>1, <3>2 DEF PlaceOf, HandInv
  <2>. QED BY <2>1
<1>3. \A q \in Queries : SecretInv(q)' /\ StartInv(q)' /\ IdInv(q)'
  <2>. SUFFICES ASSUME NEW q \in Queries
                PROVE  SecretInv(q)' /\ StartInv(q)' /\ IdInv(q)'
    OBVIOUS
  <2>0. SecretInv(q) /\ StartInv(q) /\ IdInv(q)
    BY DEF PlaceInv
  <2>1. SecretInv(q)'
    <3>1. Unpublished(q)' => Unpublished(q)
      BY <1>o, <1>t DEF Unpublished
    <3>. QED BY <1>h, <2>0, <3>1 DEF SecretInv
  <2>2. StartInv(q)'
    <3>1. Unpublished(q)' => Unpublished(q)
      BY <1>o, <1>t DEF Unpublished
    <3>. QED BY <1>o, <1>t, <2>0, <3>1 DEF StartInv
  <2>3. IdInv(q)'
    <3>. SUFFICES ASSUME Armed(q)'
                  PROVE  /\ \A s \in Slots : sender[s] = q => meta'[s].id = loc'[q].id
                         /\ \A r \in Procs : loc'[r].hand = q => loc'[r].id = loc'[q].id
      BY DEF IdInv
    <3>1. Armed(q) /\ loc'[q].id = loc[q].id
      BY <1>o, <1>t DEF Armed
    <3>2. \A s \in Slots : sender[s] = q => meta'[s].id = loc'[q].id
      BY <3>1, <2>0, <1>t DEF IdInv
    <3>3. ASSUME NEW r \in Procs, loc'[r].hand = q PROVE loc'[r].id = loc'[q].id
      <4>1. loc[r].hand = q /\ loc[r].id = loc[q].id
        BY <3>1, <3>3, <1>h, <2>0 DEF IdInv
      <4>2. CASE pc[r] \in Storing
        <5>1. r = q
          BY <4>1, <4>2, <1>t DEF PlaceInv, HandInv
        <5>. QED BY <5>1
      <4>3. CASE pc[r] \notin Storing
        BY <4>1, <4>3, <3>1, <1>i, <1>t
      <4>. QED BY <4>2, <4>3
    <3>. QED BY <3>2, <3>3
  <2>. QED BY <2>1, <2>2, <2>3
<1>4. Entries' = Entries
  <2>1. ASSUME NEW q \in Queries, NEW id \in Ids PROVE Held(q, id)' <=> Held(q, id)
    <3>1. \A s \in Slots : sender[s] = q => meta'[s].id = meta[s].id
      BY <1>t
    <3>2. \A r \in Procs : Detached(r)' /\ loc'[r].hand = q /\ loc'[r].id = id
                            <=> Detached(r) /\ loc[r].hand = q /\ loc[r].id = id
      BY <1>h, <1>d, <1>j
    <3>. QED BY <3>1, <3>2 DEF Held
  <2>2. \A q \in Queries, id \in Ids : <<q, id>> \in Entries <=> Held(q, id)
    BY <1>t, EntriesHeld
  <2>3. OwnInv
    BY DEF PlaceInv
  <2>. QED BY <2>1, <2>2, <2>3, EntriesTyped, EntriesEqual
<1>. QED
  BY <1>1, <1>2, <1>3, <1>4 DEF PlaceInv

\* A step of thread p that moves the sender of q from one place to another, or
\* out of the map.
Nowhere(q) ==
    /\ \A p \in Procs : loc[p].hand # q
    /\ \A s \in Slots : sender[s] # q
    /\ rx[q] # "open"
OnlyInHand(q, p) ==
    /\ \A r \in Procs : loc[r].hand = q <=> r = p
    /\ \A s \in Slots : sender[s] # q
    /\ rx[q] = "open"
OnlyInSlot(q, s) ==
    /\ \A p \in Procs : loc[p].hand # q
    /\ \A t \in Slots : sender[t] = q <=> t = s
    /\ rx[q] = "open"

LEMMA MoveStep ==
    ASSUME PlaceInv, OwnInv', NEW p \in Procs, Others(p), NEW q \in Queries,
           loc[p].hand \in {q, None}, loc'[p].hand \in {q, None},
           \A s \in Slots : \/ sender'[s] = sender[s] /\ meta'[s] = meta[s]
                            \/ /\ Owns(p) /\ s = loc[p].slot
                               /\ sender[s] \in {q, None}
                               /\ sender'[s] \in {q, None},
           \A r \in Queries \ {q} : rx'[r] = rx[r],
           \/ Nowhere(q)'
           \/ OnlyInHand(q, p)' /\ pc'[q] # "start"
           \/ pc'[q] # "start" /\ \E s \in Slots : OnlyInSlot(q, s)',
           PlaceOf(p)', HandInv(p)',
           SecretInv(q)', StartInv(q)', IdInv(q)',
           Unpublished(p)' => Unpublished(p),
           pc'[p] = "start" <=> (pc[p] = "start" /\ p # q),
           p \in Queries \ {q} /\ Armed(p)' => Armed(p) /\ loc'[p].id = loc[p].id
    PROVE  /\ PlaceInv'
           /\ \A r \in Queries \ {q}, id \in Ids : Held(r, id)' <=> Held(r, id)
<1>t. /\ meta \in [Slots -> Metas] /\ sender \in [Slots -> Queries \cup {None}]
      /\ \A r \in Procs : /\ loc[r].hand \in Queries \cup {None}
                          /\ loc[r].slot \in Slots /\ loc[r].id \in Ids
      /\ Queries \subseteq Procs /\ None \notin Queries
  BY Types DEF PlaceInv
<1>o. \A r \in Procs \ {p} : pc'[r] = pc[r] /\ loc'[r] = loc[r]
  BY DEF Others
<1>h. \A x \in Procs, r \in Queries \ {q} : loc'[x].hand = r <=> loc[x].hand = r
  BY <1>o, <1>t
<1>s. \A s \in Slots, r \in Queries \ {q} : sender'[s] = r <=> sender[s] = r
  BY <1>t
<1>m. \A s \in Slots, r \in Queries \ {q} : sender[s] = r => meta'[s] = meta[s]
  BY <1>t
<1>n. \A x \in Procs, r \in Queries \ {q} : loc[x].hand = r => x # p
  BY <1>t
<1>1. SenderInOnePlace'
  <2>0. SenderInOnePlace
    BY DEF PlaceInv
  <2>q. /\ \A s, t \in Slots : sender'[s] = q /\ sender'[t] = q => s = t
        /\ \A x, y \in Procs : loc'[x].hand = q /\ loc'[y].hand = q => x = y
        /\ ~(InHand(q)' /\ InSlot(q)')
        /\ InHand(q)' \/ InSlot(q)' <=> rx'[q] = "open" /\ pc'[q] # "start"
    <3>1. CASE Nowhere(q)'
      BY <3>1 DEF Nowhere, InHand, InSlot
    <3>2. CASE OnlyInHand(q, p)' /\ pc'[q] # "start"
      BY <3>2 DEF OnlyInHand, InHand, InSlot
    <3>3. ASSUME pc'[q] # "start", NEW s \in Slots, OnlyInSlot(q, s)'
          PROVE  <2>q!:
      BY <3>3 DEF OnlyInSlot, InHand, InSlot
    <3>. QED BY <3>1, <3>2, <3>3
  <2>1. \A r \in Queries \ {q} : (InHand(r)' <=> InHand(r)) /\ (InSlot(r)' <=> InSlot(r))
    BY <1>h, <1>s DEF InHand, InSlot
  <2>2. \A r \in Queries \ {q} : pc'[r] = "start" <=> pc[r] = "start"
    BY <1>o, <1>t
  <2>t. /\ \A s \in Slots : sender'[s] \in Queries \cup {None}
        /\ \A r \in Procs : loc'[r].hand \in Queries \cup {None}
    BY <1>t, <1>o
  <2>3. \A s, t \in Slots : sender'[s] # None /\ sender'[s] = sender'[t] => s = t
    <3>. SUFFICES ASSUME NEW s \in Slots, NEW t \in Slots,
                         sender'[s] # None, sender'[s] = sender'[t]
                  PROVE  s = t
      OBVIOUS
    <3>1. CASE sender'[s] = q
      BY <2>q, <3>1
    <3>2. CASE sender'[s] # q
      <4>1. sender[s] = sender'[s] /\ sender[t] = sender'[s]
        BY <2>t, <3>2, <1>s
      <4>. QED BY <2>0, <4>1 DEF SenderInOnePlace
    <3>. QED BY <3>1, <3>2
  <2>4. \A x, y \in Procs : loc'[x].hand # None /\ loc'[x].hand = loc'[y].hand => x = y
    <3>. SUFFICES ASSUME NEW x \in Procs, NEW y \in Procs,
                         loc'[x].hand # None, loc'[x].hand = loc'[y].hand
                  PROVE  x = y
      OBVIOUS
    <3>1. CASE loc'[x].hand = q
      BY <2>q, <3>1
    <3>2. CASE loc'[x].hand # q
      <4>1. loc[x].hand = loc'[x].hand /\ loc[y].hand = loc'[x].hand
        BY <2>t, <3>2, <1>h
      <4>. QED BY <2>0, <4>1 DEF SenderInOnePlace
    <3>. QED BY <3>1, <3>2
  <2>5. \A r \in Queries : ~(InHand(r)' /\ InSlot(r)')
    BY <2>0, <2>q, <2>1 DEF SenderInOnePlace
  <2>6. \A r \in Queries :
            InHand(r)' \/ InSlot(r)' <=> rx'[r] = "open" /\ pc'[r] # "start"
    BY <2>0, <2>q, <2>1, <2>2 DEF SenderInOnePlace
  <2>. QED BY <2>3, <2>4, <2>5, <2>6 DEF SenderInOnePlace
<1>2. \A r \in Procs : PlaceOf(r)' /\ HandInv(r)'
  <2>1. ASSUME NEW r \in Procs \ {p} PROVE PlaceOf(r)' /\ HandInv(r)'
    <3>1. PlaceOf(r) /\ HandInv(r)
      BY DEF PlaceInv
    <3>2. pc[r] = "move" => meta'[loc[r].slot] = meta[loc[r].slot]
      BY <1>t DEF PlaceInv, OwnInv, StorageExclusive, Owns
    <3>. QED BY <1>o, <3>1, <3>2 DEF PlaceOf, HandInv
  <2>. QED BY <2>1
<1>3. ASSUME NEW r \in Queries \ {q} PROVE SecretInv(r)' /\ StartInv(r)' /\ IdInv(r)'
  <2>0. SecretInv(r) /\ StartInv(r) /\ IdInv(r)
    BY DEF PlaceInv
  <2>1. SecretInv(r)'
    <3>1. Unpublished(r)' => Unpublished(r)
      BY <1>o, <1>t DEF Unpublished
    <3>. QED BY <1>h, <1>s, <2>0, <3>1 DEF SecretInv
  <2>2. StartInv(r)'
    <3>1. Unpublished(r)' => Unpublished(r)
      BY <1>o, <1>t DEF Unpublished
    <3>. QED BY <1>o, <1>t, <2>0, <3>1 DEF StartInv
  <2>3. IdInv(r)'
    <3>1. Armed(r)' => Armed(r) /\ loc'[r].id = loc[r].id
      BY <1>o, <1>t DEF Armed
    <3>. QED BY <1>h, <1>s, <1>m, <1>n, <1>o, <2>0, <3>1 DEF IdInv
  <2>. QED BY <2>1, <2>2, <2>3
<1>4. ASSUME NEW r \in Queries \ {q}, NEW id \in Ids PROVE Held(r, id)' <=> Held(r, id)
  <2>1. \A s \in Slots : sender'[s] = r /\ meta'[s].id = id
                            <=> sender[s] = r /\ meta[s].id = id
    BY <1>s, <1>m
  <2>2. \A x \in Procs : Detached(x)' /\ loc'[x].hand = r /\ loc'[x].id = id
                            <=> Detached(x) /\ loc[x].hand = r /\ loc[x].id = id
    BY <1>h, <1>n, <1>o DEF Detached
  <2>. QED BY <2>1, <2>2 DEF Held
<1>. QED
  BY <1>1, <1>2, <1>3, <1>4 DEF PlaceInv
-----------------------------------------------------------------------------
(***************************************************************************)
(* What the table sees of a step.                                          *)
(***************************************************************************)
SameClosing == pc'[Closer] = "idle" <=> pc[Closer] = "idle"

LEMMA GuardsKept ==
    ASSUME OwnInv, NEW p \in Procs, Others(p),
           p \in Queries => /\ Armed(p)' <=> Armed(p)
                            /\ Armed(p) => loc'[p].id = loc[p].id
    PROVE  Guards' = Guards
<1>1. ASSUME NEW q \in Queries
      PROVE  (IF Armed(q)' THEN loc'[q].id ELSE IdSpace) =
             (IF Armed(q) THEN loc[q].id ELSE IdSpace)
  <2>1. q \in Procs
    BY Types
  <2>2. CASE q = p
    BY <2>2
  <2>3. CASE q # p
    BY <2>1, <2>3 DEF Others, Armed
  <2>. QED BY <2>2, <2>3
<1>. QED BY <1>1 DEF Guards

LEMMA GuardsSet ==
    ASSUME OwnInv, NEW q \in Queries, Others(q), NEW v,
           v = IF Armed(q)' THEN loc'[q].id ELSE IdSpace
    PROVE  Guards' = [Guards EXCEPT ![q] = v]
<1>1. \A r \in Queries \ {q} : (Armed(r)' <=> Armed(r)) /\ loc'[r] = loc[r]
  BY Types DEF Others, Armed
<1>. QED BY <1>1 DEF Guards

LEMMA TableQuiet ==
    ASSUME Entries' = Entries, Guards' = Guards, rx' = rx, SameClosing
    PROVE  UNCHANGED Table!vars
BY DEF Table!vars, SameClosing

\* A quiet step that leaves the guards alone is invisible.
LEMMA InvisibleStep ==
    ASSUME PlaceInv, OwnInv', NEW p \in Procs, Others(p),
           sender' = sender, rx' = rx,
           \A s \in Slots : /\ sender[s] # None => meta'[s].id = meta[s].id
                            /\ meta'[s] = meta[s] \/ meta[s].state # "RESERVED",
           loc'[p].hand = loc[p].hand,
           loc[p].hand = None \/ loc'[p].id = loc[p].id \/ pc[p] \in Storing,
           PlaceOf(p)', HandInv(p)',
           Unpublished(p)' => Unpublished(p),
           pc'[p] = "start" <=> pc[p] = "start",
           p \in Queries => /\ Armed(p)' <=> Armed(p)
                            /\ Armed(p) => loc'[p].id = loc[p].id,
           Detached(p)' <=> Detached(p), SameClosing
    PROVE  PlaceInv' /\ UNCHANGED Table!vars
<1>1. PlaceInv' /\ Entries' = Entries
  BY QuietStep
<1>2. OwnInv
  BY DEF PlaceInv
<1>3. Guards' = Guards
  BY <1>2, GuardsKept
<1>. QED BY <1>1, <1>3, TableQuiet

\* The sender of a query is held under one id at most.
LEMMA HeldOnce ==
    ASSUME PlaceInv, NEW q \in Queries
    PROVE  /\ \A s \in Slots : sender[s] = q =>
                \A id : Held(q, id) <=> id = meta[s].id
           /\ \A p \in Procs : loc[p].hand = q =>
                \A id : Held(q, id) <=> Detached(p) /\ id = loc[p].id
<1>t. None \notin Queries /\ SenderInOnePlace
  BY ProcsAssumption DEF PlaceInv
<1>1. ASSUME NEW s \in Slots, sender[s] = q, NEW id
      PROVE  Held(q, id) <=> id = meta[s].id
  <2>1. \A p \in Procs : loc[p].hand # q
    BY <1>t, <1>1 DEF SenderInOnePlace, InHand, InSlot
  <2>2. \A t \in Slots : sender[t] = q => t = s
    BY <1>t, <1>1 DEF SenderInOnePlace
  <2>. QED BY <1>1, <2>1, <2>2 DEF Held
<1>2. ASSUME NEW p \in Procs, loc[p].hand = q, NEW id
      PROVE  Held(q, id) <=> Detached(p) /\ id = loc[p].id
  <2>1. \A s \in Slots : sender[s] # q
    BY <1>t, <1>2 DEF SenderInOnePlace, InHand, InSlot
  <2>2. \A r \in Procs : loc[r].hand = q => r = p
    BY <1>t, <1>2 DEF SenderInOnePlace
  <2>. QED BY <1>2, <2>1, <2>2 DEF Held
<1>. QED BY <1>1, <1>2

\* A sender that is nowhere, or in the hand of its storing query, is no entry.
LEMMA NotHeld ==
    ASSUME NEW q, \A s \in Slots : sender[s] # q,
           \A p \in Procs : loc[p].hand = q => ~Detached(p)
    PROVE  \A id : ~Held(q, id)
BY DEF Held

\* A store that gives up, now or when its sender has long been lost.
LEMMA TableStoreFails ==
    ASSUME PlaceInv, OwnInv', NEW q \in Queries, Others(q), pc[q] \in Storing,
           pc'[q] \in {"failed", "probe"}, loc'[q].hand = None,
           rx' = [rx EXCEPT ![q] = "dropped"],
           UNCHANGED <<meta, sender>>
    PROVE  PlaceInv' /\ [Table!Next]_(Table!vars)
<1>t. /\ OwnInv /\ q \in Procs /\ q \notin {Listener, Closer}
      /\ rx \in [Queries -> {"open", "answered", "dropped"}]
      /\ None \notin Queries
      /\ \A r \in Procs : loc[r].hand \in Queries \cup {None}
  BY Types, ProcsAssumption DEF PlaceInv
<1>i. SecretInv(q) /\ HandInv(q) /\ PlaceOf(q) /\ loc[q].hand \in {q, None}
  BY <1>t DEF PlaceInv, HandInv
<1>u. Unpublished(q) /\ ~Armed(q) /\ ~Armed(q)'
  BY DEF Unpublished, Storing, Armed
<1>1. Nowhere(q)'
  <2>1. \A p \in Procs : loc'[p].hand # q
    BY <1>i, <1>u, <1>t DEF SecretInv, Others
  <2>2. \A s \in Slots : sender'[s] # q
    BY <1>i, <1>u DEF SecretInv
  <2>3. rx'[q] = "dropped"
    BY <1>t
  <2>. QED BY <2>1, <2>2, <2>3 DEF Nowhere
<1>2. PlaceOf(q)' /\ HandInv(q)' /\ SecretInv(q)' /\ StartInv(q)' /\ IdInv(q)'
  BY <1>1, <1>t, <1>u DEF PlaceOf, Storing, Leaving, Looking, Clearing, HandInv, SecretInv,
     StartInv, IdInv, Nowhere
<1>3. PlaceInv' /\ \A r \in Queries \ {q}, id \in Ids : Held(r, id)' <=> Held(r, id)
  <2>1. Unpublished(q)' => Unpublished(q)
    BY <1>u
  <2>2. pc'[q] = "start" <=> (pc[q] = "start" /\ q # q)
    OBVIOUS
  <2>3. q \in Queries \ {q} /\ Armed(q)' => Armed(q) /\ loc'[q].id = loc[q].id
    OBVIOUS
  <2>4. \A s \in Slots : sender'[s] = sender[s] /\ meta'[s] = meta[s]
    OBVIOUS
  <2>5. \A r \in Queries \ {q} : rx'[r] = rx[r]
    BY <1>t
  <2>. QED BY <1>t, <1>i, <1>1, <1>2, <2>1, <2>2, <2>3, <2>4, <2>5, MoveStep
<1>4. \A id : ~Held(q, id)
  <2>1. \A p \in Procs : loc[p].hand = q => ~Detached(p)
    BY <1>i, <1>u DEF SecretInv, Detached, Storing
  <2>2. \A s \in Slots : sender[s] # q
    BY <1>i, <1>u DEF SecretInv
  <2>. QED BY <2>1, <2>2, NotHeld
<1>5. \A id : ~Held(q, id)'
  BY <1>1 DEF Nowhere, Held
<1>h. \A r \in Queries, id \in Ids : <<r, id>> \in Entries <=> Held(r, id)
  BY <1>t, EntriesHeld
<1>6. Entries' = Entries
  <2>1. \A r \in Queries, id \in Ids : Held(r, id)' <=> <<r, id>> \in Entries
    BY <1>h, <1>3, <1>4, <1>5
  <2>. QED BY <1>t, <2>1, EntriesTyped, EntriesEqual
<1>7. Guards' = Guards
  BY <1>t, <1>u, GuardsKept
<1>8. SameClosing
  BY <1>t, ProcsAssumption DEF SameClosing, Others, Procs
<1>9. CASE rx[q] = "open"
  <2>1. ~Table!Stored(q)
    BY <1>h, <1>4 DEF Table!Stored
  <2>2. Guards[q] = IdSpace
    BY <1>u DEF Guards
  <2>3. Table!StoreFails(q)
    BY <1>6, <1>7, <1>8, <1>9, <2>1, <2>2 DEF Table!StoreFails, SameClosing
  <2>. QED BY <1>3, <2>3 DEF Table!Next
<1>10. CASE rx[q] # "open"
  <2>1. rx[q] = "dropped"
    BY <1>10, <1>t, <1>u DEF PlaceInv, StartInv
  <2>2. rx' = rx
    BY <2>1, <1>t
  <2>. QED BY <1>3, <1>6, <1>7, <1>8, <2>2, TableQuiet
<1>. QED BY <1>9, <1>10

\* The first step of a store takes the sender in hand: nothing is seen yet.
LEMMA TableStoreStart ==
    ASSUME PlaceInv, OwnInv', NEW q \in Queries, Others(q), pc[q] = "start",
           pc'[q] = "probe", loc'[q].hand = q, UNCHANGED <<meta, sender, rx>>
    PROVE  PlaceInv' /\ UNCHANGED Table!vars
<1>t. /\ OwnInv /\ q \in Procs /\ q \notin {Listener, Closer}
      /\ None \notin Queries
      /\ \A r \in Procs : loc[r].hand \in Queries \cup {None}
  BY Types, ProcsAssumption DEF PlaceInv
<1>i. SecretInv(q) /\ HandInv(q) /\ StartInv(q) /\ SenderInOnePlace
  BY <1>t DEF PlaceInv
<1>u. Unpublished(q) /\ ~Armed(q) /\ ~Armed(q)'
  BY DEF Unpublished, Armed
<1>0. loc[q].hand = None /\ \A p \in Procs : loc[p].hand # q
  BY <1>i, <1>t DEF HandInv, SenderInOnePlace, InHand, Storing, Leaving
<1>1. OnlyInHand(q, q)' /\ pc'[q] # "start"
  <2>1. \A p \in Procs : loc'[p].hand = q <=> p = q
    BY <1>0, <1>t DEF Others
  <2>2. \A s \in Slots : sender'[s] # q
    BY <1>i, <1>u DEF SecretInv
  <2>3. rx'[q] = "open"
    BY <1>i DEF StartInv
  <2>. QED BY <2>1, <2>2, <2>3 DEF OnlyInHand
<1>2. PlaceOf(q)' /\ HandInv(q)' /\ SecretInv(q)' /\ StartInv(q)' /\ IdInv(q)'
  BY <1>1, <1>t, <1>u DEF PlaceOf, Storing, Leaving, Looking, Clearing, HandInv, SecretInv,
     StartInv, IdInv, OnlyInHand
<1>3. PlaceInv' /\ \A r \in Queries \ {q}, id \in Ids : Held(r, id)' <=> Held(r, id)
  <2>1. Unpublished(q)' => Unpublished(q)
    BY <1>u
  <2>2. pc'[q] = "start" <=> (pc[q] = "start" /\ q # q)
    OBVIOUS
  <2>3. q \in Queries \ {q} /\ Armed(q)' => Armed(q) /\ loc'[q].id = loc[q].id
    OBVIOUS
  <2>4. \A s \in Slots : sender'[s] = sender[s] /\ meta'[s] = meta[s]
    OBVIOUS
  <2>5. loc[q].hand \in {q, None} /\ loc'[q].hand \in {q, None}
    BY <1>0
  <2>. QED BY <1>t, <1>1, <1>2, <2>1, <2>2, <2>3, <2>4, <2>5, MoveStep
<1>4. \A id : ~Held(q, id)
  BY <1>0, <1>i, <1>u DEF SecretInv, Held
<1>5. \A id : ~Held(q, id)'
  BY <1>1 DEF OnlyInHand, Held, Detached
<1>6. Entries' = Entries
  <2>1. \A r \in Queries, id \in Ids : <<r, id>> \in Entries <=> Held(r, id)
    BY <1>t, EntriesHeld
  <2>2. \A r \in Queries, id \in Ids : Held(r, id)' <=> <<r, id>> \in Entries
    BY <2>1, <1>3, <1>4, <1>5
  <2>. QED BY <1>t, <2>2, EntriesTyped, EntriesEqual
<1>7. Guards' = Guards
  BY <1>t, <1>u, GuardsKept
<1>8. SameClosing
  BY <1>t, ProcsAssumption DEF SameClosing, Others, Procs
<1>. QED BY <1>3, <1>6, <1>7, <1>8, TableQuiet

\* Publishing the slot is the store that the table sees.
LEMMA TablePublish ==
    ASSUME PlaceInv, OwnInv', NEW q \in Queries, Publish(q)
    PROVE  PlaceInv' /\ Table!Store(q, loc[q].id)
<1>t. /\ OwnInv /\ TypeInv /\ q \in Procs /\ q \notin {Listener, Closer}
      /\ meta \in [Slots -> Metas] /\ sender \in [Slots -> Queries \cup {None}]
      /\ pc \in [Procs -> PCs] /\ loc \in [Procs -> Locals]
      /\ loc[q].slot \in Slots /\ loc[q].id \in Ids
      /\ None \notin Queries
      /\ \A r \in Procs : loc[r].hand \in Queries \cup {None}
  BY Types, ProcsAssumption DEF PlaceInv, OwnInv
<1>i. SecretInv(q) /\ HandInv(q) /\ SenderInOnePlace /\ ThreadContent(q)
  BY <1>t DEF PlaceInv, OwnInv
<1>w. pc[q] = "write" /\ UNCHANGED <<rx, size, issued>>
  BY DEF Publish
<1>h. loc[q].hand = q /\ sender[loc[q].slot] = None
  BY <1>i, <1>w DEF HandInv, ThreadContent, Storing
<1>o. Others(q) /\ pc'[q] = "count" /\ loc'[q] = Walk(loc[q].id, 0, None)
  BY <1>t, OneThread DEF Publish, Goto
<1>l. loc'[q].hand = None /\ loc'[q].id = loc[q].id
  BY <1>o DEF Walk
<1>s. /\ sender' = [sender EXCEPT ![loc[q].slot] = q]
      /\ meta' = [meta EXCEPT ![loc[q].slot] = Full(loc[q].id)]
  BY <1>h DEF Publish
<1>u. Unpublished(q) /\ ~Armed(q) /\ Armed(q)' /\ ~Unpublished(q)' /\ Owns(q)
  BY <1>w, <1>o DEF Unpublished, Armed, Storing, Owns
<1>x. rx[q] = "open"
  BY <1>h, <1>t, <1>w DEF PlaceInv, SenderInOnePlace, InHand
<1>k. PICK k \in Slots : k = loc[q].slot
  BY <1>t
<1>1. OnlyInSlot(q, k)'
  <2>1. \A p \in Procs : loc'[p].hand # q
    BY <1>i, <1>u, <1>l, <1>o, <1>t DEF SecretInv, Others
  <2>2. \A s \in Slots : sender'[s] = q <=> s = k
    BY <1>i, <1>u, <1>s, <1>t, <1>k DEF SecretInv
  <2>3. rx'[q] = "open"
    BY <1>x, <1>w
  <2>. QED BY <2>1, <2>2, <2>3 DEF OnlyInSlot
<1>m. meta'[k].id = loc[q].id
  BY <1>s, <1>t, <1>k DEF Full
<1>2. PlaceOf(q)' /\ HandInv(q)' /\ SecretInv(q)' /\ StartInv(q)' /\ IdInv(q)'
  <2>1. PlaceOf(q)' /\ HandInv(q)' /\ SecretInv(q)' /\ StartInv(q)'
    BY <1>t, <1>u, <1>o, <1>l DEF PlaceOf, Storing, Leaving, Looking, Clearing,
       HandInv, SecretInv, StartInv
  <2>2. IdInv(q)'
    BY <1>1, <1>m, <1>l DEF IdInv, OnlyInSlot
  <2>. QED BY <2>1, <2>2
<1>3. PlaceInv' /\ \A r \in Queries \ {q}, id \in Ids : Held(r, id)' <=> Held(r, id)
  <2>2. pc'[q] = "start" <=> (pc[q] = "start" /\ q # q)
    BY <1>o
  <2>3. q \in Queries \ {q} /\ Armed(q)' => Armed(q) /\ loc'[q].id = loc[q].id
    OBVIOUS
  <2>4. \A s \in Slots : \/ sender'[s] = sender[s] /\ meta'[s] = meta[s]
                         \/ /\ Owns(q) /\ s = loc[q].slot
                            /\ sender[s] \in {q, None}
                            /\ sender'[s] \in {q, None}
    BY <1>u, <1>s, <1>h, <1>t
  <2>5. loc[q].hand \in {q, None} /\ loc'[q].hand \in {q, None}
    BY <1>h, <1>l
  <2>6. pc'[q] # "start" /\ \E s \in Slots : OnlyInSlot(q, s)'
    BY <1>1, <1>o
  <2>7. \A r \in Queries \ {q} : rx'[r] = rx[r]
    BY <1>w
  <2>. QED BY <1>t, <1>o, <1>u, <1>2, <2>2, <2>3, <2>4, <2>5, <2>6, <2>7, MoveStep
<1>4. \A id : ~Held(q, id)
  BY <1>w, <1>i, <1>u DEF SecretInv, Held, Detached
<1>5. \A id : Held(q, id)' <=> id = loc[q].id
  BY <1>1, <1>m, <1>t DEF OnlyInSlot, Held
<1>e. \A r \in Queries, id \in Ids : <<r, id>> \in Entries <=> Held(r, id)
  BY <1>t, EntriesHeld
<1>6. Entries' = Entries \cup {<<q, loc[q].id>>}
  <2>1. \A r \in Queries, id \in Ids :
            Held(r, id)' <=> <<r, id>> \in Entries \cup {<<q, loc[q].id>>}
    BY <1>e, <1>3, <1>4, <1>5
  <2>2. Entries \cup {<<q, loc[q].id>>} \subseteq Queries \X Ids
    BY <1>t, EntriesTyped
  <2>. QED BY <1>t, <2>1, <2>2, EntriesEqual
<1>7. Guards' = [Guards EXCEPT ![q] = loc[q].id]
  BY <1>t, <1>u, <1>l, <1>o, GuardsSet
<1>8. SameClosing
  BY <1>o, <1>t, ProcsAssumption DEF SameClosing, Others, Procs
<1>9. ~Table!Stored(q)
  BY <1>e, <1>4 DEF Table!Stored
<1>10. Guards[q] = IdSpace
  BY <1>u DEF Guards
<1>. QED
  BY <1>3, <1>6, <1>7, <1>8, <1>9, <1>10, <1>x, <1>w DEF Table!Store, SameClosing

\* A detach moves the sender from its slot into a hand: the table keeps it.
LEMMA TableBury ==
    ASSUME PlaceInv, OwnInv', NEW p \in Queries \cup {Listener}, Bury(p)
    PROVE  PlaceInv' /\ UNCHANGED Table!vars
<1>t. /\ OwnInv /\ TypeInv /\ p \in Procs /\ p # Closer
      /\ meta \in [Slots -> Metas] /\ sender \in [Slots -> Queries \cup {None}]
      /\ pc \in [Procs -> PCs] /\ loc \in [Procs -> Locals]
      /\ loc[p].slot \in Slots /\ loc[p].id \in Ids
      /\ None \notin Queries
      /\ \A r \in Procs : loc[r].hand \in Queries \cup {None}
  BY Types, ProcsAssumption DEF PlaceInv, OwnInv, Procs
<1>i. HandInv(p) /\ PlaceOf(p) /\ SenderInOnePlace /\ ThreadContent(p)
  BY <1>t DEF PlaceInv, OwnInv
<1>w. pc[p] = "move" /\ UNCHANGED <<rx, size, issued>>
  BY DEF Bury
<1>k. PICK k \in Slots : k = loc[p].slot
  BY <1>t
<1>q. PICK q \in Queries : q = sender[k]
  BY <1>k, <1>t, <1>i, <1>w DEF ThreadContent
<1>h. loc[p].hand = None /\ meta[k] = Reserved(loc[p].id)
  BY <1>i, <1>w, <1>k DEF HandInv, Storing, Leaving
<1>o. Others(p) /\ pc'[p] = "uncount" /\ loc'[p] = Walk(loc[p].id, 0, q)
  <2>1. sender[loc[p].slot] = q
    BY <1>k, <1>q
  <2>2. loc' = [loc EXCEPT ![p] = Walk(loc[p].id, 0, q)]
    BY <2>1 DEF Bury
  <2>3. pc' = [pc EXCEPT ![p] = "uncount"]
    BY DEF Bury, Goto
  <2>. QED BY <1>t, <2>2, <2>3, OneThread
<1>l. loc'[p].hand = q /\ loc'[p].id = loc[p].id
  BY <1>o DEF Walk
<1>s. sender' = [sender EXCEPT ![k] = None] /\ meta' = [meta EXCEPT ![k] = Tombstone]
  BY <1>k DEF Bury
<1>u. Owns(p) /\ ~Unpublished(p)' /\ Armed(p) /\ Armed(p)'
  BY <1>w, <1>o DEF Unpublished, Armed, Storing, Owns
<1>0. /\ \A r \in Procs : loc[r].hand # q
      /\ \A s \in Slots : sender[s] = q <=> s = k
      /\ rx[q] = "open" /\ pc[q] # "start"
  BY <1>i, <1>q, <1>t DEF SenderInOnePlace, InHand, InSlot
<1>1. OnlyInHand(q, p)' /\ pc'[q] # "start"
  <2>1. \A r \in Procs : loc'[r].hand = q <=> r = p
    BY <1>0, <1>l, <1>o DEF Others
  <2>2. \A s \in Slots : sender'[s] # q
    BY <1>0, <1>s, <1>t
  <2>3. rx'[q] = "open"
    BY <1>0, <1>w
  <2>4. pc'[q] # "start"
    BY <1>0, <1>o, <1>t DEF Others, Procs
  <2>. QED BY <2>1, <2>2, <2>3, <2>4 DEF OnlyInHand
<1>z. q \in Procs /\ SecretInv(q) /\ IdInv(q) /\ StartInv(q)
  BY <1>t DEF PlaceInv, Procs
<1>v. ~Unpublished(q) /\ ~Unpublished(q)'
  <2>1. ~Unpublished(q)
    BY <1>q, <1>z DEF SecretInv
  <2>. QED BY <2>1, <1>u, <1>o, <1>z DEF Others, Unpublished
<1>2. PlaceOf(p)' /\ HandInv(p)' /\ SecretInv(q)' /\ StartInv(q)' /\ IdInv(q)'
  <2>1. PlaceOf(p)' /\ HandInv(p)'
    BY <1>t, <1>o, <1>l, <1>i, <1>w, ProcsAssumption
    DEF PlaceOf, HandInv, Storing, Leaving, Looking, Clearing
  <2>2. SecretInv(q)' /\ StartInv(q)'
    BY <1>v, <1>1 DEF SecretInv, StartInv
  <2>3. IdInv(q)'
    <3>1. Armed(q)' => Armed(q)
      BY <1>u, <1>o, <1>z DEF Others, Armed
    <3>2. loc'[q].id = loc[q].id
      BY <1>l, <1>o, <1>z DEF Others
    <3>3. Armed(q) => loc[p].id = loc[q].id
      BY <1>z, <1>h, <1>q DEF IdInv, Reserved
    <3>. QED BY <1>1, <1>l, <3>1, <3>2, <3>3 DEF IdInv, OnlyInHand
  <2>. QED BY <2>1, <2>2, <2>3
<1>3. PlaceInv' /\ \A r \in Queries \ {q}, id \in Ids : Held(r, id)' <=> Held(r, id)
  <2>2. pc'[p] = "start" <=> (pc[p] = "start" /\ p # q)
    BY <1>o, <1>w
  <2>3. p \in Queries \ {q} /\ Armed(p)' => Armed(p) /\ loc'[p].id = loc[p].id
    BY <1>u, <1>l
  <2>4. \A s \in Slots : \/ sender'[s] = sender[s] /\ meta'[s] = meta[s]
                         \/ /\ Owns(p) /\ s = loc[p].slot
                            /\ sender[s] \in {q, None}
                            /\ sender'[s] \in {q, None}
    BY <1>u, <1>s, <1>k, <1>q, <1>t
  <2>5. loc[p].hand \in {q, None} /\ loc'[p].hand \in {q, None}
    BY <1>h, <1>l
  <2>7. \A r \in Queries \ {q} : rx'[r] = rx[r]
    BY <1>w
  <2>. QED BY <1>t, <1>o, <1>u, <1>1, <1>2, <2>2, <2>3, <2>4, <2>5, <2>7, MoveStep
<1>4. \A id : Held(q, id) <=> id = loc[p].id
  BY <1>q, <1>h, HeldOnce DEF Reserved
<1>5. \A id : Held(q, id)' <=> id = loc[p].id
  <2>1. Detached(p)'
    BY <1>o, <1>l, <1>t DEF Detached
  <2>. QED BY <2>1, <1>1, <1>l, <1>t DEF OnlyInHand, Held
<1>6. Entries' = Entries
  <2>1. \A r \in Queries, id \in Ids : <<r, id>> \in Entries <=> Held(r, id)
    BY <1>t, EntriesHeld
  <2>2. \A r \in Queries, id \in Ids : Held(r, id)' <=> <<r, id>> \in Entries
    BY <2>1, <1>3, <1>4, <1>5
  <2>. QED BY <1>t, <2>2, EntriesTyped, EntriesEqual
<1>7. Guards' = Guards
  BY <1>t, <1>u, <1>l, <1>o, GuardsKept
<1>8. SameClosing
  BY <1>o, <1>t, ProcsAssumption DEF SameClosing, Others, Procs
<1>. QED BY <1>3, <1>6, <1>7, <1>8, <1>w, TableQuiet

\* A channel ends: a thread drops or uses the sender it holds, or the clear
\* drops the one in its slot.
LEMMA TableLeave ==
    ASSUME PlaceInv, OwnInv', NEW p \in Procs, Others(p), NEW q \in Queries,
           NEW id \in Ids, NEW outcome \in {"answered", "dropped"},
           rx' = [rx EXCEPT ![q] = outcome],
           pc'[p] \notin Storing \cup Leaving \cup {"start", "move"},
           loc'[p].hand = None,
           \/ /\ loc[p].hand = q /\ pc[p] \in Leaving /\ id = loc[p].id
              /\ meta' = meta /\ sender' = sender
           \/ /\ loc[p].hand = None /\ pc[p] = "drop" /\ sender[loc[p].slot] = q
              /\ id = meta[loc[p].slot].id
              /\ meta' = [meta EXCEPT ![loc[p].slot] = Empty]
              /\ sender' = [sender EXCEPT ![loc[p].slot] = None],
           PlaceOf(p)', ~Armed(p)' \/ p \notin Queries, ~Unpublished(p)'
    PROVE  PlaceInv' /\ Table!Leave(q, id, outcome)
<1>t. /\ OwnInv
      /\ meta \in [Slots -> Metas] /\ sender \in [Slots -> Queries \cup {None}]
      /\ rx \in [Queries -> {"open", "answered", "dropped"}]
      /\ loc[p].slot \in Slots
      /\ None \notin Queries /\ q \in Procs
      /\ \A r \in Procs : loc[r].hand \in Queries \cup {None}
  BY Types DEF PlaceInv
<1>i. SenderInOnePlace /\ SecretInv(q) /\ StartInv(q)
  BY DEF PlaceInv
<1>0. /\ \A r \in Procs \ {p} : loc[r].hand # q
      /\ \A s \in Slots : sender[s] = q => s = loc[p].slot /\ pc[p] = "drop"
      /\ pc[q] # "start"
  BY <1>i, <1>t DEF SenderInOnePlace, InHand, InSlot
<1>v. ~Unpublished(q) /\ ~Unpublished(q)'
  <2>1. ~Unpublished(q)
    <3>1. CASE loc[p].hand = q /\ pc[p] \in Leaving
      BY <3>1, <1>i DEF SecretInv, Unpublished, Leaving, Storing
    <3>2. CASE sender[loc[p].slot] = q
      BY <3>2, <1>i, <1>t DEF SecretInv
    <3>. QED BY <3>1, <3>2
  <2>. QED BY <2>1, <1>t DEF Others, Unpublished
<1>1. Nowhere(q)'
  <2>1. \A r \in Procs : loc'[r].hand # q
    BY <1>0, <1>t DEF Others
  <2>2. \A s \in Slots : sender'[s] # q
    BY <1>0, <1>t DEF Leaving
  <2>3. rx'[q] # "open"
    BY <1>t
  <2>. QED BY <2>1, <2>2, <2>3 DEF Nowhere
<1>2. HandInv(p)' /\ SecretInv(q)' /\ StartInv(q)' /\ IdInv(q)'
  <2>1. pc'[q] # "start"
    BY <1>v DEF Unpublished
  <2>. QED BY <1>1, <1>v, <2>1 DEF HandInv, SecretInv, StartInv, IdInv, Nowhere
<1>3. PlaceInv' /\ \A r \in Queries \ {q}, i \in Ids : Held(r, i)' <=> Held(r, i)
  <2>2. pc'[p] = "start" <=> (pc[p] = "start" /\ p # q)
    BY DEF Leaving
  <2>3. p \in Queries \ {q} /\ Armed(p)' => Armed(p) /\ loc'[p].id = loc[p].id
    OBVIOUS
  <2>4. \A s \in Slots : \/ sender'[s] = sender[s] /\ meta'[s] = meta[s]
                         \/ /\ Owns(p) /\ s = loc[p].slot
                            /\ sender[s] \in {q, None}
                            /\ sender'[s] \in {q, None}
    BY <1>t DEF Owns
  <2>5. loc[p].hand \in {q, None} /\ loc'[p].hand \in {q, None}
    OBVIOUS
  <2>7. \A r \in Queries \ {q} : rx'[r] = rx[r]
    BY <1>t
  <2>. QED BY <1>t, <1>1, <1>2, <2>2, <2>3, <2>4, <2>5, <2>7, MoveStep
<1>4. \A i : Held(q, i) <=> i = id
  <2>1. CASE loc[p].hand = q /\ pc[p] \in Leaving /\ id = loc[p].id
    BY <2>1, <1>t, HeldOnce DEF Detached, Leaving
  <2>2. CASE sender[loc[p].slot] = q /\ id = meta[loc[p].slot].id
    BY <2>2, <1>t, HeldOnce
  <2>. QED BY <2>1, <2>2
<1>5. \A i : ~Held(q, i)'
  BY <1>1 DEF Nowhere, Held
<1>e. \A r \in Queries, i \in Ids : <<r, i>> \in Entries <=> Held(r, i)
  BY <1>t, EntriesHeld
<1>6. Entries' = Entries \ {<<q, id>>}
  <2>1. \A r \in Queries, i \in Ids :
            Held(r, i)' <=> <<r, i>> \in Entries \ {<<q, id>>}
    BY <1>e, <1>3, <1>4, <1>5
  <2>2. Entries \ {<<q, id>>} \subseteq Queries \X Ids
    BY <1>t, EntriesTyped
  <2>. QED BY <1>t, <2>1, <2>2, EntriesEqual
<1>. QED BY <1>3, <1>4, <1>6, <1>e DEF Table!Leave
-----------------------------------------------------------------------------
TableStep == [Table!Next]_(Table!vars)

\* A step of another thread than the closer leaves the closing flag alone.
LEMMA OthersClosing ==
    ASSUME NEW p \in Procs \ {Closer}, Others(p)
    PROVE  SameClosing
BY DEF Others, SameClosing, Procs

LEMMA TableStore ==
    ASSUME PlaceInv, OwnInv', NEW q \in Queries, Store(q)
    PROVE  PlaceInv' /\ TableStep
<1>t. /\ OwnInv /\ TypeInv /\ q \in Procs \ {Closer} /\ q # Listener
      /\ meta \in [Slots -> Metas] /\ sender \in [Slots -> Queries \cup {None}]
      /\ pc \in [Procs -> PCs] /\ loc \in [Procs -> Locals]
      /\ loc[q].slot \in Slots /\ loc[q].id \in Ids
      /\ loc[q].hand \in Queries \cup {None} /\ None \notin Queries
  BY Types, ProcsAssumption DEF PlaceInv, OwnInv
<1>i. HandInv(q) /\ PlaceOf(q)
  BY <1>t DEF PlaceInv
<1>f. ASSUME NEW label, NEW l, pc[q] \in Storing,
             label \in Storing \/ (label = "panicked" /\ l.hand = None),
             l.hand = loc[q].hand, UNCHANGED <<sender, rx>>,
             \A s \in Slots : \/ meta'[s] = meta[s]
                              \/ meta[s].state # "RESERVED" /\ sender[s] = None,
             pc' = [pc EXCEPT ![q] = label] \/ (pc' = pc /\ label = pc[q]),
             loc' = [loc EXCEPT ![q] = l] \/ (loc' = loc /\ l = loc[q])
      PROVE  PlaceInv' /\ TableStep
  <2>1. Others(q) /\ pc'[q] = label /\ loc'[q] = l
    BY <1>f, <1>t, OneThread
  <2>2. label \in Storing \cup {"panicked"}
    BY <1>f
  <2>3. PlaceOf(q)' /\ HandInv(q)'
    BY <1>f, <1>t, <1>i, <2>1, <2>2
    DEF PlaceOf, HandInv, Storing, Leaving, Looking, Clearing
  <2>4. Unpublished(q) /\ pc'[q] # "start" /\ pc[q] # "start"
    BY <1>f, <2>1, <2>2 DEF Unpublished, Storing
  <2>5. ~Armed(q) /\ ~Armed(q)' /\ ~Detached(q) /\ ~Detached(q)'
    BY <1>f, <2>1, <2>2 DEF Armed, Detached, Storing
  <2>6. PlaceInv' /\ UNCHANGED Table!vars
    BY <1>f, <1>t, <2>1, <2>3, <2>4, <2>5, OthersClosing, InvisibleStep
  <2>. QED BY <2>6 DEF TableStep
<1>x. ASSUME pc[q] \in Storing, UNCHANGED <<meta, sender>>, NEW label, NEW l,
             label \in {"failed", "probe"}, l.hand = None,
             pc' = [pc EXCEPT ![q] = label], loc' = [loc EXCEPT ![q] = l],
             rx' = [rx EXCEPT ![q] = "dropped"]
      PROVE  PlaceInv' /\ TableStep
  <2>1. Others(q) /\ pc'[q] = label /\ loc'[q] = l
    BY <1>x, <1>t, OneThread
  <2>. QED BY <1>x, <1>t, <2>1, TableStoreFails DEF TableStep
<1>r. ASSUME NEW tx \in {None, loc[q].hand}, Retry(q, tx), pc[q] \in Storing,
             UNCHANGED <<meta, sender>>
      PROVE  PlaceInv' /\ TableStep
  <2>. DEFINE id == (loc[q].id + 1) % IdSpace
              exhausted == id = loc[q].start
              l == IF exhausted THEN Blank ELSE Walk(id, loc[q].start, tx)
              label == IF exhausted THEN "failed" ELSE "probe"
  <2>1. pc' = [pc EXCEPT ![q] = label] /\ loc' = [loc EXCEPT ![q] = l]
        /\ rx' = IF exhausted \/ tx = None THEN [rx EXCEPT ![q] = "dropped"] ELSE rx
    BY <1>r, <1>t DEF Retry, Goto
  <2>2. l.hand = (IF exhausted THEN None ELSE tx)
    BY DEF Blank, Walk
  <2>3. label \in {"failed", "probe"} /\ (~exhausted => label = "probe")
    OBVIOUS
  <2>4. CASE exhausted \/ tx = None
    <3>1. l.hand = None
      BY <2>2, <2>4
    <3>2. rx' = [rx EXCEPT ![q] = "dropped"]
      BY <2>1, <2>4
    <3>3. pc' = [pc EXCEPT ![q] = label] /\ loc' = [loc EXCEPT ![q] = l]
      BY <2>1
    <3>4. label \in {"failed", "probe"}
      BY <2>3
    <3>. HIDE DEF l, label, exhausted, id
    <3>5. Others(q) /\ pc'[q] = label /\ loc'[q] = l
      BY <3>3, <1>t, OneThread
    <3>6. pc'[q] \in {"failed", "probe"} /\ loc'[q].hand = None
      BY <3>1, <3>4, <3>5
    <3>. QED BY <1>r, <1>t, <3>2, <3>5, <3>6, TableStoreFails DEF TableStep
  <2>5. CASE ~exhausted /\ tx # None
    <3>1. l.hand = loc[q].hand /\ rx' = rx /\ label \in Storing
      BY <2>1, <2>2, <2>3, <2>5 DEF Storing
    <3>. HIDE DEF l, label, exhausted, id
    <3>. QED BY <1>r, <1>f, <2>1, <3>1
  <2>. QED BY <2>4, <2>5
<1>b. ASSUME NEW s, BeginClaim(q, s), pc[q] = "probe", UNCHANGED <<meta, sender, rx>>
      PROVE  PlaceInv' /\ TableStep
  <2>1. CASE loc[q].hand = None
    <3>1. Blank.hand = None /\ pc[q] \in Storing
      BY <1>b DEF Blank, Walk, Storing
    <3>. QED BY <1>b, <1>f, <2>1, <3>1 DEF BeginClaim, Goto
  <2>2. CASE loc[q].hand # None
    <3>1. [loc[q] EXCEPT !.slot = s].hand = loc[q].hand
      BY <1>t DEF Locals
    <3>2. loc' = [loc EXCEPT ![q] = [loc[q] EXCEPT !.slot = s]]
          /\ pc' = [pc EXCEPT ![q] = "claim"]
      BY <1>b, <2>2 DEF BeginClaim, Goto
    <3>3. pc[q] \in Storing /\ "claim" \in Storing
      BY <1>b DEF Storing
    <3>. QED BY <1>b, <1>f, <3>1, <3>2, <3>3
  <2>. QED BY <2>1, <2>2
<1>n. ASSUME NextStep(q), pc[q] = "probe", UNCHANGED <<meta, sender, rx, pc>>
      PROVE  PlaceInv' /\ TableStep
  <2>1. [loc[q] EXCEPT !.step = loc[q].step + 1].hand = loc[q].hand
    BY <1>t DEF Locals
  <2>2. loc' = [loc EXCEPT ![q] = [loc[q] EXCEPT !.step = loc[q].step + 1]]
    BY <1>n DEF NextStep
  <2>3. pc[q] \in Storing
    BY <1>n DEF Storing
  <2>. QED BY <1>n, <1>f, <2>1, <2>2, <2>3
<1>1. CASE StoreStart(q)
  <2>1. loc' = [loc EXCEPT ![q] = Walk(nextId, nextId, q)]
        /\ pc' = [pc EXCEPT ![q] = "probe"]
    BY <1>1 DEF StoreStart, Goto
  <2>2. Others(q) /\ pc'[q] = "probe" /\ loc'[q] = Walk(nextId, nextId, q)
    BY <1>t, <2>1, OneThread
  <2>3. loc'[q].hand = q
    BY <2>2 DEF Walk
  <2>. QED BY <1>1, <2>2, <2>3, TableStoreStart DEF StoreStart, TableStep
<1>2. CASE ProbeFree(q)
  BY <1>2, <1>b DEF ProbeFree
<1>3. CASE ProbeTombstone(q)
  <2>. DEFINE next == [loc[q] EXCEPT !.step = loc[q].step + 1]
              l == IF next.tomb # NoSlot THEN next
                   ELSE [next EXCEPT !.tomb = Probed(q)]
  <2>1. l.hand = loc[q].hand
    BY <1>t DEF Locals
  <2>2. loc' = [loc EXCEPT ![q] = l] /\ pc[q] \in Storing
    BY <1>3 DEF ProbeTombstone, Storing
  <2>. HIDE DEF l
  <2>. QED BY <1>3, <1>f, <2>1, <2>2 DEF ProbeTombstone
<1>4. CASE ProbeOccupied(q)
  <2>0. pc[q] \in Storing
    BY <1>4 DEF ProbeOccupied, Storing
  <2>1. CASE meta[Probed(q)].id = loc[q].id
    BY <1>4, <1>r, <2>0, <2>1 DEF ProbeOccupied
  <2>2. CASE meta[Probed(q)].id # loc[q].id
    BY <1>4, <1>n, <2>2 DEF ProbeOccupied
  <2>. QED BY <2>1, <2>2
<1>5. CASE ProbeEnd(q)
  <2>1. CASE loc[q].tomb # NoSlot
    BY <1>5, <1>b, <2>1 DEF ProbeEnd
  <2>2. CASE loc[q].tomb = NoSlot
    <3>1. pc[q] \in Storing /\ Blank.hand = None
      BY <1>5 DEF ProbeEnd, Storing, Blank, Walk
    <3>. QED BY <1>5, <1>x, <2>2, <3>1 DEF ProbeEnd, Goto
  <2>. QED BY <2>1, <2>2
<1>6. CASE Claim(q)
  <2>1. sender[loc[q].slot] = None
    BY <1>6, <1>t DEF Claim, OwnInv, SlotContent
  <2>2. pc[q] \in Storing /\ "write" \in Storing
    BY <1>6 DEF Claim, Storing
  <2>3. \A s \in Slots : \/ meta'[s] = meta[s]
                         \/ meta[s].state # "RESERVED" /\ sender[s] = None
    BY <1>6, <1>t, <2>1 DEF Claim
  <2>. QED BY <1>6, <1>f, <2>2, <2>3 DEF Claim, Goto
<1>7. CASE ClaimLost(q)
  <2>1. pc[q] \in Storing
    BY <1>7 DEF ClaimLost, Storing
  <2>. QED BY <1>7, <1>r, <2>1 DEF ClaimLost
<1>8. CASE Publish(q)
  BY <1>8, <1>t, TablePublish DEF TableStep, Table!Next
<1>9. CASE CountStored(q)
  <2>1. Others(q) /\ pc'[q] = "stored" /\ loc' = loc /\ pc[q] = "count"
    BY <1>9, <1>t, OneThread DEF CountStored, Goto
  <2>2. PlaceOf(q)' /\ HandInv(q)' /\ ~Unpublished(q)' /\ Armed(q) /\ Armed(q)'
        /\ ~Detached(q) /\ ~Detached(q)'
    BY <1>t, <1>i, <2>1 DEF PlaceOf, HandInv, Unpublished, Armed, Detached, Storing,
       Leaving, Looking, Clearing
  <2>. QED BY <1>9, <1>t, <2>1, <2>2, OthersClosing, InvisibleStep DEF CountStored, TableStep
<1>. QED
  BY <1>1, <1>2, <1>3, <1>4, <1>5, <1>6, <1>7, <1>8, <1>9 DEF Store

\* The guard of a query is gone: the table sees a Disarm, and nothing when the
\* thread is the listener.
LEMMA TableGone ==
    ASSUME PlaceInv, OwnInv', NEW p \in Queries \cup {Listener}, Others(p),
           Armed(p), pc'[p] = (IF p = Listener THEN "idle" ELSE "done"),
           loc[p].hand = None, loc'[p] = Blank, UNCHANGED <<meta, sender, rx>>
    PROVE  PlaceInv' /\ TableStep
<1>t. /\ OwnInv /\ p \in Procs \ {Closer} /\ Listener \notin Queries
      /\ Guards \in [Queries -> Ids \cup {IdSpace}] /\ IdSpace \notin Ids
      /\ p \in Queries => Guards[p] \in Ids
  BY Types, ProcsAssumption DEF PlaceInv, Procs, Guards
<1>l. loc'[p].hand = None
  BY DEF Blank, Walk
<1>1. PlaceOf(p)' /\ HandInv(p)'
  BY <1>t, <1>l, ProcsAssumption DEF PlaceOf, HandInv, Storing, Leaving, Looking, Clearing
<1>2. /\ ~Unpublished(p)' /\ (p \in Queries => ~Armed(p)')
      /\ ~Detached(p) /\ ~Detached(p)' /\ pc[p] # "start" /\ pc'[p] # "start"
  BY <1>t, <1>l DEF Unpublished, Armed, Detached, Storing
<1>3. PlaceInv' /\ Entries' = Entries
  BY <1>t, <1>l, <1>1, <1>2, QuietStep
<1>4. SameClosing
  BY <1>t, OthersClosing
<1>5. CASE p = Listener
  <2>1. Guards' = Guards
    BY <1>t, <1>5, GuardsKept
  <2>. QED BY <1>3, <1>4, <2>1, TableQuiet DEF TableStep
<1>6. CASE p \in Queries
  <2>1. Guards' = [Guards EXCEPT ![p] = IdSpace]
    BY <1>t, <1>6, <1>2, GuardsSet
  <2>2. Guards[p] # IdSpace
    BY <1>t, <1>6
  <2>3. Table!Disarm(p)
    BY <1>3, <1>4, <2>1, <2>2 DEF Table!Disarm, SameClosing
  <2>. QED BY <1>3, <1>6, <2>3 DEF TableStep, Table!Next
<1>. QED BY <1>5, <1>6

\* A detach returns the sender it took out.
LEMMA TableReturn ==
    ASSUME PlaceInv, OwnInv', NEW p \in Queries \cup {Listener}, Return(p),
           pc[p] \in {"lookup", "check", "reset"}, UNCHANGED <<meta, sender>>
    PROVE  PlaceInv' /\ TableStep
<1>t. /\ OwnInv /\ TypeInv /\ p \in Procs \ {Closer} /\ Listener \notin Queries
      /\ pc \in [Procs -> PCs] /\ loc \in [Procs -> Locals]
      /\ loc[p].id \in Ids /\ IdSpace \notin Ids
      /\ loc[p].hand \in Queries \cup {None} /\ None \notin Queries
  BY Types, ProcsAssumption DEF PlaceInv, OwnInv, Procs
<1>i. HandInv(p) /\ PlaceOf(p)
  BY <1>t DEF PlaceInv
<1>. DEFINE label == IF p = Listener THEN "idle" ELSE "done"
<1>0. pc' = [pc EXCEPT ![p] = label] /\ loc' = [loc EXCEPT ![p] = Blank]
  BY DEF Return, Goto
<1>o. Others(p) /\ pc'[p] = label /\ loc'[p] = Blank
  <2>. HIDE DEF label
  <2>. QED BY <1>0, <1>t, OneThread
<1>a. Armed(p) /\ Blank.hand = None
  BY DEF Armed, Blank, Walk
<1>1. CASE loc[p].hand = None
  <2>1. rx' = rx
    BY <1>1 DEF Return
  <2>. QED BY <1>1, <1>t, <1>o, <1>a, <2>1, TableGone
<1>2. CASE loc[p].hand # None
  <2>1. PICK q \in Queries : q = loc[p].hand
    BY <1>2, <1>t
  <2>2. rx' = [rx EXCEPT ![q] = Answer(p)]
    BY <1>2, <2>1 DEF Return
  <2>3. pc[p] \in Leaving
    BY <1>2, <1>i DEF HandInv, Storing, Leaving
  <2>4. Answer(p) \in {"answered", "dropped"}
    BY DEF Answer
  <2>5. pc'[p] \notin Storing \cup Leaving \cup {"start", "move"}
    BY <1>o DEF Storing, Leaving
  <2>6. PlaceOf(p)' /\ ~Unpublished(p)' /\ (~Armed(p)' \/ p \notin Queries)
    BY <1>o, <1>t, ProcsAssumption
    DEF PlaceOf, Unpublished, Armed, Storing, Looking, Leaving, Clearing
  <2>7. PlaceInv' /\ Table!Leave(q, loc[p].id, Answer(p))
    BY <1>t, <1>o, <1>a, <2>1, <2>2, <2>3, <2>4, <2>5, <2>6, TableLeave
  <2>8. SameClosing
    BY <1>t, <1>o, OthersClosing
  <2>9. CASE p = Listener
    <3>1. Guards' = Guards
      BY <1>t, <1>o, <2>9, GuardsKept
    <3>2. Table!Take(loc[p].id)
      BY <2>7, <2>8, <2>9, <3>1 DEF Table!Take, SameClosing, Answer
    <3>. QED BY <1>t, <2>7, <3>2 DEF TableStep, Table!Next
  <2>10. CASE p \in Queries
    <3>1. Guards' = [Guards EXCEPT ![p] = IdSpace]
      BY <1>t, <1>o, <2>6, <2>10, GuardsSet
    <3>2. Guards[p] = loc[p].id
      BY <1>a, <2>10 DEF Guards
    <3>3. Answer(p) = "dropped"
      BY <1>t, <2>10 DEF Answer
    <3>4. Table!Remove(p)
      BY <1>t, <2>7, <2>8, <3>1, <3>2, <3>3 DEF Table!Remove, SameClosing
    <3>. QED BY <2>7, <2>10, <3>4 DEF TableStep, Table!Next
  <2>. QED BY <2>9, <2>10
<1>. QED BY <1>1, <1>2

LEMMA TableLookup ==
    ASSUME PlaceInv, OwnInv', NEW p \in Queries \cup {Listener}, Lookup(p)
    PROVE  PlaceInv' /\ TableStep
<1>t. /\ OwnInv /\ TypeInv /\ p \in Procs \ {Closer}
      /\ meta \in [Slots -> Metas] /\ sender \in [Slots -> Queries \cup {None}]
      /\ pc \in [Procs -> PCs] /\ loc \in [Procs -> Locals]
      /\ loc[p].slot \in Slots /\ loc[p].id \in Ids
  BY Types, ProcsAssumption DEF PlaceInv, OwnInv, Procs
<1>i. HandInv(p) /\ PlaceOf(p)
  BY <1>t DEF PlaceInv
\* A step within the look-up.
<1>f. ASSUME NEW label, NEW l, UNCHANGED <<sender, rx>>,
             \/ pc[p] \in {"lookup", "detach"} /\ label \in {"lookup", "detach", "move"}
             \/ pc[p] \in Leaving /\ label \in Leaving,
             l.hand = loc[p].hand, l.id = loc[p].id,
             \A s \in Slots : /\ sender[s] # None => meta'[s].id = meta[s].id
                              /\ meta'[s] = meta[s] \/ meta[s].state # "RESERVED",
             label = "move" => meta'[l.slot] = Reserved(l.id),
             pc' = [pc EXCEPT ![p] = label] \/ (pc' = pc /\ label = pc[p]),
             loc' = [loc EXCEPT ![p] = l] \/ (loc' = loc /\ l = loc[p])
      PROVE  PlaceInv' /\ TableStep
  <2>1. Others(p) /\ pc'[p] = label /\ loc'[p] = l
    BY <1>f, <1>t, OneThread
  <2>2. PlaceOf(p)' /\ HandInv(p)'
    <3>1. CASE pc[p] \in Leaving /\ label \in Leaving
      BY <1>f, <1>t, <1>i, <2>1, <3>1, ProcsAssumption
      DEF PlaceOf, HandInv, Storing, Leaving, Looking, Clearing
    <3>2. CASE pc[p] \in {"lookup", "detach"} /\ label \in {"lookup", "detach", "move"}
      <4>1. l.hand = None
        BY <1>f, <1>i, <3>2 DEF HandInv, Storing, Leaving
      <4>2. PlaceOf(p)'
        BY <1>t, <1>i, <2>1, <3>2, ProcsAssumption
        DEF PlaceOf, Looking, Clearing
      <4>. QED BY <1>f, <2>1, <3>2, <4>1, <4>2 DEF HandInv, Storing, Leaving
    <3>. QED BY <1>f, <3>1, <3>2
  <2>3. Armed(p) /\ Armed(p)' /\ ~Unpublished(p)' /\ (Detached(p)' <=> Detached(p))
        /\ pc[p] # "start" /\ pc'[p] # "start"
    BY <1>f, <2>1 DEF Armed, Unpublished, Detached, Storing, Leaving
  <2>4. PlaceInv' /\ UNCHANGED Table!vars
    BY <1>f, <1>t, <2>1, <2>2, <2>3, OthersClosing, InvisibleStep
  <2>. QED BY <2>4 DEF TableStep
<1>n. ASSUME NextStep(p), NEW label, UNCHANGED <<sender, rx>>,
             \/ pc[p] \in {"lookup", "detach"} /\ label = "lookup"
             \/ pc[p] \in Leaving /\ label \in Leaving,
             \A s \in Slots : /\ sender[s] # None => meta'[s].id = meta[s].id
                              /\ meta'[s] = meta[s] \/ meta[s].state # "RESERVED",
             pc' = [pc EXCEPT ![p] = label] \/ (pc' = pc /\ label = pc[p])
      PROVE  PlaceInv' /\ TableStep
  <2>. DEFINE l == [loc[p] EXCEPT !.step = loc[p].step + 1]
  <2>1. l.hand = loc[p].hand /\ l.id = loc[p].id
    BY <1>t DEF Locals
  <2>2. loc' = [loc EXCEPT ![p] = l]
    BY <1>n DEF NextStep
  <2>3. label # "move"
    BY <1>n DEF Leaving
  <2>. HIDE DEF l
  <2>. QED BY <1>n, <1>f, <2>1, <2>2, <2>3
<1>1. CASE LookupEmpty(p)
  BY <1>1, TableReturn DEF LookupEmpty
<1>2. CASE LookupEnd(p)
  BY <1>2, TableReturn DEF LookupEnd
<1>3. CASE LookupOther(p)
  BY <1>3, <1>n DEF LookupOther
<1>4. CASE LookupMatch(p)
  <2>1. [loc[p] EXCEPT !.slot = Probed(p)].hand = loc[p].hand
        /\ [loc[p] EXCEPT !.slot = Probed(p)].id = loc[p].id
    BY <1>t DEF Locals
  <2>. QED BY <1>4, <1>f, <2>1 DEF LookupMatch, Goto
<1>5. CASE Detach(p)
  <2>1. /\ meta'[loc[p].slot] = Reserved(loc[p].id)
        /\ \A s \in Slots : /\ meta'[s].id = meta[s].id
                            /\ meta'[s] = meta[s] \/ meta[s].state # "RESERVED"
    BY <1>5, <1>t DEF Detach, Full, Reserved
  <2>. QED BY <1>5, <1>f, <2>1 DEF Detach, Goto
<1>6. CASE DetachLost(p)
  BY <1>6, <1>n DEF DetachLost, Goto
<1>7. CASE Bury(p)
  BY <1>7, TableBury DEF TableStep
<1>8. CASE CountDetached(p)
  BY <1>8, <1>f DEF CountDetached, Goto, Leaving
<1>9. CASE CheckEmpty(p)
  <2>1. CASE size = 0
    BY <1>9, <1>f, <2>1 DEF CheckEmpty, Goto, Leaving
  <2>2. CASE size # 0
    BY <1>9, <2>2, TableReturn DEF CheckEmpty
  <2>. QED BY <2>1, <2>2
<1>10. CASE ResetSlot(p)
  <2>1. \A s \in Slots : /\ sender[s] # None => meta'[s].id = meta[s].id
                         /\ meta'[s] = meta[s] \/ meta[s].state # "RESERVED"
    BY <1>10, <1>t, StateFacts DEF ResetSlot, Empty, Tombstone
  <2>2. pc[p] \in Leaving
    BY <1>10 DEF ResetSlot, Leaving
  <2>. QED BY <1>10, <1>n, <2>1, <2>2 DEF ResetSlot
<1>11. CASE ResetEnd(p)
  BY <1>11, TableReturn DEF ResetEnd
<1>. QED
  BY <1>1, <1>2, <1>3, <1>4, <1>5, <1>6, <1>7, <1>8, <1>9, <1>10, <1>11
  DEF Lookup

LEMMA TableClear ==
    ASSUME PlaceInv, OwnInv', Clear
    PROVE  PlaceInv' /\ TableStep
<1>t. /\ OwnInv /\ TypeInv /\ Closer \in Procs /\ Closer # Listener
      /\ Closer \notin Queries
      /\ meta \in [Slots -> Metas] /\ sender \in [Slots -> Queries \cup {None}]
      /\ pc \in [Procs -> PCs] /\ loc \in [Procs -> Locals]
      /\ loc[Closer].slot \in Slots
  BY Types, ProcsAssumption DEF PlaceInv, OwnInv, Procs
<1>i. HandInv(Closer) /\ PlaceOf(Closer)
  BY <1>t DEF PlaceInv
<1>f. ASSUME NEW label, NEW l, UNCHANGED <<sender, rx>>,
             pc[Closer] \in {"idle"} \cup Clearing, label \in Clearing,
             l.hand = None,
             \A s \in Slots : /\ sender[s] # None => meta'[s].id = meta[s].id
                              /\ meta'[s] = meta[s] \/ meta[s].state # "RESERVED",
             pc' = [pc EXCEPT ![Closer] = label] \/ (pc' = pc /\ label = pc[Closer]),
             loc' = [loc EXCEPT ![Closer] = l] \/ (loc' = loc /\ l = loc[Closer])
      PROVE  /\ PlaceInv' /\ Entries' = Entries /\ Guards' = Guards
             /\ pc'[Closer] # "idle"
  <2>1. Others(Closer) /\ pc'[Closer] = label /\ loc'[Closer] = l
    BY <1>f, <1>t, OneThread
  <2>2. loc[Closer].hand = None
    BY <1>f, <1>i DEF HandInv, Storing, Leaving, Clearing
  <2>3. PlaceOf(Closer)' /\ HandInv(Closer)'
    BY <1>f, <1>t, <2>1 DEF PlaceOf, HandInv, Storing, Leaving, Clearing
  <2>4. /\ ~Unpublished(Closer)' /\ ~Detached(Closer) /\ ~Detached(Closer)'
        /\ pc[Closer] # "start" /\ pc'[Closer] # "start" /\ pc'[Closer] # "idle"
    BY <1>f, <2>1, <2>2 DEF Unpublished, Detached, Storing, Clearing
  <2>5. PlaceInv' /\ Entries' = Entries
    BY <1>f, <1>t, <2>1, <2>2, <2>3, <2>4, QuietStep
  <2>6. Guards' = Guards
    BY <1>t, <2>1, GuardsKept
  <2>. QED BY <2>4, <2>5, <2>6
<1>g. ASSUME PlaceInv', Entries' = Entries, Guards' = Guards, rx' = rx,
             pc'[Closer] # "idle", pc[Closer] # "idle"
      PROVE  PlaceInv' /\ TableStep
  BY <1>g, TableQuiet DEF TableStep, SameClosing
<1>h. pc[Closer] \in Clearing => loc[Closer].hand = None
  BY <1>i DEF HandInv, Storing, Leaving, Clearing
<1>n. ASSUME NextStep(Closer), pc[Closer] \in {"clear", "clearTombstone"},
             UNCHANGED <<sender, rx>>,
             \A s \in Slots : /\ sender[s] # None => meta'[s].id = meta[s].id
                              /\ meta'[s] = meta[s] \/ meta[s].state # "RESERVED",
             pc' = [pc EXCEPT ![Closer] = "clear"]
      PROVE  PlaceInv' /\ TableStep
  <2>. DEFINE l == [loc[Closer] EXCEPT !.step = loc[Closer].step + 1]
  <2>0. pc[Closer] \in Clearing /\ "clear" \in Clearing /\ pc[Closer] # "idle"
    BY <1>n DEF Clearing
  <2>1. l.hand = None
    BY <1>t, <1>h, <2>0 DEF Locals
  <2>2. loc' = [loc EXCEPT ![Closer] = l]
    BY <1>n DEF NextStep
  <2>. HIDE DEF l
  <2>. QED BY <1>n, <1>f, <1>g, <2>0, <2>1, <2>2
<1>1. CASE ClearStart
  <2>1. /\ PlaceInv' /\ Entries' = Entries /\ Guards' = Guards
        /\ pc'[Closer] # "idle"
    <3>1. loc[Closer].hand = None
      BY <1>1, <1>i DEF ClearStart, HandInv, Storing, Leaving
    <3>. QED BY <1>1, <1>f, <3>1 DEF ClearStart, Goto, Clearing
  <2>2. Table!ClearStart
    BY <1>1, <2>1 DEF Table!ClearStart, ClearStart
  <2>. QED BY <2>1, <2>2 DEF TableStep, Table!Next
<1>2. CASE ClearEmpty
  <2>1. pc' = [pc EXCEPT ![Closer] = "clear"]
    BY <1>2, <1>t DEF ClearEmpty
  <2>. QED BY <1>2, <1>n, <2>1 DEF ClearEmpty
<1>3. CASE ClearTombstoneSeen
  BY <1>3, <1>f, <1>g, <1>h DEF ClearTombstoneSeen, Goto, Clearing
<1>4. CASE ClearTombstone
  <2>1. \A s \in Slots : /\ sender[s] # None => meta'[s].id = meta[s].id
                         /\ meta'[s] = meta[s] \/ meta[s].state # "RESERVED"
    BY <1>4, <1>t, StateFacts DEF ClearTombstone, Empty, Tombstone
  <2>. QED BY <1>4, <1>n, <2>1 DEF ClearTombstone, Goto
<1>5. CASE ClearClaim
  <2>1. [loc[Closer] EXCEPT !.slot = loc[Closer].step].hand = None
    BY <1>5, <1>t, <1>h DEF ClearClaim, Clearing, Locals
  <2>2. \A s \in Slots : /\ meta'[s].id = meta[s].id
                         /\ meta'[s] = meta[s] \/ meta[s].state # "RESERVED"
    BY <1>5, <1>t DEF ClearClaim, Reserved
  <2>. QED BY <1>5, <1>f, <1>g, <2>1, <2>2 DEF ClearClaim, Goto, Clearing
<1>6. CASE ClearDrop
  <2>1. PICK k \in Slots : k = loc[Closer].slot
    BY <1>t
  <2>2. sender[k] # None
    BY <1>6, <1>t, <2>1 DEF ClearDrop, OwnInv, ThreadContent
  <2>3. PICK q \in Queries : q = sender[k]
    BY <1>t, <2>1, <2>2
  <2>4. meta[k].id \in Ids
    <3>1. Held(q, meta[k].id)
      BY <2>1, <2>3 DEF Held
    <3>2. <<q, meta[k].id>> \in Entries
      BY <3>1, <2>2, <2>3, EntriesHeld
    <3>. QED BY <1>t, <3>2, EntriesTyped
  <2>5. Others(Closer) /\ pc'[Closer] = "clear"
        /\ loc'[Closer] = [Blank EXCEPT !.step = loc[Closer].step + 1]
    BY <1>6, <1>t, OneThread DEF ClearDrop, Goto
  <2>6. loc'[Closer].hand = None
    BY <2>5 DEF Blank, Walk
  <2>7. loc[Closer].hand = None /\ pc[Closer] = "drop"
    BY <1>6, <1>h DEF ClearDrop, Clearing
  <2>8. /\ PlaceOf(Closer)' /\ ~Unpublished(Closer)'
        /\ pc'[Closer] \notin Storing \cup Leaving \cup {"start", "move"}
    BY <1>t, <2>5 DEF PlaceOf, Unpublished, Storing, Leaving, Clearing
  <2>9. /\ rx' = [rx EXCEPT ![q] = "dropped"]
        /\ meta' = [meta EXCEPT ![loc[Closer].slot] = Empty]
        /\ sender' = [sender EXCEPT ![loc[Closer].slot] = None]
    BY <1>6, <2>1, <2>3 DEF ClearDrop
  <2>10. PlaceInv' /\ Table!Leave(q, meta[k].id, "dropped")
    BY <1>t, <2>1, <2>3, <2>4, <2>5, <2>6, <2>7, <2>8, <2>9, TableLeave
  <2>11. Guards' = Guards
    BY <1>t, <2>5, GuardsKept
  <2>12. Table!ClearOne
    BY <2>4, <2>5, <2>7, <2>10, <2>11 DEF Table!ClearOne
  <2>. QED BY <2>10, <2>12 DEF TableStep, Table!Next
<1>7. CASE ClearEnd
  BY <1>7, <1>f, <1>g, <1>h DEF ClearEnd, Goto, Clearing
<1>. QED
  BY <1>1, <1>2, <1>3, <1>4, <1>5, <1>6, <1>7 DEF Clear

LEMMA PlaceStep == PlaceInv /\ [Next]_vars => PlaceInv' /\ TableStep
<1>. SUFFICES ASSUME PlaceInv, [Next]_vars PROVE PlaceInv' /\ TableStep
  OBVIOUS
<1>t. /\ OwnInv /\ OwnInv' /\ TypeInv /\ Listener \notin Queries
      /\ pc \in [Procs -> PCs] /\ loc \in [Procs -> Locals]
      /\ meta \in [Slots -> Metas] /\ sender \in [Slots -> Queries \cup {None}]
      /\ Queries \subseteq Procs \ {Closer} /\ Listener \in Procs \ {Closer}
  BY OwnStep, Types, ProcsAssumption DEF PlaceInv, OwnInv, Procs
<1>1. ASSUME NEW q \in Queries, Disarm(q) PROVE PlaceInv' /\ TableStep
  <2>1. loc[q].hand = None
    BY <1>1, <1>t DEF Disarm, PlaceInv, HandInv, Storing, Leaving
  <2>2. Others(q) /\ pc'[q] = "done" /\ loc'[q] = Blank
    BY <1>1, <1>t, OneThread DEF Disarm, Goto
  <2>. QED BY <1>1, <1>t, <2>1, <2>2, TableGone DEF Disarm, Armed
<1>2. ASSUME NEW q \in Queries, RemoveStart(q) PROVE PlaceInv' /\ TableStep
  <2>1. Others(q) /\ pc'[q] = "lookup" /\ loc' = loc /\ pc[q] = "stored"
    BY <1>2, <1>t, OneThread DEF RemoveStart, Goto
  <2>2. HandInv(q) /\ PlaceOf(q)
    BY <1>t DEF PlaceInv
  <2>3. PlaceOf(q)' /\ HandInv(q)' /\ ~Unpublished(q)' /\ Armed(q) /\ Armed(q)'
        /\ ~Detached(q) /\ ~Detached(q)'
    BY <1>t, <2>1, <2>2 DEF PlaceOf, HandInv, Unpublished, Armed, Detached, Storing,
       Leaving, Looking, Clearing
  <2>. QED
    BY <1>2, <1>t, <2>1, <2>3, OthersClosing, InvisibleStep DEF RemoveStart, TableStep
<1>3. CASE TakeStart
  <2>0. PICK id \in Ids : loc' = [loc EXCEPT ![Listener] = Walk(id, 0, None)]
    BY <1>3 DEF TakeStart
  <2>1. Others(Listener) /\ pc'[Listener] = "lookup" /\ loc'[Listener] = Walk(id, 0, None)
        /\ pc[Listener] = "idle"
    BY <1>3, <1>t, <2>0, OneThread DEF TakeStart, Goto
  <2>2. loc'[Listener].hand = None /\ loc[Listener].hand = None
    BY <1>t, <2>1 DEF Walk, PlaceInv, HandInv, Storing, Leaving
  <2>3. PlaceOf(Listener)' /\ HandInv(Listener)' /\ ~Unpublished(Listener)'
        /\ ~Detached(Listener) /\ ~Detached(Listener)'
    BY <1>t, <2>1, <2>2, ProcsAssumption
    DEF PlaceOf, HandInv, Unpublished, Detached, Storing, Leaving, Looking, Clearing
  <2>. QED
    BY <1>3, <1>t, <2>1, <2>2, <2>3, OthersClosing, InvisibleStep DEF TakeStart, TableStep
<1>4. CASE Churn
  <2>1. PICK k \in Slots :
          /\ ~ Occupied(ProbeIndex(nextId, k))
          /\ meta' = IF size = 0
                     THEN Drained([meta EXCEPT ![ProbeIndex(nextId, k)] = Empty])
                     ELSE [meta EXCEPT ![ProbeIndex(nextId, k)] = Tombstone]
    BY <1>4 DEF Churn
  <2>2. PICK h \in Slots : h = ProbeIndex(nextId, k)
    <3>1. k \in Nat /\ nextId \in Ids
      BY <1>t, NextIdInIds, SizesAssumption DEF Slots, TypeInv, TypeOK
    <3>. QED BY <3>1, ProbeIndexInSlots
  <2>3. meta[h].state \in {"EMPTY", "TOMBSTONE"} /\ sender[h] = None
    BY <1>t, <2>1, <2>2, StateFacts DEF OwnInv, SlotContent, Occupied, Metas
  <2>4. \A s \in Slots : /\ sender[s] # None => meta'[s].id = meta[s].id
                         /\ meta'[s] = meta[s] \/ meta[s].state # "RESERVED"
    BY <1>t, <2>1, <2>2, <2>3, StateFacts DEF Drained, Tombstone, Empty
  <2>5. Others(Listener) /\ UNCHANGED <<pc, loc, sender, rx>>
    BY <1>4 DEF Churn, Others
  <2>6. HandInv(Listener) /\ PlaceOf(Listener) /\ pc[Listener] # "move"
    BY <1>4, <1>t DEF PlaceInv, Churn, Quiescent, Procs
  <2>7. /\ PlaceOf(Listener)' /\ HandInv(Listener)'
        /\ (Unpublished(Listener)' => Unpublished(Listener))
        /\ (Detached(Listener)' <=> Detached(Listener))
    BY <2>5, <2>6 DEF PlaceOf, HandInv, Unpublished, Detached
  <2>. QED
    BY <1>t, <2>4, <2>5, <2>7, OthersClosing, InvisibleStep DEF TableStep
<1>5. CASE UNCHANGED vars
  <2>1. PlaceInv'
    BY <1>5, <1>t DEF vars, PlaceInv, SenderInOnePlace, InHand, InSlot, PlaceOf,
       HandInv, SecretInv, StartInv, IdInv, Unpublished, Armed
  <2>2. UNCHANGED Table!vars
    BY <1>5 DEF vars, Table!vars, Entries, Detached, Guards, Armed
  <2>. QED BY <2>1, <2>2 DEF TableStep
<1>. QED
  BY <1>1, <1>2, <1>3, <1>4, <1>5, <1>t, TableStore, TableLookup, TableClear
  DEF Next, QueryStep, ListenerStep

LEMMA PlaceInit == Init => PlaceInv /\ Table!Init
<1>. SUFFICES ASSUME Init PROVE PlaceInv /\ Table!Init
  OBVIOUS
<1>1. OwnInv
  BY OwnInit
<1>2. /\ \A p \in Procs : loc[p].hand = None /\ pc[p] \in {"start", "idle"}
      /\ \A q \in Queries : pc[q] = "start" /\ rx[q] = "open"
      /\ \A s \in Slots : sender[s] = None
      /\ pc[Listener] = "idle" /\ pc[Closer] = "idle"
  BY ProcsAssumption DEF Init, Blank, Walk, Procs
<1>3. SenderInOnePlace
  BY <1>2, ProcsAssumption DEF SenderInOnePlace, InHand, InSlot
<1>4. \A p \in Procs : PlaceOf(p) /\ HandInv(p)
  BY <1>2, ProcsAssumption DEF PlaceOf, HandInv, Storing, Leaving, Clearing
<1>5. \A q \in Queries : SecretInv(q) /\ StartInv(q) /\ IdInv(q)
  BY <1>2, ProcsAssumption, Types, <1>1 DEF SecretInv, StartInv, IdInv, Unpublished, Armed
<1>6. Entries = {}
  BY <1>2 DEF Entries, Detached
<1>7. Guards = [q \in Queries |-> IdSpace]
  BY <1>2 DEF Guards, Armed
<1>8. rx = [q \in Queries |-> "open"]
  BY DEF Init
<1>. QED
  BY <1>1, <1>2, <1>3, <1>4, <1>5, <1>6, <1>7, <1>8 DEF PlaceInv, Table!Init

\* A sender is neither duplicated nor leaked, whatever stores, detaches and the
\* clear do to its slot.
THEOREM SendersInOnePlace == Spec => []SenderInOnePlace
<1>1. PlaceInv => SenderInOnePlace
  BY DEF PlaceInv
<1>. QED BY PlaceInit, PlaceStep, <1>1, PTL DEF Spec

\* The listener only ever answers a query under the id its guard stands for.
THEOREM ResponsesReachTheirQuery == Spec => []ResponseGoesToItsQuery
<1>1. PlaceInv => ResponseGoesToItsQuery
  <2>. SUFFICES ASSUME PlaceInv PROVE ResponseGoesToItsQuery
    OBVIOUS
  <2>. DEFINE q == loc[Listener].hand
  <2>. SUFFICES ASSUME q # None, pc[q] # "done" PROVE loc[q].id = loc[Listener].id
    BY DEF ResponseGoesToItsQuery
  <2>1. /\ Listener \in Procs /\ Listener \notin Queries /\ q \in Queries
        /\ pc \in [Procs -> PCs] /\ Queries \subseteq Procs
    BY Types, ProcsAssumption DEF PlaceInv, Procs
  <2>2. SecretInv(q) /\ IdInv(q) /\ PlaceOf(q)
    BY <2>1 DEF PlaceInv
  <2>3. ~Unpublished(q)
    BY <2>1, <2>2 DEF SecretInv
  <2>4. Armed(q)
    BY <2>1, <2>2, <2>3 DEF Unpublished, Armed, PlaceOf, PCs, Storing, Clearing
  <2>. QED BY <2>1, <2>2, <2>4 DEF IdInv
<1>. QED BY PlaceInit, PlaceStep, <1>1, PTL DEF Spec

\* The lock-free map implements the table of RequestTable, for every number of
\* queries, slots and ids.
THEOREM MapImplementsTable == Spec => ImplementsTable
<1>1. PlaceInv /\ [Next]_vars => [Table!Next]_(Table!vars)
  BY PlaceStep DEF TableStep
<1>2. PlaceInv /\ [Next]_vars => PlaceInv'
  BY PlaceStep
<1>. QED
  BY PlaceInit, <1>1, <1>2, PTL DEF Spec, ImplementsTable, Table!Spec
=============================================================================
