------------------------------ MODULE CacheProofs ------------------------------
(***************************************************************************)
(* Theorems about Cache, for every page size, file length and size of the  *)
(* map.                                                                    *)
(*                                                                         *)
(* That a page is cached once rests on the order within a call: a page is  *)
(* added only after the map was searched for it, and nothing is added in   *)
(* between.  MissInv states that for the call in progress.                 *)
(***************************************************************************)
EXTENDS Cache, TLAPS, WellFoundedInduction, FiniteSetTheorems

Slot == [cached : BOOLEAN, page : Nat, modified : BOOLEAN, error : BOOLEAN,
         data : [InPage -> Data]]

\* The call will add the page it is at to the map.
WillCache == /\ call.op \in {"Read", "Write"} /\ call.missed
             /\ call.op = "Read" => ~through.read

\* Such a page is not there yet.
MissInv == ~through.write => (WillCache => Cached(call.page) = {})

-----------------------------------------------------------------------------
(* Lemmas. *)

\* An empty slot is a slot.
LEMMA EmptySlotType == EmptySlot \in Slot
<1>1. [k \in InPage |-> NoData] \in [InPage -> Data]
  BY DEF Data
<1> QED
  BY <1>1 DEF EmptySlot, Slot

\* A page has a first cluster.
LEMMA ZeroInPage == 0 \in InPage
BY CacheAssumption DEF InPage

\* The page and the offset of a cluster.
LEMMA DivMod ==
  ASSUME NEW c \in Nat
  PROVE  c \div ClustersPerPage \in Nat /\ c % ClustersPerPage \in InPage
BY CacheAssumption, SMT DEF InPage

\* Between calls there is the idle call.
LEMMA IdleType ==
  Idle \in [op : Ops, missed : BOOLEAN, page : Nat, offset : InPage,
            size : 0 .. FileClusters, value : Data, cells : SUBSET Clusters]
<1>1. 0 \in InPage /\ 0 \in 0 .. FileClusters /\ NoData \in Data /\ "None" \in Ops
  BY CacheAssumption, ZeroInPage DEF Data, Ops
<1> QED
  BY <1>1 DEF Idle

\* What the map has in a slot is a slot.
LEMMA ElementType ==
  ASSUME NEW s \in Seq(Slot), NEW i \in DOMAIN s
  PROVE  s[i] \in Slot
BY SMT

\* FirstOf is the least element of a set of slots.
LEMMA FirstOfLeast ==
  ASSUME NEW S \in SUBSET Nat, S # {}
  PROVE  FirstOf(S) \in S /\ \A j \in S : FirstOf(S) <= j
<1> DEFINE Less == OpToRel(<, Nat)
<1>1. PICK x \in S : \A y \in S : ~ (<<y, x>> \in Less)
  BY NatLessThanWellFounded, WFMin
<1>2. \A y \in S : x <= y
  <2> TAKE y \in S
  <2>1. ~ (y < x)
    BY <1>1 DEF OpToRel
  <2> QED
    BY <2>1
<1> QED
  BY <1>1, <1>2 DEF FirstOf

\* The slots that a search can return are slots of the map.
LEMMA FirstModified ==
  ASSUME slots \in Seq(Slot), ModifiedSlots # {}
  PROVE  FirstOf(ModifiedSlots) \in ModifiedSlots /\ FirstOf(ModifiedSlots) \in DOMAIN slots
<1>1. ModifiedSlots \subseteq DOMAIN slots /\ DOMAIN slots \subseteq Nat
  BY SMT DEF ModifiedSlots
<1> QED
  BY <1>1, FirstOfLeast

\* Changing one slot keeps the map a sequence of slots.
LEMMA ExceptType ==
  ASSUME NEW s \in Seq(Slot), NEW i, NEW e, i \in DOMAIN s => e \in Slot
  PROVE  [s EXCEPT ![i] = e] \in Seq(Slot)
<1>1. CASE i \in DOMAIN s
  BY <1>1, SMT
<1>2. CASE i \notin DOMAIN s
  <2>1. [s EXCEPT ![i] = e] = [j \in DOMAIN s |-> IF j = i THEN e ELSE s[j]]
    BY Zenon
  <2>2. [s EXCEPT ![i] = e] = [j \in DOMAIN s |-> s[j]]
    BY <1>2, <2>1
  <2>3. s = [j \in DOMAIN s |-> s[j]]
    <3>1. s \in [1 .. Len(s) -> Slot]
      BY SMT
    <3> QED
      BY <3>1, Zenon
  <2> QED
    BY <2>2, <2>3
<1> QED
  BY <1>1, <1>2

\* The map with as many slots again is a map.
LEMMA GrownType ==
  ASSUME slots \in Seq(Slot)
  PROVE  Grown \in Seq(Slot)
<1>1. [i \in 1 .. Len(slots) |-> EmptySlot] \in Seq(Slot)
  BY EmptySlotType, SMT
<1> QED
  BY <1>1, SMT DEF Grown

\* The types of a page of data, and of the accepted file.
LEMMA OverwriteType ==
  ASSUME NEW data \in [InPage -> Data], call.value \in Data
  PROVE  Overwrite(data) \in [InPage -> Data]
BY DEF Overwrite

\* An accepted write leaves a file.
LEMMA AcceptedType ==
  ASSUME file \in [Clusters -> Data], call.value \in Data
  PROVE  Accepted \in [Clusters -> Data]
BY DEF Accepted

\* The clusters of a page that the file has.
LEMMA ClustersOfType ==
  ASSUME NEW p, NEW ks
  PROVE  ClustersOf(p, ks) \subseteq Clusters
BY DEF ClustersOf

-----------------------------------------------------------------------------
(* Types. *)

CallType == [op : Ops, missed : BOOLEAN, page : Nat, offset : InPage,
             size : 0 .. FileClusters, value : Data, cells : SUBSET Clusters]

\* What follows a page is a call again.
LEMMA AdvanceType ==
  ASSUME TypeOK, Advance
  PROVE  call' \in CallType
<1>1. CASE IsLastPage
  BY <1>1, IdleType DEF Advance, CallType
<1>2. CASE ~IsLastPage
  <2>1. call \in CallType
    BY DEF TypeOK, CallType
  <2>2. call.size - (ClustersPerPage - call.offset) \in 0 .. FileClusters
    BY <1>2, <2>1, CacheAssumption, SMT DEF CallType, IsLastPage, InPage
  <2>3. call.page + 1 \in Nat
    BY <2>1 DEF CallType
  <2> DEFINE rest == call.size - (ClustersPerPage - call.offset)
             next == call.page + 1
  <2>4. call' = [call EXCEPT !.missed = FALSE, !.page = next, !.offset = 0, !.size = rest]
    BY <1>2 DEF Advance
  <2> HIDE DEF rest, next
  <2>5. next \in Nat /\ rest \in 0 .. FileClusters
    BY <2>2, <2>3 DEF rest, next
  <2> QED
    BY <2>1, <2>4, <2>5, ZeroInPage DEF CallType
<1> QED
  BY <1>1, <1>2

\* Adding a page to the map keeps the types.
LEMMA CacheFilePageType ==
  ASSUME TypeOK, NEW data \in [InPage -> Data], NEW grows \in BOOLEAN, NEW allocates \in BOOLEAN,
         CcpCacheFilePage(data, grows, allocates)
  PROVE  /\ slots' \in Seq(Slot) /\ cachedPages' \in Nat /\ refused' \in BOOLEAN
         /\ file' \in [Clusters -> Data] /\ unread' \in SUBSET Clusters
         /\ unsaved' \in SUBSET Clusters
<1> DEFINE room == IF IsFull /\ grows THEN Grown ELSE slots
           kept == FreeIn(room) # {} /\ allocates
           i == FirstOf(FreeIn(room))
           new == [room[i] EXCEPT !.cached = TRUE, !.page = call.page,
                                  !.modified = FALSE, !.data = data]
<1>1. slots \in Seq(Slot) /\ call \in CallType /\ cachedPages \in Nat /\ refused \in BOOLEAN
      /\ file \in [Clusters -> Data] /\ unread \in SUBSET Clusters /\ unsaved \in SUBSET Clusters
  BY DEF TypeOK, Slot, CallType
<1>2. room \in Seq(Slot)
  BY <1>1, GrownType
<1>3. cachedPages' \in Nat /\ refused' \in BOOLEAN
  BY <1>1 DEF CcpCacheFilePage
<1>4. call.page \in Nat /\ call.value \in Data
  BY <1>1 DEF CallType
<1>5. CASE kept
  <2>1. slots' = [room EXCEPT ![i] = new]
    BY <1>5 DEF CcpCacheFilePage
  <2>2. i \in DOMAIN room => new \in Slot
    <3>1. i \in DOMAIN room => room[i] \in Slot
      BY <1>2, SMT
    <3> QED
      BY <1>4, <3>1 DEF Slot
  <2>3. slots' \in Seq(Slot)
    <3> HIDE DEF room, new, i
    <3> QED
      BY <1>2, <2>1, <2>2, ExceptType
  <2>4. unread' \in SUBSET Clusters
    BY <1>1, <1>5, ClustersOfType DEF CcpCacheFilePage
  <2>5. unsaved' \in SUBSET Clusters /\ file' \in [Clusters -> Data]
    <3>1. Requested \subseteq Clusters
      BY ClustersOfType DEF Requested
    <3> QED
      BY <1>1, <1>4, <1>5, <3>1, AcceptedType DEF CcpCacheFilePage
  <2> QED
    BY <1>3, <2>3, <2>4, <2>5
<1>6. CASE ~kept
  BY <1>1, <1>2, <1>3, <1>6 DEF CcpCacheFilePage
<1> QED
  BY <1>5, <1>6

\* Every variable keeps its type in every step.
LEMMA TypeStep ==
  ASSUME TypeOK, [Next]_vars
  PROVE  TypeOK'
<1> USE DEF Slot, CallType
<1>0. slots \in Seq(Slot) /\ call \in CallType
  BY DEF TypeOK
<1>1. ASSUME NEW t \in [read : BOOLEAN, write : BOOLEAN], CcInitializeFileCaching(t)
      PROVE  TypeOK'
  <2>1. << >> \in Seq(Slot) /\ [i \in 1 .. MinCachedPages |-> EmptySlot] \in Seq(Slot)
    BY EmptySlotType, CacheAssumption, SMT
  <2> QED
    BY <1>1, <2>1 DEF CcInitializeFileCaching, TypeOK
<1>2. ASSUME NEW first \in Clusters, NEW n \in 1 .. FileClusters - first,
             NEW op \in {"Read", "Write"}, NEW value \in Data, NEW missed \in BOOLEAN,
             Begin(op, first, n, value, missed)
      PROVE  TypeOK'
  <2>1. first \in Nat /\ n \in 0 .. FileClusters /\ first .. first + n - 1 \subseteq Clusters
    BY CacheAssumption DEF Clusters
  <2>2. call' \in CallType
    BY <1>2, <2>1, DivMod DEF Begin, Ops
  <2> QED
    BY <1>2, <2>2 DEF Begin, TypeOK, mapVars, history
<1>3. CASE CcpFindAndReadWriteHit
  <2> DEFINE i == FirstOf(Cached(call.page))
  <2>1. call.value \in Data /\ Requested \subseteq Clusters
    BY <1>0, ClustersOfType DEF Requested
  <2>2. CASE call.op = "Read"
    BY <1>3, <2>2, AdvanceType DEF CcpFindAndReadWriteHit, TypeOK
  <2>3. CASE call.op # "Read"
    <3> DEFINE new == [slots[i] EXCEPT !.data = Overwrite(@), !.modified = @ \/ IsLastPage]
    <3>1. slots' = [slots EXCEPT ![i] = new]
      BY <1>3, <2>3 DEF CcpFindAndReadWriteHit
    <3>2. i \in DOMAIN slots => new \in Slot
      <4> SUFFICES ASSUME i \in DOMAIN slots PROVE new \in Slot
        OBVIOUS
      <4>1. slots[i] \in Slot
        <5> HIDE DEF i, Slot
        <5> QED
          BY <1>0, ElementType
      <4>2. Overwrite(slots[i].data) \in [InPage -> Data]
        BY <2>1, <4>1, OverwriteType
      <4>3. (slots[i].modified \/ IsLastPage) \in BOOLEAN
        OBVIOUS
      <4> QED
        BY <4>1, <4>2, <4>3
    <3>3. slots' \in Seq(Slot)
      <4> HIDE DEF i, new, Slot
      <4> QED
        BY <1>0, <3>1, <3>2, ExceptType
    <3>4. file' \in [Clusters -> Data] /\ unread' \subseteq Clusters /\ unsaved' \subseteq Clusters
      BY <1>3, <2>1, <2>3, AcceptedType DEF CcpFindAndReadWriteHit, TypeOK
    <3> QED
      BY <1>3, <3>3, <3>4, AdvanceType DEF CcpFindAndReadWriteHit, TypeOK
  <2> QED
    BY <2>2, <2>3
<1>4. CASE CcpFindAndReadWriteMiss
  BY <1>4 DEF CcpFindAndReadWriteMiss, TypeOK, mapVars, history
<1>5. ASSUME NEW bad \in SUBSET InPage, NEW noMedia \in BOOLEAN, NEW grows \in BOOLEAN,
             NEW allocates \in BOOLEAN, ActualTransfer(bad, noMedia, grows, allocates)
      PROVE  TypeOK'
  <2> DEFINE page == IF call.op = "Read" THEN PageRead(bad) ELSE Overwrite(PageRead(bad))
  <2>1. PageRead(bad) \in [InPage -> Data]
    <3> SUFFICES ASSUME NEW k \in InPage, ClustersOf(call.page, {k}) # {}
                 PROVE  disk[call.page * ClustersPerPage + k] \in Data
      BY DEF PageRead, Data
    <3>1. call.page * ClustersPerPage + k \in Clusters
      BY DEF ClustersOf
    <3> QED
      BY <3>1 DEF TypeOK
  <2>2. page \in [InPage -> Data]
    BY <1>0, <2>1, OverwriteType
  <2>3. CASE CcpCacheFilePage(page, grows, allocates)
    <3> HIDE DEF page
    <3> QED
      BY <1>5, <2>2, <2>3, CacheFilePageType, AdvanceType DEF ActualTransfer, TypeOK
  <2>4. CASE UNCHANGED <<slots, cachedPages, history>>
    BY <1>5, <2>4, AdvanceType DEF ActualTransfer, TypeOK, history
  <2> QED
    BY <1>5, <2>3, <2>4 DEF ActualTransfer
<1>6. ASSUME NEW op \in {"Purge", "Free"}, BeginPurge(op)
      PROVE  TypeOK'
  BY <1>6, IdleType DEF BeginPurge, TypeOK, mapVars, history, Ops
<1>7. ASSUME NEW bad \in SUBSET InPage, CcPurgeCacheFilePage(bad)
      PROVE  TypeOK'
  <2> DEFINE i == FirstOf(ModifiedSlots)
             clean == [slots[i] EXCEPT !.modified = FALSE]
             failed == [slots[i] EXCEPT !.error = TRUE]
  <2>1. i \in DOMAIN slots => clean \in Slot /\ failed \in Slot
    <3>1. i \in DOMAIN slots => slots[i] \in Slot
      <4> HIDE DEF i, Slot
      <4> QED
        BY <1>0, ElementType
    <3> QED
      BY <3>1
  <2>2. slots' = [slots EXCEPT ![i] = clean] \/ slots' = [slots EXCEPT ![i] = failed]
    BY <1>7 DEF CcPurgeCacheFilePage
  <2>3. slots' \in Seq(Slot)
    <3> HIDE DEF i, clean, failed, Slot
    <3> QED
      BY <1>0, <2>1, <2>2, ExceptType
  <2>4. call' \in CallType /\ unsaved' \subseteq Clusters
    BY <1>0, <1>7, IdleType, ClustersOfType DEF CcPurgeCacheFilePage, TypeOK
  <2>5. disk' \in [Clusters -> Data]
    <3> SUFFICES ASSUME NEW c \in ClustersOf(slots[i].page, InPage \ bad)
                 PROVE  slots[i].data[c % ClustersPerPage] \in Data
      BY <1>7 DEF CcPurgeCacheFilePage, TypeOK
    <3>1. c % ClustersPerPage \in InPage
      BY ClustersOfType, DivMod DEF Clusters
    <3>2. slots[i] \in Slot
      <4>1. ModifiedSlots # {}
        BY <1>7 DEF CcPurgeCacheFilePage
      <4> HIDE DEF Slot
      <4> QED
        BY <1>0, <4>1, FirstModified, ElementType
    <3> QED
      BY <3>1, <3>2
  <2> QED
    BY <1>7, <2>3, <2>4, <2>5 DEF CcPurgeCacheFilePage, TypeOK
<1>8. CASE CcPurgeCacheFileEnd
  BY <1>8, IdleType DEF CcPurgeCacheFileEnd, TypeOK, mapVars, history
<1>9. CASE CcFreeCacheMapFree
  <2>1. slots' \in Seq(Slot)
    <3>1. << >> \in Seq(Slot)
      BY SMT
    <3> QED
      BY <1>9, <3>1 DEF CcFreeCacheMapFree
  <2>2. cachedPages' \in Nat
    BY <1>9 DEF CcFreeCacheMapFree
  <2> QED
    BY <1>9, <2>1, <2>2, IdleType DEF CcFreeCacheMapFree, TypeOK, history
<1>10. CASE UNCHANGED vars
  BY <1>10 DEF vars, mapVars, history, TypeOK
<1>11. CASE Request
  <2>1. NoData \in Data /\ Values \subseteq Data /\ through.read \in BOOLEAN /\ through.write \in BOOLEAN
    BY DEF Data, TypeOK
  <2> QED
    BY <1>2, <1>11, <2>1 DEF Request, CcCacheReadFile, CcCacheWriteFile
<1> QED
  BY <1>1, <1>3, <1>4, <1>5, <1>6, <1>7, <1>8, <1>9, <1>10, <1>11
     DEF Next, CcPurgeCacheFile, CcFreeCacheMap

\* Every variable of the cache keeps its type, whatever the device answers.
THEOREM TypeCorrect == Spec => []TypeOK
<1>1. Init => TypeOK
  <2> SUFFICES ASSUME Init PROVE TypeOK
    OBVIOUS
  <2>1. << >> \in Seq(Slot) /\ 0 \in Nat
    BY SMT
  <2>2. slots \in Seq(Slot) /\ cachedPages \in Nat
    BY <2>1 DEF Init
  <2>3. disk \in [Clusters -> Data] /\ file \in [Clusters -> Data]
    BY DEF Init, Data
  <2> QED
    BY <2>2, <2>3, IdleType DEF Init, TypeOK, Slot
<1>2. TypeOK /\ [Next]_vars => TypeOK'
  BY TypeStep
<1> QED
  BY <1>1, <1>2, PTL DEF Spec

-----------------------------------------------------------------------------
(* A page is in the map once. *)

Once(s) == \A i, j \in DOMAIN s :
               s[i].cached /\ s[j].cached /\ s[i].page = s[j].page => i = j
OnceInv == PagesCachedOnce /\ MissInv

\* PagesCachedOnce as a statement about any map.
LEMMA OnceIsOnce == PagesCachedOnce <=> (~through.write => Once(slots))
BY DEF PagesCachedOnce, Once

\* Changes that leave alone which page a slot holds.
LEMMA OnceKept ==
  ASSUME NEW s \in Seq(Slot), Once(s), NEW i, NEW e,
         i \in DOMAIN s => e.cached = s[i].cached /\ e.page = s[i].page
  PROVE  Once([s EXCEPT ![i] = e])
BY DEF Once

\* A page that no slot holds may go anywhere.
LEMMA OnceAdded ==
  ASSUME NEW s \in Seq(Slot), Once(s), NEW i, NEW e,
         \A j \in DOMAIN s : ~ (s[j].cached /\ s[j].page = e.page)
  PROVE  Once([s EXCEPT ![i] = e])
BY DEF Once

\* The slots a map grows by are empty.
LEMMA GrownSlots ==
  ASSUME slots \in Seq(Slot), NEW j \in DOMAIN Grown
  PROVE  \/ j \in DOMAIN slots /\ Grown[j] = slots[j]
         \/ j \notin DOMAIN slots /\ ~Grown[j].cached
<1> DEFINE more == [i \in 1 .. Len(slots) |-> EmptySlot]
<1>1. more \in Seq(Slot) /\ Len(more) = Len(slots)
  BY EmptySlotType, SMT
<1>2. \A i \in 1 .. Len(slots) : ~more[i].cached
  BY DEF EmptySlot
<1>3. Grown = slots \o more
  BY DEF Grown
<1> HIDE DEF more
<1>4. CASE j \in DOMAIN slots
  BY <1>1, <1>3, <1>4, SMT
<1>5. CASE j \notin DOMAIN slots
  <2>1. j - Len(slots) \in 1 .. Len(slots) /\ Grown[j] = more[j - Len(slots)]
    BY <1>1, <1>3, <1>5, SMT
  <2> QED
    BY <1>2, <1>5, <2>1
<1> QED
  BY <1>4, <1>5

\* After a page the call is one that will look for the next page first, or none.
LEMMA AdvanceLooks ==
  ASSUME TypeOK, Advance
  PROVE  ~WillCache'
<1>1. CASE IsLastPage
  BY <1>1 DEF Advance, WillCache, Idle
<1>2. CASE ~IsLastPage
  <2>1. call \in CallType
    BY DEF TypeOK, CallType
  <2>2. call'.missed = FALSE
    BY <1>2, <2>1 DEF Advance, CallType
  <2> QED
    BY <2>2 DEF WillCache
<1> QED
  BY <1>1, <1>2

\* Adding a page that was not in the map.
LEMMA CacheFilePageOnce ==
  ASSUME TypeOK, NEW data, NEW grows \in BOOLEAN, NEW allocates \in BOOLEAN,
         CcpCacheFilePage(data, grows, allocates), Once(slots), Cached(call.page) = {}
  PROVE  Once(slots')
<1> DEFINE room == IF IsFull /\ grows THEN Grown ELSE slots
           kept == FreeIn(room) # {} /\ allocates
           i == FirstOf(FreeIn(room))
           new == [room[i] EXCEPT !.cached = TRUE, !.page = call.page,
                                  !.modified = FALSE, !.data = data]
<1>1. slots \in Seq(Slot)
  BY DEF TypeOK, Slot
<1>2. room \in Seq(Slot)
  BY <1>1, GrownType
<1>3. \A j \in DOMAIN room : room[j].cached => j \in DOMAIN slots /\ room[j] = slots[j]
  BY <1>1, GrownSlots
<1>4. Once(room)
  <2> HIDE DEF room
  <2> QED
    BY <1>3 DEF Once
<1>5. \A j \in DOMAIN room : ~ (room[j].cached /\ room[j].page = call.page)
  <2> HIDE DEF room
  <2> QED
    BY <1>3 DEF Cached
<1>6. CASE kept
  <2>1. slots' = [room EXCEPT ![i] = new]
    BY <1>6 DEF CcpCacheFilePage
  <2>2. i \in FreeIn(room)
    <3>1. FreeIn(room) \in SUBSET Nat
      <4> HIDE DEF room
      <4> QED
        BY <1>2, SMT DEF FreeIn
    <3> QED
      BY <1>6, <3>1, FirstOfLeast
  <2>3. new.page = call.page
    <3>1. room[i] \in Slot
      <4> HIDE DEF room, i
      <4> QED
        BY <1>2, <2>2, ElementType DEF FreeIn
    <3> QED
      BY <3>1 DEF Slot
  <2> HIDE DEF room, i, new
  <2> QED
    BY <1>2, <1>4, <1>5, <2>1, <2>3, OnceAdded
<1>7. CASE ~kept
  <2>1. slots' = room
    BY <1>7 DEF CcpCacheFilePage
  <2> HIDE DEF room
  <2> QED
    BY <1>4, <2>1
<1> QED
  BY <1>6, <1>7

\* No step adds a page that the map has, or leaves a call that would.
LEMMA OnceStep ==
  ASSUME TypeOK, OnceInv, [Next]_vars
  PROVE  OnceInv'
<1>0. slots \in Seq(Slot) /\ call \in CallType
  BY DEF TypeOK, Slot, CallType
<1> SUFFICES ASSUME ~through'.write
             PROVE  Once(slots') /\ (WillCache' => Cached(call.page)' = {})
  BY DEF OnceInv, MissInv, PagesCachedOnce, Once
<1>1. ASSUME NEW t \in [read : BOOLEAN, write : BOOLEAN], CcInitializeFileCaching(t)
      PROVE  Once(slots') /\ Cached(call.page)' = {}
  <2>1. \A i \in DOMAIN slots' : ~slots'[i].cached
    <3>1. CASE slots' = << >>
      BY <3>1
    <3>2. CASE slots' = [i \in 1 .. MinCachedPages |-> EmptySlot]
      BY <3>2 DEF EmptySlot
    <3> QED
      BY <1>1, <3>1, <3>2 DEF CcInitializeFileCaching
  <2> QED
    BY <2>1 DEF Once, Cached
<1>2. ASSUME through' = through
      PROVE  Once(slots) /\ (WillCache => Cached(call.page) = {})
  BY <1>2 DEF OnceInv, MissInv, PagesCachedOnce, Once
<1>3. CASE Request
  <2>1. slots' = slots /\ through' = through
    BY <1>3 DEF Request, CcCacheReadFile, CcCacheWriteFile, Begin, mapVars
  <2>2. ~WillCache'
    BY <1>3, <2>1 DEF Request, CcCacheReadFile, CcCacheWriteFile, Begin, WillCache
  <2> QED
    BY <1>2, <2>1, <2>2
<1>4. CASE CcpFindAndReadWriteHit
  <2> DEFINE i == FirstOf(Cached(call.page))
             new == [slots[i] EXCEPT !.data = Overwrite(@), !.modified = @ \/ IsLastPage]
  <2>1. slots' = slots \/ slots' = [slots EXCEPT ![i] = new]
    BY <1>4 DEF CcpFindAndReadWriteHit
  <2>2. i \in DOMAIN slots => new.cached = slots[i].cached /\ new.page = slots[i].page
    <3>1. i \in DOMAIN slots => slots[i] \in Slot
      <4> HIDE DEF i
      <4> QED
        BY <1>0, ElementType
    <3> QED
      BY <3>1 DEF Slot
  <2>3. through' = through /\ ~WillCache'
    BY <1>4, AdvanceLooks DEF CcpFindAndReadWriteHit
  <2>4. Once(slots')
    <3> HIDE DEF i, new
    <3> QED
      BY <1>0, <1>2, <2>1, <2>2, <2>3, OnceKept
  <2> QED
    BY <2>3, <2>4
<1>5. CASE CcpFindAndReadWriteMiss
  <2>1. slots' = slots /\ through' = through /\ Cached(call.page) = {}
    BY <1>5 DEF CcpFindAndReadWriteMiss, mapVars
  <2>2. call'.page = call.page
    BY <1>0, <1>5 DEF CcpFindAndReadWriteMiss, CallType
  <2> QED
    BY <1>2, <2>1, <2>2 DEF Cached
<1>6. ASSUME NEW bad \in SUBSET InPage, NEW noMedia \in BOOLEAN, NEW grows \in BOOLEAN,
             NEW allocates \in BOOLEAN, ActualTransfer(bad, noMedia, grows, allocates)
      PROVE  Once(slots') /\ ~WillCache'
  <2> DEFINE page == IF call.op = "Read" THEN PageRead(bad) ELSE Overwrite(PageRead(bad))
  <2>1. through' = through /\ ~WillCache'
    BY <1>6, AdvanceLooks DEF ActualTransfer
  <2>2. CASE WillCache /\ CcpCacheFilePage(page, grows, allocates)
    <3> HIDE DEF page
    <3> QED
      BY <1>2, <2>1, <2>2, CacheFilePageOnce
  <2>3. CASE slots' = slots
    BY <1>2, <2>1, <2>3
  <2>4. (WillCache /\ CcpCacheFilePage(page, grows, allocates)) \/ slots' = slots
    BY <1>6 DEF ActualTransfer, WillCache
  <2> QED
    BY <2>1, <2>2, <2>3, <2>4
<1>7. ASSUME NEW op \in {"Purge", "Free"}, BeginPurge(op)
      PROVE  Once(slots') /\ ~WillCache'
  <2>1. slots' = slots /\ through' = through
    BY <1>7 DEF BeginPurge, mapVars
  <2>2. ~WillCache'
    BY <1>7 DEF BeginPurge, WillCache, Idle
  <2> QED
    BY <1>2, <2>1, <2>2
<1>8. ASSUME NEW bad \in SUBSET InPage, CcPurgeCacheFilePage(bad)
      PROVE  Once(slots') /\ ~WillCache'
  <2> DEFINE i == FirstOf(ModifiedSlots)
             clean == [slots[i] EXCEPT !.modified = FALSE]
             failed == [slots[i] EXCEPT !.error = TRUE]
  <2>1. slots' = [slots EXCEPT ![i] = clean] \/ slots' = [slots EXCEPT ![i] = failed]
    BY <1>8 DEF CcPurgeCacheFilePage
  <2>2. /\ i \in DOMAIN slots => clean.cached = slots[i].cached /\ clean.page = slots[i].page
        /\ i \in DOMAIN slots => failed.cached = slots[i].cached /\ failed.page = slots[i].page
    <3>1. i \in DOMAIN slots => slots[i] \in Slot
      <4> HIDE DEF i
      <4> QED
        BY <1>0, ElementType
    <3> QED
      BY <3>1 DEF Slot
  <2>3. through' = through /\ ~WillCache'
    BY <1>8 DEF CcPurgeCacheFilePage, WillCache, Idle
  <2>4. Once(slots')
    <3> HIDE DEF i, clean, failed
    <3> QED
      BY <1>0, <1>2, <2>1, <2>2, <2>3, OnceKept
  <2> QED
    BY <2>3, <2>4
<1>9. CASE CcPurgeCacheFileEnd
  BY <1>2, <1>9 DEF CcPurgeCacheFileEnd, mapVars, WillCache, Idle
<1>10. CASE CcFreeCacheMapFree
  <2>1. slots' = << >> /\ ~WillCache'
    BY <1>10 DEF CcFreeCacheMapFree, WillCache, Idle
  <2>2. Once(<< >>)
    BY DEF Once
  <2> QED
    BY <2>1, <2>2
<1>11. CASE UNCHANGED vars
  BY <1>2, <1>11 DEF vars, mapVars, WillCache, Cached
<1> QED
  BY <1>1, <1>3, <1>4, <1>5, <1>6, <1>7, <1>8, <1>9, <1>10, <1>11
     DEF Next, CcPurgeCacheFile, CcFreeCacheMap

\* Unless it was opened with FILE_WRITE_THROUGH, no page of a file is in its map twice,
\* so that a reader and the purge never work on different copies.
THEOREM CachedOnce == Spec => []PagesCachedOnce
<1>1. Init => OnceInv
  BY SMT DEF Init, OnceInv, PagesCachedOnce, MissInv
<1>2. TypeOK /\ OnceInv /\ [Next]_vars => OnceInv'
  BY OnceStep
<1>3. OnceInv => PagesCachedOnce
  BY DEF OnceInv
<1> QED
  BY <1>1, <1>2, <1>3, TypeCorrect, PTL DEF Spec

-----------------------------------------------------------------------------
(* Clusters and their places in pages. *)

\* A cluster is at its place in its page.
LEMMA PlaceOf ==
  ASSUME NEW c \in Clusters
  PROVE  /\ c \in Nat /\ c \div ClustersPerPage \in Nat /\ c % ClustersPerPage \in InPage
         /\ c = (c \div ClustersPerPage) * ClustersPerPage + (c % ClustersPerPage)
<1>1. c \in Nat
  BY DEF Clusters
<1> QED
  BY <1>1, DivMod, CacheAssumption, SMT

\* What is at a place in a page has this place and this page.
LEMMA PageOfPlace ==
  ASSUME NEW p \in Nat, NEW k \in InPage
  PROVE  /\ (p * ClustersPerPage + k) \in Nat
         /\ (p * ClustersPerPage + k) \div ClustersPerPage = p
         /\ (p * ClustersPerPage + k) % ClustersPerPage = k
BY CacheAssumption, SMTT(60) DEF InPage

\* The clusters of a page, by their page and place.
LEMMA InClustersOf ==
  ASSUME NEW p \in Nat, NEW ks \in SUBSET InPage, NEW c \in Clusters
  PROVE  c \in ClustersOf(p, ks) <=> c \div ClustersPerPage = p /\ c % ClustersPerPage \in ks
<1>1. ASSUME c \in ClustersOf(p, ks)
      PROVE  c \div ClustersPerPage = p /\ c % ClustersPerPage \in ks
  <2>1. PICK k \in ks : c = p * ClustersPerPage + k
    BY <1>1 DEF ClustersOf
  <2> QED
    BY <2>1, PageOfPlace
<1>2. ASSUME c \div ClustersPerPage = p, c % ClustersPerPage \in ks
      PROVE  c \in ClustersOf(p, ks)
  <2>1. c = p * ClustersPerPage + (c % ClustersPerPage)
    BY <1>2, PlaceOf
  <2> QED
    BY <1>2, <2>1 DEF ClustersOf
<1> QED
  BY <1>1, <1>2

\* The part of the request that is still to come is what the caller asked for.
RangeInv ==
  call.op = "Write" =>
    LET here == call.page * ClustersPerPage + call.offset IN
    \E first \in Nat : /\ call.cells = first .. (here + call.size - 1)
                       /\ first = here \/ (first < here /\ call.offset = 0)

\* A call moves along the clusters it was made for.
LEMMA RangeStep ==
  ASSUME TypeOK, RangeInv, [Next]_vars
  PROVE  RangeInv'
<1>0. call \in CallType
  BY DEF TypeOK, CallType
<1>1. CASE call' = call
  BY <1>1 DEF RangeInv
<1>2. CASE Request
  <2> SUFFICES ASSUME NEW first \in Clusters, NEW n \in 1 .. FileClusters - first,
                      NEW value \in Values, CcCacheWriteFile(first, n, value)
               PROVE  RangeInv'
    BY <1>2 DEF Request, CcCacheReadFile, Begin, RangeInv
  <2>1. call' = [op |-> "Write", missed |-> through.write, page |-> first \div ClustersPerPage,
                 offset |-> first % ClustersPerPage, size |-> n, value |-> value,
                 cells |-> first .. first + n - 1]
    BY DEF CcCacheWriteFile, Begin
  <2>2. first = call'.page * ClustersPerPage + call'.offset /\ first \in Nat
    BY <2>1, PlaceOf
  <2>3. call'.cells = first .. (call'.page * ClustersPerPage + call'.offset + call'.size - 1)
    BY <2>1, <2>2
  <2> QED
    BY <2>2, <2>3 DEF RangeInv
<1>3. CASE Advance
  <2>1. CASE IsLastPage
    BY <1>3, <2>1 DEF Advance, RangeInv, Idle
  <2>2. CASE ~IsLastPage
    <3> SUFFICES ASSUME call'.op = "Write"
                 PROVE  RangeInv'
      BY DEF RangeInv
    <3>1. /\ call'.op = call.op /\ call'.page = call.page + 1 /\ call'.offset = 0
          /\ call'.size = call.size - (ClustersPerPage - call.offset) /\ call'.cells = call.cells
      BY <1>0, <1>3, <2>2 DEF Advance, CallType
    <3> DEFINE here == call.page * ClustersPerPage + call.offset
    <3>2. PICK first \in Nat : /\ call.cells = first .. (here + call.size - 1)
                               /\ first = here \/ (first < here /\ call.offset = 0)
      BY <3>1 DEF RangeInv
    <3>3. call.page \in Nat /\ call.offset \in InPage /\ call.size \in Nat
      BY <1>0 DEF CallType
    <3>4. (call.page + 1) * ClustersPerPage = call.page * ClustersPerPage + ClustersPerPage
          /\ call.page * ClustersPerPage \in Nat
      BY <3>3, CacheAssumption, SMT
    <3> DEFINE start == call.page * ClustersPerPage
    <3>5. /\ call'.page * ClustersPerPage + call'.offset = start + ClustersPerPage
          /\ start + ClustersPerPage + call'.size - 1 = here + call.size - 1
          /\ first < start + ClustersPerPage
      <4>1. call'.page * ClustersPerPage = start + ClustersPerPage /\ start \in Nat
        BY <3>1, <3>4
      <4>2. here = start + call.offset
        OBVIOUS
      <4>3. ClustersPerPage \in Nat \ {0} /\ call.offset < ClustersPerPage /\ call.offset \in Nat
        BY <3>3, CacheAssumption DEF InPage
      <4> HIDE DEF here, start
      <4>4. call'.page * ClustersPerPage + call'.offset = start + ClustersPerPage
        BY <3>1, <4>1, <4>3
      <4>5. start + ClustersPerPage + call'.size - 1 = here + call.size - 1
        BY <3>1, <3>3, <4>1, <4>2, <4>3
      <4>6. first < start + ClustersPerPage
        BY <3>2, <4>1, <4>2, <4>3
      <4> QED
        BY <4>4, <4>5, <4>6
    <3> QED
      BY <3>1, <3>2, <3>5 DEF RangeInv
  <2> QED
    BY <2>1, <2>2
<1>4. CASE call'.op # "Write"
  BY <1>4 DEF RangeInv
<1>5. CASE CcpFindAndReadWriteMiss
  BY <1>0, <1>5 DEF CcpFindAndReadWriteMiss, CallType, RangeInv
<1>6. ASSUME NEW op \in {"Purge", "Free"}, BeginPurge(op)
      PROVE  call'.op # "Write"
  BY <1>6 DEF BeginPurge, Idle
<1>7. CASE CcPurgeCacheFileEnd \/ CcFreeCacheMapFree
  BY <1>4, <1>7 DEF CcPurgeCacheFileEnd, CcFreeCacheMapFree, Idle
<1>8. ASSUME NEW bad \in SUBSET InPage, CcPurgeCacheFilePage(bad)
      PROVE  RangeInv'
  BY <1>1, <1>4, <1>8 DEF CcPurgeCacheFilePage, Idle
<1>9. ASSUME NEW t \in [read : BOOLEAN, write : BOOLEAN], CcInitializeFileCaching(t)
      PROVE  call' = call
  BY <1>9 DEF CcInitializeFileCaching
<1>10. CASE CcpFindAndReadWriteHit
  BY <1>3, <1>10 DEF CcpFindAndReadWriteHit
<1>11. ASSUME NEW bad \in SUBSET InPage, NEW noMedia \in BOOLEAN, NEW grows \in BOOLEAN,
              NEW allocates \in BOOLEAN, ActualTransfer(bad, noMedia, grows, allocates)
       PROVE  Advance
  BY <1>11 DEF ActualTransfer
<1>12. CASE UNCHANGED vars
  BY <1>1, <1>12 DEF vars
<1> QED
  BY <1>1, <1>2, <1>3, <1>4, <1>5, <1>6, <1>7, <1>8, <1>9, <1>10, <1>11, <1>12
     DEF Next, CcPurgeCacheFile, CcFreeCacheMap

\* So the clusters a write changes on this page are the part it copies.
LEMMA RequestedIsPart ==
  ASSUME TypeOK, RangeInv, call.op = "Write", NEW c \in Clusters
  PROVE  c \in Requested <=> c \div ClustersPerPage = call.page /\ c % ClustersPerPage \in Part
<1> DEFINE start == call.page * ClustersPerPage
           here == start + call.offset
           k == c % ClustersPerPage
<1>0. call \in CallType
  BY DEF TypeOK, CallType
<1>1. PICK first \in Nat : /\ call.cells = first .. (here + call.size - 1)
                           /\ first = here \/ (first < here /\ call.offset = 0)
  BY DEF RangeInv
<1>2. /\ call.page \in Nat /\ call.offset \in InPage /\ call.size \in Nat /\ start \in Nat
      /\ k \in InPage /\ c \in Nat
  BY <1>0, PlaceOf, CacheAssumption, SMT DEF CallType
<1>3. c \in Requested <=> c \in call.cells /\ c \div ClustersPerPage = call.page
  BY <1>2, InClustersOf, PlaceOf DEF Requested
<1>4. ASSUME c \div ClustersPerPage = call.page
      PROVE  c \in call.cells <=> k \in Part
  <2>1. c = start + k
    BY <1>4, PlaceOf
  <2>2. k \in Part <=> call.offset <= k /\ k < call.offset + call.size
    BY <1>2 DEF Part
  <2> HIDE DEF start, k
  <2> QED
    BY <1>1, <1>2, <2>1, <2>2, SMT DEF InPage
<1> QED
  BY <1>3, <1>4

-----------------------------------------------------------------------------
(* What readers see. *)

\* The page of a cluster, its place there, and that slot j of map s has page p.
PageHolding(c) == c \div ClustersPerPage
PlaceIn(c)     == c % ClustersPerPage
Holds(s, j, p) == j \in DOMAIN s /\ s[j].cached /\ s[j].page = p

\* Copies and, for pages without one, the disk agree with the file.
CopiesAreFile ==
  \A j \in DOMAIN slots : \A c \in Clusters \ unread :
     Holds(slots, j, PageHolding(c)) => slots[j].data[PlaceIn(c)] = file[c]
DiskIsFile ==
  \A c \in Clusters \ unread : Cached(PageHolding(c)) = {} => disk[c] = file[c]
UnreadIsCached ==
  \A c \in unread : Cached(PageHolding(c)) # {}

View == CopiesAreFile /\ DiskIsFile /\ UnreadIsCached
ViewInv == ~through.write => View

\* Where copies and disk agree with the file, readers see the file.
LEMMA ViewIsEnough ==
  ASSUME TypeOK, ViewInv
  PROVE  ReadersSeeLastWrite
<1> SUFFICES ASSUME View, NEW c \in Clusters \ unread
             PROVE  Seen(c) = file[c]
  BY DEF ViewInv, ReadersSeeLastWrite
<1>1. CASE Cached(PageHolding(c)) = {}
  BY <1>1 DEF View, DiskIsFile, Seen, PageHolding
<1>2. CASE Cached(PageHolding(c)) # {}
  <2> DEFINE j == FirstOf(Cached(PageHolding(c)))
  <2>1. slots \in Seq(Slot)
    BY DEF TypeOK, Slot
  <2>2. Cached(PageHolding(c)) \in SUBSET Nat
    BY <2>1, SMT DEF Cached
  <2>3. j \in Cached(PageHolding(c))
    BY <1>2, <2>2, FirstOfLeast
  <2>4. slots[j].data[PlaceIn(c)] = file[c]
    <3> HIDE DEF j
    <3> QED
      BY <2>3 DEF Cached, Holds, View, CopiesAreFile
  <2> QED
    BY <1>2, <2>4 DEF Seen, PageHolding, PlaceIn
<1> QED
  BY <1>1, <1>2

\* Steps that change neither the file nor which page a slot holds, nor its data, and
\* that write to the disk only where the map has the page.
SamePages ==
  /\ \A j, q : Holds(slots, j, q) <=> Holds(slots', j, q)
  /\ \A j, q : Holds(slots, j, q) => slots'[j].data = slots[j].data

\* Such steps keep the view.
LEMMA ViewKept ==
  ASSUME View, SamePages, file' = file, unread' = unread,
         \A c \in Clusters : Cached(PageHolding(c)) = {} => disk'[c] = disk[c]
  PROVE  View'
<1>1. \A q : Cached(q)' = {} <=> Cached(q) = {}
  <2> TAKE q
  <2>1. Cached(q)' = {j \in DOMAIN slots' : Holds(slots', j, q)}
    BY DEF Cached, Holds
  <2>2. Cached(q) = {j \in DOMAIN slots : Holds(slots, j, q)}
    BY DEF Cached, Holds
  <2> QED
    BY <2>1, <2>2 DEF SamePages, Holds
<1>2. CopiesAreFile'
  BY DEF View, CopiesAreFile, SamePages, Holds, PageHolding, PlaceIn
<1>3. DiskIsFile'
  BY <1>1 DEF View, DiskIsFile, PageHolding
<1>4. UnreadIsCached'
  BY <1>1 DEF View, UnreadIsCached, PageHolding
<1> QED
  BY <1>2, <1>3, <1>4 DEF View

\* A write to a page of the map.
LEMMA WriteHitView ==
  ASSUME TypeOK, RangeInv, View, Once(slots), CcpFindAndReadWriteHit, call.op = "Write"
  PROVE  View'
<1> DEFINE i == FirstOf(Cached(call.page))
           p == call.page
           new == [slots[i] EXCEPT !.data = Overwrite(@), !.modified = @ \/ IsLastPage]
<1>0. slots \in Seq(Slot) /\ call \in CallType /\ p \in Nat
  BY DEF TypeOK, Slot, CallType
<1>1. i \in Cached(p)
  <2>1. Cached(p) # {} /\ Cached(p) \in SUBSET Nat
    BY <1>0, SMT DEF CcpFindAndReadWriteHit, Cached
  <2> QED
    BY <2>1, FirstOfLeast
<1>2. i \in DOMAIN slots /\ slots[i].cached /\ slots[i].page = p
  <2> HIDE DEF i
  <2> QED
    BY <1>1 DEF Cached
<1>3. slots[i] \in Slot
  <2> HIDE DEF i
  <2> QED
    BY <1>0, <1>2, ElementType
<1>4. new.cached = slots[i].cached /\ new.page = slots[i].page
      /\ new.data = Overwrite(slots[i].data)
  <2> HIDE DEF i
  <2> QED
    BY <1>3 DEF Slot
<1>5. /\ slots' = [slots EXCEPT ![i] = new]
      /\ file' = Accepted /\ unread' = unread \ Requested /\ disk' = disk
  BY DEF CcpFindAndReadWriteHit
<1>6. DOMAIN slots' = DOMAIN slots /\ slots'[i] = new
      /\ \A j \in DOMAIN slots : j # i => slots'[j] = slots[j]
  <2> HIDE DEF i, new
  <2> QED
    BY <1>2, <1>5
<1> HIDE DEF i, new
<1>7. \A j, q : Holds(slots', j, q) <=> Holds(slots, j, q)
  BY <1>2, <1>4, <1>6 DEF Holds
<1>8. \A q : Cached(q)' = {} <=> Cached(q) = {}
  <2> TAKE q
  <2>1. Cached(q)' = {j \in DOMAIN slots' : Holds(slots', j, q)}
    BY DEF Cached, Holds
  <2>2. Cached(q) = {j \in DOMAIN slots : Holds(slots, j, q)}
    BY DEF Cached, Holds
  <2> QED
    BY <1>6, <1>7, <2>1, <2>2
<1>9. \A c \in Clusters : /\ c \in Requested <=> PageHolding(c) = p /\ PlaceIn(c) \in Part
                          /\ PlaceIn(c) \in InPage
                          /\ file'[c] = IF c \in Requested THEN call.value ELSE file[c]
  BY <1>5, RequestedIsPart, PlaceOf DEF Accepted, PageHolding, PlaceIn
<1>10. CopiesAreFile'
  <2> SUFFICES ASSUME NEW j, NEW c \in Clusters \ unread',
                      Holds(slots', j, PageHolding(c))
               PROVE  slots'[j].data[PlaceIn(c)] = file'[c]
    BY DEF CopiesAreFile, Holds, PageHolding, PlaceIn
  <2>1. Holds(slots, j, PageHolding(c))
    BY <1>7
  <2>2. CASE j = i
    <3>1. PageHolding(c) = p
      BY <1>2, <2>1, <2>2 DEF Holds
    <3>2. slots'[j].data[PlaceIn(c)] = IF PlaceIn(c) \in Part THEN call.value
                                       ELSE slots[i].data[PlaceIn(c)]
      BY <1>4, <1>6, <1>9, <2>2 DEF Overwrite
    <3>3. CASE PlaceIn(c) \in Part
      BY <1>9, <3>1, <3>2, <3>3
    <3>4. CASE PlaceIn(c) \notin Part
      <4>1. c \notin Requested /\ c \notin unread
        BY <1>5, <1>9, <3>4
      <4> QED
        BY <1>9, <2>1, <2>2, <3>2, <3>4, <4>1 DEF View, CopiesAreFile, Holds
    <3> QED
      BY <3>3, <3>4
  <2>3. CASE j # i
    <3>1. PageHolding(c) # p
      BY <1>2, <2>1, <2>3 DEF Once, Holds
    <3>2. c \notin Requested /\ c \notin unread
      BY <1>5, <1>9, <3>1
    <3>3. slots'[j] = slots[j]
      BY <1>6, <2>1, <2>3 DEF Holds
    <3> QED
      BY <1>9, <2>1, <3>2, <3>3 DEF View, CopiesAreFile, Holds
  <2> QED
    BY <2>2, <2>3
<1>11. DiskIsFile'
  <2> SUFFICES ASSUME NEW c \in Clusters \ unread', Cached(PageHolding(c)) = {}
               PROVE  disk'[c] = file'[c]
    BY <1>8 DEF DiskIsFile, PageHolding
  <2>1. PageHolding(c) # p
    BY <1>1
  <2>2. c \notin Requested /\ c \notin unread
    BY <1>5, <1>9, <2>1
  <2> QED
    BY <1>5, <1>9, <2>2 DEF View, DiskIsFile
<1>12. UnreadIsCached'
  BY <1>5, <1>8 DEF View, UnreadIsCached, PageHolding
<1> QED
  BY <1>10, <1>11, <1>12 DEF View

\* A page that goes into the map.
LEMMA CacheFilePageView ==
  ASSUME TypeOK, RangeInv, View, NEW bad \in SUBSET InPage,
         NEW grows \in BOOLEAN, NEW allocates \in BOOLEAN,
         call.op \in {"Read", "Write"}, Cached(call.page) = {}, disk' = disk,
         CcpCacheFilePage(IF call.op = "Read" THEN PageRead(bad) ELSE Overwrite(PageRead(bad)),
                          grows, allocates)
  PROVE  View'
<1> DEFINE data == IF call.op = "Read" THEN PageRead(bad) ELSE Overwrite(PageRead(bad))
           room == IF IsFull /\ grows THEN Grown ELSE slots
           kept == FreeIn(room) # {} /\ allocates
           i == FirstOf(FreeIn(room))
           p == call.page
           new == [room[i] EXCEPT !.cached = TRUE, !.page = p, !.modified = FALSE, !.data = data]
<1>0. slots \in Seq(Slot) /\ call \in CallType /\ p \in Nat /\ unread \subseteq Clusters
  BY DEF TypeOK, Slot, CallType
<1>1. room \in Seq(Slot)
  BY <1>0, GrownType
<1>2. \A j, q : Holds(room, j, q) <=> Holds(slots, j, q)
  <2>1. CASE room = slots
    BY <2>1
  <2>2. CASE room = Grown
    <3>1. DOMAIN slots \subseteq DOMAIN Grown
      <4>1. [k \in 1 .. Len(slots) |-> EmptySlot] \in Seq(Slot)
        BY <1>0, EmptySlotType, SMT
      <4> QED
        BY <1>0, <4>1, SMT DEF Grown
    <3> QED
      BY <1>0, <2>2, <3>1, GrownSlots DEF Holds
  <2> QED
    BY <2>1, <2>2
<1>3. \A j \in DOMAIN slots : slots[j].cached => room[j] = slots[j]
  <2>1. CASE room = slots
    BY <2>1
  <2>2. CASE room = Grown
    <3>1. DOMAIN slots \subseteq DOMAIN Grown
      <4>1. [k \in 1 .. Len(slots) |-> EmptySlot] \in Seq(Slot)
        BY <1>0, EmptySlotType, SMT
      <4> QED
        BY <1>0, <4>1, SMT DEF Grown
    <3> QED
      BY <1>0, <2>2, <3>1, GrownSlots
  <2> QED
    BY <2>1, <2>2
<1>4. CASE ~kept
  <2>1. slots' = room /\ file' = file /\ unread' = unread
    BY <1>4 DEF CcpCacheFilePage
  <2> HIDE DEF room
  <2>2. SamePages
    BY <1>2, <1>3, <2>1 DEF SamePages, Holds
  <2> QED
    BY <2>1, <2>2, ViewKept
<1>5. CASE kept
  <2>1. /\ slots' = [room EXCEPT ![i] = new]
        /\ unread' = (unread \ ClustersOf(p, {k \in InPage : data[k] # NoData}))
                      \cup ClustersOf(p, {k \in InPage : data[k] = NoData})
        /\ file' = IF call.op = "Write" THEN Accepted ELSE file
    BY <1>5 DEF CcpCacheFilePage
  <2>2. i \in DOMAIN room /\ ~room[i].cached /\ room[i] \in Slot
    <3>1. FreeIn(room) \in SUBSET Nat
      <4> HIDE DEF room
      <4> QED
        BY <1>1, SMT DEF FreeIn
    <3>2. i \in FreeIn(room)
      BY <1>5, <3>1, FirstOfLeast
    <3> HIDE DEF room, i
    <3> QED
      BY <1>1, <3>2, ElementType DEF FreeIn
  <2>3. new.cached /\ new.page = p /\ new.data = data
    <3> HIDE DEF room, i, data
    <3> QED
      BY <2>2 DEF Slot
  <2> HIDE DEF room, i, new
  <2>4. DOMAIN slots' = DOMAIN room /\ slots'[i] = new
        /\ \A j \in DOMAIN room : j # i => slots'[j] = room[j]
    BY <2>1, <2>2
  <2>5. ~Holds(slots, i, p) /\ \A j : ~Holds(slots, j, p)
    BY DEF Cached, Holds
  <2>6. \A j, q : Holds(slots', j, q) <=> Holds(slots, j, q) \/ (j = i /\ q = p)
    <3> TAKE j, q
    <3>1. CASE j = i
      BY <1>2, <2>2, <2>3, <2>4, <3>1 DEF Holds
    <3>2. CASE j # i
      BY <1>2, <2>4, <3>2 DEF Holds
    <3> QED
      BY <3>1, <3>2
  <2>7. \A c \in Clusters : /\ PlaceIn(c) \in InPage
                            /\ PageHolding(c) # p => (c \in unread' <=> c \in unread)
                            /\ PageHolding(c) = p => (c \in unread' <=> data[PlaceIn(c)] = NoData)
    <3> TAKE c \in Clusters
    <3> DEFINE good == {k \in InPage : data[k] # NoData}
               none == {k \in InPage : data[k] = NoData}
    <3>1. good \in SUBSET InPage /\ none \in SUBSET InPage
      OBVIOUS
    <3>2. /\ c \in ClustersOf(p, good) <=> PageHolding(c) = p /\ PlaceIn(c) \in good
          /\ c \in ClustersOf(p, none) <=> PageHolding(c) = p /\ PlaceIn(c) \in none
      <4> HIDE DEF good, none
      <4> QED
        BY <1>0, <3>1, InClustersOf DEF PageHolding, PlaceIn
    <3>3. PlaceIn(c) \in InPage
      BY PlaceOf DEF PlaceIn
    <3>4. unread' = (unread \ ClustersOf(p, good)) \cup ClustersOf(p, none)
      BY <2>1
    <3>5. /\ PlaceIn(c) \in good <=> data[PlaceIn(c)] # NoData
          /\ PlaceIn(c) \in none <=> data[PlaceIn(c)] = NoData
      BY <3>3
    <3> HIDE DEF good, none, data
    <3> QED
      BY <3>2, <3>3, <3>4, <3>5
  <2>8. \A c \in Clusters : PageHolding(c) # p => file'[c] = file[c]
    <3> TAKE c \in Clusters
    <3>1. CASE call.op = "Write"
      BY <2>1, <3>1, RequestedIsPart DEF Accepted, PageHolding
    <3>2. CASE call.op # "Write"
      BY <2>1, <3>2
    <3> QED
      BY <3>1, <3>2
  <2>9. \A c \in Clusters : PageHolding(c) = p /\ data[PlaceIn(c)] # NoData
                              => data[PlaceIn(c)] = file'[c]
    <3> SUFFICES ASSUME NEW c \in Clusters, PageHolding(c) = p, data[PlaceIn(c)] # NoData
                 PROVE  data[PlaceIn(c)] = file'[c]
      OBVIOUS
    <3>1. PlaceIn(c) \in InPage /\ c = p * ClustersPerPage + PlaceIn(c)
      BY PlaceOf DEF PlaceIn, PageHolding
    <3>2. disk[c] = file[c]
      BY DEF View, DiskIsFile, UnreadIsCached
    <3>3. PageRead(bad)[PlaceIn(c)] # NoData => PageRead(bad)[PlaceIn(c)] = disk[c]
      BY <3>1 DEF PageRead
    <3>4. CASE call.op = "Read"
      BY <2>1, <3>2, <3>3, <3>4
    <3>5. CASE call.op = "Write"
      <4>1. data[PlaceIn(c)] = IF PlaceIn(c) \in Part THEN call.value
                               ELSE PageRead(bad)[PlaceIn(c)]
        BY <3>1, <3>5 DEF Overwrite
      <4>2. file'[c] = IF PlaceIn(c) \in Part THEN call.value ELSE file[c]
        BY <2>1, <3>5, RequestedIsPart DEF Accepted, PageHolding, PlaceIn
      <4> QED
        BY <3>2, <3>3, <4>1, <4>2
    <3> QED
      BY <3>4, <3>5
  <2> HIDE DEF data
  <2>10. CopiesAreFile'
    <3> SUFFICES ASSUME NEW j, NEW c \in Clusters \ unread',
                        Holds(slots', j, PageHolding(c))
                 PROVE  slots'[j].data[PlaceIn(c)] = file'[c]
      BY DEF CopiesAreFile, Holds, PageHolding, PlaceIn
    <3>1. CASE j = i /\ PageHolding(c) = p
      BY <2>3, <2>4, <2>7, <2>9, <3>1
    <3>2. CASE Holds(slots, j, PageHolding(c))
      <4>1. PageHolding(c) # p /\ j \in DOMAIN slots /\ slots[j].cached
        BY <2>5, <3>2 DEF Holds
      <4>2. j # i
        BY <1>2, <2>2, <3>2 DEF Holds
      <4>3. slots'[j] = slots[j]
        BY <1>2, <1>3, <2>4, <3>2, <4>1, <4>2 DEF Holds
      <4> QED
        BY <2>7, <2>8, <3>2, <4>1, <4>3 DEF View, CopiesAreFile
    <3> QED
      BY <2>6, <3>1, <3>2
  <2>11. \A q : Cached(q)' = {} <=> Cached(q) = {} /\ q # p
    <3> TAKE q
    <3>1. Cached(q)' = {j \in DOMAIN slots' : Holds(slots', j, q)}
      BY DEF Cached, Holds
    <3>2. Cached(q) = {j \in DOMAIN slots : Holds(slots, j, q)}
      BY DEF Cached, Holds
    <3> QED
      BY <2>2, <2>4, <2>6, <3>1, <3>2 DEF Holds
  <2>12. DiskIsFile'
    BY <2>7, <2>8, <2>11 DEF View, DiskIsFile, PageHolding
  <2>13. UnreadIsCached'
    <3> SUFFICES ASSUME NEW c \in unread', PageHolding(c) # p
                 PROVE  Cached(PageHolding(c)) # {}
      BY <2>11 DEF UnreadIsCached, PageHolding
    <3>1. c \in Clusters
      BY <1>0, <2>1, ClustersOfType
    <3> QED
      BY <2>7, <3>1 DEF View, UnreadIsCached
  <2> QED
    BY <2>10, <2>12, <2>13 DEF View
<1> QED
  BY <1>4, <1>5

\* No step lets a copy, or the disk behind the map, fall back behind the file.
LEMMA ViewStep ==
  ASSUME TypeOK, OnceInv, RangeInv, ViewInv, [Next]_vars
  PROVE  ViewInv'
<1>0. slots \in Seq(Slot) /\ call \in CallType
  BY DEF TypeOK, Slot, CallType
<1> SUFFICES ASSUME ~through'.write
             PROVE  View'
  BY DEF ViewInv
<1>1. ASSUME NEW t \in [read : BOOLEAN, write : BOOLEAN], CcInitializeFileCaching(t)
      PROVE  View'
  <2>1. \A j \in DOMAIN slots' : ~slots'[j].cached
    <3>1. CASE slots' = << >>
      BY <3>1
    <3>2. CASE slots' = [i \in 1 .. MinCachedPages |-> EmptySlot]
      BY <3>2 DEF EmptySlot
    <3> QED
      BY <1>1, <3>1, <3>2 DEF CcInitializeFileCaching
  <2> QED
    BY <1>1, <2>1 DEF CcInitializeFileCaching, View, CopiesAreFile, DiskIsFile, UnreadIsCached, Holds
<1>2. ASSUME through' = through
      PROVE  View /\ Once(slots) /\ (WillCache => Cached(call.page) = {})
  BY <1>2 DEF ViewInv, OnceInv, MissInv, PagesCachedOnce, Once
<1>3. ASSUME mapVars' = mapVars, disk' = disk, file' = file, unread' = unread
      PROVE  View'
  <2>1. SamePages
    BY <1>3 DEF mapVars, SamePages, Holds
  <2> QED
    BY <1>2, <1>3, <2>1, ViewKept DEF mapVars
<1>4. CASE Request
  BY <1>3, <1>4 DEF Request, CcCacheReadFile, CcCacheWriteFile, Begin, history
<1>5. CASE CcpFindAndReadWriteHit
  <2>1. CASE call.op = "Read"
    BY <1>3, <1>5, <2>1 DEF CcpFindAndReadWriteHit, mapVars
  <2>2. CASE call.op = "Write"
    BY <1>2, <1>5, <2>2, WriteHitView DEF CcpFindAndReadWriteHit
  <2> QED
    BY <1>5, <2>1, <2>2 DEF CcpFindAndReadWriteHit
<1>6. CASE CcpFindAndReadWriteMiss
  BY <1>3, <1>6 DEF CcpFindAndReadWriteMiss, history
<1>7. ASSUME NEW bad \in SUBSET InPage, NEW noMedia \in BOOLEAN, NEW grows \in BOOLEAN,
             NEW allocates \in BOOLEAN, ActualTransfer(bad, noMedia, grows, allocates)
      PROVE  View'
  <2> DEFINE page == IF call.op = "Read" THEN PageRead(bad) ELSE Overwrite(PageRead(bad))
  <2>1. through' = through /\ disk' = disk /\ call.op \in {"Read", "Write"}
    BY <1>7 DEF ActualTransfer
  <2>2. CASE WillCache /\ CcpCacheFilePage(page, grows, allocates)
    BY <1>2, <2>1, <2>2, CacheFilePageView
  <2>3. CASE UNCHANGED <<slots, cachedPages, history>>
    <3>1. SamePages
      BY <2>3 DEF SamePages, Holds
    <3> QED
      BY <1>2, <2>1, <2>3, <3>1, ViewKept DEF history
  <2>4. (WillCache /\ CcpCacheFilePage(page, grows, allocates))
        \/ UNCHANGED <<slots, cachedPages, history>>
    BY <1>7 DEF ActualTransfer, WillCache
  <2> QED
    BY <2>2, <2>3, <2>4
<1>8. ASSUME NEW op \in {"Purge", "Free"}, BeginPurge(op)
      PROVE  View'
  BY <1>3, <1>8 DEF BeginPurge, history
<1>9. ASSUME NEW bad \in SUBSET InPage, CcPurgeCacheFilePage(bad)
      PROVE  View'
  <2> DEFINE i == FirstOf(ModifiedSlots)
             clean == [slots[i] EXCEPT !.modified = FALSE]
             failed == [slots[i] EXCEPT !.error = TRUE]
  <2>1. slots' = [slots EXCEPT ![i] = clean] \/ slots' = [slots EXCEPT ![i] = failed]
    BY <1>9 DEF CcPurgeCacheFilePage
  <2>2. i \in DOMAIN slots /\ slots[i].cached /\ slots[i] \in Slot
    <3>1. ModifiedSlots # {}
      BY <1>9 DEF CcPurgeCacheFilePage
    <3>2. i \in ModifiedSlots
      BY <1>0, <3>1, FirstModified
    <3> HIDE DEF i
    <3> QED
      BY <1>0, <3>2, ElementType DEF ModifiedSlots
  <2>3. /\ clean.cached = slots[i].cached /\ clean.page = slots[i].page
        /\ clean.data = slots[i].data
        /\ failed.cached = slots[i].cached /\ failed.page = slots[i].page
        /\ failed.data = slots[i].data
    <3> HIDE DEF i
    <3> QED
      BY <2>2 DEF Slot
  <2>4. SamePages
    <3> HIDE DEF i, clean, failed
    <3> QED
      BY <2>1, <2>2, <2>3 DEF SamePages, Holds
  <2>5. \A c \in Clusters : Cached(PageHolding(c)) = {} => disk'[c] = disk[c]
    <3> SUFFICES ASSUME NEW c \in Clusters, Cached(PageHolding(c)) = {}
                 PROVE  c \notin ClustersOf(slots[i].page, InPage \ bad)
      BY <1>9 DEF CcPurgeCacheFilePage
    <3>1. slots[i].page # PageHolding(c)
      <4> HIDE DEF i
      <4> QED
        BY <2>2 DEF Cached
    <3>2. slots[i].page \in Nat /\ InPage \ bad \in SUBSET InPage
      <4> HIDE DEF i
      <4> QED
        BY <2>2 DEF Slot
    <3> HIDE DEF i
    <3> QED
      BY <3>1, <3>2, InClustersOf DEF PageHolding
  <2> QED
    BY <1>2, <1>9, <2>4, <2>5, ViewKept DEF CcPurgeCacheFilePage
<1>10. CASE CcPurgeCacheFileEnd
  BY <1>3, <1>10 DEF CcPurgeCacheFileEnd, history
<1>11. CASE CcFreeCacheMapFree
  BY <1>11 DEF CcFreeCacheMapFree
<1>12. CASE UNCHANGED vars
  BY <1>3, <1>12 DEF vars, history
<1> QED
  BY <1>1, <1>4, <1>5, <1>6, <1>7, <1>8, <1>9, <1>10, <1>11, <1>12
     DEF Next, CcPurgeCacheFile, CcFreeCacheMap

\* Unless a file was opened with FILE_WRITE_THROUGH, a reader sees the last write that
\* the cache accepted, wherever the device did not fail unnoticed.
THEOREM ReadersCorrect == Spec => []ReadersSeeLastWrite
<1> DEFINE Inv == OnceInv /\ RangeInv /\ ViewInv
<1>1. Init => Inv
  <2> SUFFICES ASSUME Init PROVE Inv
    OBVIOUS
  <2>1. through.write = TRUE /\ call = Idle
    BY DEF Init
  <2> QED
    BY <2>1 DEF OnceInv, PagesCachedOnce, MissInv, RangeInv, Idle, ViewInv
<1>2. TypeOK /\ Inv /\ [Next]_vars => Inv'
  BY OnceStep, RangeStep, ViewStep
<1>3. TypeOK /\ Inv => ReadersSeeLastWrite
  BY ViewIsEnough
<1> QED
  BY <1>1, <1>2, <1>3, TypeCorrect, PTL DEF Spec

-----------------------------------------------------------------------------
(* What the next purge has to write. *)

\* A purge will write page p.
Marked(s, p) == \E j \in DOMAIN s : s[j].cached /\ s[j].modified /\ s[j].page = p
Saved == \A c \in Clusters \ (unread \cup unsaved) :
            disk[c] = file[c] \/ Marked(slots, PageHolding(c))
SavedInv == ~through.write => Saved

\* Steps that change neither disk nor file, and take no mark away.
LEMMA SavedKept ==
  ASSUME Saved, disk' = disk, file' = file, unread' = unread, unsaved' = unsaved,
         \A q : Marked(slots, q) => Marked(slots', q)
  PROVE  Saved'
<1> SUFFICES ASSUME NEW c \in Clusters \ (unread \cup unsaved)
             PROVE  disk[c] = file[c] \/ Marked(slots', PageHolding(c))
  BY DEF Saved, PageHolding
<1> QED
  BY DEF Saved

\* The request ends in a page for the cluster count as for the cells asked for.
LEMMA EndsWhereLast ==
  ASSUME TypeOK, RangeInv, call.op = "Write", EndsInPage
  PROVE  IsLastPage
<1> DEFINE start == call.page * ClustersPerPage
           here == start + call.offset
<1>0. call \in CallType
  BY DEF TypeOK, CallType
<1>1. PICK first \in Nat : /\ call.cells = first .. (here + call.size - 1)
                           /\ first = here \/ (first < here /\ call.offset = 0)
  BY DEF RangeInv
<1>2. /\ call.offset \in Nat /\ call.size \in Nat /\ start \in Nat
      /\ call.offset < ClustersPerPage /\ ClustersPerPage \in Nat
  BY <1>0, CacheAssumption, SMT DEF CallType, InPage
<1>3. (call.page + 1) * ClustersPerPage = start + ClustersPerPage
  BY <1>0, CacheAssumption, SMT DEF CallType
<1>4. \A c \in call.cells : c < start + ClustersPerPage
  BY <1>3 DEF EndsInPage
<1> HIDE DEF start
<1>5. SUFFICES ASSUME ~ (call.size <= ClustersPerPage - call.offset)
               PROVE  FALSE
  BY DEF IsLastPage
<1>6. here + call.size - 1 \in call.cells
  <2>1. here \in Nat /\ call.size >= 1
    BY <1>2, <1>5
  <2>2. first <= here
    BY <1>1, <2>1
  <2> HIDE DEF here
  <2>3. here + call.size - 1 \in first .. (here + call.size - 1)
    BY <1>2, <2>1, <2>2
  <2> QED
    BY <1>1, <2>3
<1>7. here + call.size - 1 < start + ClustersPerPage
  BY <1>4, <1>6
<1> QED
  BY <1>2, <1>5, <1>7

\* A write to a page of the map: it marks the page, or the request goes on.
LEMMA WriteHitSaved ==
  ASSUME TypeOK, RangeInv, Saved, CcpFindAndReadWriteHit, call.op = "Write"
  PROVE  Saved'
<1> DEFINE i == FirstOf(Cached(call.page))
           p == call.page
           new == [slots[i] EXCEPT !.data = Overwrite(@), !.modified = @ \/ IsLastPage]
<1>0. slots \in Seq(Slot) /\ call \in CallType /\ p \in Nat
  BY DEF TypeOK, Slot, CallType
<1>1. i \in Cached(p)
  <2>1. Cached(p) # {} /\ Cached(p) \in SUBSET Nat
    BY <1>0, SMT DEF CcpFindAndReadWriteHit, Cached
  <2> QED
    BY <2>1, FirstOfLeast
<1>2. i \in DOMAIN slots /\ slots[i].cached /\ slots[i].page = p
  <2> HIDE DEF i
  <2> QED
    BY <1>1 DEF Cached
<1>3. slots[i] \in Slot
  <2> HIDE DEF i
  <2> QED
    BY <1>0, <1>2, ElementType
<1>4. new.cached = slots[i].cached /\ new.page = slots[i].page
      /\ new.modified = (slots[i].modified \/ IsLastPage)
  <2> HIDE DEF i
  <2> QED
    BY <1>3 DEF Slot
<1>5. /\ slots' = [slots EXCEPT ![i] = new] /\ file' = Accepted
      /\ unread' = unread \ Requested /\ disk' = disk
      /\ unsaved' = IF EndsInPage THEN unsaved \ ClustersOf(p, InPage) ELSE unsaved \cup Requested
  BY DEF CcpFindAndReadWriteHit
<1>6. DOMAIN slots' = DOMAIN slots /\ slots'[i] = new
      /\ \A j \in DOMAIN slots : j # i => slots'[j] = slots[j]
  <2> HIDE DEF i, new
  <2> QED
    BY <1>2, <1>5
<1> HIDE DEF i, new
<1>7. \A q : Marked(slots, q) => Marked(slots', q)
  <2> SUFFICES ASSUME NEW q, NEW j \in DOMAIN slots,
                      slots[j].cached, slots[j].modified, slots[j].page = q
               PROVE  slots'[j].cached /\ slots'[j].modified /\ slots'[j].page = q
    BY <1>6 DEF Marked
  <2>1. CASE j = i
    BY <1>4, <1>6, <2>1
  <2>2. CASE j # i
    BY <1>6, <2>2
  <2> QED
    BY <2>1, <2>2
<1>8. IsLastPage => Marked(slots', p)
  BY <1>2, <1>4, <1>6 DEF Marked
<1> SUFFICES ASSUME NEW c \in Clusters, c \notin unread', c \notin unsaved'
             PROVE  disk[c] = file'[c] \/ Marked(slots', PageHolding(c))
  BY <1>5 DEF Saved, PageHolding
<1>9. CASE PageHolding(c) = p /\ EndsInPage
  BY <1>8, <1>9, EndsWhereLast
<1>10. CASE ~ (PageHolding(c) = p /\ EndsInPage)
  <2>1. c \notin Requested
    <3>1. c \in Requested => PageHolding(c) = p
      BY RequestedIsPart DEF PageHolding
    <3> QED
      BY <1>5, <1>10, <3>1
  <2>2. c \notin unsaved
    <3>1. c \in ClustersOf(p, InPage) => PageHolding(c) = p
      BY <1>0, InClustersOf DEF PageHolding
    <3> QED
      BY <1>5, <1>10, <3>1
  <2>3. c \notin unread /\ file'[c] = file[c]
    BY <1>5, <2>1 DEF Accepted
  <2> QED
    BY <1>7, <2>2, <2>3 DEF Saved
<1> QED
  BY <1>9, <1>10

\* Adding a page leaves the pages of the map where they are.
LEMMA CacheFilePageSlots ==
  ASSUME TypeOK, NEW data \in [InPage -> Data], NEW grows \in BOOLEAN, NEW allocates \in BOOLEAN,
         CcpCacheFilePage(data, grows, allocates),
         NEW j \in DOMAIN slots, slots[j].cached
  PROVE  j \in DOMAIN slots' /\ slots'[j] = slots[j]
<1> DEFINE room == IF IsFull /\ grows THEN Grown ELSE slots
           kept == FreeIn(room) # {} /\ allocates
           i == FirstOf(FreeIn(room))
           new == [room[i] EXCEPT !.cached = TRUE, !.page = call.page,
                                  !.modified = FALSE, !.data = data]
<1>0. slots \in Seq(Slot)
  BY DEF TypeOK, Slot
<1>1. room \in Seq(Slot)
  BY <1>0, GrownType
<1>2. j \in DOMAIN room /\ room[j] = slots[j]
  <2>1. CASE room = slots
    BY <2>1
  <2>2. CASE room = Grown
    <3>1. DOMAIN slots \subseteq DOMAIN Grown
      <4>1. [k \in 1 .. Len(slots) |-> EmptySlot] \in Seq(Slot)
        BY <1>0, EmptySlotType, SMT
      <4> QED
        BY <1>0, <4>1, SMT DEF Grown
    <3>2. j \in DOMAIN Grown
      BY <3>1
    <3> QED
      BY <1>0, <2>2, <3>2, GrownSlots
  <2> QED
    BY <2>1, <2>2
<1>3. CASE ~kept
  <2>1. slots' = room
    BY <1>3 DEF CcpCacheFilePage
  <2> HIDE DEF room
  <2> QED
    BY <1>2, <2>1
<1>4. CASE kept
  <2>1. slots' = [room EXCEPT ![i] = new]
    BY <1>4 DEF CcpCacheFilePage
  <2>2. i \in FreeIn(room)
    <3>1. FreeIn(room) \in SUBSET Nat
      <4> HIDE DEF room
      <4> QED
        BY <1>1, SMT DEF FreeIn
    <3> QED
      BY <1>4, <3>1, FirstOfLeast
  <2> HIDE DEF room, i, new
  <2>3. j # i
    BY <1>2, <2>2 DEF FreeIn
  <2> QED
    BY <1>2, <2>1, <2>3
<1> QED
  BY <1>3, <1>4

\* What a page of data is, whatever the device failed on.
LEMMA PageType ==
  ASSUME TypeOK, NEW bad \in SUBSET InPage
  PROVE  (IF call.op = "Read" THEN PageRead(bad) ELSE Overwrite(PageRead(bad))) \in [InPage -> Data]
<1>1. PageRead(bad) \in [InPage -> Data]
  <2> SUFFICES ASSUME NEW k \in InPage, ClustersOf(call.page, {k}) # {}
               PROVE  disk[call.page * ClustersPerPage + k] \in Data
    BY DEF PageRead, Data
  <2>1. call.page * ClustersPerPage + k \in Clusters
    BY DEF ClustersOf
  <2> QED
    BY <2>1 DEF TypeOK
<1>2. call.value \in Data
  BY DEF TypeOK
<1> QED
  BY <1>1, <1>2, OverwriteType

\* A page that goes into the map is as the disk is, or what it was asked to be is unsaved.
LEMMA CacheFilePageSaved ==
  ASSUME TypeOK, View, Saved, NEW data \in [InPage -> Data],
         NEW grows \in BOOLEAN, NEW allocates \in BOOLEAN,
         call.op \in {"Read", "Write"}, Cached(call.page) = {}, disk' = disk,
         CcpCacheFilePage(data, grows, allocates)
  PROVE  Saved'
<1> DEFINE room == IF IsFull /\ grows THEN Grown ELSE slots
           kept == FreeIn(room) # {} /\ allocates
           p == call.page
           good == {k \in InPage : data[k] # NoData}
           none == {k \in InPage : data[k] = NoData}
<1>0. p \in Nat
  BY DEF TypeOK
<1>1. \A q : Marked(slots, q) => Marked(slots', q)
  BY CacheFilePageSlots DEF Marked
<1>2. CASE ~kept
  <2>1. file' = file /\ unread' = unread /\ unsaved' = unsaved
    BY <1>2 DEF CcpCacheFilePage
  <2> QED
    BY <1>1, <2>1, SavedKept
<1>3. CASE kept
  <2>1. unread' = (unread \ ClustersOf(p, good)) \cup ClustersOf(p, none)
    BY <1>3 DEF CcpCacheFilePage
  <2>2. \/ file' = Accepted /\ unsaved' = unsaved \cup Requested
        \/ file' = file /\ unsaved' = unsaved
    BY <1>3 DEF CcpCacheFilePage
  <2> SUFFICES ASSUME NEW c \in Clusters, c \notin unread', c \notin unsaved'
               PROVE  disk[c] = file'[c] \/ Marked(slots', PageHolding(c))
    BY DEF Saved, PageHolding
  <2>3. file'[c] = file[c] /\ c \notin unsaved
    BY <2>2 DEF Accepted
  <2>4. CASE PageHolding(c) = p
    <3>1. c \notin unread
      BY <2>4 DEF View, UnreadIsCached
    <3>2. disk[c] = file[c]
      BY <2>4, <3>1 DEF View, DiskIsFile
    <3> QED
      BY <2>3, <3>2
  <2>5. CASE PageHolding(c) # p
    <3>1. c \notin ClustersOf(p, good)
      <4>1. good \in SUBSET InPage
        OBVIOUS
      <4> HIDE DEF good
      <4> QED
        BY <1>0, <2>5, <4>1, InClustersOf DEF PageHolding
    <3>2. c \notin unread
      <4> HIDE DEF good, none
      <4> QED
        BY <2>1, <3>1
    <3> QED
      BY <1>1, <2>3, <3>2 DEF Saved
  <2> QED
    BY <2>4, <2>5
<1> QED
  BY <1>2, <1>3

\* A purge gives the disk what it wrote, and keeps the mark of what it did not.
LEMMA PurgeSaved ==
  ASSUME TypeOK, View, Saved, NEW bad \in SUBSET InPage, CcPurgeCacheFilePage(bad)
  PROVE  Saved'
<1> DEFINE i == FirstOf(ModifiedSlots)
           p == slots[i].page
           written == ClustersOf(p, InPage \ bad)
           clean == [slots[i] EXCEPT !.modified = FALSE]
           failed == [slots[i] EXCEPT !.error = TRUE]
<1>0. slots \in Seq(Slot)
  BY DEF TypeOK, Slot
<1>1. i \in DOMAIN slots /\ i \in ModifiedSlots
  BY <1>0, FirstModified DEF CcPurgeCacheFilePage
<1>2. slots[i].cached /\ slots[i].modified
  <2> HIDE DEF i
  <2> QED
    BY <1>1 DEF ModifiedSlots
<1>3. slots[i] \in Slot
  <2> HIDE DEF i
  <2> QED
    BY <1>0, <1>1, ElementType
<1>4. p \in Nat /\ InPage \ bad \in SUBSET InPage
  <2> HIDE DEF i
  <2> QED
    BY <1>3 DEF Slot
<1>5. failed.cached = slots[i].cached /\ failed.page = slots[i].page
      /\ failed.modified = slots[i].modified
  <2> HIDE DEF i
  <2> QED
    BY <1>3 DEF Slot
<1>6. /\ disk' = [c \in Clusters |-> IF c \in written THEN slots[i].data[c % ClustersPerPage]
                                     ELSE disk[c]]
      /\ file' = file /\ unread' = unread
  BY DEF CcPurgeCacheFilePage
<1>7. \/ /\ WriteSucceeds(bad) /\ slots' = [slots EXCEPT ![i] = clean]
         /\ unsaved' = (unsaved \ written) \cup ClustersOf(p, bad \ {ClustersPerPage - 1})
      \/ slots' = [slots EXCEPT ![i] = failed] /\ unsaved' = unsaved
  BY DEF CcPurgeCacheFilePage
<1> HIDE DEF i, clean, failed
<1> SUFFICES ASSUME NEW c \in Clusters, c \notin unread, c \notin unsaved'
             PROVE  disk'[c] = file[c] \/ Marked(slots', PageHolding(c))
  BY <1>6 DEF Saved, PageHolding
<1>8. c \in written <=> PageHolding(c) = p /\ PlaceIn(c) \in InPage \ bad
  BY <1>4, InClustersOf DEF PageHolding, PlaceIn
<1>9. disk'[c] = IF c \in written THEN slots[i].data[PlaceIn(c)] ELSE disk[c]
  <2> HIDE DEF written
  <2> QED
    BY <1>6 DEF PlaceIn
<1> HIDE DEF written, p
<1>10. ASSUME NEW j \in DOMAIN slots, j # i,
              slots[j].cached, slots[j].modified, slots[j].page = PageHolding(c)
       PROVE  Marked(slots', PageHolding(c))
  <2>1. j \in DOMAIN slots' /\ slots'[j] = slots[j]
    BY <1>7, <1>10
  <2> QED
    BY <1>10, <2>1 DEF Marked
<1>11. CASE c \in written
  <2>1. slots[i].data[PlaceIn(c)] = file[c]
    BY <1>1, <1>2, <1>8, <1>11 DEF View, CopiesAreFile, Holds, p
  <2> QED
    BY <1>9, <1>11, <2>1
<1>12. CASE PageHolding(c) = p /\ c \notin written
  <2>1. PlaceIn(c) \in bad
    BY <1>8, <1>12, PlaceOf DEF PlaceIn
  <2>2. ~ (WriteSucceeds(bad) /\ c \notin ClustersOf(p, bad \ {ClustersPerPage - 1}))
    <3> SUFFICES ASSUME WriteSucceeds(bad)
                 PROVE  c \in ClustersOf(p, bad \ {ClustersPerPage - 1})
      OBVIOUS
    <3>1. bad \ {ClustersPerPage - 1} = bad
      BY DEF WriteSucceeds
    <3> QED
      BY <1>4, <1>12, <2>1, <3>1, InClustersOf DEF PageHolding, PlaceIn, p
  <2>3. slots' = [slots EXCEPT ![i] = failed]
    BY <1>7, <2>2
  <2>4. i \in DOMAIN slots' /\ slots'[i] = failed
    BY <1>1, <2>3
  <2> QED
    BY <1>2, <1>5, <1>12, <2>4 DEF Marked, p
<1>13. CASE PageHolding(c) # p
  <2>1. c \notin written
    BY <1>8, <1>13
  <2>2. c \notin unsaved
    BY <1>7, <2>1
  <2>3. CASE disk[c] = file[c]
    BY <1>9, <2>1, <2>3
  <2>4. CASE Marked(slots, PageHolding(c))
    <3>1. PICK j \in DOMAIN slots :
                   slots[j].cached /\ slots[j].modified /\ slots[j].page = PageHolding(c)
      BY <2>4 DEF Marked
    <3>2. j # i
      BY <1>13, <3>1 DEF p
    <3> QED
      BY <1>10, <3>1, <3>2
  <2> QED
    BY <2>2, <2>3, <2>4 DEF Saved
<1> QED
  BY <1>11, <1>12, <1>13

\* No step loses a change that is neither marked nor known to be lost.
LEMMA SavedStep ==
  ASSUME TypeOK, OnceInv, RangeInv, ViewInv, SavedInv, [Next]_vars
  PROVE  SavedInv'
<1> SUFFICES ASSUME ~through'.write
             PROVE  Saved'
  BY DEF SavedInv
<1>1. ASSUME NEW t \in [read : BOOLEAN, write : BOOLEAN], CcInitializeFileCaching(t)
      PROVE  Saved'
  BY <1>1 DEF CcInitializeFileCaching, Saved
<1>2. ASSUME through' = through
      PROVE  View /\ Saved /\ (WillCache => Cached(call.page) = {})
  BY <1>2 DEF ViewInv, SavedInv, OnceInv, MissInv
<1>3. ASSUME through' = through, slots' = slots, disk' = disk, file' = file,
             unread' = unread, unsaved' = unsaved
      PROVE  Saved'
  BY <1>2, <1>3, SavedKept
<1>4. CASE Request
  BY <1>3, <1>4 DEF Request, CcCacheReadFile, CcCacheWriteFile, Begin, mapVars, history
<1>5. CASE CcpFindAndReadWriteHit
  <2>1. CASE call.op = "Read"
    BY <1>3, <1>5, <2>1 DEF CcpFindAndReadWriteHit
  <2>2. CASE call.op = "Write"
    BY <1>2, <1>5, <2>2, WriteHitSaved DEF CcpFindAndReadWriteHit
  <2> QED
    BY <1>5, <2>1, <2>2 DEF CcpFindAndReadWriteHit
<1>6. CASE CcpFindAndReadWriteMiss
  BY <1>3, <1>6 DEF CcpFindAndReadWriteMiss, mapVars, history
<1>7. ASSUME NEW bad \in SUBSET InPage, NEW noMedia \in BOOLEAN, NEW grows \in BOOLEAN,
             NEW allocates \in BOOLEAN, ActualTransfer(bad, noMedia, grows, allocates)
      PROVE  Saved'
  <2> DEFINE page == IF call.op = "Read" THEN PageRead(bad) ELSE Overwrite(PageRead(bad))
  <2>1. through' = through /\ disk' = disk /\ call.op \in {"Read", "Write"}
    BY <1>7 DEF ActualTransfer
  <2>2. CASE WillCache /\ CcpCacheFilePage(page, grows, allocates)
    <3>1. page \in [InPage -> Data]
      BY PageType
    <3> HIDE DEF page
    <3> QED
      BY <1>2, <2>1, <2>2, <3>1, CacheFilePageSaved
  <2>3. CASE UNCHANGED <<slots, cachedPages, history>>
    BY <1>3, <2>1, <2>3 DEF history
  <2>4. (WillCache /\ CcpCacheFilePage(page, grows, allocates))
        \/ UNCHANGED <<slots, cachedPages, history>>
    BY <1>7 DEF ActualTransfer, WillCache
  <2> QED
    BY <2>2, <2>3, <2>4
<1>8. ASSUME NEW op \in {"Purge", "Free"}, BeginPurge(op)
      PROVE  Saved'
  BY <1>3, <1>8 DEF BeginPurge, mapVars, history
<1>9. ASSUME NEW bad \in SUBSET InPage, CcPurgeCacheFilePage(bad)
      PROVE  Saved'
  <2>1. through' = through
    BY <1>9 DEF CcPurgeCacheFilePage
  <2> QED
    BY <1>2, <1>9, <2>1, PurgeSaved
<1>10. CASE CcPurgeCacheFileEnd
  BY <1>3, <1>10 DEF CcPurgeCacheFileEnd, mapVars, history
<1>11. CASE CcFreeCacheMapFree
  BY <1>11 DEF CcFreeCacheMapFree
<1>12. CASE UNCHANGED vars
  BY <1>3, <1>12 DEF vars, mapVars, history
<1> QED
  BY <1>1, <1>4, <1>5, <1>6, <1>7, <1>8, <1>9, <1>10, <1>11, <1>12
     DEF Next, CcPurgeCacheFile, CcFreeCacheMap

\* Unless a file was opened with FILE_WRITE_THROUGH, what differs between the device and the
\* file its users wrote is in a page that CcPurgeCacheFile will find modified, or in one
\* of the clusters that the code is known to lose.
THEOREM ModifiedCorrect == Spec => []UnsavedIsModified
<1> DEFINE Inv == OnceInv /\ RangeInv /\ ViewInv /\ SavedInv
<1>1. Init => Inv
  <2> SUFFICES ASSUME Init PROVE Inv
    OBVIOUS
  <2>1. through.write = TRUE /\ call = Idle
    BY DEF Init
  <2> QED
    BY <2>1 DEF OnceInv, PagesCachedOnce, MissInv, RangeInv, Idle, ViewInv, SavedInv
<1>2. TypeOK /\ Inv /\ [Next]_vars => Inv'
  BY OnceStep, RangeStep, ViewStep, SavedStep
<1>3. Inv => UnsavedIsModified
  BY DEF SavedInv, Saved, Marked, UnsavedIsModified, ModifiedSlots, PageHolding
<1> QED
  BY <1>1, <1>2, <1>3, TypeCorrect, PTL DEF Spec

-----------------------------------------------------------------------------
(* Room in the map. *)

Used(s) == {j \in DOMAIN s : s[j].cached}

\* CachedPages bounds the pages of the map, and the map is enlarged before it is full.
RoomInv ==
  /\ IsFiniteSet(Used(slots)) /\ Cardinality(Used(slots)) <= cachedPages
  /\ slots = << >> \/ refused \/ cachedPages < Len(slots)

\* A map with the same pages, or fewer, is no fuller.
LEMMA UsedFewer ==
  ASSUME IsFiniteSet(Used(slots)), NEW s, Used(s) \subseteq Used(slots)
  PROVE  IsFiniteSet(Used(s)) /\ Cardinality(Used(s)) <= Cardinality(Used(slots))
BY FS_Subset

\* Changing a slot that stays cached leaves the pages there are.
LEMMA UsedKept ==
  ASSUME slots \in Seq(Slot), NEW i \in DOMAIN slots, NEW e, e.cached = slots[i].cached,
         slots' = [slots EXCEPT ![i] = e]
  PROVE  Used(slots') = Used(slots) /\ Len(slots') = Len(slots) /\ (slots' = << >> <=> slots = << >>)
<1>1. DOMAIN slots' = DOMAIN slots /\ slots'[i] = e
      /\ \A j \in DOMAIN slots : j # i => slots'[j] = slots[j]
  OBVIOUS
<1>2. Used(slots') = Used(slots)
  BY <1>1 DEF Used
<1>3. Len(slots') = Len(slots)
  BY SMT
<1> QED
  BY <1>1, <1>2, <1>3, SMT

\* A page more in the map is one more to count, and the map grew if it was the last.
LEMMA CacheFilePageRoom ==
  ASSUME TypeOK, RoomInv, NEW data \in [InPage -> Data], NEW grows \in BOOLEAN,
         NEW allocates \in BOOLEAN, CcpCacheFilePage(data, grows, allocates)
  PROVE  RoomInv'
<1> DEFINE room == IF IsFull /\ grows THEN Grown ELSE slots
           kept == FreeIn(room) # {} /\ allocates
           i == FirstOf(FreeIn(room))
           new == [room[i] EXCEPT !.cached = TRUE, !.page = call.page,
                                  !.modified = FALSE, !.data = data]
<1>0. slots \in Seq(Slot) /\ cachedPages \in Nat
  BY DEF TypeOK, Slot
<1>1. room \in Seq(Slot)
  BY <1>0, GrownType
<1>2. cachedPages' = cachedPages + 1 /\ refused' = (refused \/ (IsFull /\ ~grows))
  BY DEF CcpCacheFilePage
<1>3. Len(Grown) = Len(slots) + Len(slots)
  <2>1. [k \in 1 .. Len(slots) |-> EmptySlot] \in Seq(Slot)
        /\ Len([k \in 1 .. Len(slots) |-> EmptySlot]) = Len(slots)
    BY <1>0, EmptySlotType, SMT
  <2> QED
    BY <1>0, <2>1, SMT DEF Grown
<1>4. room = << >> \/ refused' \/ cachedPages' < Len(room)
  <2>1. Len(slots) \in Nat
    BY <1>0, SMT
  <2>2. CASE IsFull /\ grows
    BY <1>0, <1>2, <1>3, <2>1, <2>2 DEF IsFull
  <2>3. CASE IsFull /\ ~grows
    BY <1>2, <2>3
  <2>4. CASE ~IsFull
    <3>1. room = slots
      BY <2>4
    <3>2. slots = << >> \/ refused \/ cachedPages < Len(slots)
      BY DEF RoomInv
    <3>3. cachedPages + 1 # Len(slots)
      BY <2>4 DEF IsFull
    <3> HIDE DEF room
    <3>4. cachedPages < Len(slots) => cachedPages' < Len(slots)
      BY <1>0, <1>2, <2>1, <3>3
    <3> QED
      BY <1>2, <3>1, <3>2, <3>4
  <2> QED
    BY <2>2, <2>3, <2>4
<1>5. Used(room) \subseteq Used(slots)
  BY <1>0, GrownSlots DEF Used
<1>6. IsFiniteSet(Used(room)) /\ Cardinality(Used(room)) \in Nat
      /\ Cardinality(Used(room)) <= cachedPages
  <2> HIDE DEF room
  <2>1. IsFiniteSet(Used(room)) /\ Cardinality(Used(room)) <= Cardinality(Used(slots))
    BY <1>5, UsedFewer DEF RoomInv
  <2>2. Cardinality(Used(room)) \in Nat /\ Cardinality(Used(slots)) \in Nat
    BY <2>1, FS_CardinalityType DEF RoomInv
  <2> QED
    BY <1>0, <2>1, <2>2 DEF RoomInv
<1>7. CASE ~kept
  <2>1. slots' = room
    BY <1>7 DEF CcpCacheFilePage
  <2> HIDE DEF room
  <2> QED
    BY <1>0, <1>2, <1>4, <1>6, <2>1 DEF RoomInv
<1>8. CASE kept
  <2>1. slots' = [room EXCEPT ![i] = new]
    BY <1>8 DEF CcpCacheFilePage
  <2>2. i \in FreeIn(room)
    <3>1. FreeIn(room) \in SUBSET Nat
      <4> HIDE DEF room
      <4> QED
        BY <1>1, SMT DEF FreeIn
    <3> QED
      BY <1>8, <3>1, FirstOfLeast
  <2> HIDE DEF room, i, new
  <2>3. i \in DOMAIN room
    BY <2>2 DEF FreeIn
  <2>4. Len(slots') = Len(room) /\ slots' # << >>
    BY <1>1, <2>1, <2>3, SMT
  <2>5. room # << >>
    BY <2>3
  <2>6. Used(slots') \subseteq Used(room) \cup {i}
    BY <2>1 DEF Used
  <2>7. IsFiniteSet(Used(room) \cup {i}) /\ Cardinality(Used(room) \cup {i}) <= cachedPages + 1
    <3>1. \/ Cardinality(Used(room) \cup {i}) = Cardinality(Used(room))
          \/ Cardinality(Used(room) \cup {i}) = Cardinality(Used(room)) + 1
      BY <1>6, FS_AddElement
    <3>2. IsFiniteSet(Used(room) \cup {i})
      BY <1>6, FS_AddElement
    <3> QED
      BY <1>0, <1>6, <3>1, <3>2
  <2>8. IsFiniteSet(Used(slots')) /\ Cardinality(Used(slots')) <= cachedPages + 1
    <3>1. IsFiniteSet(Used(slots')) /\ Cardinality(Used(slots')) <= Cardinality(Used(room) \cup {i})
      BY <2>6, <2>7, FS_Subset
    <3>2. Cardinality(Used(slots')) \in Nat /\ Cardinality(Used(room) \cup {i}) \in Nat
      BY <2>7, <3>1, FS_CardinalityType
    <3> QED
      BY <1>0, <2>7, <3>1, <3>2
  <2>9. refused' \/ cachedPages' < Len(slots')
    BY <1>4, <2>4, <2>5
  <2> QED
    BY <1>2, <2>8, <2>9 DEF RoomInv
<1> QED
  BY <1>7, <1>8

\* Every step leaves room for a page, or notes that the map could not grow.
LEMMA RoomStep ==
  ASSUME TypeOK, RoomInv, [Next]_vars
  PROVE  RoomInv'
<1>0. slots \in Seq(Slot) /\ cachedPages \in Nat
  BY DEF TypeOK, Slot
<1>1. ASSUME NEW s, slots' = s, s = << >> \/ s = [k \in 1 .. MinCachedPages |-> EmptySlot],
             cachedPages' = 0
      PROVE  RoomInv'
  <2>1. \A j \in DOMAIN s : ~s[j].cached
    <3>1. CASE s = << >>
      BY <3>1
    <3>2. CASE s = [k \in 1 .. MinCachedPages |-> EmptySlot]
      BY <3>2 DEF EmptySlot
    <3> QED
      BY <1>1, <3>1, <3>2
  <2>2. Used(slots') = {}
    BY <1>1, <2>1 DEF Used
  <2>3. IsFiniteSet({}) /\ Cardinality({}) = 0
    BY FS_EmptySet
  <2>4. s = << >> \/ 0 < Len(s)
    BY <1>1, CacheAssumption, SMT
  <2> QED
    BY <1>1, <2>2, <2>3, <2>4 DEF RoomInv
<1>2. CASE Used(slots') = Used(slots) /\ Len(slots') = Len(slots) /\ (slots' = << >> <=> slots = << >>)
           /\ cachedPages' = cachedPages /\ refused' = refused
  BY <1>2 DEF RoomInv
<1>3. CASE slots' = slots /\ cachedPages' = cachedPages /\ refused' = refused
  BY <1>3 DEF RoomInv
<1>4. CASE Request
  BY <1>3, <1>4 DEF Request, CcCacheReadFile, CcCacheWriteFile, Begin, mapVars, history
<1>5. CASE CcpFindAndReadWriteHit
  <2>1. cachedPages' = cachedPages /\ refused' = refused
    BY <1>5 DEF CcpFindAndReadWriteHit
  <2>2. CASE call.op = "Read"
    BY <1>3, <1>5, <2>1, <2>2 DEF CcpFindAndReadWriteHit
  <2>3. CASE call.op = "Write"
    <3> DEFINE i == FirstOf(Cached(call.page))
               new == [slots[i] EXCEPT !.data = Overwrite(@), !.modified = @ \/ IsLastPage]
    <3>1. Cached(call.page) # {} /\ Cached(call.page) \in SUBSET Nat
      BY <1>0, <1>5, SMT DEF CcpFindAndReadWriteHit, Cached
    <3>2. i \in Cached(call.page)
      BY <3>1, FirstOfLeast
    <3>3. i \in DOMAIN slots /\ slots[i] \in Slot
      <4> HIDE DEF i
      <4> QED
        BY <1>0, <3>2, ElementType DEF Cached
    <3>4. new.cached = slots[i].cached
      <4> HIDE DEF i
      <4> QED
        BY <3>3 DEF Slot
    <3>5. slots' = [slots EXCEPT ![i] = new]
      BY <1>5, <2>3 DEF CcpFindAndReadWriteHit
    <3> HIDE DEF i, new
    <3> QED
      BY <1>0, <1>2, <2>1, <3>3, <3>4, <3>5, UsedKept
  <2> QED
    BY <1>5, <2>2, <2>3 DEF CcpFindAndReadWriteHit
<1>6. CASE CcpFindAndReadWriteMiss
  BY <1>3, <1>6 DEF CcpFindAndReadWriteMiss, mapVars, history
<1>7. ASSUME NEW bad \in SUBSET InPage, NEW noMedia \in BOOLEAN, NEW grows \in BOOLEAN,
             NEW allocates \in BOOLEAN, ActualTransfer(bad, noMedia, grows, allocates)
      PROVE  RoomInv'
  <2> DEFINE page == IF call.op = "Read" THEN PageRead(bad) ELSE Overwrite(PageRead(bad))
  <2>1. CASE CcpCacheFilePage(page, grows, allocates)
    <3>1. page \in [InPage -> Data]
      BY PageType
    <3> HIDE DEF page
    <3> QED
      BY <2>1, <3>1, CacheFilePageRoom
  <2>2. CASE UNCHANGED <<slots, cachedPages, history>>
    BY <1>3, <2>2 DEF history
  <2>3. CcpCacheFilePage(page, grows, allocates) \/ UNCHANGED <<slots, cachedPages, history>>
    BY <1>7 DEF ActualTransfer
  <2> QED
    BY <2>1, <2>2, <2>3
<1>8. ASSUME NEW op \in {"Purge", "Free"}, BeginPurge(op)
      PROVE  RoomInv'
  BY <1>3, <1>8 DEF BeginPurge, mapVars, history
<1>9. ASSUME NEW bad \in SUBSET InPage, CcPurgeCacheFilePage(bad)
      PROVE  RoomInv'
  <2> DEFINE i == FirstOf(ModifiedSlots)
             clean == [slots[i] EXCEPT !.modified = FALSE]
             failed == [slots[i] EXCEPT !.error = TRUE]
  <2>1. slots' = [slots EXCEPT ![i] = clean] \/ slots' = [slots EXCEPT ![i] = failed]
    BY <1>9 DEF CcPurgeCacheFilePage
  <2>2. i \in DOMAIN slots
    BY <1>0, <1>9, FirstModified DEF CcPurgeCacheFilePage
  <2>3. clean.cached = slots[i].cached /\ failed.cached = slots[i].cached
    <3>1. slots[i] \in Slot
      <4> HIDE DEF i
      <4> QED
        BY <1>0, <2>2, ElementType
    <3> QED
      BY <3>1 DEF Slot
  <2>4. cachedPages' = cachedPages /\ refused' = refused
    BY <1>9 DEF CcPurgeCacheFilePage
  <2> HIDE DEF i, clean, failed
  <2> QED
    BY <1>0, <1>2, <2>1, <2>2, <2>3, <2>4, UsedKept
<1>10. CASE CcPurgeCacheFileEnd
  BY <1>3, <1>10 DEF CcPurgeCacheFileEnd, mapVars, history
<1>11. ASSUME NEW t \in [read : BOOLEAN, write : BOOLEAN], CcInitializeFileCaching(t)
       PROVE  RoomInv'
  BY <1>1, <1>11 DEF CcInitializeFileCaching
<1>12. CASE CcFreeCacheMapFree
  BY <1>1, <1>12 DEF CcFreeCacheMapFree
<1>13. CASE UNCHANGED vars
  BY <1>3, <1>13 DEF vars, mapVars, history
<1> QED
  BY <1>4, <1>5, <1>6, <1>7, <1>8, <1>9, <1>10, <1>11, <1>12, <1>13
     DEF Next, CcPurgeCacheFile, CcFreeCacheMap

\* CcpCacheFilePage finds a free slot, unless ExReallocHeap refused a larger map, and
\* CcFreeCacheMap, which counts to CachedPages, covers every page.
THEOREM RoomCorrect == Spec => []MapHasRoom
<1>1. Init => RoomInv
  <2> SUFFICES ASSUME Init PROVE RoomInv
    OBVIOUS
  <2>1. slots = << >> /\ cachedPages = 0
    BY DEF Init
  <2>2. Used(slots) = {}
    BY <2>1 DEF Used
  <2> QED
    BY <2>1, <2>2, FS_EmptySet DEF RoomInv
<1>2. TypeOK /\ RoomInv /\ [Next]_vars => RoomInv'
  BY RoomStep
<1>3. TypeOK /\ RoomInv => MapHasRoom
  <2> SUFFICES ASSUME TypeOK, RoomInv PROVE MapHasRoom
    OBVIOUS
  <2>1. slots \in Seq(Slot) /\ cachedPages \in Nat
    BY DEF TypeOK, Slot
  <2>2. Cardinality(Used(slots)) \in Nat /\ Len(slots) \in Nat
    BY <2>1, FS_CardinalityType, SMT DEF RoomInv
  <2>3. Cardinality(Used(slots)) <= cachedPages
        /\ (slots = << >> \/ refused \/ Cardinality(Used(slots)) < Len(slots))
    BY <2>1, <2>2 DEF RoomInv
  <2> QED
    BY <2>3 DEF MapHasRoom, Used
<1> QED
  BY <1>1, <1>2, <1>3, TypeCorrect, PTL DEF Spec
=============================================================================
