--------------------------------- MODULE Cache ---------------------------------
(***************************************************************************)
(* The cache of GR8OS, kernel/cc.cpp: the cache map of one open file, the  *)
(* pages a read or a write leaves in it, and the purge that writes         *)
(* modified pages back, over a device that may fail on any cluster.        *)
(*                                                                         *)
(* A call that finds its pages through the map holds CacheMapLock from     *)
(* beginning to end, so that calls follow one another; a step is what a    *)
(* call does to one page.  The unit of data is the cluster, the unit the   *)
(* file system reads and writes.                                           *)
(***************************************************************************)
EXTENDS Integers, Sequences, FiniteSets

CONSTANTS
    ClustersPerPage,
    FileClusters,     \* length of the file
    MinCachedPages,   \* MIN_CACHED_PAGES
    Values,           \* what a cluster may hold
    NoData,           \* what a cluster holds that could not be read
    MaxCount          \* bound of the model on CachedPages, which only grows

ASSUME CacheAssumption ==
    /\ ClustersPerPage \in Nat \ {0} /\ FileClusters \in Nat \ {0}
    /\ MinCachedPages \in Nat \ {0} /\ MaxCount \in Nat
    /\ NoData \notin Values /\ Values # {}

Clusters == 0 .. FileClusters - 1
InPage   == 0 .. ClustersPerPage - 1
Data     == Values \cup {NoData}

VARIABLES
    opened,       \* File->CacheMap # NULL
    through,      \* File->ReadThrough and WriteThrough
    slots,        \* PageCacheMap; its length is MaxCachedPages
    cachedPages,  \* CachedPages
    disk,         \* the file on the device
    call,         \* the call in progress, with the clusters it is about (cells) as history
    file,         \* history: the file as its users know it, disk plus accepted writes
    unread,       \* history: clusters of it whose read failed without anybody noticing
    unsaved,      \* history: clusters changed by a request that missed, or went on to
                  \* the next page, and clusters other than a page's last that could
                  \* not be written
    refused       \* history: ExReallocHeap did not enlarge the map

mapVars == <<opened, through, slots, cachedPages>>
history == <<file, unread, unsaved, refused>>
vars == <<mapVars, disk, call, history>>

EmptySlot == [cached |-> FALSE, page |-> 0, modified |-> FALSE, error |-> FALSE,
              data |-> [k \in InPage |-> NoData]]
Idle == [op |-> "None", missed |-> FALSE, page |-> 0, offset |-> 0, size |-> 0, value |-> NoData,
         cells |-> {}]
Ops  == {"None", "Read", "Write", "Purge", "Free"}

\* Every variable keeps its type.
TypeOK ==
    /\ opened \in BOOLEAN
    /\ through \in [read : BOOLEAN, write : BOOLEAN]
    /\ slots \in Seq([cached : BOOLEAN, page : Nat, modified : BOOLEAN, error : BOOLEAN,
                      data : [InPage -> Data]])
    /\ cachedPages \in Nat
    /\ disk \in [Clusters -> Data]
    /\ call \in [op : Ops, missed : BOOLEAN, page : Nat, offset : InPage,
                 size : 0 .. FileClusters, value : Data, cells : SUBSET Clusters]
    /\ file \in [Clusters -> Data]
    /\ unread \in SUBSET Clusters
    /\ unsaved \in SUBSET Clusters
    /\ refused \in BOOLEAN

-----------------------------------------------------------------------------
(* Pages of the map, and the part of a page that a call is about. *)

ClustersOf(p, ks) == {p * ClustersPerPage + k : k \in ks} \cap Clusters
Cached(p)   == {i \in DOMAIN slots : slots[i].cached /\ slots[i].page = p}
FirstOf(S)  == CHOOSE i \in S : \A j \in S : i <= j
IsLastPage  == call.size <= ClustersPerPage - call.offset
Part        == {k \in InPage : call.offset <= k /\ k < call.offset + call.size}
Requested   == call.cells \cap ClustersOf(call.page, InPage)
EndsInPage  == \A c \in call.cells : c < (call.page + 1) * ClustersPerPage
Overwrite(data) == [k \in InPage |-> IF k \in Part THEN call.value ELSE data[k]]
Accepted    == [c \in Clusters |-> IF c \in Requested THEN call.value ELSE file[c]]

\* Mutant: the offset into the first page is used in every page.
AdvanceKeepsOffset ==
    call' = IF IsLastPage THEN Idle
            ELSE [call EXCEPT !.missed = FALSE, !.page = @ + 1,
                              !.size = @ - (ClustersPerPage - call.offset)]

\* What a call does next: return, or look up the next page.
Advance ==
    call' = IF IsLastPage THEN Idle
            ELSE [call EXCEPT !.missed = FALSE, !.page = @ + 1, !.offset = 0,
                              !.size = @ - (ClustersPerPage - call.offset)]

-----------------------------------------------------------------------------
(* Opening, and the beginning of a call. *)

\* Without memory for the map the file stays as it is, and so does the model.
CcInitializeFileCaching(t) ==
    /\ ~opened
    /\ opened' = TRUE
    /\ through' = t
    /\ slots' = IF t.read /\ t.write THEN << >> ELSE [i \in 1 .. MinCachedPages |-> EmptySlot]
    /\ cachedPages' = 0
    /\ file' = disk
    /\ unread' = {}
    /\ unsaved' = {}
    /\ refused' = FALSE
    /\ UNCHANGED <<disk, call>>

Begin(op, first, n, value, missed) ==
    /\ opened
    /\ call = Idle
    /\ cachedPages < MaxCount
    /\ call' = [op |-> op, missed |-> missed, page |-> first \div ClustersPerPage,
                offset |-> first % ClustersPerPage, size |-> n, value |-> value,
                cells |-> first .. first + n - 1]
    /\ UNCHANGED <<mapVars, disk, history>>

CcCacheReadFile(first, n) == Begin("Read", first, n, NoData, through.read)

\* Mutant: a write never looks for the page first.
CcCacheWriteFileNoLookup(first, n, value) == Begin("Write", first, n, value, TRUE)

CcCacheWriteFile(first, n, value) == Begin("Write", first, n, value, through.write)

-----------------------------------------------------------------------------
(* One page of a read or a write. *)

\* CcpFindAndReadWrite, when it finds the page.  The page is marked only if the
\* request ends in it: the code that marks comes after the jump to the next page.
CcpFindAndReadWriteHit ==
    /\ call.op \in {"Read", "Write"} /\ ~call.missed
    /\ Cached(call.page) # {}
    /\ LET i == FirstOf(Cached(call.page)) IN
       IF call.op = "Read"
       THEN UNCHANGED <<slots, file, unsaved>>
       ELSE /\ slots' = [slots EXCEPT ![i].data = Overwrite(@), ![i].modified = @ \/ IsLastPage]
            /\ file' = Accepted
            /\ unsaved' = IF EndsInPage THEN unsaved \ ClustersOf(call.page, InPage)
                          ELSE unsaved \cup Requested
    /\ unread' = IF call.op = "Read" THEN unread ELSE unread \ Requested
    /\ Advance
    /\ UNCHANGED <<opened, through, cachedPages, disk, refused>>

CcpFindAndReadWriteMiss ==
    /\ call.op \in {"Read", "Write"} /\ ~call.missed
    /\ Cached(call.page) = {}
    /\ call' = [call EXCEPT !.missed = TRUE]
    /\ UNCHANGED <<mapVars, disk, history>>

\* The free slots of a map, and the map when it has been doubled.
FreeIn(ss) == {i \in DOMAIN ss : ~ss[i].cached}
Grown      == slots \o [i \in 1 .. Len(slots) |-> EmptySlot]

\* Mutant: the count is compared before it is incremented.
IsFullLate == cachedPages = Len(slots)

IsFull == cachedPages + 1 = Len(slots)

\* The device may answer, memory may be there for a larger map and for the page.
\* CcpRebuildCacheMap is compiled to return at once (CC_DISABLE_CACHE_REBUILDING),
\* so that the map is doubled beyond MAX_CACHED_PAGES too.
CcpCacheFilePage(data, grows, allocates) ==
    LET room == IF IsFull /\ grows THEN Grown ELSE slots
        kept == FreeIn(room) # {} /\ allocates
    IN  /\ cachedPages' = cachedPages + 1
        /\ refused' = (refused \/ (IsFull /\ ~grows))
        /\ IF kept
           THEN /\ slots' = [room EXCEPT ![FirstOf(FreeIn(room))] =
                              [@ EXCEPT !.cached = TRUE, !.page = call.page,
                                        !.modified = FALSE, !.data = data]]
                /\ unread' = (unread \ ClustersOf(call.page, {k \in InPage : data[k] # NoData}))
                              \cup ClustersOf(call.page, {k \in InPage : data[k] = NoData})
                /\ IF call.op = "Write"
                   THEN file' = Accepted /\ unsaved' = unsaved \cup Requested
                   ELSE UNCHANGED <<file, unsaved>>
           ELSE slots' = room /\ UNCHANGED <<file, unread, unsaved>>

\* CcpActualReadPage: the page as it is after the device failed on the clusters bad.
\* Past the end of the file it answers STATUS_END_OF_FILE, which ends the loop well.
PageRead(bad) ==
    [k \in InPage |-> IF ClustersOf(call.page, {k}) # {} /\ k \notin bad
                      THEN disk[call.page * ClustersPerPage + k] ELSE NoData]

\* CcpActualReadPage: the status is that of the last cluster.
ReadSucceeds(bad) == ClustersPerPage - 1 \notin bad \/ ClustersOf(call.page, {ClustersPerPage - 1}) = {}

\* CcpActualRead and CcpActualWrite.  When the page could not be read, the call goes
\* on with the next one and forgets the status, unless there is none.
ActualTransfer(bad, noMedia, grows, allocates) ==
    /\ call.op \in {"Read", "Write"} /\ call.missed
    /\ LET page == IF call.op = "Read" THEN PageRead(bad) ELSE Overwrite(PageRead(bad)) IN
       IF /\ ReadSucceeds(bad) /\ ~noMedia
          /\ call.op = "Read" => ~through.read
       THEN CcpCacheFilePage(page, grows, allocates)
       ELSE UNCHANGED <<slots, cachedPages, history>>
    /\ Advance
    /\ UNCHANGED <<opened, through, disk>>

-----------------------------------------------------------------------------
(* Purging and closing. *)

ModifiedSlots == {i \in DOMAIN slots : slots[i].cached /\ slots[i].modified}

BeginPurge(op) ==
    /\ opened
    /\ call = Idle
    /\ call' = [Idle EXCEPT !.op = op]
    /\ UNCHANGED <<mapVars, disk, history>>

CcPurgeCacheFile == BeginPurge("Purge")
CcFreeCacheMap   == BeginPurge("Free")

\* Mutant: the status of the write is not looked at.
WriteSucceedsAlways(bad) == TRUE

\* CcpActualWritePage: the device fails on the clusters bad, and the status is that
\* of the last one.  A device that is not written to (ActualWrite = NULL) fails on all.
WriteSucceeds(bad) == ClustersPerPage - 1 \notin bad

\* One modified page of CcPurgeCacheFile; the first that fails ends it.
CcPurgeCacheFilePage(bad) ==
    /\ call.op \in {"Purge", "Free"}
    /\ ModifiedSlots # {}
    /\ LET i       == FirstOf(ModifiedSlots)
           page    == slots[i].page
           written == ClustersOf(page, InPage \ bad)
       IN  /\ disk' = [c \in Clusters |-> IF c \in written THEN slots[i].data[c % ClustersPerPage]
                                          ELSE disk[c]]
           /\ IF WriteSucceeds(bad)
              THEN /\ slots' = [slots EXCEPT ![i].modified = FALSE]
                   /\ unsaved' = (unsaved \ written) \cup ClustersOf(page, bad \ {ClustersPerPage - 1})
                   /\ UNCHANGED call
              ELSE /\ slots' = [slots EXCEPT ![i].error = TRUE]
                   /\ call' = Idle
                   /\ UNCHANGED unsaved
    /\ UNCHANGED <<opened, through, cachedPages, file, unread, refused>>

\* The end of CcPurgeCacheFile: every modified page has been written.
CcPurgeCacheFileEnd ==
    /\ call.op = "Purge"
    /\ ModifiedSlots = {}
    /\ call' = Idle
    /\ UNCHANGED <<mapVars, disk, history>>

\* CcFreeCacheMap goes on after the purge: buffers and map are given back.
CcFreeCacheMapFree ==
    /\ call.op = "Free"
    /\ ModifiedSlots = {}
    /\ opened' = FALSE
    /\ slots' = << >>
    /\ cachedPages' = 0
    /\ call' = Idle
    /\ through' = [read |-> TRUE, write |-> TRUE]
    /\ UNCHANGED <<disk, history>>

-----------------------------------------------------------------------------

Init ==
    /\ opened = FALSE
    /\ through = [read |-> TRUE, write |-> TRUE]
    /\ slots = << >>
    /\ cachedPages = 0
    /\ \E v \in Values : disk = [c \in Clusters |-> v]
    /\ call = Idle
    /\ file = disk
    /\ unread = {}
    /\ unsaved = {}
    /\ refused = FALSE

Request == \E first \in Clusters : \E n \in 1 .. FileClusters - first :
               \/ CcCacheReadFile(first, n)
               \/ \E v \in Values : CcCacheWriteFile(first, n, v)

Next ==
    \/ \E t \in [read : BOOLEAN, write : BOOLEAN] : CcInitializeFileCaching(t)
    \/ Request
    \/ CcpFindAndReadWriteHit
    \/ CcpFindAndReadWriteMiss
    \/ \E bad \in SUBSET InPage, noMedia, grows, allocates \in BOOLEAN :
           ActualTransfer(bad, noMedia, grows, allocates)
    \/ CcPurgeCacheFile
    \/ CcFreeCacheMap
    \/ \E bad \in SUBSET InPage : CcPurgeCacheFilePage(bad)
    \/ CcPurgeCacheFileEnd
    \/ CcFreeCacheMapFree

Spec == Init /\ [][Next]_vars

-----------------------------------------------------------------------------
(* Properties.  A file opened with FILE_WRITE_THROUGH is excluded from most: a   *)
(* write to it adds a second copy of a cached page (CcpActualWrite without a     *)
(* lookup), and readers keep finding the first.                                  *)

\* Of a page there is one copy in the map, whatever hits, misses and failures came before.
PagesCachedOnce ==
    ~through.write => \A i, j \in DOMAIN slots :
        slots[i].cached /\ slots[j].cached /\ slots[i].page = slots[j].page => i = j

\* Through the map and, for pages not in it, the device, a reader sees the last
\* write the cache accepted, except where the device failed to read a cluster.
Seen(c) == LET p == c \div ClustersPerPage IN
           IF Cached(p) = {} THEN disk[c]
           ELSE slots[FirstOf(Cached(p))].data[c % ClustersPerPage]
ReadersSeeLastWrite ==
    ~through.write => \A c \in Clusters \ unread : Seen(c) = file[c]

\* The file on the device differs from what its users wrote in modified pages, which
\* the next purge is to write, in clusters where the code is known to lose them, and nowhere else.
UnsavedIsModified ==
    ~through.write => \A c \in Clusters \ (unread \cup unsaved) :
        disk[c] = file[c] \/ \E i \in ModifiedSlots : slots[i].page = c \div ClustersPerPage

\* CachedPages covers the pages there are, so that CcFreeCacheMap frees them all, and
\* "there is some space to cache one page", unless the map could not grow.
MapHasRoom ==
    LET used == {i \in DOMAIN slots : slots[i].cached} IN
    /\ Cardinality(used) <= cachedPages
    /\ slots = << >> \/ refused \/ Cardinality(used) < Len(slots)
=============================================================================
