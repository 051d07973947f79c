---------------------------- MODULE PhysicalMemory ----------------------------
(***************************************************************************)
(* Physical pages of the GR8OS memory manager: kernel/mm.cpp.  The page    *)
(* database (MMPPD) with its zeroed and free lists, PTEs, the working set  *)
(* of the system process, and the memory descriptors (MMD) through which   *)
(* pages are allocated, mapped, unmapped and freed.                        *)
(*                                                                         *)
(* MmPpdLock and MmPageDatabaseLock are mutexes: a thread is preempted     *)
(* while it holds one.  A routine is the list of the stages its thread     *)
(* still has to run; a stage is what one taking of a lock protects.        *)
(***************************************************************************)
EXTENDS Integers, Sequences, FiniteSets, SequencesExt

CONSTANTS
    Threads,
    NoThread,
    Null,          \* a NULL link or pointer
    NotMapped,     \* a PTE with Valid = 0: its other bits are zero
    LastPage,      \* pages are 0 .. LastPage; page 0 belongs to the kernel
    Areas,         \* name of an area -> the set of its virtual pages
    VirtualPages,  \* all virtual pages: areas and what follows them
    Mmds,          \* memory descriptors, by address
    Sizes,         \* PageCount of a request
    ShareBits,     \* MMPPD.ShareCount : 5
    Increment      \* MM_WORKING_SET_INCREMENT

Pages == 0 .. LastPage
Kernel == 0
NoIndex == -1             \* WsIndex of a page in no working set

ASSUME PhysicalMemoryAssumption ==
    /\ LastPage \in Nat
    /\ NoThread \notin Threads
    /\ Null \notin Int \cup Mmds /\ NotMapped \notin Int
    /\ VirtualPages \subseteq Nat \ {0}
    /\ "Critical" \in DOMAIN Areas
    /\ \A a \in DOMAIN Areas : Areas[a] \subseteq VirtualPages
    /\ Sizes \subseteq Nat \ {0}
    /\ \A a \in DOMAIN Areas : \A v \in Areas[a], n \in Sizes : v .. v + n - 1 \subseteq VirtualPages
    /\ ShareBits \in Nat \ {0}
    /\ Increment \in Nat \ {0}

VARIABLES
    ppd,        \* the page database: location, u1, u2, head, share
    pte,        \* virtual page -> page, or NotMapped
    entries,    \* MMWORKING_SET.WsPages: the page of an entry that is Present, or Null
    ppdLock,    \* holder of MmPpdLock
    pageLock,   \* holder of MmPageDatabaseLock
    mmd,        \* contents of every descriptor
    todo,       \* stages a thread still has to run
    request,    \* the descriptor and the mapping a thread works on
    memory,     \* blocks that MmAllocateMemory returned: <<virtual page, pages>>
    clobbered,  \* history: a mapping was written over another one
    stopped     \* a KeBugCheck or a failed ASSERT

lockVars == <<ppdLock, pageLock>>
userVars == <<mmd, memory>>
vars == <<ppd, pte, entries, lockVars, userVars, todo, request, clobbered, stopped>>

Lists == {"Zeroed", "Free"}
Locations == Lists \cup {"Active", "Reserved"}
Flags == {"Allocated", "Locked", "Mapped"}
Stages == {"map", "mapping", "keep", "unmap", "unmapping", "unlock", "release", "discard"}
Links == Pages \cup {Null}
NoMmd == [used |-> FALSE, flags |-> {}, pages |-> << >>, base |-> 0, mapped |-> 0]
NoRequest == [mmd |-> Null, area |-> "Critical", addToWs |-> FALSE, va |-> 0, done |-> 0]

Wrap(n) == n % (2 ^ ShareBits)

-----------------------------------------------------------------------------
(* The page database.  u1 is NextFlink of a listed page and WsIndex of an     *)
(* active one, u2 is PrevBlink or PointerPte: writing one destroys the other. *)

UnlinkKeepsBlink(db, p) ==
    LET prev == db.u2[p]
        next == db.u1[p]
    IN  [db EXCEPT
           !.head = IF prev = Null THEN [@ EXCEPT ![db.location[p]] = next] ELSE @,
           !.u1 = IF prev \in Pages THEN [@ EXCEPT ![prev] = next] ELSE @]

MiUnlinkPpd(db, p) ==
    LET prev == db.u2[p]
        next == db.u1[p]
    IN  [db EXCEPT
           !.head = IF prev = Null THEN [@ EXCEPT ![db.location[p]] = next] ELSE @,
           !.u1 = IF prev \in Pages THEN [@ EXCEPT ![prev] = next] ELSE @,
           !.u2 = IF next \in Pages THEN [@ EXCEPT ![next] = prev] ELSE @]

MiLinkPpd(db, list, p) ==
    LET first == db.head[list]
    IN  [db EXCEPT
           !.u1[p] = first,
           !.u2 = [q \in Pages |-> IF q = p THEN Null ELSE IF q = first THEN p ELSE @[q]],
           !.head[list] = p]

MiChangePageLocation(db, p, new) ==
    LET out == IF db.location[p] \in Lists THEN MiUnlinkPpd(db, p) ELSE db
        in  == IF new \in Lists THEN MiLinkPpd(out, new, p)
                                ELSE [out EXCEPT !.u1[p] = 0, !.u2[p] = Null]
    IN  [in EXCEPT !.location[p] = new]

\* Several pages in turn.
MovePages(db, pages, new) ==
    FoldLeft(LAMBDA d, p : MiChangePageLocation(d, p, new), db, pages)

\* The pages of a list from its head, as the loops over NextFlink meet them.
Walk(db, list) ==
    LET nth[n \in 0 .. LastPage] ==
            IF n = 0 THEN db.head[list]
            ELSE IF nth[n - 1] \in Pages THEN db.u1[nth[n - 1]] ELSE Null
    IN  SelectSeq([n \in 1 .. LastPage + 1 |-> nth[n - 1]], LAMBDA p : p \in Pages)

\* ASSERT (Ppd->PageLocation != NewLocation) for pages that are moved one by one.
CanMove(db, pages, new) ==
    /\ \A i \in DOMAIN pages : db.location[pages[i]] # new
    /\ IsInjective(pages)

Init ==
    /\ ppd = [location |-> [p \in Pages |-> IF p = Kernel THEN "Active" ELSE "Zeroed"],
              u1 |-> [p \in Pages |-> IF p = Kernel THEN 0
                                      ELSE IF p = LastPage THEN Null ELSE p + 1],
              u2 |-> [p \in Pages |-> IF p \in {Kernel, 1} THEN Null ELSE p - 1],
              head |-> [l \in Lists |-> IF l = "Zeroed" /\ LastPage > 0 THEN 1 ELSE Null],
              share |-> [p \in Pages |-> IF p = Kernel THEN 1 ELSE 0]]
    /\ pte = [v \in VirtualPages |-> NotMapped]
    /\ entries = [i \in {0} |-> Kernel]
    /\ ppdLock = NoThread /\ pageLock = NoThread
    /\ mmd = [m \in Mmds |-> NoMmd]
    /\ todo = [t \in Threads |-> << >>]
    /\ request = [t \in Threads |-> NoRequest]
    /\ memory = {}
    /\ clobbered = FALSE /\ stopped = FALSE

\* At boot: pages that the BIOS reports as reserved.
MmReservePhysicalAddressRange(first, last) ==
    LET range == [i \in 1 .. last - first + 1 |-> first + i - 1]
    IN  /\ ~stopped
        /\ \A m \in Mmds : ~mmd[m].used
        /\ memory = {}
        /\ \A p \in Pages \ {Kernel} : ppd.location[p] \in {"Zeroed", "Reserved"}
        /\ IF CanMove(ppd, range, "Reserved")
           THEN ppd' = MovePages(ppd, range, "Reserved") /\ UNCHANGED stopped
           ELSE stopped' = TRUE /\ UNCHANGED ppd
        /\ UNCHANGED <<pte, entries, lockVars, userVars, todo, request, clobbered>>

-----------------------------------------------------------------------------
(* Calls.  A descriptor is used by one thread at a time.                     *)

Idle(t) == todo[t] = << >> /\ ~stopped
Busy(m) == \E t \in Threads : todo[t] # << >> /\ request[t].mmd = m
Owned(m) == mmd[m].used /\ ~Busy(m)

Call(t, m, stages, area, addToWs) ==
    /\ todo' = [todo EXCEPT ![t] = stages]
    /\ request' = [request EXCEPT ![t] =
           [NoRequest EXCEPT !.mmd = m, !.area = area, !.addToWs = addToWs]]

Quick(t) == UNCHANGED <<todo, request>>

\* Free pages first, then zeroed ones.
Available == Walk(ppd, "Free") \o Walk(ppd, "Zeroed")
Taken(n) == SubSeq(Available, 1, IF n < Len(Available) THEN n ELSE Len(Available))

Allocate(m, n) ==
    /\ ppdLock = NoThread
    /\ ~mmd[m].used
    /\ ppd' = MovePages(ppd, Taken(n), "Active")
    /\ mmd' = [mmd EXCEPT ![m] = [NoMmd EXCEPT !.used = TRUE, !.flags = {"Allocated"},
                                               !.pages = Taken(n)]]
    /\ UNCHANGED <<pte, entries, lockVars, memory, clobbered, stopped>>

\* A caller that asks for more pages than there are gets those there are.
MmAllocatePhysicalPages(t, m, n) ==
    /\ Idle(t)
    /\ Allocate(m, n)
    /\ Quick(t)

MemoryFreesItsMmd(t, m, n) ==
    /\ Idle(t)
    /\ Len(Available) >= n
    /\ Allocate(m, n)
    /\ Call(t, m, <<"map", "release", "keep">>, "Critical", FALSE)

\* ... and MmAllocateMemory forgets them: the descriptor stays, and nobody has it.
MmAllocateMemory(t, m, n) ==
    /\ Idle(t)
    /\ Len(Available) >= n
    /\ Allocate(m, n)
    /\ Call(t, m, <<"map", "keep">>, "Critical", FALSE)

MmAllocateMemoryFails(t, m, n) ==
    /\ Idle(t)
    /\ Len(Available) < n /\ Available # << >>
    /\ ppdLock = NoThread
    /\ ppd' = MovePages(ppd, Available, "Active")
    /\ Quick(t)
    /\ UNCHANGED <<pte, entries, lockVars, userVars, clobbered, stopped>>

PfnOf(v) == IF v \in VirtualPages /\ pte[v] # NotMapped THEN pte[v] ELSE Kernel
PfnsFrom(v, n) == [i \in 1 .. n |-> PfnOf(v + i - 1)]

\* MmAllocateMmd and MmBuildMmdForNonpagedSpace, for a buffer the caller has.
MmBuildMmdForNonpagedSpace(t, m, block) ==
    /\ Idle(t)
    /\ ~mmd[m].used
    /\ mmd' = [mmd EXCEPT ![m] = [NoMmd EXCEPT !.used = TRUE, !.base = block[1],
                                               !.pages = PfnsFrom(block[1], block[2])]]
    /\ Quick(t)
    /\ UNCHANGED <<ppd, pte, entries, lockVars, memory, clobbered, stopped>>

\* The address is not advanced: every element describes the first page.  LockedInWs is
\* left out: only the trimmer reads it, which is not compiled.
MmLockPages(t, m) ==
    /\ Idle(t) /\ Owned(m)
    /\ mmd[m].base # 0 /\ "Locked" \notin mmd[m].flags
    /\ pageLock = NoThread
    /\ mmd' = [mmd EXCEPT ![m].pages = [i \in DOMAIN @ |-> PfnOf(mmd[m].base)],
                          ![m].flags = @ \cup {"Locked"}]
    /\ Quick(t)
    /\ UNCHANGED <<ppd, pte, entries, lockVars, memory, clobbered, stopped>>

MmMapLockedPages(t, m, area, addToWs) ==
    /\ Idle(t) /\ Owned(m)
    /\ "Mapped" \notin mmd[m].flags
    /\ mmd[m].flags # {}
    /\ Call(t, m, <<"map">>, area, addToWs)
    /\ UNCHANGED <<ppd, pte, entries, lockVars, userVars, clobbered, stopped>>

MmUnmapLockedPages(t, m) ==
    /\ Idle(t) /\ Owned(m)
    /\ "Mapped" \in mmd[m].flags
    /\ Call(t, m, <<"unmap">>, "Critical", FALSE)
    /\ UNCHANGED <<ppd, pte, entries, lockVars, userVars, clobbered, stopped>>

\* The exported routines, called alone.
MmUnlockPages(t, m) ==
    /\ Idle(t) /\ Owned(m)
    /\ "Locked" \in mmd[m].flags
    /\ Call(t, m, <<"unlock">>, "Critical", FALSE)
    /\ UNCHANGED <<ppd, pte, entries, lockVars, userVars, clobbered, stopped>>

MmFreePhysicalPages(t, m) ==
    /\ Idle(t) /\ Owned(m)
    /\ "Allocated" \in mmd[m].flags /\ "Mapped" \notin mmd[m].flags
    /\ Call(t, m, <<"release">>, "Critical", FALSE)
    /\ UNCHANGED <<ppd, pte, entries, lockVars, userVars, clobbered, stopped>>

\* HAL maps a page below one megabyte for DMA, and unmaps it; no descriptor is involved,
\* the record stands for what DMA_REQUEST remembers.
MmMapPhysicalPagesInRange(t, m) ==
    /\ Idle(t)
    /\ ~mmd[m].used
    /\ mmd' = [mmd EXCEPT ![m] = [NoMmd EXCEPT !.used = TRUE, !.pages = <<Kernel>>]]
    /\ Call(t, m, <<"map">>, "Critical", FALSE)
    /\ UNCHANGED <<ppd, pte, entries, lockVars, memory, clobbered, stopped>>

\* Flags say what is left to undo, in this order.
MmFreeMmd(t, m) ==
    LET Needed(s) == CASE s = "unmap" -> "Mapped" \in mmd[m].flags
                       [] s = "unlock" -> "Locked" \in mmd[m].flags
                       [] s = "release" -> "Allocated" \in mmd[m].flags
                       [] OTHER -> TRUE
    IN  /\ Idle(t) /\ Owned(m)
        /\ Call(t, m, SelectSeq(<<"unmap", "unlock", "release", "discard">>, Needed),
                "Critical", FALSE)
        /\ UNCHANGED <<ppd, pte, entries, lockVars, userVars, clobbered, stopped>>

\* The descriptor says MAPPED, but its MappedVirtual is still NULL.
MmFreeMemory(t, m, block) ==
    /\ Idle(t)
    /\ ~mmd[m].used
    /\ \A d \in Mmds : mmd[d].base # block[1]
    /\ memory' = memory \ {block}
    /\ mmd' = [mmd EXCEPT ![m] = [NoMmd EXCEPT !.used = TRUE, !.base = block[1],
                                               !.flags = {"Allocated", "Mapped"},
                                               !.pages = PfnsFrom(block[1], block[2])]]
    /\ Call(t, m, <<"unmap", "release", "discard">>, "Critical", FALSE)
    /\ UNCHANGED <<ppd, pte, entries, lockVars, clobbered, stopped>>

-----------------------------------------------------------------------------
(* Stages.                                                                   *)

At(t, stage) == ~stopped /\ todo[t] # << >> /\ Head(todo[t]) = stage
Become(t, stage) == todo' = [todo EXCEPT ![t] = <<stage>> \o Tail(@)]
Return(t) ==
    /\ todo' = [todo EXCEPT ![t] = Tail(@)]
    /\ request' = [request EXCEPT ![t] = IF Len(todo[t]) = 1 THEN NoRequest ELSE @]
Of(t) == request[t].mmd

\* MM_PTE_IS_FREE looks at PointerPte whatever its argument: one free page will do.
FreeAreaPages(t) == {v \in Areas[request[t].area] : pte[v] = NotMapped}

MapSearch(t) ==
    /\ At(t, "map")
    /\ pageLock = NoThread
    /\ \E v \in FreeAreaPages(t) :
         /\ \A w \in FreeAreaPages(t) : v <= w
         /\ request' = [request EXCEPT ![t].va = v]
    /\ pageLock' = t
    /\ Become(t, "mapping")
    /\ UNCHANGED <<ppd, pte, entries, ppdLock, userVars, clobbered, stopped>>

\* MmMapLockedPages returns NULL; MmAllocateMemory asserts that it does not.
MapNoRoom(t) ==
    /\ At(t, "map")
    /\ pageLock = NoThread
    /\ FreeAreaPages(t) = {}
    /\ stopped' = (Len(todo[t]) > 1)
    /\ Return(t)
    /\ UNCHANGED <<ppd, pte, entries, lockVars, userVars, clobbered>>

\* The first entry not Present, after growing the set when there is none.
Grown == IF \E i \in DOMAIN entries : entries[i] = Null THEN entries
         ELSE [i \in 0 .. Cardinality(DOMAIN entries) + Increment - 1 |->
                  IF i \in DOMAIN entries THEN entries[i] ELSE Null]
FirstUnused == CHOOSE i \in DOMAIN Grown :
                  /\ Grown[i] = Null
                  /\ \A j \in DOMAIN Grown : j < i => Grown[j] # Null

MiAddPageToWorkingSet(p) ==
    entries' = [Grown EXCEPT ![FirstUnused] = p]

\* One page: the PTE is written under MmPageDatabaseLock, the PPD under both locks.
MapPage(t) ==
    LET m == Of(t)
        v == request[t].va + request[t].done
        p == mmd[m].pages[request[t].done + 1]
        share == Wrap(ppd.share[p] + 1)
        add == share = 1 /\ request[t].addToWs
    IN  /\ At(t, "mapping")
        /\ request[t].done < Len(mmd[m].pages)
        /\ ppdLock = NoThread
        /\ clobbered' = (clobbered \/ pte[v] # NotMapped \/ v \notin Areas[request[t].area])
        /\ pte' = [pte EXCEPT ![v] = p]
        /\ ppd' = IF share # 1 THEN [ppd EXCEPT !.share[p] = share]
                  ELSE [ppd EXCEPT !.share[p] = share, !.u2[p] = v,
                                   !.u1[p] = IF add THEN FirstUnused ELSE NoIndex]
        /\ IF add THEN MiAddPageToWorkingSet(p) ELSE UNCHANGED entries
        /\ request' = [request EXCEPT ![t].done = @ + 1]
        /\ UNCHANGED <<lockVars, userVars, todo, stopped>>

MapDone(t) ==
    /\ At(t, "mapping")
    /\ request[t].done = Len(mmd[Of(t)].pages)
    /\ pageLock' = NoThread
    /\ mmd' = [mmd EXCEPT ![Of(t)].flags = @ \cup {"Mapped"}, ![Of(t)].mapped = request[t].va]
    /\ Return(t)
    /\ UNCHANGED <<ppd, pte, entries, ppdLock, memory, clobbered, stopped>>

\* The end of MmAllocateMemory: the descriptor is freed, the mapping is the caller's.
MmAllocateMemoryReturn(t) ==
    /\ At(t, "keep")
    /\ memory' = memory \cup {<<mmd[Of(t)].mapped, Len(mmd[Of(t)].pages)>>}
    /\ mmd' = [mmd EXCEPT ![Of(t)] = NoMmd]
    /\ Return(t)
    /\ UNCHANGED <<ppd, pte, entries, lockVars, clobbered, stopped>>

\* MiUnmapPhysicalPages takes the locks in the other order.
UnmapLock(t) ==
    /\ At(t, "unmap")
    /\ ppdLock = NoThread
    /\ ppdLock' = t
    /\ Become(t, "unmapping")
    /\ UNCHANGED <<ppd, pte, entries, pageLock, userVars, request, clobbered, stopped>>

\* A PTE that is zero names page 0.  The entry -1 of WsPages lies outside the model.
MiUnmapPage(s, v) ==
    LET p == IF v \in VirtualPages /\ s.pte[v] # NotMapped THEN s.pte[v] ELSE Kernel
        share == Wrap(s.ppd.share[p] - 1)
        index == s.ppd.u1[p]
        last == share = 0
    IN  [ppd |-> IF last THEN [s.ppd EXCEPT !.share[p] = share, !.u1[p] = NoIndex]
                         ELSE [s.ppd EXCEPT !.share[p] = share],
         pte |-> [w \in VirtualPages |-> IF w = v THEN NotMapped ELSE s.pte[w]],
         entries |-> [i \in DOMAIN s.entries |->
                        IF last /\ i = index THEN Null ELSE s.entries[i]],
         failed |-> s.failed \/ (last /\ s.ppd.location[p] # "Active")]

UnmapKeepsPtes(v, n) ==
    [FoldLeft(MiUnmapPage, [ppd |-> ppd, pte |-> pte, entries |-> entries, failed |-> FALSE],
              [i \in 1 .. n |-> v + i - 1]) EXCEPT !.pte = pte]

MiUnmapPhysicalPages(v, n) ==
    FoldLeft(MiUnmapPage, [ppd |-> ppd, pte |-> pte, entries |-> entries, failed |-> FALSE],
             [i \in 1 .. n |-> v + i - 1])

Unmap(t) ==
    LET m == Of(t)
        s == MiUnmapPhysicalPages(mmd[m].mapped, Len(mmd[m].pages))
    IN  /\ At(t, "unmapping")
        /\ pageLock = NoThread
        /\ IF s.failed
           THEN stopped' = TRUE /\ UNCHANGED <<ppd, pte, entries>>
           ELSE ppd' = s.ppd /\ pte' = s.pte /\ entries' = s.entries /\ UNCHANGED stopped
        /\ ppdLock' = NoThread
        /\ mmd' = [mmd EXCEPT ![m].mapped = 0, ![m].flags = @ \ {"Mapped"}]
        /\ Return(t)
        /\ UNCHANGED <<pageLock, memory, clobbered>>

UnlockPages(t) ==
    /\ At(t, "unlock")
    /\ mmd' = [mmd EXCEPT ![Of(t)].flags = @ \ {"Locked"}]
    /\ Return(t)
    /\ UNCHANGED <<ppd, pte, entries, lockVars, memory, clobbered, stopped>>

FreePages(t) ==
    LET m == Of(t)
    IN  /\ At(t, "release")
        /\ ppdLock = NoThread
        /\ IF CanMove(ppd, mmd[m].pages, "Free")
           THEN ppd' = MovePages(ppd, mmd[m].pages, "Free") /\ UNCHANGED stopped
           ELSE stopped' = TRUE /\ UNCHANGED ppd
        /\ mmd' = [mmd EXCEPT ![m].flags = @ \ {"Allocated"}]
        /\ Return(t)
        /\ UNCHANGED <<pte, entries, lockVars, memory, clobbered>>

Discard(t) ==
    /\ At(t, "discard")
    /\ mmd' = [mmd EXCEPT ![Of(t)] = NoMmd]
    /\ Return(t)
    /\ UNCHANGED <<ppd, pte, entries, lockVars, memory, clobbered, stopped>>

\* The zero page thread empties the free list in one pass under MmPpdLock.
MiZeroPageThread ==
    /\ ~stopped
    /\ ppdLock = NoThread
    /\ ppd.head["Free"] # Null
    /\ ppd' = MovePages(ppd, Walk(ppd, "Free"), "Zeroed")
    /\ UNCHANGED <<pte, entries, lockVars, userVars, todo, request, clobbered, stopped>>

Start(t) ==
    \/ \E m \in Mmds, n \in Sizes :
         \/ MmAllocatePhysicalPages(t, m, n)
         \/ MmAllocateMemory(t, m, n)
         \/ MmAllocateMemoryFails(t, m, n)
    \/ \E m \in Mmds, block \in memory :
         MmBuildMmdForNonpagedSpace(t, m, block) \/ MmFreeMemory(t, m, block)
    \/ \E m \in Mmds, a \in DOMAIN Areas, add \in BOOLEAN : MmMapLockedPages(t, m, a, add)
    \/ \E m \in Mmds :
         \/ MmLockPages(t, m) \/ MmUnlockPages(t, m) \/ MmUnmapLockedPages(t, m)
         \/ MmFreePhysicalPages(t, m) \/ MmMapPhysicalPagesInRange(t, m) \/ MmFreeMmd(t, m)

Step(t) ==
    \/ MapSearch(t) \/ MapNoRoom(t) \/ MapPage(t) \/ MapDone(t) \/ MmAllocateMemoryReturn(t)
    \/ UnmapLock(t) \/ Unmap(t) \/ UnlockPages(t) \/ FreePages(t) \/ Discard(t)

Next ==
    \/ \E first, last \in Pages \ {Kernel} :
         first <= last /\ MmReservePhysicalAddressRange(first, last)
    \/ \E t \in Threads : Start(t) \/ Step(t)
    \/ MiZeroPageThread

Spec == Init /\ [][Next]_vars

-----------------------------------------------------------------------------
(* Properties.                                                               *)

\* Every variable has its type; a link of a page is read as its location says.
TypeOK ==
    /\ DOMAIN ppd = {"location", "u1", "u2", "head", "share"}
    /\ ppd.location \in [Pages -> Locations]
    /\ DOMAIN ppd.u1 = Pages /\ DOMAIN ppd.u2 = Pages
    /\ ppd.head \in [Lists -> Links]
    /\ ppd.share \in [Pages -> 0 .. 2 ^ ShareBits - 1]
    /\ pte \in [VirtualPages -> Pages \cup {NotMapped}]
    /\ DOMAIN entries = 0 .. Cardinality(DOMAIN entries) - 1
    /\ \A i \in DOMAIN entries : entries[i] \in Links
    /\ {ppdLock, pageLock} \subseteq Threads \cup {NoThread}
    /\ \A m \in Mmds : /\ mmd[m].used \in BOOLEAN /\ mmd[m].flags \subseteq Flags
                       /\ mmd[m].pages \in Seq(Pages)
                       /\ mmd[m].base \in Nat /\ mmd[m].mapped \in Nat
    /\ todo \in [Threads -> Seq(Stages)]
    /\ \A t \in Threads : request[t].mmd \in Mmds \cup {Null} /\ request[t].area \in DOMAIN Areas
    /\ memory \subseteq (VirtualPages \X Sizes)
    /\ clobbered \in BOOLEAN /\ stopped \in BOOLEAN

\* Walking a list from its head meets exactly the pages whose PageLocation is the list,
\* and PrevBlink leads back: with u1 and u2 shared between list links, WsIndex and
\* PointerPte, any late write through the wrong name breaks a list.
PageListsAreWellFormed ==
    \A l \in Lists :
        LET w == Walk(ppd, l)
        IN  /\ {w[i] : i \in DOMAIN w} = {p \in Pages : ppd.location[p] = l}
            /\ IsInjective(w)
            /\ \A i \in DOMAIN w : ppd.u2[w[i]] = IF i = 1 THEN Null ELSE w[i - 1]

BlockPages(b) == {pte[v] : v \in b[1] .. b[1] + b[2] - 1}
Holders == {m \in Mmds : "Allocated" \in mmd[m].flags}
HeldBy(m) == {mmd[m].pages[i] : i \in DOMAIN mmd[m].pages}

\* Unless a mapping was written over another, a page that MmAllocatePhysicalPages gave
\* out is active and belongs to one descriptor or one block of memory.
PagesHaveOneOwner ==
    ~clobbered /\ ~stopped =>
        /\ \A m \in Holders : \A p \in HeldBy(m) : ppd.location[p] = "Active"
        /\ \A b \in memory : \A p \in BlockPages(b) : p # NotMapped /\ ppd.location[p] = "Active"
        /\ \A m, n \in Holders : m # n => HeldBy(m) \cap HeldBy(n) = {}
        /\ \A b, c \in memory : b # c => BlockPages(b) \cap BlockPages(c) = {}
        /\ \A b \in memory, m \in Holders : BlockPages(b) \cap HeldBy(m) = {}

\* Unless a mapping was written over another, ShareCount of a page is the number of
\* PTEs that map it (page 0, which MmFreeMemory counts down, apart).
MappingsAreCounted ==
    ~clobbered => \A p \in Pages \ {Kernel} :
        ppd.share[p] = Wrap(Cardinality({v \in VirtualPages : pte[v] = p}))
=============================================================================
