--------------------------------- MODULE Heap ----------------------------------
(***************************************************************************)
(* The kernel heap of GR8OS, kernel/ex.cpp: one array of memory cut into   *)
(* blocks, each behind a header; best fit, splitting, coalescing, growing  *)
(* and shrinking in place; and the guarded regions in which a thread's     *)
(* allocations are logged.                                                 *)
(*                                                                         *)
(* Every routine works under ExpKernelHeapLock and is one step; entering   *)
(* and leaving a guarded region calls the heap twice and is two.  Memory   *)
(* is counted in units of EX_HEAP_ALIGN bytes and a block is named by the  *)
(* unit its header starts at.                                              *)
(***************************************************************************)
EXTENDS Integers, Sequences, FiniteSets, SequencesExt

CONSTANTS
    Threads,
    HeapUnits,     \* ExpHeapSize, in units
    HeaderUnits,   \* SIZEOF_HEAP_BLOCK
    Align,         \* EX_HEAP_ALIGN
    Requests,      \* sizes callers ask for, in bytes
    GuardEntries,  \* EX_GUARD_TABLE_INITIAL_SIZE
    GuardRequest   \* sizes of a guard's EHEAP_GUARD_TABLE and of its entries

Addresses == 0 .. HeapUnits - 1
NoBlock   == HeapUnits     \* NULL in a guard table

\* No request is so large that ALIGN_UP wraps around, and a guard fits a byte count.
ASSUME HeapAssumption ==
    /\ HeapUnits \in Nat /\ HeaderUnits \in Nat \ {0} /\ HeapUnits > HeaderUnits
    /\ Align \in 1 .. 255
    /\ Requests \subseteq Nat \ {0}
    /\ GuardEntries \in Nat \ {0}
    /\ GuardRequest \in [1 .. 2 -> Nat \ {0}]

VARIABLES
    block,     \* the header at every address: EHEAP_BLOCK
    order,     \* ExpMemoryOrderBlockList
    free,      \* ExpFreeBlockList
    held,      \* block -> bytes, of the blocks given out and not given back
    guarded,   \* THREAD.InExGuardedRegion
    guard,     \* the entries of THREAD.ExGuardTable
    tables,    \* the two blocks a guard lives in
    pc,        \* where a thread is that enters or leaves a guarded region
    region,    \* history: blocks allocated in a thread's guarded region, not freed and
               \* not moved by another thread
    stopped    \* why KeBugCheck stopped the machine

memoryVars == <<block, order, free>>
guardVars  == <<guarded, guard, tables, pc>>
vars == <<memoryVars, held, guardVars, region, stopped>>

BlockTypes == {"None", "Free", "Allocated", "Locked"}
Reasons == {"Running", "LockedFreeing", "FreeFreeing", "LockedReallocating", "FreeReallocating",
            "Locking", "Unlocking", "InvalidBlock", "GuardTableFull", "AlreadyGuarded",
            "NotGuarded", "LeakDetected", "NullPointer", "Corrupted"}
EmptyGuard == [i \in 1 .. GuardEntries |-> NoBlock]
NoHeader == [size |-> 0, type |-> "None", pad |-> 0]

\* Every variable keeps its type; sizes do not go below zero.
TypeOK ==
    /\ block \in [Addresses -> [size : 0 .. HeapUnits, type : BlockTypes, pad : 0 .. 255]]
    /\ order \in Seq(Addresses)
    /\ free \in Seq(Addresses)
    /\ DOMAIN held \subseteq Addresses
    /\ \A a \in DOMAIN held : held[a] \in Nat \ {0}
    /\ guarded \in [Threads -> BOOLEAN]
    /\ guard \in [Threads -> [1 .. GuardEntries -> Addresses \cup {NoBlock}]]
    /\ tables \in [Threads -> [1 .. 2 -> Addresses \cup {NoBlock}]]
    /\ pc \in [Threads -> {"Idle", "Enter", "Leave"}]
    /\ region \in [Threads -> SUBSET Addresses]
    /\ stopped \in Reasons

-----------------------------------------------------------------------------
(* Routines on the memory m = [block, order, free], under the heap lock.    *)

Memory == [block |-> block, order |-> order, free |-> free]
SetMemory(m) == block' = m.block /\ order' = m.order /\ free' = m.free

UnitsOf(bytes) == (bytes + Align - 1) \div Align
Byte(n) == n % 256
Position(s, a) == CHOOSE i \in DOMAIN s : s[i] = a
RemoveEntryList(s, a) == RemoveAt(s, Position(s, a))

\* The neighbours in memory order; NoBlock stands for the head of the list.  Its
\* BlockType is read too, as the byte four below the head: the lowest of the last
\* pointer of ExpAllocatedBlockList, never HEAP_BLOCK_FREE.
NextOf(m, a) ==
    LET i == Position(m.order, a) IN IF i = Len(m.order) THEN NoBlock ELSE m.order[i + 1]
PreviousOf(m, a) ==
    LET i == Position(m.order, a) IN IF i = 1 THEN NoBlock ELSE m.order[i - 1]
LooksFree(m, a) == a # NoBlock /\ m.block[a].type = "Free"

\* ExpFindIdealBlock: the first of the smallest free blocks that are large enough.
SizeAt(m, i) == m.block[m.free[i]].size
Fits(m, bytes) == {i \in DOMAIN m.free : SizeAt(m, i) >= UnitsOf(bytes)}
Smallest(m, places) == {i \in places : \A j \in places : SizeAt(m, i) <= SizeAt(m, j)}
First(places) == CHOOSE i \in places : \A j \in places : i <= j
ExpFindIdealBlock(m, bytes) ==
    IF Fits(m, bytes) = {} THEN NoBlock ELSE m.free[First(Smallest(m, Fits(m, bytes)))]

\* A new free block of n units at address b, after block a in memory.
NewFreeBlock(m, a, b, n) ==
    [block |-> [m.block EXCEPT ![b] = [size |-> n, type |-> "Free", pad |-> 0]],
     order |-> InsertAt(m.order, Position(m.order, a) + 1, b),
     free  |-> Append(m.free, b)]

\* Mutant: the rest of the block is left unlinked.
ExpAllocateHeapInBlockKeepsRest(m, a, bytes) ==
    LET n == UnitsOf(bytes) IN
    [m EXCEPT !.block[a] = [size |-> n, type |-> "Allocated", pad |-> Byte(n * Align - bytes)],
              !.free = RemoveEntryList(@, a)]

ExpAllocateHeapInBlock(m, a, bytes) ==
    LET n    == UnitsOf(bytes)
        rest == m.block[a].size - n
        size == IF rest <= HeaderUnits THEN m.block[a].size ELSE n
        used == [m EXCEPT !.block[a] = [size |-> size, type |-> "Allocated",
                                        pad |-> Byte(size * Align - bytes)],
                          !.free = RemoveEntryList(@, a)]
    IN  IF rest <= HeaderUnits THEN used
        ELSE NewFreeBlock(used, a, a + HeaderUnits + n, rest - HeaderUnits)

\* Block b becomes part of block a before it, and its header is wiped.
Absorb(m, a, b) ==
    [block |-> [m.block EXCEPT ![a].size = @ + m.block[b].size + HeaderUnits,
                               ![b] = NoHeader],
     order |-> RemoveEntryList(m.order, b),
     free  |-> RemoveEntryList(m.free, b)]

\* The walk of ExpRebuildFreeBlocks towards higher addresses.
FollowingFree(m, a) ==
    LET i == Position(m.order, a)
        n == CHOOSE n \in 0 .. Len(m.order) - i :
                /\ \A j \in i + 1 .. i + n : LooksFree(m, m.order[j])
                /\ i + n < Len(m.order) => ~LooksFree(m, m.order[i + n + 1])
    IN  SubSeq(m.order, i + 1, i + n)

MergeFollowing(m, a) ==
    LET next == FollowingFree(m, a)
        merged[n \in 0 .. Len(next)] == IF n = 0 THEN m ELSE Absorb(merged[n - 1], a, next[n])
    IN  merged[Len(next)]

\* Mutant: only the following blocks are merged.
ExpRebuildFreeBlocksDown(m, a) == MergeFollowing(m, a)

\* The walk towards lower addresses merges a into its predecessor.
ExpRebuildFreeBlocks(m, a) ==
    LET down == MergeFollowing(m, a)
        prev == PreviousOf(m, a)
    IN  IF LooksFree(m, prev) THEN Absorb(down, prev, a) ELSE down

\* Going on to a second predecessor would use the header that was just wiped.
WalksOverWipedHeader(m, a) ==
    LET prev == PreviousOf(m, a)
    IN  LooksFree(m, prev) /\ LooksFree(m, PreviousOf(m, prev))

ExpFreeHeapBlock(m, a) ==
    ExpRebuildFreeBlocks([m EXCEPT !.block[a].type = "Free", !.free = Append(@, a)], a)

\* The headers that ExpFreeHeapBlock takes out of the guard table, in order.
LoggedFreeings(m, a) ==
    <<a>> \o FollowingFree(m, a)
          \o (IF LooksFree(m, PreviousOf(m, a)) THEN <<a>> ELSE << >>)
-----------------------------------------------------------------------------
(* Guard tables.                                                            *)

ReplaceEntry(g, from, to) ==
    LET places == {i \in DOMAIN g : g[i] = from}
    IN  IF places = {} THEN g ELSE [g EXCEPT ![First(places)] = to]
GuardFull(g) == NoBlock \notin {g[i] : i \in DOMAIN g}

ExpLogAllocation(g, a) == ReplaceEntry(g, NoBlock, a)
ExpLogRellocation(g, from, to) == ReplaceEntry(g, from, to)
ExpLogFreeing(g, a) == ReplaceEntry(g, a, NoBlock)
LogFreeings(g, s) ==
    LET logged[n \in 0 .. Len(s)] == IF n = 0 THEN g ELSE ExpLogFreeing(logged[n - 1], s[n])
    IN  logged[Len(s)]

-----------------------------------------------------------------------------
(* The operations.                                                          *)

Running(t) == stopped = "Running" /\ pc[t] = "Idle"
KeBugCheck(reason) ==
    /\ stopped' = reason
    /\ UNCHANGED <<memoryVars, held, guardVars, region>>

Hold(a, bytes) == [b \in DOMAIN held \cup {a} |-> IF b = a THEN bytes ELSE held[b]]
LetGo(a) == [b \in DOMAIN held \ {a} |-> held[b]]

\* Callers pass blocks they hold, but may get the order of calls wrong with locked
\* or free ones; the blocks of a guard are its own.
OwnTables == UNION {{tables[t][1], tables[t][2]} : t \in Threads}
Passed(a) == a \in ToSet(order) /\ a \notin OwnTables
             /\ (block[a].type = "Allocated" => a \in DOMAIN held)

\* A request that nothing fits returns NULL and changes nothing.
ExAllocateHeap(t, bytes) ==
    LET a == ExpFindIdealBlock(Memory, bytes) IN
    /\ Running(t)
    /\ a # NoBlock
    /\ IF guarded[t] /\ GuardFull(guard[t])
       THEN KeBugCheck("GuardTableFull")
       ELSE /\ SetMemory(ExpAllocateHeapInBlock(Memory, a, bytes))
            /\ held' = Hold(a, bytes)
            /\ guard' = IF guarded[t] THEN [guard EXCEPT ![t] = ExpLogAllocation(@, a)] ELSE guard
            /\ region' = IF guarded[t] THEN [region EXCEPT ![t] = @ \cup {a}] ELSE region
            /\ UNCHANGED <<guarded, tables, pc, stopped>>

ExFreeHeap(t, a) ==
    /\ Running(t)
    /\ Passed(a)
    /\ CASE block[a].type = "Locked" -> KeBugCheck("LockedFreeing")
         [] block[a].type = "Free"   -> KeBugCheck("FreeFreeing")
         [] WalksOverWipedHeader(Memory, a) -> KeBugCheck("Corrupted")
         [] OTHER ->
               /\ SetMemory(ExpFreeHeapBlock(Memory, a))
               /\ held' = LetGo(a)
               /\ guard' = IF guarded[t]
                           THEN [guard EXCEPT ![t] = LogFreeings(@, LoggedFreeings(Memory, a))]
                           ELSE guard
               /\ region' = [u \in Threads |-> region[u] \ {a}]
               /\ UNCHANGED <<guarded, tables, pc, stopped>>

-----------------------------------------------------------------------------
(* ExReallocHeap, one action per way out.                                   *)

Reallocates(t, a) ==
    /\ Running(t)
    /\ Passed(a)
    /\ block[a].type = "Allocated"

ReallocRefused(t, a) ==
    /\ Running(t)
    /\ Passed(a)
    /\ \/ block[a].type = "Free" /\ KeBugCheck("FreeReallocating")
       \/ block[a].type = "Locked" /\ KeBugCheck("LockedReallocating")

\* Mutant: the pointers of the free list are not corrected.
MoveBoundaryKeepsFreeList(a, b, n, bytes) ==
    LET to == a + HeaderUnits + n
        size == block[b].size + block[a].size - n
    IN  /\ block' = [[block EXCEPT ![b] = NoHeader]
                        EXCEPT ![a].size = n, ![a].pad = Byte(n * Align - bytes),
                               ![to] = [block[b] EXCEPT !.size = size]]
        /\ order' = [i \in DOMAIN order |-> IF order[i] = b THEN to ELSE order[i]]
        /\ UNCHANGED free

\* The blocks a and b after it get new sizes, and the header of b moves along.
MoveBoundary(a, b, n, bytes) ==
    LET to == a + HeaderUnits + n
        size == block[b].size + block[a].size - n
        moved(s) == [i \in DOMAIN s |-> IF s[i] = b THEN to ELSE s[i]]
        wiped == [block EXCEPT ![b] = NoHeader]
    IN  /\ block' = [wiped EXCEPT ![a].size = n, ![a].pad = Byte(n * Align - bytes),
                                  ![to] = [block[b] EXCEPT !.size = size]]
        /\ order' = moved(order)
        /\ free' = moved(free)

ReallocInPlace(t, a, bytes) ==
    LET n == UnitsOf(bytes) IN
    /\ Reallocates(t, a)
    /\ n <= block[a].size
    /\ block[a].size - n < HeaderUnits
    /\ block' = [block EXCEPT ![a].pad = Byte(block[a].size * Align - bytes)]
    /\ held' = Hold(a, bytes)
    /\ UNCHANGED <<order, free, guardVars, region, stopped>>

ReallocShrinkIntoNext(t, a, bytes) ==
    LET n == UnitsOf(bytes) IN
    /\ Reallocates(t, a)
    /\ n <= block[a].size
    /\ block[a].size - n >= HeaderUnits
    /\ LooksFree(Memory, NextOf(Memory, a))
    /\ MoveBoundary(a, NextOf(Memory, a), n, bytes)
    /\ held' = Hold(a, bytes)
    /\ UNCHANGED <<guardVars, region, stopped>>

\* The pattern of a padding longer than its block was written over the header, which
\* no longer has its checksum.
ExpCheckBlockValid(a, pad) == pad <= block[a].size * Align

\* The padding is adjusted by what the new size lacks to a whole unit, in a byte, and
\* the pattern is written over that many bytes at the end of the block.
ReallocShrinkWithinBlock(t, a, bytes) ==
    LET n   == UnitsOf(bytes)
        pad == Byte(block[a].pad + bytes - n * Align)
    IN  /\ Reallocates(t, a)
        /\ n <= block[a].size
        /\ block[a].size - n = HeaderUnits
        /\ ~LooksFree(Memory, NextOf(Memory, a))
        /\ IF ~ExpCheckBlockValid(a, pad)
           THEN KeBugCheck("InvalidBlock")
           ELSE /\ block' = [block EXCEPT ![a].pad = pad]
                /\ held' = Hold(a, bytes)
                /\ UNCHANGED <<order, free, guardVars, region, stopped>>

ReallocSplit(t, a, bytes) ==
    LET n == UnitsOf(bytes) IN
    /\ Reallocates(t, a)
    /\ n <= block[a].size
    /\ block[a].size - n > HeaderUnits
    /\ ~LooksFree(Memory, NextOf(Memory, a))
    /\ SetMemory(NewFreeBlock(
           [Memory EXCEPT !.block[a].size = n, !.block[a].pad = Byte(n * Align - bytes)],
           a, a + HeaderUnits + n, block[a].size - n - HeaderUnits))
    /\ held' = Hold(a, bytes)
    /\ UNCHANGED <<guardVars, region, stopped>>

\* Mutant: the next block is taken for a free one.
CanGrowAnyway(a, n) ==
    LET b == NextOf(Memory, a)
    IN  b # NoBlock /\ block[b].size + block[a].size > n + HeaderUnits

\* The next block is free and large enough to keep more than a header.
CanGrow(a, n) ==
    LET b == NextOf(Memory, a)
    IN  LooksFree(Memory, b) /\ block[b].size + block[a].size > n + HeaderUnits

ReallocGrow(t, a, bytes) ==
    /\ Reallocates(t, a)
    /\ UnitsOf(bytes) > block[a].size
    /\ CanGrow(a, UnitsOf(bytes))
    /\ MoveBoundary(a, NextOf(Memory, a), UnitsOf(bytes), bytes)
    /\ held' = Hold(a, bytes)
    /\ UNCHANGED <<guardVars, region, stopped>>

\* The block moves: the new one is logged as an allocation, replaces the old one in
\* the guard table, and the old one is freed.  Nothing happens when nothing fits.
ReallocMove(t, a, bytes) ==
    LET b     == ExpFindIdealBlock(Memory, bytes)
        after == ExpAllocateHeapInBlock(Memory, b, bytes)
        log(g) == LogFreeings(ExpLogRellocation(ExpLogAllocation(g, b), a, b),
                              LoggedFreeings(after, a))
    IN  /\ Reallocates(t, a)
        /\ UnitsOf(bytes) > block[a].size
        /\ ~CanGrow(a, UnitsOf(bytes))
        /\ b # NoBlock
        /\ CASE guarded[t] /\ GuardFull(guard[t]) -> KeBugCheck("GuardTableFull")
             [] WalksOverWipedHeader(after, a) -> KeBugCheck("Corrupted")
             [] OTHER ->
                   /\ SetMemory(ExpFreeHeapBlock(after, a))
                   /\ held' = [x \in (DOMAIN held \cup {b}) \ {a} |->
                                   IF x = b THEN bytes ELSE held[x]]
                   /\ guard' = IF guarded[t] THEN [guard EXCEPT ![t] = log(@)] ELSE guard
                   /\ region' = [u \in Threads |->
                                   (region[u] \ {a}) \cup (IF u = t /\ guarded[t] THEN {b} ELSE {})]
                   /\ UNCHANGED <<guarded, tables, pc, stopped>>

-----------------------------------------------------------------------------
(* Locking blocks.                                                          *)

ExLockHeapBlock(t, a) ==
    /\ Running(t)
    /\ Passed(a)
    /\ IF block[a].type # "Allocated" THEN KeBugCheck("Locking")
       ELSE /\ block' = [block EXCEPT ![a].type = "Locked"]
            /\ UNCHANGED <<order, free, held, guardVars, region, stopped>>

ExUnlockHeapBlock(t, a) ==
    /\ Running(t)
    /\ Passed(a)
    /\ IF block[a].type # "Locked" THEN KeBugCheck("Unlocking")
       ELSE /\ block' = [block EXCEPT ![a].type = "Allocated"]
            /\ UNCHANGED <<order, free, held, guardVars, region, stopped>>

-----------------------------------------------------------------------------
(* Guarded regions.                                                         *)

\* Neither of the two results of ExAllocateHeap is tested.
AllocateTable(t, i) ==
    LET a == ExpFindIdealBlock(Memory, GuardRequest[i]) IN
    IF a = NoBlock THEN KeBugCheck("NullPointer")
    ELSE /\ SetMemory(ExpAllocateHeapInBlock(Memory, a, GuardRequest[i]))
         /\ held' = Hold(a, GuardRequest[i])
         /\ tables' = [tables EXCEPT ![t][i] = a]
         /\ pc' = [pc EXCEPT ![t] = IF i = 1 THEN "Enter" ELSE "Idle"]
         /\ guarded' = [guarded EXCEPT ![t] = i = 2]
         /\ guard' = [guard EXCEPT ![t] = EmptyGuard]
         /\ UNCHANGED <<region, stopped>>

ExEnterHeapGuardedRegion(t) ==
    /\ Running(t)
    /\ IF guarded[t] THEN KeBugCheck("AlreadyGuarded") ELSE AllocateTable(t, 1)

ExEnterHeapGuardedRegionTable(t) ==
    /\ stopped = "Running"
    /\ pc[t] = "Enter"
    /\ AllocateTable(t, 2)

\* The entries' block is freed first, by a thread that is no longer guarded.
FreeTable(t, i) ==
    IF WalksOverWipedHeader(Memory, tables[t][i]) THEN KeBugCheck("Corrupted")
    ELSE /\ SetMemory(ExpFreeHeapBlock(Memory, tables[t][i]))
         /\ held' = LetGo(tables[t][i])
         /\ tables' = [tables EXCEPT ![t][i] = NoBlock]
         /\ pc' = [pc EXCEPT ![t] = IF i = 2 THEN "Leave" ELSE "Idle"]
         /\ guarded' = [guarded EXCEPT ![t] = FALSE]
         /\ region' = [region EXCEPT ![t] = {}]
         /\ UNCHANGED <<guard, stopped>>

\* Mutant: the last entry is not looked at.
ExLeaveHeapGuardedRegionSkipsLast(t) ==
    /\ Running(t)
    /\ CASE ~guarded[t] -> KeBugCheck("NotGuarded")
         [] guarded[t] /\ \E i \in 1 .. GuardEntries - 1 : guard[t][i] # NoBlock ->
               KeBugCheck("LeakDetected")
         [] OTHER -> FreeTable(t, 2)

ExLeaveHeapGuardedRegion(t) ==
    /\ Running(t)
    /\ CASE ~guarded[t] -> KeBugCheck("NotGuarded")
         [] guarded[t] /\ guard[t] # EmptyGuard -> KeBugCheck("LeakDetected")
         [] OTHER -> FreeTable(t, 2)

ExLeaveHeapGuardedRegionTable(t) ==
    /\ stopped = "Running"
    /\ pc[t] = "Leave"
    /\ FreeTable(t, 1)

-----------------------------------------------------------------------------
\* ExInitializeHeap: one free block.
Init ==
    /\ block = [a \in Addresses |-> IF a = 0 THEN [size |-> HeapUnits - HeaderUnits,
                                                   type |-> "Free", pad |-> 0]
                                    ELSE NoHeader]
    /\ order = <<0>>
    /\ free = <<0>>
    /\ held = << >>
    /\ guarded = [t \in Threads |-> FALSE]
    /\ guard = [t \in Threads |-> EmptyGuard]
    /\ tables = [t \in Threads |-> [i \in 1 .. 2 |-> NoBlock]]
    /\ pc = [t \in Threads |-> "Idle"]
    /\ region = [t \in Threads |-> {}]
    /\ stopped = "Running"

ExReallocHeap(t, a) ==
    \/ ReallocRefused(t, a)
    \/ \E bytes \in Requests :
          \/ ReallocInPlace(t, a, bytes) \/ ReallocShrinkIntoNext(t, a, bytes)
          \/ ReallocShrinkWithinBlock(t, a, bytes) \/ ReallocSplit(t, a, bytes)
          \/ ReallocGrow(t, a, bytes) \/ ReallocMove(t, a, bytes)

Next == \E t \in Threads :
    \/ \E bytes \in Requests : ExAllocateHeap(t, bytes)
    \/ \E a \in Addresses : \/ ExFreeHeap(t, a) \/ ExReallocHeap(t, a)
                            \/ ExLockHeapBlock(t, a) \/ ExUnlockHeapBlock(t, a)
    \/ ExEnterHeapGuardedRegion(t) \/ ExEnterHeapGuardedRegionTable(t)
    \/ ExLeaveHeapGuardedRegion(t) \/ ExLeaveHeapGuardedRegionTable(t)

Spec == Init /\ [][Next]_vars
-----------------------------------------------------------------------------
(* Properties.                                                              *)

\* No unit of memory is ever lost or in two blocks: in memory order every block
\* starts where the one before it ends, from the first unit of the heap to the last
\* (ex.cpp:494, 530, 734, 859).
BlocksTileTheHeap ==
    /\ order # << >> /\ order[1] = 0
    /\ \A i \in DOMAIN order :
          order[i] + HeaderUnits + block[order[i]].size =
              IF i = Len(order) THEN HeapUnits ELSE order[i + 1]
    /\ \A a \in Addresses : block[a].type # "None" <=> a \in ToSet(order)

\* The free list holds exactly the free blocks, each once, so that no free memory is
\* out of reach and nothing in use can be given out (ex.cpp:342-349, 497, 533, 737, 846).
FreeListIsComplete ==
    /\ IsInjective(free)
    /\ ToSet(free) = {a \in Addresses : block[a].type = "Free"}

\* Two free blocks never touch: ExpRebuildFreeBlocks merges one predecessor at most,
\* and the reallocations that move or split must not leave a pair behind
\* (ex.cpp:517).
FreeBlocksDoNotTouch ==
    \A i \in 1 .. Len(order) - 1 :
        ~(block[order[i]].type = "Free" /\ block[order[i + 1]].type = "Free")

\* A thread only leaves its guarded region when everything it allocated there, and
\* still answers for, was given back (ex.cpp:1103, 1133).
LeaksAreDetected ==
    [][\A t \in Threads : guarded[t] /\ ~guarded'[t] => region[t] = {}]_vars

\* The heap hands out disjoint regions of its memory.
Regions == [s \in {a + HeaderUnits : a \in DOMAIN held} |-> UnitsOf(held[s - HeaderUnits])]
Promise == INSTANCE Allocator WITH Units <- HeapUnits, regions <- Regions
ImplementsAllocator == Promise!Spec
=============================================================================
