------------------------------ MODULE FileViews ------------------------------
(***************************************************************************)
(* File mappings and their views, mm.cpp.  A mapping is an object with a   *)
(* handle and a reference to its file; a view is a range of virtual pages  *)
(* whose page table entries name the handle of the mapping.  The first     *)
(* access to such a page is a fault, and MmAccessFault maps the frame in   *)
(* which the cache of the file keeps the page.                             *)
(*                                                                         *)
(* A routine is a chain of sections between two acquisitions of a mutex;   *)
(* Locks says which mutexes a thread holds and which one it waits for in   *)
(* each.  Unmapping is not supported: the views of a mapping outlive it.   *)
(* A failed assertion, a breakpoint, a bug check and a use of freed memory *)
(* stop the model.                                                         *)
(*                                                                         *)
(* External: the object manager and the cache, as far as mappings use      *)
(* them.  The kernel is the only caller, so processor modes do not differ; *)
(* trimmed pages do not occur, as nothing calls MmTrimPage; pages after    *)
(* the area are in use.  Views start at whole pages of their file.         *)
(* Callers close what they opened, once, access only pages of views they   *)
(* have, and do not close a file that is being read or mapped; an address  *)
(* of a mapping is not given out twice.                                    *)
(***************************************************************************)
EXTENDS Naturals, Sequences, FiniteSets, FiniteSetsExt

CONSTANTS
    Threads,
    Files, Writable,   \* files, and those opened with FILE_WRITE_DATA
    Mappings,          \* addresses of MAPPED_FILE objects
    FilePages,         \* pages of a file: 0 .. FilePages - 1
    AreaPages,         \* virtual pages of the area for views: 0 .. AreaPages - 1
    MaxHandle,         \* OB_INITIAL_HANDLES
    Frames,            \* physical pages for the cache
    MaxViews,          \* bound: views of a mapping
    None

ASSUME FileViewsAssumption ==
    /\ Writable \subseteq Files
    /\ {FilePages, AreaPages, MaxHandle, MaxViews} \subseteq Nat \ {0}
    /\ None \notin Threads \cup Files \cup Mappings \cup Frames
    /\ None \notin [start : Nat, size : Nat, offset : Nat, write : BOOLEAN, chosen : BOOLEAN]

VARIABLES
    call,      \* what each thread is doing
    mapping,   \* the MAPPED_FILE objects
    handle,    \* the handle table
    views,     \* ViewList of each mapping
    pte,       \* page table entries of the area
    file,      \* open, with a cache map, and the reference count
    cached,    \* the frame of each cached page of a file
    wanted,    \* history: the mapping a page was last mapped for, the page of the view and its offset
    stopped    \* why the machine stopped

vars == <<call, mapping, handle, views, pte, file, cached, wanted, stopped>>

Pages == 0 .. AreaPages - 1
PagesOfFile == 0 .. FilePages - 1
Handles == 1 .. MaxHandle      \* 0: a page that is reserved only

\* The offset is StartOffsetInFile; a view may reach behind its file.
View == [start : Pages, size : 1 .. FilePages, offset : PagesOfFile, write : BOOLEAN, chosen : BOOLEAN]
Stages == {"idle", "create", "map", "insert", "fault", "find", "resolve", "read", "purge",
           "delete", "unlist"}
Reasons == {"no", "handle table full", "freed mapping", "not a view", "bad handle", "write",
            "no view", "no cache map", "freed cache map", "not cached"}

Idle == [at |-> "idle", mapping |-> None, file |-> None, page |-> 0, view |-> None]

TypeOK ==
    /\ call \in [Threads -> [at : Stages, mapping : Mappings \cup {None}, file : Files \cup {None},
                             page : Nat, view : View \cup {None}]]
    /\ mapping \in [Mappings -> [state : {"unused", "live", "freed"}, file : Files \cup {None},
                                 write : BOOLEAN]]
    /\ handle \in [Handles -> Mappings \cup {None}]
    /\ views \in [Mappings -> Seq(View)]
    /\ pte \in [Pages -> [view : BOOLEAN, valid : BOOLEAN, write : BOOLEAN, handle : 0 .. MaxHandle,
                          frame : Frames \cup {None}]]
    /\ file \in [Files -> [open : BOOLEAN, cacheMap : BOOLEAN, references : Nat]]
    /\ cached \in [Files -> [PagesOfFile -> Frames \cup {None}]]
    /\ wanted \in [Pages -> [mapping : Mappings, page : PagesOfFile, offset : PagesOfFile] \cup {None}]
    /\ stopped \in Reasons

ZeroPte == [view |-> FALSE, valid |-> FALSE, write |-> FALSE, handle |-> 0, frame |-> None]

Init ==
    /\ call = [t \in Threads |-> Idle]
    /\ mapping = [m \in Mappings |-> [state |-> "unused", file |-> None, write |-> FALSE]]
    /\ handle = [h \in Handles |-> None]
    /\ views = [m \in Mappings |-> <<>>]
    /\ pte = [p \in Pages |-> ZeroPte]
    /\ file = [f \in Files |-> [open |-> TRUE, cacheMap |-> TRUE, references |-> 1]]
    /\ cached = [f \in Files |-> [i \in PagesOfFile |-> None]]
    /\ wanted = [p \in Pages |-> None]
    /\ stopped = "no"

-----------------------------------------------------------------------------
(* Mutexes.                                                                  *)

TableLock == <<"table">>
MmPageDatabaseLock == <<"page database">>
ViewListLock(m) == <<"views", m>>
CacheMapLock(f) == <<"cache", f>>

\* A bug for the mutants: the page database before the cache map.
CacheLocksPagesFirst(f) == [held |-> {MmPageDatabaseLock}, wants |-> {CacheMapLock(f)}]

\* The cache allocates and frees pages with its map locked.
CacheLocks(f) == [held |-> {CacheMapLock(f)}, wants |-> {MmPageDatabaseLock}]

\* The mutexes that a thread holds between its sections and what it needs for the next one.
Locks(c) ==
    CASE c.at = "create"  -> [held |-> {}, wants |-> {TableLock}]
      [] c.at = "map"     -> [held |-> {}, wants |-> {MmPageDatabaseLock}]
      [] c.at = "insert"  -> [held |-> {MmPageDatabaseLock}, wants |-> {ViewListLock(c.mapping)}]
      [] c.at = "fault"   -> [held |-> {}, wants |-> {ViewListLock(c.mapping)}]
      [] c.at = "find"    -> [held |-> {ViewListLock(c.mapping)}, wants |-> {CacheMapLock(c.file)}]
      [] c.at = "resolve" -> [held |-> {ViewListLock(c.mapping), CacheMapLock(c.file)},
                              wants |-> {MmPageDatabaseLock}]
      [] c.at \in {"read", "purge"} -> CacheLocks(c.file)
      [] c.at = "delete"  -> [held |-> {TableLock}, wants |-> {ViewListLock(c.mapping)}]
      [] c.at = "unlist"  -> [held |-> {TableLock}, wants |-> {}]
      [] OTHER            -> [held |-> {}, wants |-> {}]

FreeFor(t, locks) == \A u \in Threads \ {t} : locks \cap Locks(call[u]).held = {}

\* A thread enters the first section of a routine, with the mutexes it keeps after it.
Begin(t, c) ==
    /\ stopped = "no" /\ call[t] = Idle
    /\ FreeFor(t, Locks(c).held)
    /\ call' = [call EXCEPT ![t] = c]

\* A thread that is somewhere in a routine gets the mutex it waits for.
Granted(t, stage) ==
    /\ stopped = "no" /\ call[t].at = stage
    /\ FreeFor(t, Locks(call[t]).wants)

Goto(t, stage) == call' = [call EXCEPT ![t].at = stage]
Return(t) == call' = [call EXCEPT ![t] = Idle]

Stop(reason) ==
    /\ stopped' = reason
    /\ UNCHANGED <<call, mapping, handle, views, pte, file, cached, wanted>>

Dereference(f) == [file EXCEPT ![f].references = @ - 1]

-----------------------------------------------------------------------------
(* Mappings.                                                                 *)

\* MiFileAccessToPageProtection against the strongest protection, then the object, which goes
\* into the list of its file.
MmCreateFileMapping(f, write) ==
    /\ file[f].open /\ file[f].cacheMap
    /\ write => f \in Writable
    /\ \E m \in Mappings, t \in Threads :
        /\ mapping[m].state = "unused"
        /\ Begin(t, [Idle EXCEPT !.at = "create", !.mapping = m, !.file = f])
        /\ mapping' = [mapping EXCEPT ![m] = [state |-> "live", file |-> f, write |-> write]]
    /\ file' = [file EXCEPT ![f].references = @ + 1]
    /\ UNCHANGED <<handle, views, pte, cached, wanted, stopped>>

\* ObpCreateHandle asserts that there is a free entry.
ObpCreateHandle(t) ==
    /\ Granted(t, "create")
    /\ \/ /\ \E h \in Handles :
              /\ handle[h] = None /\ \A g \in 1 .. h - 1 : handle[g] # None
              /\ handle' = [handle EXCEPT ![h] = call[t].mapping]
          /\ Return(t)
          /\ UNCHANGED <<mapping, views, pte, file, cached, wanted, stopped>>
       \/ (\A h \in Handles : handle[h] # None) /\ Stop("handle table full")

\* ObClose keeps the handle table locked; the last reference deletes the mapping.
ObClose(t, h) ==
    /\ handle[h] # None
    /\ Begin(t, [Idle EXCEPT !.at = "delete", !.mapping = handle[h], !.page = h])
    /\ UNCHANGED <<mapping, handle, views, pte, file, cached, wanted, stopped>>

\* MiDeleteMapping goes through the views; MiUnmapViewOfFile does nothing.
MiDeleteMappingViews(t) ==
    /\ Granted(t, "delete")
    /\ Goto(t, "unlist")
    /\ UNCHANGED <<mapping, handle, views, pte, file, cached, wanted, stopped>>

\* It then drops the file, the object and its handle go, and the table is unlocked.
MiDeleteMapping(t) ==
    /\ Granted(t, "unlist")
    /\ mapping' = [mapping EXCEPT ![call[t].mapping].state = "freed"]
    /\ file' = Dereference(mapping[call[t].mapping].file)
    /\ handle' = [handle EXCEPT ![call[t].page] = None]
    /\ Return(t)
    /\ UNCHANGED <<views, pte, cached, wanted, stopped>>

-----------------------------------------------------------------------------
(* Views.                                                                    *)

\* A bug for the mutants: a page counts as free until it is valid.
IsNotValid(p) == p \in Pages /\ ~pte[p].valid

\* MiIsAddressValidEx = PageStatusFree.
IsFree(p) == p \in Pages /\ ~pte[p].valid /\ ~pte[p].view

\* Room for n pages at p.
Fits(p, n) == \A i \in 0 .. n - 1 : IsFree(p + i)

\* MmMapViewOfFile turns the handle into a pointer, which is not referenced.
MmMapViewOfFile(t, h, view) ==
    /\ FreeFor(t, {TableLock})
    /\ handle[h] # None
    /\ Len(views[handle[h]]) < MaxViews
    /\ view.chosen \/ view.start = 0
    /\ view.write => mapping[handle[h]].write
    /\ Begin(t, [Idle EXCEPT !.at = "map", !.mapping = handle[h], !.page = h, !.view = view])
    /\ UNCHANGED <<mapping, handle, views, pte, file, cached, wanted, stopped>>

\* The first range that is free: its pages are reserved.
Reserve(t) ==
    LET size == call[t].view.size
        starts == {p \in Pages : Fits(p, size)}
        start == Min(starts)
    IN  /\ Granted(t, "map")
        /\ ~call[t].view.chosen
        /\ starts # {}
        /\ pte' = [p \in Pages |-> IF p \in start .. start + size - 1 THEN [ZeroPte EXCEPT !.view = TRUE]
                                                                      ELSE pte[p]]
        /\ call' = [call EXCEPT ![t].at = "insert", ![t].view.start = start]
        /\ UNCHANGED <<mapping, handle, views, file, cached, wanted, stopped>>

\* The caller's own choice: its pages must be free, but they are not marked.
CheckChosen(t) ==
    /\ Granted(t, "map")
    /\ call[t].view.chosen
    /\ Fits(call[t].view.start, call[t].view.size)
    /\ Goto(t, "insert")
    /\ UNCHANGED <<mapping, handle, views, pte, file, cached, wanted, stopped>>

NoRange(t) ==
    /\ Granted(t, "map")
    /\ IF call[t].view.chosen THEN ~Fits(call[t].view.start, call[t].view.size)
                              ELSE \A p \in Pages : ~Fits(p, call[t].view.size)
    /\ Return(t)
    /\ UNCHANGED <<mapping, handle, views, pte, file, cached, wanted, stopped>>

PagesOfView(v) == v.start .. v.start + v.size - 1

\* A bug for the mutants: the last page is left as it was reserved.
InitializeAllButLast(v, h) ==
    [p \in Pages |-> IF p \in PagesOfView(v) /\ p + 1 \in PagesOfView(v)
                     THEN [pte[p] EXCEPT !.handle = h, !.write = v.write] ELSE pte[p]]

\* FileDescriptorNumber and Protection of each page, not PteType.
MiInitializeViewPages(v, h) ==
    [p \in Pages |-> IF p \in PagesOfView(v) THEN [pte[p] EXCEPT !.handle = h, !.write = v.write] ELSE pte[p]]

\* The view goes into the list of its mapping.
InsertView(t) ==
    LET v == call[t].view
        m == call[t].mapping
    IN  /\ Granted(t, "insert")
        /\ mapping[m].state = "live"
        /\ views' = [views EXCEPT ![m] = Append(@, v)]
        /\ pte' = MiInitializeViewPages(v, call[t].page)
        /\ wanted' = [p \in Pages |-> IF p \in PagesOfView(v)
                                      THEN [mapping |-> m, page |-> p - v.start, offset |-> v.offset]
                                      ELSE wanted[p]]
        /\ Return(t)
        /\ UNCHANGED <<mapping, handle, file, cached, stopped>>

\* The mapping was closed while its view was being made.
InsertIntoFreed(t) ==
    /\ Granted(t, "insert")
    /\ mapping[call[t].mapping].state = "freed"
    /\ Stop("freed mapping")

\* No memory for the MAPPED_VIEW: reserved pages stay reserved.
NoMemoryForView(t) ==
    /\ stopped = "no" /\ call[t].at = "insert"
    /\ Return(t)
    /\ UNCHANGED <<mapping, handle, views, pte, file, cached, wanted, stopped>>

-----------------------------------------------------------------------------
(* MmAccessFault.                                                            *)

\* An access that faults: only a page of a view that is not valid can be resolved.
MmAccessFault(t, p) ==
    /\ stopped = "no" /\ call[t] = Idle
    /\ wanted[p] # None
    /\ ~pte[p].valid
    /\ \/ ~pte[p].view /\ Stop("not a view")
       \/ /\ pte[p].view
          /\ FreeFor(t, {TableLock})
          /\ IF pte[p].handle \in Handles /\ handle[pte[p].handle] # None
             THEN /\ Begin(t, [Idle EXCEPT !.at = "fault", !.mapping = handle[pte[p].handle], !.page = p])
                  /\ UNCHANGED <<mapping, handle, views, pte, file, cached, wanted, stopped>>
             ELSE Stop("bad handle")

\* A write to a page that is valid and read-only.
WriteFault(t, p) ==
    /\ stopped = "no" /\ call[t] = Idle
    /\ wanted[p] # None /\ pte[p].valid /\ ~pte[p].write
    /\ Stop("write")

\* A bug for the mutants: the page after a view counts as its own.
CoversOneMore(v, p) == p >= v.start /\ p <= v.start + v.size

\* Whether a page lies in a view.
Covers(v, p) == p >= v.start /\ p < v.start + v.size

\* The first view of a list with a page; None if there is none.
ViewOf(m, p) ==
    LET found == {i \in 1 .. Len(views[m]) : Covers(views[m][i], p)}
    IN  IF found = {} THEN None ELSE views[m][Min(found)]

\* The view is looked up; the file must have a cache map.
FindView(t) ==
    LET m == call[t].mapping
        v == ViewOf(m, call[t].page)
        f == mapping[m].file
    IN  /\ Granted(t, "fault")
        /\ \/ mapping[m].state = "freed" /\ Stop("freed mapping")
           \/ mapping[m].state = "live" /\ v = None /\ Stop("no view")
           \/ mapping[m].state = "live" /\ v # None /\ ~file[f].cacheMap /\ Stop("no cache map")
           \/ /\ mapping[m].state = "live" /\ v # None /\ file[f].cacheMap
              /\ call' = [call EXCEPT ![t].at = "find", ![t].view = v, ![t].file = f]
              /\ UNCHANGED <<mapping, handle, views, pte, file, cached, wanted, stopped>>

\* StartOffsetInFile is not looked at.
PageNumber(c) == c.page - c.view.start

\* The cached page is looked up; reading it is not implemented.
FindCachedPage(t) ==
    LET f == call[t].file
        i == PageNumber(call[t])
    IN  /\ Granted(t, "find")
        /\ \/ ~file[f].cacheMap /\ Stop("freed cache map")
           \/ file[f].cacheMap /\ (i \notin PagesOfFile \/ cached[f][i] = None) /\ Stop("not cached")
           \/ /\ file[f].cacheMap /\ i \in PagesOfFile /\ cached[f][i] # None
              /\ Goto(t, "resolve")
              /\ UNCHANGED <<mapping, handle, views, pte, file, cached, wanted, stopped>>

\* The page becomes valid, with the frame of the cache.
MapCachedPage(t) ==
    LET c == call[t]
    IN  /\ Granted(t, "resolve")
        /\ pte' = [pte EXCEPT ![c.page] = [view |-> TRUE, valid |-> TRUE, write |-> c.view.write, handle |-> 0,
                                           frame |-> cached[c.file][PageNumber(c)]]]
        /\ Return(t)
        /\ UNCHANGED <<mapping, handle, views, file, cached, wanted, stopped>>

-----------------------------------------------------------------------------
(* The file and its cache.                                                   *)

FreeFrames == Frames \ {cached[f][i] : f \in Files, i \in PagesOfFile}

\* A cached read, or write, meets a page that is not in the cache.
CcCacheReadFile(t, f, i) ==
    /\ file[f].open /\ cached[f][i] = None
    /\ Begin(t, [Idle EXCEPT !.at = "read", !.file = f, !.page = i])
    /\ UNCHANGED <<mapping, handle, views, pte, file, cached, wanted, stopped>>

\* CcpCacheFilePage: the page goes into the cache if there is a frame.
CcpCacheFilePage(t) ==
    LET f == call[t].file
    IN  /\ Granted(t, "read")
        /\ cached' = IF FreeFrames = {} THEN cached
                     ELSE [cached EXCEPT ![f][call[t].page] = CHOOSE frame \in FreeFrames : TRUE]
        /\ Return(t)
        /\ UNCHANGED <<mapping, handle, views, pte, file, wanted, stopped>>

\* IoCloseFile has the driver free the cache map, whatever is mapped.
IoCloseFile(t, f) ==
    /\ file[f].open
    /\ \A u \in Threads : ~(call[u].at \in {"create", "read"} /\ call[u].file = f)
    /\ Begin(t, [Idle EXCEPT !.at = "purge", !.file = f])
    /\ file' = [file EXCEPT ![f].open = FALSE]
    /\ UNCHANGED <<mapping, handle, views, pte, cached, wanted, stopped>>

\* CcFreeCacheMap frees the frames; then ObpDeleteObject drops the file.
CcFreeCacheMap(t) ==
    LET f == call[t].file
    IN  /\ Granted(t, "purge")
        /\ cached' = [cached EXCEPT ![f] = [i \in PagesOfFile |-> None]]
        /\ file' = [Dereference(f) EXCEPT ![f].cacheMap = FALSE]
        /\ Return(t)
        /\ UNCHANGED <<mapping, handle, views, pte, wanted, stopped>>

Step(t) ==
    \/ ObpCreateHandle(t) \/ MiDeleteMappingViews(t) \/ MiDeleteMapping(t)
    \/ Reserve(t) \/ CheckChosen(t) \/ NoRange(t) \/ InsertView(t) \/ InsertIntoFreed(t) \/ NoMemoryForView(t)
    \/ FindView(t) \/ FindCachedPage(t) \/ MapCachedPage(t)
    \/ CcpCacheFilePage(t) \/ CcFreeCacheMap(t)

Next ==
    \/ \E f \in Files, write \in BOOLEAN : MmCreateFileMapping(f, write)
    \/ \E t \in Threads :
        \/ Step(t)
        \/ \E h \in Handles : ObClose(t, h) \/ \E view \in View : MmMapViewOfFile(t, h, view)
        \/ \E p \in Pages : MmAccessFault(t, p) \/ WriteFault(t, p)
        \/ \E f \in Files : IoCloseFile(t, f) \/ \E i \in PagesOfFile : CcCacheReadFile(t, f, i)

Spec == Init /\ [][Next]_vars

-----------------------------------------------------------------------------
(* Properties.                                                               *)

Chosen(m) == {i \in 1 .. Len(views[m]) : views[m][i].chosen}
Placed(m) == (1 .. Len(views[m])) \ Chosen(m)

\* A page that a caller chose for a view, and that may have been given out again since.
Contested(p) == \E m \in Mappings : \E i \in Chosen(m) : Covers(views[m][i], p)

\* The page of the file that a page was mapped for.
WantedPage(p) == wanted[p].page + wanted[p].offset

\* As long as its file is open, a page of a view shows a page of that file, over reuse of the
\* handle, of frames and of virtual pages, and the page it was mapped for if the view starts
\* with the file: an offset is ignored (mm.cpp:395).  Only a view of a writable file can be
\* written (mm.cpp:380-421).
ViewsShowTheirFile ==
    \A p \in Pages :
        pte[p].valid /\ wanted[p] # None /\ ~Contested(p) =>
            LET f == mapping[wanted[p].mapping].file
            IN  /\ file[f].cacheMap =>
                      \E i \in PagesOfFile : /\ pte[p].frame = cached[f][i]
                                             /\ wanted[p].offset = 0 => i = WantedPage(p)
                /\ pte[p].write => f \in Writable

\* Views whose place the memory manager finds never overlap, whoever maps at the same time and
\* whichever attempts fail (mm.cpp:3008-3060).
PlacedViewsAreDisjoint ==
    \A m, n \in Mappings : \A i \in Placed(m), j \in Placed(n) :
        <<m, i>> # <<n, j>> => PagesOfView(views[m][i]) \cap PagesOfView(views[n][j]) = {}

\* An access to a page of a view can find the view, and the file, as long as the mapping is
\* open: its entry says so after every reuse of the handle and of the page (mm.cpp:355-378,
\* 3040-3052, 3067-3087).
FaultsFindTheirView ==
    \A p \in Pages :
        /\ wanted[p] # None /\ ~pte[p].valid /\ ~Contested(p)
        /\ mapping[wanted[p].mapping].state = "live"
        => /\ pte[p].view /\ pte[p].handle \in Handles
           /\ handle[pte[p].handle] = wanted[p].mapping
           /\ ViewOf(wanted[p].mapping, p) # None

WaitsFor(t, u) == Locks(call[t]).wants \cap Locks(call[u]).held # {}

\* Threads wait for each other in a circle only if one maps a view into a mapping with a fault
\* that is not resolved: the one takes the page database before the views, the other after
\* them (mm.cpp:3119-3162, 372-403).
OnlyMappingDeadlocks ==
    \A S \in (SUBSET Threads) \ {{}} :
        (\A t \in S : \E u \in S : WaitsFor(t, u)) =>
            \E t, u \in S : call[t].at = "insert" /\ call[u].at \in {"find", "resolve"}
                            /\ call[t].mapping = call[u].mapping
=============================================================================
