--------------------------- MODULE FileViewsProofs ---------------------------
(***************************************************************************)
(* Theorems about FileViews, for all numbers of threads, files, mappings,  *)
(* pages, handles, frames and views.                                       *)
(*                                                                         *)
(* The invariant has three parts.  Exclusion: no mutex is held twice.      *)
(* Tables: handles, mappings, views and page table entries agree, where    *)
(* nobody is in the middle of changing them.  Calls: what a thread in a    *)
(* routine has found out still holds, because of the mutexes it kept, or   *)
(* because nothing ever undoes it.                                         *)
(***************************************************************************)
EXTENDS FileViews, Integers, TLAPS, WellFoundedInduction

CallType == [at : Stages, mapping : Mappings \cup {None}, file : Files \cup {None},
             page : Nat, view : View \cup {None}]
PteType == [view : BOOLEAN, valid : BOOLEAN, write : BOOLEAN, handle : 0 .. MaxHandle,
            frame : Frames \cup {None}]

\* TypeOK but for the references of a file, which are not counted here.
TypeInv ==
    /\ call \in [Threads -> CallType]
    /\ mapping \in [Mappings -> [state : {"unused", "live", "freed"}, file : Files \cup {None},
                                 write : BOOLEAN]]
    /\ handle \in [Handles -> Mappings \cup {None}]
    /\ views \in [Mappings -> Seq(View)]
    /\ pte \in [Pages -> PteType]
    /\ file \in [Files -> [open : BOOLEAN, cacheMap : BOOLEAN, references : Int]]
    /\ cached \in [Files -> [PagesOfFile -> Frames \cup {None}]]
    /\ wanted \in [Pages -> [mapping : Mappings, page : PagesOfFile, offset : PagesOfFile] \cup {None}]

\* No mutex is held by two threads.
Exclusion ==
    \A t, u \in Threads : t # u => Locks(call[t]).held \cap Locks(call[u]).held = {}

Faulting(t) == call[t].at \in {"fault", "find", "resolve"}

\* Mappings that exist are of a file; a handle is of one that is open, which has no other.
TablesInv ==
    /\ \A m \in Mappings :
          /\ mapping[m].state # "unused" => mapping[m].file \in Files
          /\ mapping[m].write => mapping[m].file \in Writable
    /\ \A h \in Handles : handle[h] # None =>
          /\ mapping[handle[h]].state = "live"
          /\ \A g \in Handles : handle[g] = handle[h] => g = h

\* Views are of mappings that exist, with no more protection, and in the area.
ViewsInv ==
    \A m \in Mappings : \A i \in 1 .. Len(views[m]) :
        /\ mapping[m].state # "unused"
        /\ views[m][i].write => mapping[m].write
        /\ PagesOfView(views[m][i]) \subseteq Pages

\* The pages of placed views are not free, and their views are disjoint.
PlacedInv ==
    /\ \A m \in Mappings : \A i \in Placed(m) : \A p \in PagesOfView(views[m][i]) : pte[p].view
    /\ PlacedViewsAreDisjoint

\* What a page is wanted for is what the views say.
WantedInv ==
    /\ \A p \in Pages : wanted[p] # None =>
          \E i \in 1 .. Len(views[wanted[p].mapping]) : p \in PagesOfView(views[wanted[p].mapping][i])
    /\ \A m \in Mappings : \A i \in Placed(m) : \A p \in PagesOfView(views[m][i]) :
          ~Contested(p) =>
              wanted[p] = [mapping |-> m, page |-> p - views[m][i].start, offset |-> views[m][i].offset]

\* Entries that are not resolved yet name their mapping, as long as it is open.
EntriesInv ==
    \A p \in Pages : wanted[p] # None /\ ~pte[p].valid /\ ~Contested(p)
                     /\ mapping[wanted[p].mapping].state = "live" =>
        pte[p].handle \in Handles /\ handle[pte[p].handle] = wanted[p].mapping

\* Entries that are resolved have a frame.
FramesInv == \A p \in Pages : pte[p].valid => pte[p].frame \in Frames

\* A page of a view shows the page of the file at its place in the view, wherever the view
\* starts in the file.
ShownInv ==
    \A p \in Pages :
        pte[p].valid /\ wanted[p] # None /\ ~Contested(p) =>
            LET f == mapping[wanted[p].mapping].file
            IN  /\ file[f].cacheMap => pte[p].frame = cached[f][wanted[p].page]
                /\ pte[p].write => f \in Writable

\* A mapping that waits for its handle has none yet, and nobody else gives it one.
CreateInv(t) ==
    call[t].at = "create" =>
        /\ call[t].mapping \in Mappings /\ mapping[call[t].mapping].state = "live"
        /\ \A h \in Handles : handle[h] # call[t].mapping
        /\ \A u \in Threads \ {t} : call[u].at = "create" => call[u].mapping # call[t].mapping

\* Whoever closes a handle finds it as it was.
CloseInv(t) ==
    call[t].at \in {"delete", "unlist"} =>
        call[t].mapping \in Mappings /\ call[t].page \in Handles /\ handle[call[t].page] = call[t].mapping

\* Whoever maps a view has a mapping and its handle, unless it is closed by now; ...
MapInv(t) ==
    call[t].at \in {"map", "insert"} =>
        /\ call[t].mapping \in Mappings /\ call[t].view \in View /\ call[t].page \in Handles
        /\ mapping[call[t].mapping].state # "unused"
        /\ call[t].view.write => mapping[call[t].mapping].write
        /\ mapping[call[t].mapping].state = "live" => handle[call[t].page] = call[t].mapping

\* ... and, from then on, the pages of the view, which nobody else has anything to do with.
ReservedInv(t) ==
    call[t].at = "insert" =>
        /\ PagesOfView(call[t].view) \subseteq Pages
        /\ ~call[t].view.chosen => \A p \in PagesOfView(call[t].view) :
              /\ pte[p].view /\ ~pte[p].valid /\ pte[p].handle = 0
              /\ \A u \in Threads : Faulting(u) => call[u].page # p
              /\ \A m \in Mappings : \A i \in Placed(m) : p \notin PagesOfView(views[m][i])

\* A fault is on a page of some view; ...
FaultInv(t) ==
    Faulting(t) =>
        /\ call[t].mapping \in Mappings /\ mapping[call[t].mapping].state # "unused"
        /\ call[t].page \in Pages /\ pte[call[t].page].view

\* ... it finds a view of the mapping ...
FindInv(t) ==
    call[t].at \in {"find", "resolve"} =>
        /\ call[t].file = mapping[call[t].mapping].file
        /\ call[t].view \in View /\ call[t].page \in PagesOfView(call[t].view)
        /\ \E i \in 1 .. Len(views[call[t].mapping]) : views[call[t].mapping][i] = call[t].view

\* ... and the page in the cache.
ResolveInv(t) ==
    call[t].at = "resolve" =>
        PageNumber(call[t]) \in PagesOfFile /\ cached[call[t].file][PageNumber(call[t])] # None

\* The page that a reader is about to cache is not cached.
ReadInv(t) ==
    /\ call[t].at \in {"read", "purge"} => call[t].file \in Files
    /\ call[t].at = "read" => call[t].page \in PagesOfFile /\ cached[call[t].file][call[t].page] = None

CallInv(t) ==
    CreateInv(t) /\ CloseInv(t) /\ MapInv(t) /\ ReservedInv(t) /\ FaultInv(t) /\ FindInv(t)
    /\ ResolveInv(t) /\ ReadInv(t)

StateInv ==
    TablesInv /\ ViewsInv /\ PlacedInv /\ WantedInv /\ EntriesInv /\ FramesInv /\ ShownInv

Inv == TypeInv /\ Exclusion /\ StateInv /\ \A t \in Threads : CallInv(t)

-----------------------------------------------------------------------------
(* Lemmas.                                                                   *)

\* A set of numbers has a least one.
LEMMA LeastExists ==
  ASSUME NEW S \in SUBSET Nat, S # {}
  PROVE  Min(S) \in S
<1> DEFINE Less == OpToRel(<, Nat)
<1>1. PICK x \in S : \A y \in S : ~ (<<y, x>> \in Less)
  BY NatLessThanWellFounded, WFMin
<1>2. \A y \in S : x <= y
  <2> TAKE y \in S
  <2>1. ~ (y < x)
    BY <1>1 DEF OpToRel
  <2> QED
    BY <2>1
<1> QED
  BY <1>2 DEF Min

\* A page is covered by a view that has it.
LEMMA CoversPage ==
  ASSUME NEW v \in View, NEW p \in Nat
  PROVE  Covers(v, p) <=> p \in PagesOfView(v)
BY FileViewsAssumption DEF Covers, PagesOfView, View, Pages

\* What ViewOf finds is a view of the mapping with the page; and it finds one if there is one.
LEMMA ViewOfFinds ==
  ASSUME NEW m \in Mappings, views[m] \in Seq(View), NEW p \in Nat
  PROVE  /\ ViewOf(m, p) # None =>
               \E i \in 1 .. Len(views[m]) : views[m][i] = ViewOf(m, p) /\ p \in PagesOfView(views[m][i])
         /\ (\E i \in 1 .. Len(views[m]) : p \in PagesOfView(views[m][i])) =>
               ViewOf(m, p) # None /\ ViewOf(m, p) \in View
<1> DEFINE found == {i \in 1 .. Len(views[m]) : Covers(views[m][i], p)}
<1>1. \A i \in 1 .. Len(views[m]) : views[m][i] \in View
  OBVIOUS
<1>2. ViewOf(m, p) = IF found = {} THEN None ELSE views[m][Min(found)]
  BY DEF ViewOf
<1>3. None \notin View
  BY FileViewsAssumption DEF View, Pages, PagesOfFile
<1>5. \A i \in 1 .. Len(views[m]) : i \in found <=> p \in PagesOfView(views[m][i])
  BY <1>1, CoversPage
<1> HIDE DEF found
<1>6. found \subseteq 1 .. Len(views[m])
  BY DEF found
<1>7. found \in SUBSET Nat
  BY <1>6
<1>8. found # {} => Min(found) \in found
  BY <1>7, LeastExists
<1> QED
  BY <1>1, <1>2, <1>3, <1>8, <1>5, <1>6

-----------------------------------------------------------------------------
(* Types and mutexes.                                                        *)

\* A thread outside of all routines holds nothing.
LEMMA IdleType == Idle \in CallType /\ Locks(Idle).held = {}
BY DEF Idle, CallType, Stages, Locks

\* The start and the size of a view are numbers.
LEMMA ViewNumbers ==
  ASSUME NEW v \in View
  PROVE  v.start \in Nat /\ v.size \in Nat \ {0}
BY FileViewsAssumption DEF View, Pages

\* A section keeps what it held, or what it waited for.
LEMMA LocksGrow ==
  ASSUME NEW c, NEW d,
         \/ c.at = "map" /\ d.at = "insert"
         \/ c.at = "fault" /\ d.at = "find" /\ d.mapping = c.mapping
         \/ c.at = "delete" /\ d.at = "unlist"
  PROVE  Locks(d).held \subseteq Locks(c).held \cup Locks(c).wants
BY DEF Locks

\* So does a fault that has found its file.
LEMMA LocksGrowWithFile ==
  ASSUME NEW c, NEW d, c.at = "find", d.at = "resolve", d.mapping = c.mapping, d.file = c.file
  PROVE  Locks(d).held \subseteq Locks(c).held \cup Locks(c).wants
BY DEF Locks

\* Mutexes that nobody else holds may be taken.
LEMMA ExclusionKept ==
  ASSUME TypeInv, Exclusion, NEW t \in Threads, NEW c, call' = [call EXCEPT ![t] = c],
         \A u \in Threads \ {t} : Locks(c).held \cap Locks(call[u]).held = {}
  PROVE  Exclusion'
<1>1. call'[t] = c /\ \A u \in Threads \ {t} : call'[u] = call[u]
  BY DEF TypeInv
<1> SUFFICES ASSUME NEW u \in Threads, NEW w \in Threads, u # w
             PROVE  Locks(call'[u]).held \cap Locks(call'[w]).held = {}
  BY DEF Exclusion, Locks
<1> QED
  BY <1>1 DEF Exclusion

-----------------------------------------------------------------------------
(* Steps that change what one thread is doing, and nothing that others see.  *)

\* The views stay as they are, and so does what their pages are wanted for.
LEMMA WantedKept ==
  ASSUME WantedInv, UNCHANGED <<views, wanted>>
  PROVE  WantedInv'
<1>1. \A p : Contested(p)' <=> Contested(p)
  BY DEF Contested, Chosen
<1>2. \A m : Placed(m)' = Placed(m)
  BY DEF Placed, Chosen
<1> SUFFICES ASSUME NEW m \in Mappings, NEW i \in Placed(m), NEW p \in PagesOfView(views[m][i]), ~Contested(p)
             PROVE  wanted[p] = [mapping |-> m, page |-> p - views[m][i].start, offset |-> views[m][i].offset]
  BY <1>1, <1>2 DEF WantedInv
<1> QED
  BY DEF WantedInv

\* The tables stay as they are.
LEMMA TablesKept ==
  ASSUME StateInv, UNCHANGED <<mapping, handle, views, pte, cached, wanted>>,
         \A f \in Files : file'[f].cacheMap => file[f].cacheMap, TablesInv, TypeInv
  PROVE  StateInv'
<1>1. TablesInv' /\ ViewsInv' /\ FramesInv'
  BY DEF StateInv, TablesInv, ViewsInv, FramesInv
<1>2. PlacedInv'
  BY DEF StateInv, PlacedInv, PlacedViewsAreDisjoint, Placed, Chosen
<1>3. \A p \in Pages : Contested(p)' <=> Contested(p)
  BY DEF Contested, Chosen
<1>4. WantedInv' /\ EntriesInv'
  <2>1. WantedInv'
    BY WantedKept DEF StateInv
  <2>2. EntriesInv'
    BY DEF StateInv, EntriesInv, Contested, Chosen
  <2> QED
    BY <2>1, <2>2
<1>5. ShownInv'
  <2> SUFFICES ASSUME NEW p \in Pages, pte[p].valid, wanted[p] # None, ~Contested(p)
               PROVE  LET f == mapping[wanted[p].mapping].file
                      IN  /\ file'[f].cacheMap => pte[p].frame = cached[f][wanted[p].page]
                          /\ pte[p].write => f \in Writable
    BY <1>3 DEF ShownInv
  <2>1. wanted[p].mapping \in Mappings
    BY DEF TypeInv
  <2>2. \E i \in 1 .. Len(views[wanted[p].mapping]) : TRUE
    BY DEF StateInv, WantedInv
  <2>3. mapping[wanted[p].mapping].file \in Files
    BY <2>1, <2>2 DEF StateInv, ViewsInv, TablesInv
  <2> QED
    BY <2>3 DEF StateInv, ShownInv
<1> QED
  BY <1>1, <1>2, <1>4, <1>5 DEF StateInv

\* Other threads do not notice.
LEMMA OthersKept ==
  ASSUME TypeInv, UNCHANGED <<mapping, handle, views, pte, cached>>,
         NEW t \in Threads, NEW c \in CallType, call' = [call EXCEPT ![t] = c], c.at # "create",
         c.at \in {"fault", "find", "resolve"} =>
            pte[c.page].handle # 0 \/ (Faulting(t) /\ c.page = call[t].page),
         NEW u \in Threads \ {t}, CallInv(u)
  PROVE  CallInv(u)'
<1>1. call'[u] = call[u] /\ call'[t] = c
  BY DEF TypeInv
<1>2. \A w \in Threads \ {t} : call'[w] = call[w]
  BY DEF TypeInv
<1>3. CreateInv(u)'
  BY <1>1, <1>2 DEF CallInv, CreateInv
<1>4. CloseInv(u)' /\ MapInv(u)' /\ FaultInv(u)' /\ FindInv(u)' /\ ReadInv(u)'
  BY <1>1 DEF CallInv, CloseInv, MapInv, FaultInv, FindInv, ReadInv, Faulting
<1>5. ResolveInv(u)'
  BY <1>1 DEF CallInv, ResolveInv
<1>6. ReservedInv(u)'
  <2> SUFFICES ASSUME call[u].at = "insert"
               PROVE  ReservedInv(u)'
    BY <1>1 DEF ReservedInv
  <2>1. ReservedInv(u)
    BY DEF CallInv
  <2>2. \A p \in PagesOfView(call[u].view) : ~call[u].view.chosen =>
            /\ pte[p].handle = 0
            /\ \A w \in Threads : Faulting(w) => call[w].page # p
    BY <2>1 DEF ReservedInv
  <2>3. \A p \in PagesOfView(call[u].view) : ~call[u].view.chosen =>
            \A w \in Threads : Faulting(w)' => call'[w].page # p
    BY <1>1, <1>2, <2>2 DEF Faulting
  <2> QED
    BY <1>1, <2>1, <2>3 DEF ReservedInv, Placed, Chosen
<1> QED
  BY <1>3, <1>4, <1>5, <1>6 DEF CallInv

\* So such a step is right if it is for its own thread.
LEMMA OnlyCall ==
  ASSUME Inv, NEW t \in Threads, NEW c \in CallType, call' = [call EXCEPT ![t] = c],
         UNCHANGED <<mapping, handle, views, pte, file, cached, wanted>>, c.at # "create",
         c.at \in {"fault", "find", "resolve"} =>
            pte[c.page].handle # 0 \/ (Faulting(t) /\ c.page = call[t].page),
         \A u \in Threads \ {t} : Locks(c).held \cap Locks(call[u]).held = {},
         CallInv(t)'
  PROVE  Inv'
<1>1. TypeInv'
  BY DEF Inv, TypeInv
<1>2. Exclusion'
  BY ExclusionKept DEF Inv
<1>3. StateInv'
  BY TablesKept DEF Inv, StateInv
<1>4. \A u \in Threads \ {t} : CallInv(u)'
  BY OthersKept DEF Inv
<1> QED
  BY <1>1, <1>2, <1>3, <1>4 DEF Inv

\* A thread that returns is right.
LEMMA IdleIsRight ==
  ASSUME NEW t, call'[t] = Idle
  PROVE  CallInv(t)'
BY DEF CallInv, CreateInv, CloseInv, MapInv, ReservedInv, FaultInv, FindInv, ResolveInv, ReadInv,
       Faulting, Idle

\* So is a thread that returns and has changed nothing.
LEMMA OnlyReturn ==
  ASSUME Inv, NEW t \in Threads, Return(t),
         UNCHANGED <<mapping, handle, views, pte, file, cached, wanted>>
  PROVE  Inv'
<1>1. call' = [call EXCEPT ![t] = Idle] /\ call'[t] = Idle
  BY DEF Return, Inv, TypeInv
<1>2. Idle.at = "idle"
  BY DEF Idle
<1> QED
  BY <1>1, <1>2, IdleIsRight, OnlyCall, IdleType

\* A machine that stops stays as it is.
LEMMA Stopped ==
  ASSUME Inv, UNCHANGED <<call, mapping, handle, views, pte, file, cached, wanted>>
  PROVE  Inv'
<1>1. TypeInv' /\ Exclusion'
  BY DEF Inv, TypeInv, Exclusion
<1>2. StateInv'
  BY TablesKept DEF Inv, StateInv
<1>3. ASSUME NEW t \in Threads PROVE CallInv(t)'
  <2>1. CallInv(t)
    BY DEF Inv
  <2>2. CreateInv(t)' /\ CloseInv(t)' /\ MapInv(t)'
    BY <2>1 DEF CallInv, CreateInv, CloseInv, MapInv
  <2>3. ReservedInv(t)'
    <3>1. \A m : Placed(m)' = Placed(m)
      BY DEF Placed, Chosen
    <3>2. \A u \in Threads : Faulting(u)' <=> Faulting(u)
      BY DEF Faulting
    <3> QED
      BY <2>1, <3>1, <3>2 DEF CallInv, ReservedInv
  <2>4. FaultInv(t)' /\ FindInv(t)' /\ ResolveInv(t)' /\ ReadInv(t)'
    BY <2>1 DEF CallInv, FaultInv, FindInv, ResolveInv, ReadInv, Faulting, PageNumber
  <2> QED
    BY <2>2, <2>3, <2>4 DEF CallInv
<1> QED
  BY <1>1, <1>2, <1>3 DEF Inv

\* A thread that starts to close a handle has the handle table for itself.
LEMMA ObCloseKeeps ==
  ASSUME Inv, NEW t \in Threads, NEW h \in Handles, ObClose(t, h)
  PROVE  Inv'
<1> DEFINE c == [Idle EXCEPT !.at = "delete", !.mapping = handle[h], !.page = h]
<1>1. handle[h] \in Mappings /\ h \in Nat
  BY DEF Inv, TypeInv, ObClose, Handles
<1>2. c \in CallType /\ c.at = "delete" /\ c.mapping = handle[h] /\ c.page = h
  BY <1>1, FileViewsAssumption DEF Idle, CallType, Stages
<1>3. call' = [call EXCEPT ![t] = c] /\ FreeFor(t, Locks(c).held)
  BY DEF ObClose, Begin
<1>4. call'[t] = c /\ UNCHANGED handle
  BY <1>3 DEF Inv, TypeInv, ObClose
<1> HIDE DEF c
<1>5. CallInv(t)'
  BY <1>1, <1>2, <1>4 DEF CallInv, CreateInv, CloseInv, MapInv, ReservedInv, FaultInv, FindInv,
     ResolveInv, ReadInv, Faulting
<1> QED
  BY <1>2, <1>3, <1>5, OnlyCall DEF ObClose, FreeFor

\* The views stay as they are when their mapping goes.
LEMMA MiDeleteMappingViewsKeeps ==
  ASSUME Inv, NEW t \in Threads, MiDeleteMappingViews(t)
  PROVE  Inv'
<1> DEFINE c == [call[t] EXCEPT !.at = "unlist"]
<1>1. call[t] \in CallType /\ call[t].at = "delete" /\ FreeFor(t, Locks(call[t]).wants)
  BY DEF Inv, TypeInv, MiDeleteMappingViews, Granted
<1>2. c \in CallType /\ c.at = "unlist" /\ c.mapping = call[t].mapping /\ c.page = call[t].page
  BY <1>1 DEF CallType, Stages
<1>3. call' = [call EXCEPT ![t] = c]
  BY DEF MiDeleteMappingViews, Goto
<1>4. call'[t] = c /\ UNCHANGED handle
  BY <1>3 DEF Inv, TypeInv, MiDeleteMappingViews
<1> HIDE DEF c
<1>5. CallInv(t)'
  BY <1>1, <1>2, <1>4 DEF Inv, CallInv, CreateInv, CloseInv, MapInv, ReservedInv, FaultInv, FindInv,
     ResolveInv, ReadInv, Faulting
<1>6. \A u \in Threads \ {t} : Locks(c).held \cap Locks(call[u]).held = {}
  <2>1. Locks(c).held \subseteq Locks(call[t]).held \cup Locks(call[t]).wants
    BY <1>1, <1>2, LocksGrow
  <2> QED
    BY <1>1, <2>1 DEF FreeFor, Inv, Exclusion
<1> QED
  BY <1>2, <1>3, <1>5, <1>6, OnlyCall DEF MiDeleteMappingViews

\* The handle of a mapping becomes a pointer to it.
LEMMA MmMapViewOfFileKeeps ==
  ASSUME Inv, NEW t \in Threads, NEW h \in Handles, NEW view \in View, MmMapViewOfFile(t, h, view)
  PROVE  Inv'
<1> DEFINE c == [Idle EXCEPT !.at = "map", !.mapping = handle[h], !.page = h, !.view = view]
<1>1. handle[h] \in Mappings /\ h \in Nat
  BY DEF Inv, TypeInv, MmMapViewOfFile, Handles
<1>2. /\ c \in CallType /\ c.at = "map" /\ c.mapping = handle[h] /\ c.page = h /\ c.view = view
      /\ Locks(c).held = {}
  <2>1. c \in CallType /\ c.at = "map" /\ c.mapping = handle[h] /\ c.page = h /\ c.view = view
    BY <1>1, FileViewsAssumption DEF Idle, CallType, Stages
  <2>2. Locks(c).held = {}
    BY <2>1 DEF Locks
  <2> QED
    BY <2>1, <2>2
<1>3. call' = [call EXCEPT ![t] = c]
  BY DEF MmMapViewOfFile, Begin
<1>4. call'[t] = c /\ UNCHANGED <<handle, mapping>>
  BY <1>3 DEF Inv, TypeInv, MmMapViewOfFile
<1> HIDE DEF c
<1>5. mapping[handle[h]].state # "unused" /\ (view.write => mapping[handle[h]].write)
  BY FileViewsAssumption DEF Inv, StateInv, TablesInv, MmMapViewOfFile
<1>6. CallInv(t)'
  BY <1>1, <1>2, <1>4, <1>5 DEF CallInv, CreateInv, CloseInv, MapInv, ReservedInv, FaultInv, FindInv,
     ResolveInv, ReadInv, Faulting
<1> QED
  BY <1>2, <1>3, <1>6, OnlyCall DEF MmMapViewOfFile

\* Room at p is pages of the area.
LEMMA FitsInArea ==
  ASSUME NEW v \in View, Fits(v.start, v.size)
  PROVE  \A p \in PagesOfView(v) : p \in Pages /\ ~pte[p].view /\ ~pte[p].valid
<1> SUFFICES ASSUME NEW p \in PagesOfView(v)
             PROVE  p \in Pages /\ ~pte[p].view /\ ~pte[p].valid
  OBVIOUS
<1>1. v.start \in Nat /\ v.size \in Nat
  BY ViewNumbers
<1>2. p - v.start \in 0 .. v.size - 1 /\ v.start + (p - v.start) = p
  BY <1>1 DEF PagesOfView
<1>3. IsFree(v.start + (p - v.start))
  BY <1>2 DEF Fits
<1> QED
  BY <1>2, <1>3 DEF IsFree

\* A caller's own place for a view is in the area.
LEMMA CheckChosenKeeps ==
  ASSUME Inv, NEW t \in Threads, CheckChosen(t)
  PROVE  Inv'
<1> DEFINE c == [call[t] EXCEPT !.at = "insert"]
<1>1. call[t] \in CallType /\ call[t].at = "map" /\ FreeFor(t, Locks(call[t]).wants)
  BY DEF Inv, TypeInv, CheckChosen, Granted
<1>2. /\ c \in CallType /\ c.at = "insert" /\ c.mapping = call[t].mapping /\ c.page = call[t].page
      /\ c.view = call[t].view
  BY <1>1 DEF CallType, Stages
<1>3. call' = [call EXCEPT ![t] = c]
  BY DEF CheckChosen, Goto
<1>4. call'[t] = c /\ UNCHANGED <<handle, mapping>>
  BY <1>3 DEF Inv, TypeInv, CheckChosen
<1> HIDE DEF c
<1>5. MapInv(t)
  BY DEF Inv, CallInv
<1>6. c.view \in View /\ c.view.chosen /\ PagesOfView(c.view) \subseteq Pages
  BY <1>1, <1>2, <1>5, FitsInArea DEF MapInv, CheckChosen
<1>7. CallInv(t)'
  BY <1>1, <1>2, <1>4, <1>5, <1>6 DEF CallInv, CreateInv, CloseInv, MapInv, ReservedInv, FaultInv, FindInv,
     ResolveInv, ReadInv, Faulting
<1>8. \A u \in Threads \ {t} : Locks(c).held \cap Locks(call[u]).held = {}
  <2>1. Locks(c).held \subseteq Locks(call[t]).held \cup Locks(call[t]).wants
    BY <1>1, <1>2, LocksGrow
  <2> QED
    BY <1>1, <2>1 DEF FreeFor, Inv, Exclusion
<1> QED
  BY <1>2, <1>3, <1>7, <1>8, OnlyCall DEF CheckChosen

\* A fault finds its mapping by the handle in the entry, or stops the machine.
LEMMA MmAccessFaultKeeps ==
  ASSUME Inv, NEW t \in Threads, NEW p \in Pages, MmAccessFault(t, p)
  PROVE  Inv'
<1>1. CASE UNCHANGED <<call, mapping, handle, views, pte, file, cached, wanted>>
  BY <1>1, Stopped
<1>2. CASE /\ pte[p].view /\ pte[p].handle \in Handles /\ handle[pte[p].handle] # None
           /\ Begin(t, [Idle EXCEPT !.at = "fault", !.mapping = handle[pte[p].handle], !.page = p])
           /\ UNCHANGED <<mapping, handle, views, pte, file, cached, wanted, stopped>>
  <2> DEFINE m == handle[pte[p].handle]
             c == [Idle EXCEPT !.at = "fault", !.mapping = m, !.page = p]
  <2>1. m \in Mappings /\ p \in Nat /\ pte[p].handle # 0
    BY <1>2 DEF Inv, TypeInv, Pages, Handles
  <2>2. /\ c \in CallType /\ c.at = "fault" /\ c.mapping = m /\ c.page = p
    BY <2>1, FileViewsAssumption DEF Idle, CallType, Stages
  <2>3. \A u \in Threads \ {t} : Locks(c).held \cap Locks(call[u]).held = {}
    <3>1. Locks(c).held = {}
      BY <2>2 DEF Locks
    <3> QED
      BY <3>1
  <2>4. call' = [call EXCEPT ![t] = c]
    BY <1>2 DEF Begin
  <2>5. call'[t] = c /\ UNCHANGED <<mapping, pte>>
    BY <2>4, <1>2 DEF Inv, TypeInv
  <2>6. mapping[m].state = "live"
    BY <1>2 DEF Inv, StateInv, TablesInv
  <2> HIDE DEF c, m
  <2>7. CallInv(t)'
    BY <1>2, <2>1, <2>2, <2>5, <2>6 DEF CallInv, CreateInv, CloseInv, MapInv, ReservedInv, FaultInv,
       FindInv, ResolveInv, ReadInv, Faulting
  <2>8. UNCHANGED <<mapping, handle, views, pte, file, cached, wanted>>
    BY <1>2
  <2>9. c.at # "create" /\ pte[c.page].handle # 0
    BY <2>1, <2>2
  <2> QED
    BY <2>2, <2>3, <2>4, <2>7, <2>8, <2>9, OnlyCall
<1> QED
  BY <1>1, <1>2 DEF MmAccessFault, Stop

\* A fault finds a view of its mapping with the page.
LEMMA FindViewKeeps ==
  ASSUME Inv, NEW t \in Threads, FindView(t)
  PROVE  Inv'
<1> DEFINE m == call[t].mapping
           v == ViewOf(m, call[t].page)
           f == mapping[m].file
           c == [call[t] EXCEPT !.at = "find", !.view = v, !.file = f]
<1>1. CASE UNCHANGED <<call, mapping, handle, views, pte, file, cached, wanted>>
  BY <1>1, Stopped
<1>2. CASE /\ v # None
           /\ call' = [call EXCEPT ![t].at = "find", ![t].view = v, ![t].file = f]
           /\ UNCHANGED <<mapping, handle, views, pte, file, cached, wanted, stopped>>
  <2>1. call[t] \in CallType /\ call[t].at = "fault" /\ FreeFor(t, Locks(call[t]).wants)
    BY DEF Inv, TypeInv, FindView, Granted
  <2>2. FaultInv(t) /\ Faulting(t)
    BY <2>1 DEF Inv, CallInv, Faulting
  <2>3. m \in Mappings /\ call[t].page \in Pages /\ call[t].page \in Nat /\ views[m] \in Seq(View) /\ f \in Files
    BY <2>2 DEF FaultInv, Inv, StateInv, TablesInv, TypeInv, Pages
  <2>4. /\ \E i \in 1 .. Len(views[m]) : views[m][i] = v /\ call[t].page \in PagesOfView(views[m][i])
        /\ v \in View
    BY <1>2, <2>3, ViewOfFinds
  <2>5. /\ c \in CallType /\ c.at = "find" /\ c.view = v /\ c.file = f /\ c.mapping = m /\ c.page = call[t].page
    BY <2>1, <2>3, <2>4 DEF CallType, Stages
  <2>6. call' = [call EXCEPT ![t] = c]
    BY <1>2
  <2>7. call'[t] = c
    BY <2>6 DEF Inv, TypeInv
  <2> HIDE DEF c, v
  <2>8. CallInv(t)'
    BY <1>2, <2>2, <2>3, <2>4, <2>5, <2>7 DEF CallInv, CreateInv, CloseInv, MapInv, ReservedInv, FaultInv,
       FindInv, ResolveInv, ReadInv, Faulting
  <2>9. \A u \in Threads \ {t} : Locks(c).held \cap Locks(call[u]).held = {}
    <3>1. Locks(c).held \subseteq Locks(call[t]).held \cup Locks(call[t]).wants
      BY <2>1, <2>5, LocksGrow
    <3> QED
      BY <2>1, <3>1 DEF FreeFor, Inv, Exclusion
  <2>10. UNCHANGED <<mapping, handle, views, pte, file, cached, wanted>>
    BY <1>2
  <2>11. c.at # "create" /\ Faulting(t) /\ c.page = call[t].page
    BY <2>2, <2>5
  <2> QED
    BY <2>5, <2>6, <2>8, <2>9, <2>10, <2>11, OnlyCall
<1> QED
  BY <1>1, <1>2 DEF FindView, Stop

\* A fault finds its page in the cache.
LEMMA FindCachedPageKeeps ==
  ASSUME Inv, NEW t \in Threads, FindCachedPage(t)
  PROVE  Inv'
<1> DEFINE c == [call[t] EXCEPT !.at = "resolve"]
           i == PageNumber(call[t])
<1>1. CASE UNCHANGED <<call, mapping, handle, views, pte, file, cached, wanted>>
  BY <1>1, Stopped
<1>2. CASE /\ i \in PagesOfFile /\ cached[call[t].file][i] # None
           /\ Goto(t, "resolve")
           /\ UNCHANGED <<mapping, handle, views, pte, file, cached, wanted, stopped>>
  <2>1. call[t] \in CallType /\ call[t].at = "find" /\ FreeFor(t, Locks(call[t]).wants)
    BY DEF Inv, TypeInv, FindCachedPage, Granted
  <2>2. /\ c \in CallType /\ c.at = "resolve" /\ c.view = call[t].view /\ c.file = call[t].file
        /\ c.mapping = call[t].mapping /\ c.page = call[t].page
    BY <2>1 DEF CallType, Stages
  <2>3. call' = [call EXCEPT ![t] = c]
    BY <1>2 DEF Goto
  <2>4. call'[t] = c
    BY <2>3 DEF Inv, TypeInv
  <2>5. FaultInv(t) /\ FindInv(t) /\ Faulting(t)
    BY <2>1 DEF Inv, CallInv, Faulting
  <2>6. PageNumber(c) = i
    BY <2>2 DEF PageNumber
  <2>7. UNCHANGED <<mapping, handle, views, pte, file, cached, wanted>>
    BY <1>2
  <2>8. i \in PagesOfFile /\ cached[call[t].file][i] # None
    BY <1>2
  <2> HIDE DEF c, i
  <2>9. CallInv(t)'
    <3>1. CreateInv(t)' /\ CloseInv(t)' /\ MapInv(t)' /\ ReservedInv(t)' /\ ReadInv(t)'
      BY <2>2, <2>4 DEF CreateInv, CloseInv, MapInv, ReservedInv, ReadInv
    <3>2. FaultInv(t)' /\ FindInv(t)'
      BY <2>1, <2>2, <2>4, <2>5, <2>7 DEF FaultInv, FindInv, Faulting
    <3>3. ResolveInv(t)'
      BY <2>2, <2>4, <2>6, <2>7, <2>8 DEF ResolveInv
    <3> QED
      BY <3>1, <3>2, <3>3 DEF CallInv
  <2>10. \A u \in Threads \ {t} : Locks(c).held \cap Locks(call[u]).held = {}
    <3>1. Locks(c).held \subseteq Locks(call[t]).held \cup Locks(call[t]).wants
      BY <2>1, <2>2, LocksGrowWithFile
    <3> QED
      BY <2>1, <3>1 DEF FreeFor, Inv, Exclusion
  <2>11. c.at # "create" /\ Faulting(t) /\ c.page = call[t].page
    BY <2>2, <2>5
  <2> QED
    BY <2>2, <2>3, <2>7, <2>9, <2>10, <2>11, OnlyCall
<1> QED
  BY <1>1, <1>2 DEF FindCachedPage, Stop

\* A reader of a file has its cache map for itself.
LEMMA CcCacheReadFileKeeps ==
  ASSUME Inv, NEW t \in Threads, NEW f \in Files, NEW i \in PagesOfFile, CcCacheReadFile(t, f, i)
  PROVE  Inv'
<1> DEFINE c == [Idle EXCEPT !.at = "read", !.file = f, !.page = i]
<1>0. i \in Nat
  BY DEF PagesOfFile
<1>1. c \in CallType /\ c.at = "read" /\ c.file = f /\ c.page = i
  BY <1>0 DEF Idle, CallType, Stages
<1>2. call' = [call EXCEPT ![t] = c] /\ FreeFor(t, Locks(c).held) /\ cached[f][i] = None
  BY DEF CcCacheReadFile, Begin
<1>3. call'[t] = c /\ UNCHANGED cached
  BY <1>2 DEF Inv, TypeInv, CcCacheReadFile
<1> HIDE DEF c
<1>4. CallInv(t)'
  BY <1>1, <1>2, <1>3 DEF CallInv, CreateInv, CloseInv, MapInv, ReservedInv, FaultInv, FindInv,
     ResolveInv, ReadInv, Faulting
<1> QED
  BY <1>1, <1>2, <1>4, OnlyCall DEF CcCacheReadFile, FreeFor

\* Closing a file changes nothing yet that views depend on.
LEMMA IoCloseFileKeeps ==
  ASSUME Inv, NEW t \in Threads, NEW f \in Files, IoCloseFile(t, f)
  PROVE  Inv'
<1> DEFINE c == [Idle EXCEPT !.at = "purge", !.file = f]
<1>1. c \in CallType /\ c.at = "purge" /\ c.file = f
  BY FileViewsAssumption DEF Idle, CallType, Stages
<1>2. call' = [call EXCEPT ![t] = c] /\ FreeFor(t, Locks(c).held)
  BY DEF IoCloseFile, Begin
<1>3. /\ UNCHANGED <<mapping, handle, views, pte, cached, wanted>>
      /\ \A g \in Files : file'[g].cacheMap = file[g].cacheMap
      /\ file' \in [Files -> [open : BOOLEAN, cacheMap : BOOLEAN, references : Int]]
  BY DEF Inv, TypeInv, IoCloseFile
<1>4. call'[t] = c
  BY <1>2 DEF Inv, TypeInv
<1> HIDE DEF c
<1>5. CallInv(t)'
  BY <1>1, <1>4 DEF CallInv, CreateInv, CloseInv, MapInv, ReservedInv, FaultInv, FindInv,
     ResolveInv, ReadInv, Faulting
<1>6. TypeInv'
  BY <1>1, <1>2, <1>3 DEF Inv, TypeInv
<1>7. Exclusion'
  BY <1>2, ExclusionKept DEF Inv, FreeFor
<1>8. StateInv'
  BY <1>3, TablesKept DEF Inv, StateInv
<1>9. \A u \in Threads \ {t} : CallInv(u)'
  BY <1>1, <1>2, <1>3, OthersKept DEF Inv
<1> QED
  BY <1>5, <1>6, <1>7, <1>8, <1>9 DEF Inv

-----------------------------------------------------------------------------
(* Steps that change the tables.                                             *)

\* Two threads are not both past the lock of the handle table, of the page database, or of
\* one cache map.
LEMMA LocksExclude ==
  ASSUME Exclusion, NEW t \in Threads, NEW u \in Threads \ {t}
  PROVE  /\ call[t].at \in {"delete", "unlist"} => call[u].at \notin {"delete", "unlist"}
         /\ call[t].at = "insert" => call[u].at # "insert"
         /\ call[t].at \in {"read", "purge"} /\ call[u].at \in {"read", "purge", "resolve"} =>
               call[u].file # call[t].file
<1>1. Locks(call[t]).held \cap Locks(call[u]).held = {}
  BY DEF Exclusion
<1>2. \A c : c.at \in {"delete", "unlist"} => TableLock \in Locks(c).held
  BY DEF Locks
<1>3. \A c : c.at = "insert" => MmPageDatabaseLock \in Locks(c).held
  BY DEF Locks
<1>4. \A c : c.at \in {"read", "purge"} => CacheMapLock(c.file) \in Locks(c).held
  BY DEF Locks, CacheLocks
<1>5. \A c : c.at = "resolve" => CacheMapLock(c.file) \in Locks(c).held
  BY DEF Locks
<1> QED
  BY <1>1, <1>2, <1>3, <1>4, <1>5

\* A new mapping has no handle, no views, and no page is wanted for it.
LEMMA MmCreateFileMappingKeeps ==
  ASSUME Inv, NEW f \in Files, NEW write \in BOOLEAN, MmCreateFileMapping(f, write)
  PROVE  Inv'
<1>1. PICK m \in Mappings, t \in Threads :
        /\ mapping[m].state = "unused"
        /\ Begin(t, [Idle EXCEPT !.at = "create", !.mapping = m, !.file = f])
        /\ mapping' = [mapping EXCEPT ![m] = [state |-> "live", file |-> f, write |-> write]]
  BY DEF MmCreateFileMapping
<1> DEFINE c == [Idle EXCEPT !.at = "create", !.mapping = m, !.file = f]
<1>2. c \in CallType /\ c.at = "create" /\ c.mapping = m
  BY FileViewsAssumption DEF Idle, CallType, Stages
<1>3. call' = [call EXCEPT ![t] = c]
  BY <1>1 DEF Begin
<1>4. call'[t] = c /\ \A u \in Threads \ {t} : call'[u] = call[u]
  BY <1>3 DEF Inv, TypeInv
<1>5. /\ UNCHANGED <<handle, views, pte, cached, wanted>>
      /\ \A g \in Files : file'[g].cacheMap = file[g].cacheMap
      /\ file' \in [Files -> [open : BOOLEAN, cacheMap : BOOLEAN, references : Int]]
      /\ write => f \in Writable
  <2>1. file' = [file EXCEPT ![f].references = @ + 1]
    BY DEF MmCreateFileMapping
  <2>2. file \in [Files -> [open : BOOLEAN, cacheMap : BOOLEAN, references : Int]]
    BY DEF Inv, TypeInv
  <2>3. /\ \A g \in Files : file'[g].cacheMap = file[g].cacheMap
        /\ file' \in [Files -> [open : BOOLEAN, cacheMap : BOOLEAN, references : Int]]
    BY <2>1, <2>2
  <2> QED
    BY <2>3 DEF MmCreateFileMapping
<1>6. /\ \A n \in Mappings \ {m} : mapping'[n] = mapping[n]
      /\ mapping'[m].state = "live" /\ mapping'[m].file = f /\ mapping'[m].write = write
      /\ \A n \in Mappings : mapping[n].state # "unused" => n # m
  BY <1>1 DEF Inv, TypeInv
<1>7. \A h \in Handles : handle[h] \in Mappings \cup {None} /\ handle[h] # m
  BY <1>1, FileViewsAssumption DEF Inv, StateInv, TablesInv, TypeInv
<1>8. \A i \in 1 .. Len(views[m]) : FALSE
  BY <1>1 DEF Inv, StateInv, ViewsInv
<1>9. \A p \in Pages : wanted[p] # None => wanted[p].mapping \in Mappings \ {m}
  BY <1>8 DEF Inv, TypeInv, StateInv, WantedInv
<1> HIDE DEF c
<1>10. TypeInv'
  BY <1>1, <1>2, <1>3, <1>5 DEF Inv, TypeInv
<1>11. Exclusion'
  <2>1. Locks(c).held = {}
    BY <1>2 DEF Locks
  <2>2. \A u \in Threads \ {t} : Locks(c).held \cap Locks(call[u]).held = {}
    BY <2>1
  <2> QED
    BY <1>3, <2>2, ExclusionKept DEF Inv
<1>12. StateInv'
  <2>1. TablesInv'
    BY <1>5, <1>6, <1>7 DEF Inv, StateInv, TablesInv
  <2>2. ViewsInv' /\ FramesInv'
    BY <1>5, <1>6, <1>8 DEF Inv, StateInv, ViewsInv, FramesInv
  <2>3. PlacedInv'
    BY <1>5 DEF Inv, StateInv, PlacedInv, PlacedViewsAreDisjoint, Placed, Chosen
  <2>6. WantedInv'
    BY <1>5, WantedKept DEF Inv, StateInv
  <2>4. EntriesInv'
    BY <1>5, <1>6, <1>9 DEF Inv, StateInv, EntriesInv, Contested, Chosen
  <2>5. ShownInv'
    <3> SUFFICES ASSUME NEW p \in Pages, pte[p].valid, wanted[p] # None, ~Contested(p)
                 PROVE  LET g == mapping'[wanted[p].mapping].file
                        IN  /\ file'[g].cacheMap => pte[p].frame = cached[g][wanted[p].page]
                            /\ pte[p].write => g \in Writable
      BY <1>5 DEF ShownInv, Contested, Chosen
    <3>1. /\ mapping'[wanted[p].mapping] = mapping[wanted[p].mapping]
          /\ mapping[wanted[p].mapping].file \in Files
      BY <1>6, <1>9 DEF Inv, StateInv, WantedInv, ViewsInv, TablesInv
    <3> QED
      BY <1>5, <3>1 DEF Inv, StateInv, ShownInv
  <2> QED
    BY <2>1, <2>2, <2>3, <2>4, <2>5, <2>6 DEF StateInv
<1>13. CallInv(t)'
  <2>1. CreateInv(t)'
    <3>1. \A u \in Threads \ {t} : call[u].at = "create" => call[u].mapping # m
      BY <1>6 DEF Inv, CallInv, CreateInv
    <3> QED
      BY <1>2, <1>4, <1>5, <1>6, <1>7, <3>1 DEF CreateInv
  <2> QED
    BY <1>2, <1>4, <2>1 DEF CallInv, CloseInv, MapInv, ReservedInv, FaultInv, FindInv, ResolveInv, ReadInv,
       Faulting
<1>14. ASSUME NEW u \in Threads \ {t} PROVE CallInv(u)'
  <2>1. call'[u] = call[u] /\ CallInv(u)
    BY <1>4 DEF Inv
  <2>2. CreateInv(u)'
    BY <1>2, <1>4, <1>5, <1>6, <2>1 DEF CallInv, CreateInv
  <2>3. CloseInv(u)' /\ ResolveInv(u)' /\ ReadInv(u)'
    BY <1>5, <2>1 DEF CallInv, CloseInv, ResolveInv, ReadInv
  <2>4. MapInv(u)' /\ FaultInv(u)' /\ FindInv(u)'
    BY <1>5, <1>6, <2>1 DEF CallInv, MapInv, FaultInv, FindInv, Faulting
  <2>5. ReservedInv(u)'
    <3>1. \A w \in Threads : Faulting(w)' => Faulting(w) /\ call'[w].page = call[w].page
      BY <1>2, <1>4 DEF Faulting
    <3> QED
      BY <1>5, <2>1, <3>1 DEF CallInv, ReservedInv, Placed, Chosen
  <2> QED
    BY <2>1, <2>2, <2>3, <2>4, <2>5 DEF CallInv
<1> QED
  BY <1>10, <1>11, <1>12, <1>13, <1>14 DEF Inv

\* What a thread that returns leaves to show: the tables, and the other threads.
LEMMA Returns ==
  ASSUME Inv, NEW t \in Threads, Return(t)
  PROVE  /\ call' \in [Threads -> CallType] /\ Exclusion' /\ CallInv(t)'
         /\ call'[t] = Idle /\ \A u \in Threads \ {t} : call'[u] = call[u]
         /\ \A u \in Threads : Faulting(u)' => Faulting(u) /\ call'[u].page = call[u].page
         /\ \A u \in Threads : call'[u].at # "idle" => call'[u] = call[u] /\ u # t
<1>1. call' = [call EXCEPT ![t] = Idle] /\ call \in [Threads -> CallType]
  BY DEF Return, Inv, TypeInv
<1>2. call'[t] = Idle /\ \A u \in Threads \ {t} : call'[u] = call[u]
  BY <1>1
<1>3. call' \in [Threads -> CallType]
  BY <1>1, IdleType
<1>4. \A u \in Threads \ {t} : Locks(Idle).held \cap Locks(call[u]).held = {}
  BY IdleType
<1>5. Exclusion'
  BY <1>1, <1>4, ExclusionKept DEF Inv
<1>6. Idle.at = "idle"
  BY DEF Idle
<1> QED
  BY <1>2, <1>3, <1>5, <1>6, IdleIsRight DEF Faulting

\* The handle of a new mapping was nobody's.
LEMMA ObpCreateHandleKeeps ==
  ASSUME Inv, NEW t \in Threads, ObpCreateHandle(t)
  PROVE  Inv'
<1> DEFINE m == call[t].mapping
<1>1. CASE UNCHANGED <<call, mapping, handle, views, pte, file, cached, wanted>>
  BY <1>1, Stopped
<1>2. ASSUME NEW h \in Handles, handle[h] = None, handle' = [handle EXCEPT ![h] = m], Return(t),
             UNCHANGED <<mapping, views, pte, file, cached, wanted>>
      PROVE  Inv'
  <2>1. call[t].at = "create" /\ CreateInv(t)
    BY DEF ObpCreateHandle, Granted, Inv, CallInv
  <2>2. m \in Mappings /\ mapping[m].state = "live" /\ \A g \in Handles : handle[g] # m
    BY <2>1 DEF CreateInv
  <2>3. /\ handle'[h] = m /\ \A g \in Handles \ {h} : handle'[g] = handle[g]
        /\ handle' \in [Handles -> Mappings \cup {None}]
    BY <1>2, <2>2 DEF Inv, TypeInv
  <2> HIDE DEF m
  <2>4. TypeInv'
    BY <1>2, <2>3, Returns DEF Inv, TypeInv
  <2>5. TablesInv'
    BY <1>2, <2>2, <2>3 DEF Inv, StateInv, TablesInv
  <2>6. ViewsInv' /\ FramesInv'
    BY <1>2 DEF Inv, StateInv, ViewsInv, FramesInv
  <2>7. PlacedInv'
    BY <1>2 DEF Inv, StateInv, PlacedInv, PlacedViewsAreDisjoint, Placed, Chosen
  <2>8. WantedInv'
    BY <1>2, WantedKept DEF Inv, StateInv
  <2>9. EntriesInv'
    <3> SUFFICES ASSUME NEW p \in Pages, wanted[p] # None, ~pte[p].valid, ~Contested(p),
                        mapping[wanted[p].mapping].state = "live"
                 PROVE  pte[p].handle \in Handles /\ handle'[pte[p].handle] = wanted[p].mapping
      BY <1>2 DEF EntriesInv, Contested, Chosen
    <3>1. pte[p].handle \in Handles /\ handle[pte[p].handle] = wanted[p].mapping /\ wanted[p].mapping \in Mappings
      BY DEF Inv, StateInv, EntriesInv, TypeInv
    <3>2. pte[p].handle # h
      BY <1>2, <3>1, FileViewsAssumption
    <3> QED
      BY <2>3, <3>1, <3>2
  <2>10. ShownInv'
    BY <1>2 DEF Inv, StateInv, ShownInv, Contested, Chosen
  <2>11. ASSUME NEW u \in Threads \ {t} PROVE CallInv(u)'
    <3>1. call'[u] = call[u] /\ CallInv(u)
      BY <1>2, Returns DEF Inv
    <3>2. CreateInv(u)'
      <4>1. call[u].at = "create" => call[u].mapping # m
        BY <2>1 DEF CreateInv, m
      <4>2. \A w \in Threads : call'[w].at = "create" => call'[w] = call[w]
        BY <1>2, Returns
      <4> QED
        BY <1>2, <2>3, <3>1, <4>1, <4>2 DEF CallInv, CreateInv
    <3>3. CloseInv(u)' /\ MapInv(u)'
      BY <1>2, <2>3, <3>1, FileViewsAssumption DEF CallInv, CloseInv, MapInv
    <3>4. FaultInv(u)' /\ FindInv(u)' /\ ReadInv(u)'
      BY <1>2, <3>1 DEF CallInv, FaultInv, FindInv, ReadInv, Faulting
    <3>5. ResolveInv(u)'
      BY <1>2, <3>1 DEF CallInv, ResolveInv
    <3>6. ReservedInv(u)'
      BY <1>2, <3>1, Returns DEF CallInv, ReservedInv, Placed, Chosen
    <3> QED
      BY <3>2, <3>3, <3>4, <3>5, <3>6 DEF CallInv
  <2> QED
    BY <1>2, <2>4, <2>5, <2>6, <2>7, <2>8, <2>9, <2>10, <2>11, Returns DEF Inv, StateInv
<1> QED
  BY <1>1, <1>2 DEF ObpCreateHandle, Stop

\* A mapping that goes takes its only handle with it.
LEMMA MiDeleteMappingKeeps ==
  ASSUME Inv, NEW t \in Threads, MiDeleteMapping(t)
  PROVE  Inv'
<1> DEFINE m == call[t].mapping
           h == call[t].page
<1>1. call[t].at = "unlist" /\ m \in Mappings /\ h \in Handles /\ handle[h] = m
  BY DEF MiDeleteMapping, Granted, Inv, CallInv, CloseInv
<1>2. mapping[m].state = "live" /\ mapping[m].file \in Files /\ \A g \in Handles : handle[g] = m => g = h
  BY <1>1, FileViewsAssumption DEF Inv, StateInv, TablesInv
<1>3. /\ mapping' = [mapping EXCEPT ![m].state = "freed"] /\ handle' = [handle EXCEPT ![h] = None]
      /\ Return(t) /\ UNCHANGED <<views, pte, cached, wanted>>
      /\ file' = [file EXCEPT ![mapping[m].file].references = @ - 1]
  BY DEF MiDeleteMapping, Dereference
<1> HIDE DEF m, h
<1>4. /\ \A n \in Mappings \ {m} : mapping'[n] = mapping[n]
      /\ mapping'[m].state = "freed" /\ mapping'[m].file = mapping[m].file /\ mapping'[m].write = mapping[m].write
      /\ mapping' \in [Mappings -> [state : {"unused", "live", "freed"}, file : Files \cup {None}, write : BOOLEAN]]
  <2>1. mapping \in [Mappings -> [state : {"unused", "live", "freed"}, file : Files \cup {None}, write : BOOLEAN]]
    BY DEF Inv, TypeInv
  <2>2. m \in Mappings /\ mapping' = [mapping EXCEPT ![m].state = "freed"]
    BY <1>1, <1>3
  <2>3. \A n \in Mappings \ {m} : mapping'[n] = mapping[n]
    BY <2>1, <2>2
  <2>4. mapping'[m].state = "freed" /\ mapping'[m].file = mapping[m].file /\ mapping'[m].write = mapping[m].write
    BY <2>1, <2>2
  <2>5. mapping' \in [Mappings -> [state : {"unused", "live", "freed"}, file : Files \cup {None}, write : BOOLEAN]]
    BY <2>1, <2>2
  <2> QED
    BY <2>3, <2>4, <2>5
<1>5. /\ handle'[h] = None /\ \A g \in Handles \ {h} : handle'[g] = handle[g]
      /\ handle' \in [Handles -> Mappings \cup {None}]
  BY <1>1, <1>3 DEF Inv, TypeInv
<1>6. /\ \A f \in Files : file'[f].cacheMap = file[f].cacheMap
      /\ file' \in [Files -> [open : BOOLEAN, cacheMap : BOOLEAN, references : Int]]
  <2>1. file \in [Files -> [open : BOOLEAN, cacheMap : BOOLEAN, references : Int]]
    BY DEF Inv, TypeInv
  <2>2. file' = [file EXCEPT ![mapping[m].file].references = @ - 1]
    BY <1>3
  <2> QED
    BY <1>2, <2>1, <2>2
<1>7. TypeInv'
  BY <1>3, <1>4, <1>5, <1>6, Returns DEF Inv, TypeInv
<1>8. TablesInv'
  BY <1>1, <1>2, <1>4, <1>5 DEF Inv, StateInv, TablesInv
<1>9. ViewsInv' /\ FramesInv'
  BY <1>2, <1>3, <1>4 DEF Inv, StateInv, ViewsInv, FramesInv
<1>10. PlacedInv'
  BY <1>3 DEF Inv, StateInv, PlacedInv, PlacedViewsAreDisjoint, Placed, Chosen
<1>11. WantedInv'
  BY <1>3, WantedKept DEF Inv, StateInv
<1>12. \A p \in Pages : wanted[p] # None => wanted[p].mapping \in Mappings
  BY DEF Inv, TypeInv
<1>13. EntriesInv'
  <2> SUFFICES ASSUME NEW p \in Pages, wanted[p] # None, ~pte[p].valid, ~Contested(p),
                      mapping'[wanted[p].mapping].state = "live"
               PROVE  pte[p].handle \in Handles /\ handle'[pte[p].handle] = wanted[p].mapping
    BY <1>3 DEF EntriesInv, Contested, Chosen
  <2>1. wanted[p].mapping \in Mappings \ {m}
    BY <1>4, <1>12
  <2>2. pte[p].handle \in Handles /\ handle[pte[p].handle] = wanted[p].mapping
    BY <1>4, <2>1 DEF Inv, StateInv, EntriesInv
  <2> QED
    BY <1>1, <1>5, <2>1, <2>2
<1>14. ShownInv'
  <2> SUFFICES ASSUME NEW p \in Pages, pte[p].valid, wanted[p] # None, ~Contested(p)
               PROVE  LET g == mapping'[wanted[p].mapping].file
                      IN  /\ file'[g].cacheMap => pte[p].frame = cached[g][wanted[p].page]
                          /\ pte[p].write => g \in Writable
    BY <1>3 DEF ShownInv, Contested, Chosen
  <2>1. /\ mapping'[wanted[p].mapping].file = mapping[wanted[p].mapping].file
        /\ mapping[wanted[p].mapping].file \in Files
    BY <1>4, <1>12 DEF Inv, StateInv, WantedInv, ViewsInv, TablesInv
  <2> QED
    BY <1>6, <2>1 DEF Inv, StateInv, ShownInv
<1>15. ASSUME NEW u \in Threads \ {t} PROVE CallInv(u)'
  <2>1. call'[u] = call[u] /\ CallInv(u)
    BY <1>3, Returns DEF Inv
  <2>2. CreateInv(u)'
    <3>1. \A w \in Threads : call'[w].at = "create" => call'[w] = call[w]
      BY <1>3, Returns
    <3>2. call[u].at = "create" => call[u].mapping # m /\ call[u].mapping \in Mappings
      BY <1>1, <2>1 DEF CallInv, CreateInv
    <3>3. call[u].at = "create" => call[u].mapping # None
      BY <3>2, FileViewsAssumption
    <3> QED
      BY <1>4, <1>5, <2>1, <3>1, <3>2, <3>3 DEF CallInv, CreateInv
  <2>3. CloseInv(u)'
    <3>1. call[u].at \notin {"delete", "unlist"}
      BY <1>1, LocksExclude DEF Inv
    <3> QED
      BY <2>1, <3>1 DEF CloseInv
  <2>4. MapInv(u)'
    BY <1>1, <1>4, <1>5, <2>1 DEF CallInv, MapInv
  <2>5. FaultInv(u)' /\ ReadInv(u)'
    BY <1>3, <1>4, <2>1 DEF CallInv, FaultInv, ReadInv, Faulting
  <2>6. FindInv(u)'
    BY <1>3, <1>4, <2>1 DEF CallInv, FindInv, FaultInv, Faulting
  <2>7. ResolveInv(u)'
    BY <1>3, <2>1 DEF CallInv, ResolveInv
  <2>8. ReservedInv(u)'
    BY <1>3, <2>1, Returns DEF CallInv, ReservedInv, Placed, Chosen
  <2> QED
    BY <2>2, <2>3, <2>4, <2>5, <2>6, <2>7, <2>8 DEF CallInv
<1> QED
  BY <1>3, <1>7, <1>8, <1>9, <1>10, <1>11, <1>13, <1>14, <1>15, Returns DEF Inv, StateInv

\* Pages that are reserved were of no placed view, and nobody has a fault there.
LEMMA ReserveKeeps ==
  ASSUME Inv, NEW t \in Threads, Reserve(t)
  PROVE  Inv'
<1> DEFINE size == call[t].view.size
           starts == {p \in Pages : Fits(p, size)}
           start == Min(starts)
           v == [call[t].view EXCEPT !.start = start]
           c == [call[t] EXCEPT !.at = "insert", !.view = v]
<1>1. call[t] \in CallType /\ call[t].at = "map" /\ FreeFor(t, Locks(call[t]).wants)
  BY DEF Inv, TypeInv, Reserve, Granted
<1>2. MapInv(t) /\ call[t].view \in View
  BY <1>1 DEF Inv, CallInv, MapInv
<1>3. start \in Pages /\ Fits(start, size)
  <2>1. starts \in SUBSET Nat /\ starts # {}
    BY DEF Reserve, Pages
  <2>2. start \in starts
    BY <2>1, LeastExists
  <2> QED
    BY <2>2
<1>4. v \in View /\ v.start = start /\ v.size = size /\ v.write = call[t].view.write /\ ~v.chosen
  BY <1>2, <1>3 DEF View, Reserve
<1>5. \A p \in PagesOfView(v) : p \in Pages /\ ~pte[p].view /\ ~pte[p].valid
  BY <1>3, <1>4, FitsInArea
<1>6. /\ UNCHANGED <<mapping, handle, views, file, cached, wanted>>
      /\ pte' = [p \in Pages |-> IF p \in PagesOfView(v) THEN [ZeroPte EXCEPT !.view = TRUE] ELSE pte[p]]
      /\ call' = [call EXCEPT ![t].at = "insert", ![t].view.start = start]
  BY <1>4 DEF Reserve, PagesOfView
<1>7. call' = [call EXCEPT ![t] = c]
  BY <1>6
<1>8. c \in CallType /\ c.at = "insert" /\ c.view = v /\ c.mapping = call[t].mapping /\ c.page = call[t].page
  BY <1>1, <1>4 DEF CallType, Stages
<1> HIDE DEF c, v, start, starts, size
<1>9. call'[t] = c /\ \A u \in Threads \ {t} : call'[u] = call[u]
  BY <1>7 DEF Inv, TypeInv
<1>10. /\ \A p \in PagesOfView(v) : pte'[p].view /\ ~pte'[p].valid /\ pte'[p].handle = 0
       /\ \A p \in Pages : p \notin PagesOfView(v) => pte'[p] = pte[p]
       /\ pte' \in [Pages -> PteType]
  <2>1. /\ [ZeroPte EXCEPT !.view = TRUE] \in PteType
        /\ [ZeroPte EXCEPT !.view = TRUE].view /\ ~[ZeroPte EXCEPT !.view = TRUE].valid
        /\ [ZeroPte EXCEPT !.view = TRUE].handle = 0
    <3>1. 0 \in 0 .. MaxHandle
      BY FileViewsAssumption
    <3>2. ZeroPte \in PteType /\ ~ZeroPte.valid /\ ZeroPte.handle = 0
      BY <3>1 DEF ZeroPte, PteType
    <3> QED
      BY <3>2 DEF PteType
  <2>2. pte \in [Pages -> PteType]
    BY DEF Inv, TypeInv
  <2> QED
    BY <1>5, <1>6, <2>1, <2>2
<1>11. TypeInv'
  <2>1. call \in [Threads -> CallType]
    BY DEF Inv, TypeInv
  <2>2. call' \in [Threads -> CallType]
    BY <1>7, <1>8, <2>1
  <2> QED
    BY <1>6, <1>10, <2>2 DEF Inv, TypeInv
<1>12. Exclusion'
  <2>1. Locks(c).held \subseteq Locks(call[t]).held \cup Locks(call[t]).wants
    BY <1>1, <1>8, LocksGrow
  <2>2. \A u \in Threads \ {t} : Locks(c).held \cap Locks(call[u]).held = {}
    BY <1>1, <2>1 DEF FreeFor, Inv, Exclusion
  <2> QED
    BY <1>7, <2>2, ExclusionKept DEF Inv
\* Neither a page of a placed view, nor one that is wanted, is reserved.
<1>13. \A m \in Mappings : \A i \in Placed(m) : \A p \in PagesOfView(views[m][i]) :
          p \in Pages /\ pte[p].view /\ p \notin PagesOfView(v)
  BY <1>5 DEF Inv, StateInv, PlacedInv, ViewsInv, Placed
<1>14. ASSUME NEW p \in Pages, wanted[p] # None, ~Contested(p)
       PROVE  p \notin PagesOfView(v)
  <2>1. wanted[p].mapping \in Mappings
    BY <1>14 DEF Inv, TypeInv
  <2>2. PICK i \in 1 .. Len(views[wanted[p].mapping]) : p \in PagesOfView(views[wanted[p].mapping][i])
    BY <1>14 DEF Inv, StateInv, WantedInv
  <2>3. views[wanted[p].mapping][i] \in View /\ p \in Nat
    BY <2>1, <2>2 DEF Inv, TypeInv, Pages
  <2>4. i \in Placed(wanted[p].mapping)
    BY <1>14, <2>1, <2>2, <2>3, CoversPage DEF Placed, Chosen, Contested
  <2> QED
    BY <1>13, <2>1, <2>2, <2>4
<1>15. TablesInv' /\ ViewsInv'
  BY <1>6 DEF Inv, StateInv, TablesInv, ViewsInv
<1>16. PlacedInv'
  <2>1. PlacedViewsAreDisjoint'
    BY <1>6 DEF Inv, StateInv, PlacedInv, PlacedViewsAreDisjoint, Placed, Chosen
  <2>2. \A m \in Mappings : \A i \in Placed(m) : \A p \in PagesOfView(views[m][i]) : pte'[p].view
    BY <1>10, <1>13
  <2>3. \A m \in Mappings : Placed(m)' = Placed(m)
    BY <1>6 DEF Placed, Chosen
  <2> QED
    BY <1>6, <2>1, <2>2, <2>3 DEF PlacedInv
<1>17. WantedInv'
  BY <1>6, WantedKept DEF Inv, StateInv
<1>18. EntriesInv' /\ FramesInv' /\ ShownInv'
  <2>1. \A p \in Pages : Contested(p)' <=> Contested(p)
    BY <1>6 DEF Contested, Chosen
  <2>2. EntriesInv'
    <3> SUFFICES ASSUME NEW p \in Pages, wanted[p] # None, ~pte'[p].valid, ~Contested(p),
                        mapping[wanted[p].mapping].state = "live"
                 PROVE  pte'[p].handle \in Handles /\ handle[pte'[p].handle] = wanted[p].mapping
      BY <1>6 DEF EntriesInv, Contested, Chosen
    <3>1. pte'[p] = pte[p]
      BY <1>10, <1>14
    <3> QED
      BY <3>1 DEF Inv, StateInv, EntriesInv
  <2>3. FramesInv'
    BY <1>10 DEF Inv, StateInv, FramesInv
  <2>4. ShownInv'
    <3> SUFFICES ASSUME NEW p \in Pages, pte'[p].valid, wanted[p] # None, ~Contested(p)
                 PROVE  LET f == mapping[wanted[p].mapping].file
                        IN  /\ file[f].cacheMap => pte'[p].frame = cached[f][wanted[p].page]
                            /\ pte'[p].write => f \in Writable
      BY <1>6 DEF ShownInv, Contested, Chosen
    <3>1. pte'[p] = pte[p]
      BY <1>10, <1>14
    <3> QED
      BY <3>1 DEF Inv, StateInv, ShownInv
  <2> QED
    BY <2>2, <2>3, <2>4
<1>19. \A u \in Threads : Faulting(u)' =>
          Faulting(u) /\ call'[u].page = call[u].page /\ call[u].page \in Pages /\ call[u].page \notin PagesOfView(v)
  <2>1. \A u \in Threads : Faulting(u)' => Faulting(u) /\ call'[u].page = call[u].page
    BY <1>8, <1>9 DEF Faulting
  <2> QED
    BY <1>5, <2>1 DEF Inv, CallInv, FaultInv
<1>20. CallInv(t)'
  <2>1. CreateInv(t)' /\ CloseInv(t)' /\ FaultInv(t)' /\ FindInv(t)' /\ ResolveInv(t)' /\ ReadInv(t)'
    BY <1>8, <1>9 DEF CreateInv, CloseInv, FaultInv, FindInv, ResolveInv, ReadInv, Faulting
  <2>2. MapInv(t)'
    BY <1>1, <1>2, <1>4, <1>6, <1>8, <1>9 DEF MapInv
  <2>3. ReservedInv(t)'
    <3>1. PagesOfView(v) \subseteq Pages /\ call'[t].view = v
      BY <1>5, <1>8, <1>9
    <3>2. \A p \in PagesOfView(v) : \A u \in Threads : Faulting(u)' => call'[u].page # p
      BY <1>19
    <3>3. \A p \in PagesOfView(v) : \A m \in Mappings : \A i \in Placed(m)' : p \notin PagesOfView(views'[m][i])
      BY <1>6, <1>13 DEF Placed, Chosen
    <3> QED
      BY <1>10, <3>1, <3>2, <3>3 DEF ReservedInv
  <2> QED
    BY <2>1, <2>2, <2>3 DEF CallInv
<1>21. ASSUME NEW u \in Threads \ {t} PROVE CallInv(u)'
  <2>1. call'[u] = call[u] /\ CallInv(u)
    BY <1>9 DEF Inv
  <2>2. CreateInv(u)'
    <3>1. \A w \in Threads : call'[w].at = "create" => call'[w] = call[w]
      BY <1>8, <1>9
    <3> QED
      BY <1>6, <2>1, <3>1 DEF CallInv, CreateInv
  <2>3. CloseInv(u)' /\ MapInv(u)' /\ FindInv(u)' /\ ReadInv(u)'
    BY <1>6, <2>1 DEF CallInv, CloseInv, MapInv, FindInv, ReadInv
  <2>4. ResolveInv(u)'
    BY <1>6, <2>1 DEF CallInv, ResolveInv
  <2>5. FaultInv(u)'
    BY <1>6, <1>10, <1>19, <2>1 DEF CallInv, FaultInv, Faulting
  <2>6. ReservedInv(u)'
    <3>1. call'[u].at # "insert"
      <4>1. Exclusion'
        BY <1>12
      <4>2. MmPageDatabaseLock \in Locks(call'[t]).held
        BY <1>8, <1>9 DEF Locks
      <4>3. call'[u].at = "insert" => MmPageDatabaseLock \in Locks(call'[u]).held
        BY DEF Locks
      <4> QED
        BY <4>1, <4>2, <4>3 DEF Exclusion
    <3> QED
      BY <3>1 DEF ReservedInv
  <2> QED
    BY <2>2, <2>3, <2>4, <2>5, <2>6 DEF CallInv
<1> QED
  BY <1>11, <1>12, <1>15, <1>16, <1>17, <1>18, <1>20, <1>21 DEF Inv, StateInv

\* A view is inserted with the pages that were reserved for it.
LEMMA InsertViewKeeps ==
  ASSUME Inv, NEW t \in Threads, InsertView(t)
  PROVE  Inv'
<1> DEFINE v == call[t].view
           m == call[t].mapping
           h == call[t].page
           n == Len(views[m]) + 1
<1>1. call[t].at = "insert" /\ mapping[m].state = "live"
  BY DEF InsertView, Granted
<1>2. m \in Mappings /\ v \in View /\ h \in Handles /\ (v.write => mapping[m].write) /\ handle[h] = m
  BY <1>1 DEF Inv, CallInv, MapInv
<1>3. /\ PagesOfView(v) \subseteq Pages
      /\ ~v.chosen => \A p \in PagesOfView(v) :
            /\ pte[p].view /\ ~pte[p].valid
            /\ \A k \in Mappings : \A i \in Placed(k) : p \notin PagesOfView(views[k][i])
  BY <1>1 DEF Inv, CallInv, ReservedInv
<1>4. /\ views' = [views EXCEPT ![m] = Append(@, v)]
      /\ pte' = [p \in Pages |-> IF p \in PagesOfView(v) THEN [pte[p] EXCEPT !.handle = h, !.write = v.write]
                                                         ELSE pte[p]]
      /\ wanted' = [p \in Pages |-> IF p \in PagesOfView(v)
                                    THEN [mapping |-> m, page |-> p - v.start, offset |-> v.offset]
                                    ELSE wanted[p]]
      /\ Return(t)
      /\ UNCHANGED <<mapping, handle, file, cached>>
  BY DEF InsertView, MiInitializeViewPages
<1> HIDE DEF v, m, h
<1>5. /\ \A k \in Mappings : views[k] \in Seq(View)
      /\ \A k \in Mappings \ {m} : views'[k] = views[k]
      /\ views'[m] = Append(views[m], v)
      /\ views' \in [Mappings -> Seq(View)]
  <2>1. views \in [Mappings -> Seq(View)]
    BY DEF Inv, TypeInv
  <2>2. Append(views[m], v) \in Seq(View)
    BY <1>2, <2>1
  <2>3. views' = [views EXCEPT ![m] = Append(views[m], v)]
    BY <1>4
  <2> QED
    BY <1>2, <2>1, <2>2, <2>3
<1>6. /\ n \in Nat \ {0} /\ n \notin 1 .. Len(views[m]) /\ 1 .. Len(views'[m]) = 1 .. Len(views[m]) \cup {n}
      /\ views'[m][n] = v /\ \A i \in 1 .. Len(views[m]) : views'[m][i] = views[m][i]
  BY <1>2, <1>5
<1> HIDE DEF n
<1>7. \A k \in Mappings : \A i \in 1 .. Len(views'[k]) :
         \/ i \in 1 .. Len(views[k]) /\ views'[k][i] = views[k][i]
         \/ k = m /\ i = n /\ views'[k][i] = v
  BY <1>5, <1>6
<1>8. \A k \in Mappings : \A i \in 1 .. Len(views[k]) : i \in 1 .. Len(views'[k]) /\ views'[k][i] = views[k][i]
  BY <1>5, <1>6
<1>9. \A k \in Mappings : \A i \in Placed(k)' :
         \/ i \in Placed(k) /\ views'[k][i] = views[k][i]
         \/ k = m /\ i = n /\ views'[k][i] = v /\ ~v.chosen
  BY <1>7 DEF Placed, Chosen
<1>10. \A p \in Pages : ~Contested(p)' => ~Contested(p) /\ (p \in PagesOfView(v) => ~v.chosen)
  <2>1. \A p \in Pages : Contested(p) => Contested(p)'
    BY <1>8 DEF Contested, Chosen
  <2>2. n \in 1 .. Len(views'[m]) /\ views'[m][n] = v
    BY <1>6
  <2>3. \A k \in Mappings : k = m /\ v.chosen => n \in Chosen(k)'
    BY <2>2 DEF Chosen
  <2>4. ASSUME NEW p \in Pages, p \in PagesOfView(v), v.chosen
        PROVE  Contested(p)'
    <3>1. Covers(v, p)
      BY <1>2, <2>4, CoversPage DEF Pages
    <3>2. Covers(views'[m][n], p)
      BY <2>2, <3>1
    <3> QED
      BY <1>2, <2>3, <2>4, <3>2 DEF Contested
  <2> QED
    BY <2>1, <2>4
<1>11. /\ \A p \in PagesOfView(v) :
             /\ pte'[p].view = pte[p].view /\ pte'[p].valid = pte[p].valid /\ pte'[p].frame = pte[p].frame
             /\ pte'[p].handle = h
             /\ wanted'[p] = [mapping |-> m, page |-> p - v.start, offset |-> v.offset]
             /\ wanted'[p].mapping = m
       /\ \A p \in Pages : p \notin PagesOfView(v) => pte'[p] = pte[p] /\ wanted'[p] = wanted[p]
  <2>1. pte \in [Pages -> PteType]
    BY DEF Inv, TypeInv
  <2>2. \A p \in PagesOfView(v) : wanted'[p] = [mapping |-> m, page |-> p - v.start, offset |-> v.offset]
    BY <1>3, <1>4
  <2>3. \A p \in PagesOfView(v) : wanted'[p].mapping = m
    <3> TAKE p \in PagesOfView(v)
    <3> DEFINE w == [mapping |-> m, page |-> p - v.start, offset |-> v.offset]
    <3>1. w.mapping = m
      OBVIOUS
    <3>2. wanted'[p] = w
      BY <2>2
    <3> QED
      BY <3>1, <3>2
  <2> QED
    BY <1>3, <1>4, <2>1, <2>2, <2>3 DEF PteType
<1>12. TypeInv'
  <2>1. pte' \in [Pages -> PteType]
    <3>1. pte \in [Pages -> PteType] /\ h \in 0 .. MaxHandle /\ v.write \in BOOLEAN
      BY <1>2 DEF Inv, TypeInv, Handles, View
    <3> QED
      BY <1>4, <3>1 DEF PteType
  <2>2. wanted' \in [Pages -> [mapping : Mappings, page : PagesOfFile, offset : PagesOfFile] \cup {None}]
    <3>1. \A p \in PagesOfView(v) : p - v.start \in PagesOfFile /\ v.offset \in PagesOfFile
      BY <1>2, FileViewsAssumption DEF PagesOfView, View, PagesOfFile, Pages
    <3>2. wanted \in [Pages -> [mapping : Mappings, page : PagesOfFile, offset : PagesOfFile] \cup {None}]
      BY DEF Inv, TypeInv
    <3> QED
      BY <1>2, <1>4, <3>1, <3>2
  <2> QED
    BY <1>4, <1>5, <2>1, <2>2, Returns DEF Inv, TypeInv
<1>13. TablesInv'
  BY <1>4 DEF Inv, StateInv, TablesInv
<1>14. ViewsInv'
  <2> SUFFICES ASSUME NEW k \in Mappings, NEW i \in 1 .. Len(views'[k])
               PROVE  /\ mapping[k].state # "unused"
                      /\ views'[k][i].write => mapping[k].write
                      /\ PagesOfView(views'[k][i]) \subseteq Pages
    BY <1>4 DEF ViewsInv
  <2>1. CASE i \in 1 .. Len(views[k]) /\ views'[k][i] = views[k][i]
    BY <2>1 DEF Inv, StateInv, ViewsInv
  <2>2. CASE k = m /\ views'[k][i] = v
    <3>1. mapping[k].state = "live"
      BY <1>1, <2>2
    <3> QED
      BY <1>2, <1>3, <2>2, <3>1
  <2> QED
    BY <1>7, <2>1, <2>2
<1>15. PlacedInv'
  <2>1. \A k \in Mappings : \A i \in Placed(k) : PagesOfView(views[k][i]) \subseteq Pages
    BY DEF Inv, StateInv, ViewsInv, Placed
  <2>2. \A k \in Mappings : \A i \in Placed(k)' : \A p \in PagesOfView(views'[k][i]) : pte'[p].view
    BY <1>3, <1>9, <1>11, <2>1 DEF Inv, StateInv, PlacedInv
  <2>3. PlacedViewsAreDisjoint'
    <3> SUFFICES ASSUME NEW k \in Mappings, NEW l \in Mappings, NEW i \in Placed(k)', NEW j \in Placed(l)',
                        <<k, i>> # <<l, j>>
                 PROVE  PagesOfView(views'[k][i]) \cap PagesOfView(views'[l][j]) = {}
      BY DEF PlacedViewsAreDisjoint
    <3>1. CASE i \in Placed(k) /\ j \in Placed(l) /\ views'[k][i] = views[k][i] /\ views'[l][j] = views[l][j]
      BY <3>1 DEF Inv, StateInv, PlacedInv, PlacedViewsAreDisjoint
    <3>2. CASE i \in Placed(k) /\ views'[k][i] = views[k][i] /\ views'[l][j] = v /\ ~v.chosen
      BY <1>3, <3>2
    <3>3. CASE j \in Placed(l) /\ views'[l][j] = views[l][j] /\ views'[k][i] = v /\ ~v.chosen
      BY <1>3, <3>3
    <3> QED
      BY <1>9, <3>1, <3>2, <3>3
  <2> QED
    BY <2>2, <2>3 DEF PlacedInv
<1>16. WantedInv'
  <2>1. ASSUME NEW p \in Pages, wanted'[p] # None
        PROVE  \E i \in 1 .. Len(views'[wanted'[p].mapping]) : p \in PagesOfView(views'[wanted'[p].mapping][i])
    <3>1. CASE p \in PagesOfView(v)
      <4>1. wanted'[p].mapping = m
        BY <1>11, <3>1
      <4>2. n \in 1 .. Len(views'[m]) /\ views'[m][n] = v
        BY <1>6
      <4> QED
        BY <3>1, <4>1, <4>2
    <3>2. CASE p \notin PagesOfView(v)
      <4>1. wanted'[p] = wanted[p] /\ wanted[p].mapping \in Mappings
        BY <1>11, <2>1, <3>2 DEF Inv, TypeInv
      <4> QED
        BY <1>8, <2>1, <4>1 DEF Inv, StateInv, WantedInv
    <3> QED
      BY <3>1, <3>2
  <2>2. ASSUME NEW k \in Mappings, NEW i \in Placed(k)', NEW p \in PagesOfView(views'[k][i]), ~Contested(p)'
        PROVE  wanted'[p] = [mapping |-> k, page |-> p - views'[k][i].start, offset |-> views'[k][i].offset]
    <3>1. CASE k = m /\ i = n /\ views'[k][i] = v
      BY <1>11, <3>1
    <3>2. CASE i \in Placed(k) /\ views'[k][i] = views[k][i]
      <4>1. p \in Pages
        BY <3>2 DEF Inv, StateInv, ViewsInv, Placed
      <4>2. ~Contested(p) /\ p \notin PagesOfView(v)
        BY <1>3, <1>10, <2>2, <3>2, <4>1
      <4> QED
        BY <1>11, <3>2, <4>1, <4>2 DEF Inv, StateInv, WantedInv
    <3> QED
      BY <1>9, <3>1, <3>2
  <2> QED
    BY <2>1, <2>2 DEF WantedInv
<1>17. EntriesInv' /\ FramesInv' /\ ShownInv'
  <2>1. EntriesInv'
    <3> SUFFICES ASSUME NEW p \in Pages, wanted'[p] # None, ~pte'[p].valid, ~Contested(p)',
                        mapping[wanted'[p].mapping].state = "live"
                 PROVE  pte'[p].handle \in Handles /\ handle[pte'[p].handle] = wanted'[p].mapping
      BY <1>4 DEF EntriesInv
    <3>1. CASE p \in PagesOfView(v)
      <4>1. wanted'[p].mapping = m /\ pte'[p].handle = h
        BY <1>11, <3>1
      <4> QED
        BY <1>2, <4>1
    <3>2. CASE p \notin PagesOfView(v)
      BY <1>10, <1>11, <3>2 DEF Inv, StateInv, EntriesInv
    <3> QED
      BY <3>1, <3>2
  <2>2. FramesInv'
    BY <1>11 DEF Inv, StateInv, FramesInv
  <2>3. ShownInv'
    <3> SUFFICES ASSUME NEW p \in Pages, pte'[p].valid, wanted'[p] # None, ~Contested(p)'
                 PROVE  LET f == mapping[wanted'[p].mapping].file
                        IN  /\ file[f].cacheMap => pte'[p].frame = cached[f][wanted'[p].page]
                            /\ pte'[p].write => f \in Writable
      BY <1>4 DEF ShownInv
    <3>1. p \notin PagesOfView(v) /\ ~Contested(p)
      BY <1>3, <1>10, <1>11
    <3> QED
      BY <1>11, <3>1 DEF Inv, StateInv, ShownInv
  <2> QED
    BY <2>1, <2>2, <2>3
<1>18. ASSUME NEW u \in Threads \ {t} PROVE CallInv(u)'
  <2>1. call'[u] = call[u] /\ CallInv(u) /\ call[u].at # "insert"
    BY <1>1, <1>4, Returns, LocksExclude DEF Inv
  <2>2. CreateInv(u)'
    <3>1. \A w \in Threads : call'[w].at = "create" => call'[w] = call[w]
      BY <1>4, Returns
    <3> QED
      BY <1>4, <2>1, <3>1 DEF CallInv, CreateInv
  <2>3. CloseInv(u)' /\ MapInv(u)' /\ ReservedInv(u)' /\ ReadInv(u)'
    BY <1>4, <2>1 DEF CallInv, CloseInv, MapInv, ReservedInv, ReadInv
  <2>4. ResolveInv(u)'
    BY <1>4, <2>1 DEF CallInv, ResolveInv
  <2>5. FaultInv(u)'
    <3>1. \A p \in Pages : pte'[p].view <=> pte[p].view
      BY <1>11
    <3>2. FaultInv(u)
      BY <2>1 DEF CallInv
    <3> QED
      BY <1>4, <2>1, <3>1, <3>2 DEF FaultInv, Faulting
  <2>6. FindInv(u)'
    <3>1. FindInv(u) /\ FaultInv(u)
      BY <2>1 DEF CallInv
    <3> SUFFICES ASSUME call[u].at \in {"find", "resolve"}
                 PROVE  /\ call[u].file = mapping[call[u].mapping].file
                        /\ call[u].view \in View /\ call[u].page \in PagesOfView(call[u].view)
                        /\ \E i \in 1 .. Len(views'[call[u].mapping]) : views'[call[u].mapping][i] = call[u].view
      BY <1>4, <2>1 DEF FindInv
    <3>2. call[u].mapping \in Mappings
      BY <3>1 DEF FaultInv, Faulting
    <3>3. PICK i \in 1 .. Len(views[call[u].mapping]) : views[call[u].mapping][i] = call[u].view
      BY <3>1 DEF FindInv
    <3>4. i \in 1 .. Len(views'[call[u].mapping]) /\ views'[call[u].mapping][i] = call[u].view
      BY <1>8, <3>2, <3>3
    <3> QED
      BY <3>1, <3>4 DEF FindInv
  <2> QED
    BY <2>2, <2>3, <2>4, <2>5, <2>6 DEF CallInv
<1> QED
  BY <1>4, <1>12, <1>13, <1>14, <1>15, <1>16, <1>17, <1>18, Returns DEF Inv, StateInv

\* A page that becomes valid has the frame and the protection of its view.
LEMMA MapCachedPageKeeps ==
  ASSUME Inv, NEW t \in Threads, MapCachedPage(t)
  PROVE  Inv'
<1> DEFINE m == call[t].mapping
           p == call[t].page
           v == call[t].view
           f == call[t].file
           k == PageNumber(call[t])
           e == [view |-> TRUE, valid |-> TRUE, write |-> v.write, handle |-> 0, frame |-> cached[f][k]]
<1>1. call[t].at = "resolve" /\ Faulting(t) /\ FreeFor(t, {MmPageDatabaseLock})
  BY DEF MapCachedPage, Granted, Locks, Faulting
<1>2. m \in Mappings /\ mapping[m].state # "unused" /\ p \in Pages /\ pte[p].view
  BY <1>1 DEF Inv, CallInv, FaultInv
<1>3. f = mapping[m].file /\ v \in View /\ p \in PagesOfView(v) /\ \E i \in 1 .. Len(views[m]) : views[m][i] = v
  BY <1>1 DEF Inv, CallInv, FindInv
<1>4. k \in PagesOfFile /\ cached[f][k] # None /\ k = p - v.start
  BY <1>1 DEF Inv, CallInv, ResolveInv, PageNumber
<1>5. f \in Files
  BY <1>2, <1>3 DEF Inv, StateInv, TablesInv
<1>6. cached[f][k] \in Frames
  BY <1>4, <1>5 DEF Inv, TypeInv
<1>7. pte' = [pte EXCEPT ![p] = e] /\ Return(t) /\ UNCHANGED <<mapping, handle, views, file, cached, wanted>>
  BY DEF MapCachedPage
<1>8. e \in PteType /\ e.view /\ e.valid /\ e.write = v.write /\ e.frame = cached[f][k]
  <2>1. v.write \in BOOLEAN /\ 0 \in 0 .. MaxHandle
    BY <1>3, FileViewsAssumption DEF View
  <2> QED
    BY <1>6, <2>1 DEF PteType
<1> HIDE DEF m, p, v, f, k, e
<1>9. /\ pte' \in [Pages -> PteType] /\ pte'[p] = e
      /\ \A q \in Pages : q # p => pte'[q] = pte[q]
      /\ \A q \in Pages : pte[q].view => pte'[q].view
  BY <1>2, <1>7, <1>8 DEF Inv, TypeInv
<1>10. TypeInv'
  BY <1>7, <1>9, Returns DEF Inv, TypeInv
<1>11. TablesInv' /\ ViewsInv'
  BY <1>7 DEF Inv, StateInv, TablesInv, ViewsInv
<1>12. PlacedInv'
  <2>1. \A n \in Mappings : \A i \in Placed(n) : PagesOfView(views[n][i]) \subseteq Pages
    BY DEF Inv, StateInv, ViewsInv, Placed
  <2> QED
    BY <1>7, <1>9, <2>1 DEF Inv, StateInv, PlacedInv, PlacedViewsAreDisjoint, Placed, Chosen
<1>13. WantedInv'
  BY <1>7, WantedKept DEF Inv, StateInv
<1>14. \A q \in Pages : Contested(q)' <=> Contested(q)
  BY <1>7 DEF Contested, Chosen
<1>15. EntriesInv'
  BY <1>7, <1>8, <1>9, <1>14 DEF Inv, StateInv, EntriesInv
<1>16. FramesInv'
  BY <1>6, <1>8, <1>9 DEF Inv, StateInv, FramesInv
\* The page shows what its placed view says.
<1>17. ShownInv'
  <2> SUFFICES ASSUME NEW q \in Pages, pte'[q].valid, wanted[q] # None, ~Contested(q)
               PROVE  LET g == mapping[wanted[q].mapping].file
                      IN  /\ file[g].cacheMap => pte'[q].frame = cached[g][wanted[q].page]
                          /\ pte'[q].write => g \in Writable
    BY <1>7, <1>14 DEF ShownInv
  <2>1. CASE q # p
    BY <1>9, <2>1 DEF Inv, StateInv, ShownInv
  <2>2. CASE q = p
    <3>1. PICK i \in 1 .. Len(views[m]) : views[m][i] = v
      BY <1>3
    <3>2. p \in Nat
      BY <1>2 DEF Pages
    <3>3. i \in Placed(m)
      <4>1. Covers(views[m][i], p)
        BY <1>3, <3>1, <3>2, CoversPage
      <4> QED
        BY <1>2, <2>2, <3>1, <4>1 DEF Contested, Placed, Chosen
    <3>4. wanted[p] = [mapping |-> m, page |-> p - v.start, offset |-> v.offset]
      BY <1>2, <1>3, <2>2, <3>1, <3>3 DEF Inv, StateInv, WantedInv
    <3>5. wanted[p].mapping = m /\ wanted[p].page = k
      BY <1>4, <3>4
    <3>6. v.write => f \in Writable
      BY <1>2, <1>3, <3>1 DEF Inv, StateInv, ViewsInv, TablesInv
    <3> QED
      BY <1>3, <1>8, <1>9, <2>2, <3>5, <3>6
  <2> QED
    BY <2>1, <2>2
<1>18. ASSUME NEW u \in Threads \ {t} PROVE CallInv(u)'
  <2>1. call'[u] = call[u] /\ CallInv(u)
    BY <1>7, Returns DEF Inv
  <2>2. CreateInv(u)'
    <3>1. \A w \in Threads : call'[w].at = "create" => call'[w] = call[w]
      BY <1>7, Returns
    <3> QED
      BY <1>7, <2>1, <3>1 DEF CallInv, CreateInv
  <2>3. CloseInv(u)' /\ MapInv(u)' /\ FindInv(u)' /\ ReadInv(u)'
    BY <1>7, <2>1 DEF CallInv, CloseInv, MapInv, FindInv, ReadInv
  <2>4. ResolveInv(u)'
    BY <1>7, <2>1 DEF CallInv, ResolveInv
  <2>5. FaultInv(u)'
    BY <1>7, <1>9, <2>1 DEF CallInv, FaultInv, Faulting
  <2>6. ReservedInv(u)'
    <3>1. call[u].at # "insert"
      BY <1>1 DEF FreeFor, Locks
    <3> QED
      BY <2>1, <3>1 DEF ReservedInv
  <2> QED
    BY <2>2, <2>3, <2>4, <2>5, <2>6 DEF CallInv
<1> QED
  BY <1>7, <1>10, <1>11, <1>12, <1>13, <1>15, <1>16, <1>17, <1>18, Returns DEF Inv, StateInv

\* A page that comes into the cache was shown by no view.
LEMMA CcpCacheFilePageKeeps ==
  ASSUME Inv, NEW t \in Threads, CcpCacheFilePage(t)
  PROVE  Inv'
<1> DEFINE f == call[t].file
           i == call[t].page
           frame == CHOOSE x \in FreeFrames : TRUE
<1>1. Return(t) /\ UNCHANGED <<mapping, handle, views, pte, file, wanted>>
  BY DEF CcpCacheFilePage
<1>2. call[t].at = "read" /\ f \in Files /\ i \in PagesOfFile /\ cached[f][i] = None
  BY DEF CcpCacheFilePage, Granted, Inv, CallInv, ReadInv
<1>3. CASE UNCHANGED cached
  BY <1>1, <1>3, OnlyReturn
<1>4. CASE FreeFrames # {} /\ cached' = [cached EXCEPT ![f][i] = frame]
  <2>1. frame \in FreeFrames /\ frame \in Frames
    BY <1>4 DEF FreeFrames
  <2> HIDE DEF f, i, frame
  <2>2. /\ cached' \in [Files -> [PagesOfFile -> Frames \cup {None}]]
        /\ \A g \in Files, j \in PagesOfFile : cached[g][j] # None => cached'[g][j] = cached[g][j]
        /\ \A g \in Files, j \in PagesOfFile : g # f => cached'[g][j] = cached[g][j]
    <3>1. cached \in [Files -> [PagesOfFile -> Frames \cup {None}]]
      BY DEF Inv, TypeInv
    <3> QED
      BY <1>2, <1>4, <2>1, <3>1
  <2>3. TypeInv'
    BY <1>1, <2>2, Returns DEF Inv, TypeInv
  <2>4. TablesInv' /\ ViewsInv' /\ FramesInv'
    BY <1>1 DEF Inv, StateInv, TablesInv, ViewsInv, FramesInv
  <2>5. PlacedInv'
    BY <1>1 DEF Inv, StateInv, PlacedInv, PlacedViewsAreDisjoint, Placed, Chosen
  <2>6. WantedInv' /\ EntriesInv'
    <3>1. WantedInv'
      BY <1>1, WantedKept DEF Inv, StateInv
    <3>2. EntriesInv'
      BY <1>1 DEF Inv, StateInv, EntriesInv, Contested, Chosen
    <3> QED
      BY <3>1, <3>2
  \* The page that is cached now is not the one a valid entry shows: that one was cached.
  <2>7. ShownInv'
    <3> SUFFICES ASSUME NEW q \in Pages, pte[q].valid, wanted[q] # None, ~Contested(q)
                 PROVE  LET g == mapping[wanted[q].mapping].file
                        IN  /\ file[g].cacheMap => pte[q].frame = cached'[g][wanted[q].page]
                            /\ pte[q].write => g \in Writable
      BY <1>1 DEF ShownInv, Contested, Chosen
    <3>1. wanted[q].mapping \in Mappings /\ wanted[q].page \in PagesOfFile
      BY DEF Inv, TypeInv
    <3>2. \E j \in 1 .. Len(views[wanted[q].mapping]) : TRUE
      BY DEF Inv, StateInv, WantedInv
    <3>3. mapping[wanted[q].mapping].file \in Files
      BY <3>1, <3>2 DEF Inv, StateInv, ViewsInv, TablesInv
    <3>4. pte[q].frame # None
      BY FileViewsAssumption DEF Inv, StateInv, FramesInv
    <3> QED
      BY <2>2, <3>1, <3>3, <3>4 DEF Inv, StateInv, ShownInv
  <2>8. ASSUME NEW u \in Threads \ {t} PROVE CallInv(u)'
    <3>1. call'[u] = call[u] /\ CallInv(u)
      BY <1>1, Returns DEF Inv
    <3>2. CreateInv(u)'
      <4>1. \A w \in Threads : call'[w].at = "create" => call'[w] = call[w]
        BY <1>1, Returns
      <4> QED
        BY <1>1, <3>1, <4>1 DEF CallInv, CreateInv
    <3>3. CloseInv(u)' /\ MapInv(u)' /\ FaultInv(u)' /\ FindInv(u)'
      BY <1>1, <3>1 DEF CallInv, CloseInv, MapInv, FaultInv, FindInv, Faulting
    <3>4. ReservedInv(u)'
      BY <1>1, <3>1, Returns DEF CallInv, ReservedInv, Placed, Chosen
    <3>5. call[u].at \in {"read", "purge", "resolve"} => call[u].file # f
      BY <1>2, LocksExclude DEF Inv, f
    <3>6. ReadInv(u)'
      BY <2>2, <3>1, <3>5 DEF CallInv, ReadInv
    <3>7. ResolveInv(u)'
      <4> SUFFICES ASSUME call[u].at = "resolve"
                   PROVE  PageNumber(call[u]) \in PagesOfFile /\ cached'[call[u].file][PageNumber(call[u])] # None
        BY <3>1 DEF ResolveInv
      <4>1. PageNumber(call[u]) \in PagesOfFile /\ cached[call[u].file][PageNumber(call[u])] # None
        BY <3>1 DEF CallInv, ResolveInv
      <4>2. call[u].file \in Files
        BY <3>1 DEF Inv, CallInv, FindInv, FaultInv, Faulting, StateInv, TablesInv
      <4> QED
        BY <2>2, <4>1, <4>2
    <3> QED
      BY <3>2, <3>3, <3>4, <3>6, <3>7 DEF CallInv
  <2> QED
    BY <1>1, <2>3, <2>4, <2>5, <2>6, <2>7, <2>8, Returns DEF Inv, StateInv
<1> QED
  BY <1>3, <1>4 DEF CcpCacheFilePage

\* A cache that goes leaves its views without a promise; nobody is about to use it.
LEMMA CcFreeCacheMapKeeps ==
  ASSUME Inv, NEW t \in Threads, CcFreeCacheMap(t)
  PROVE  Inv'
<1> DEFINE f == call[t].file
<1>1. call[t].at = "purge" /\ f \in Files
  BY DEF CcFreeCacheMap, Granted, Inv, CallInv, ReadInv
<1>2. /\ Return(t) /\ UNCHANGED <<mapping, handle, views, pte, wanted>>
      /\ cached' = [cached EXCEPT ![f] = [i \in PagesOfFile |-> None]]
      /\ file' = [[file EXCEPT ![f].references = @ - 1] EXCEPT ![f].cacheMap = FALSE]
  BY DEF CcFreeCacheMap, Dereference
<1> HIDE DEF f
<1>3. /\ file' \in [Files -> [open : BOOLEAN, cacheMap : BOOLEAN, references : Int]]
      /\ ~file'[f].cacheMap /\ \A g \in Files : g # f => file'[g] = file[g]
  <2>1. file \in [Files -> [open : BOOLEAN, cacheMap : BOOLEAN, references : Int]]
    BY DEF Inv, TypeInv
  <2> DEFINE less == [file EXCEPT ![f].references = @ - 1]
  <2>2. less \in [Files -> [open : BOOLEAN, cacheMap : BOOLEAN, references : Int]]
    BY <1>1, <2>1
  <2>3. \A g \in Files : g # f => less[g] = file[g]
    BY <1>1, <2>1
  <2>4. file' = [less EXCEPT ![f].cacheMap = FALSE]
    BY <1>2
  <2> HIDE DEF less
  <2> QED
    BY <1>1, <2>2, <2>3, <2>4
<1>4. /\ cached' \in [Files -> [PagesOfFile -> Frames \cup {None}]]
      /\ \A g \in Files : g # f => cached'[g] = cached[g]
  BY <1>1, <1>2 DEF Inv, TypeInv
<1>5. TypeInv'
  BY <1>2, <1>3, <1>4, Returns DEF Inv, TypeInv
<1>6. TablesInv' /\ ViewsInv' /\ FramesInv'
  BY <1>2 DEF Inv, StateInv, TablesInv, ViewsInv, FramesInv
<1>7. PlacedInv'
  BY <1>2 DEF Inv, StateInv, PlacedInv, PlacedViewsAreDisjoint, Placed, Chosen
<1>8. WantedInv' /\ EntriesInv'
  BY <1>2 DEF Inv, StateInv, WantedInv, EntriesInv, Contested, Placed, Chosen
<1>9. ShownInv'
  <2> SUFFICES ASSUME NEW q \in Pages, pte[q].valid, wanted[q] # None, ~Contested(q)
               PROVE  LET g == mapping[wanted[q].mapping].file
                      IN  /\ file'[g].cacheMap => pte[q].frame = cached'[g][wanted[q].page]
                          /\ pte[q].write => g \in Writable
    BY <1>2 DEF ShownInv, Contested, Chosen
  <2>1. wanted[q].mapping \in Mappings
    BY DEF Inv, TypeInv
  <2>2. \E j \in 1 .. Len(views[wanted[q].mapping]) : TRUE
    BY DEF Inv, StateInv, WantedInv
  <2>3. mapping[wanted[q].mapping].file \in Files
    BY <2>1, <2>2 DEF Inv, StateInv, ViewsInv, TablesInv
  <2> QED
    BY <1>3, <1>4, <2>3 DEF Inv, StateInv, ShownInv
<1>10. ASSUME NEW u \in Threads \ {t} PROVE CallInv(u)'
  <2>1. call'[u] = call[u] /\ CallInv(u)
    BY <1>2, Returns DEF Inv
  <2>2. CreateInv(u)'
    <3>1. \A w \in Threads : call'[w].at = "create" => call'[w] = call[w]
      BY <1>2, Returns
    <3> QED
      BY <1>2, <2>1, <3>1 DEF CallInv, CreateInv
  <2>3. CloseInv(u)' /\ MapInv(u)' /\ FaultInv(u)' /\ FindInv(u)'
    BY <1>2, <2>1 DEF CallInv, CloseInv, MapInv, FaultInv, FindInv, Faulting
  <2>4. ReservedInv(u)'
    BY <1>2, <2>1, Returns DEF CallInv, ReservedInv, Placed, Chosen
  \* Nobody is about to use a page of this cache.
  <2>5. call[u].at \in {"read", "purge", "resolve"} => call[u].file # f
    BY <1>1, LocksExclude DEF Inv, f
  <2>6. ReadInv(u)'
    BY <1>4, <2>1, <2>5 DEF CallInv, ReadInv
  <2>7. ResolveInv(u)'
    <3> SUFFICES ASSUME call[u].at = "resolve"
                 PROVE  PageNumber(call[u]) \in PagesOfFile /\ cached'[call[u].file][PageNumber(call[u])] # None
      BY <2>1 DEF ResolveInv
    <3>1. PageNumber(call[u]) \in PagesOfFile /\ cached[call[u].file][PageNumber(call[u])] # None
      BY <2>1 DEF CallInv, ResolveInv
    <3>2. call[u].file \in Files
      BY <2>1 DEF Inv, CallInv, FindInv, FaultInv, Faulting, StateInv, TablesInv
    <3> QED
      BY <1>4, <2>5, <3>1, <3>2
  <2> QED
    BY <2>2, <2>3, <2>4, <2>6, <2>7 DEF CallInv
<1> QED
  BY <1>2, <1>5, <1>6, <1>7, <1>8, <1>9, <1>10, Returns DEF Inv, StateInv

-----------------------------------------------------------------------------
(* The invariant.                                                            *)

\* Nothing is mapped at first.
LEMMA InitInv == Init => Inv
<1> SUFFICES ASSUME Init PROVE Inv
  OBVIOUS
<1>1. \A t \in Threads : call[t] = Idle
  BY DEF Init
<1>2. \A m \in Mappings : views[m] = <<>> /\ mapping[m].state = "unused" /\ ~mapping[m].write
  BY DEF Init
<1>3. \A p \in Pages : ~pte[p].valid /\ wanted[p] = None
  BY DEF Init, ZeroPte
<1>4. \A h \in Handles : handle[h] = None
  BY DEF Init
<1>5. TypeInv
  <2>1. ZeroPte \in PteType
    BY FileViewsAssumption DEF ZeroPte, PteType
  <2>2. <<>> \in Seq(View)
    OBVIOUS
  <2> QED
    BY <2>1, <2>2, IdleType DEF Init, TypeInv
<1>6. Exclusion
  BY <1>1, IdleType DEF Exclusion
<1>7. \A m \in Mappings : 1 .. Len(views[m]) = {}
  BY <1>2
<1>8. TablesInv /\ ViewsInv /\ PlacedInv /\ WantedInv /\ EntriesInv /\ FramesInv /\ ShownInv
  BY <1>2, <1>3, <1>4, <1>7 DEF TablesInv, ViewsInv, PlacedInv, PlacedViewsAreDisjoint, WantedInv,
     EntriesInv, FramesInv, ShownInv, Placed
<1>9. ASSUME NEW t \in Threads PROVE CallInv(t)
  BY <1>1 DEF CallInv, CreateInv, CloseInv, MapInv, ReservedInv, FaultInv, FindInv, ResolveInv, ReadInv,
     Faulting, Idle
<1> QED
  BY <1>5, <1>6, <1>8, <1>9 DEF Inv, StateInv

\* Every step keeps the invariant.
LEMMA NextKeeps == Inv /\ [Next]_vars => Inv'
<1> SUFFICES ASSUME Inv, [Next]_vars PROVE Inv'
  OBVIOUS
<1>1. ASSUME NEW f \in Files, NEW write \in BOOLEAN, MmCreateFileMapping(f, write) PROVE Inv'
  BY <1>1, MmCreateFileMappingKeeps
<1>2. ASSUME NEW t \in Threads, Step(t) PROVE Inv'
  <2>1. CASE ObpCreateHandle(t)
    BY <2>1, ObpCreateHandleKeeps
  <2>2. CASE MiDeleteMappingViews(t)
    BY <2>2, MiDeleteMappingViewsKeeps
  <2>3. CASE MiDeleteMapping(t)
    BY <2>3, MiDeleteMappingKeeps
  <2>4. CASE Reserve(t)
    BY <2>4, ReserveKeeps
  <2>5. CASE CheckChosen(t)
    BY <2>5, CheckChosenKeeps
  <2>6. CASE NoRange(t)
    BY <2>6, OnlyReturn DEF NoRange
  <2>7. CASE InsertView(t)
    BY <2>7, InsertViewKeeps
  <2>8. CASE InsertIntoFreed(t)
    BY <2>8, Stopped DEF InsertIntoFreed, Stop
  <2>9. CASE NoMemoryForView(t)
    BY <2>9, OnlyReturn DEF NoMemoryForView
  <2>10. CASE FindView(t)
    BY <2>10, FindViewKeeps
  <2>11. CASE FindCachedPage(t)
    BY <2>11, FindCachedPageKeeps
  <2>12. CASE MapCachedPage(t)
    BY <2>12, MapCachedPageKeeps
  <2>13. CASE CcpCacheFilePage(t)
    BY <2>13, CcpCacheFilePageKeeps
  <2>14. CASE CcFreeCacheMap(t)
    BY <2>14, CcFreeCacheMapKeeps
  <2> QED
    BY <1>2, <2>1, <2>2, <2>3, <2>4, <2>5, <2>6, <2>7, <2>8, <2>9, <2>10, <2>11, <2>12, <2>13, <2>14 DEF Step
<1>3. ASSUME NEW t \in Threads, NEW h \in Handles, ObClose(t, h) PROVE Inv'
  BY <1>3, ObCloseKeeps
<1>4. ASSUME NEW t \in Threads, NEW h \in Handles, NEW view \in View, MmMapViewOfFile(t, h, view) PROVE Inv'
  BY <1>4, MmMapViewOfFileKeeps
<1>5. ASSUME NEW t \in Threads, NEW p \in Pages, MmAccessFault(t, p) PROVE Inv'
  BY <1>5, MmAccessFaultKeeps
<1>6. ASSUME NEW t \in Threads, NEW p \in Pages, WriteFault(t, p) PROVE Inv'
  BY <1>6, Stopped DEF WriteFault, Stop
<1>7. ASSUME NEW t \in Threads, NEW f \in Files, IoCloseFile(t, f) PROVE Inv'
  BY <1>7, IoCloseFileKeeps
<1>8. ASSUME NEW t \in Threads, NEW f \in Files, NEW i \in PagesOfFile, CcCacheReadFile(t, f, i) PROVE Inv'
  BY <1>8, CcCacheReadFileKeeps
<1>9. CASE UNCHANGED vars
  BY <1>9, Stopped DEF vars
<1> QED
  BY <1>1, <1>2, <1>3, <1>4, <1>5, <1>6, <1>7, <1>8, <1>9 DEF Next

-----------------------------------------------------------------------------
(* Theorems.                                                                 *)

\* In every state, handles, mappings, views, page table entries and the cache agree, and what a
\* thread found out in one section of a routine still holds in the next (mm.cpp:355-421,
\* 2965-3196).
THEOREM Invariant == Spec => []Inv
BY InitInv, NextKeeps, PTL DEF Spec

\* A page of a view shows a page of its file, as long as the file is open, and the page it was
\* mapped for if the view starts with the file; and it can be written only through a file that
\* can (mm.cpp:380-421).  Of a view with an offset, ShownInv says which page that is instead.
THEOREM ShowsTheirFile == Spec => []ViewsShowTheirFile
<1>1. Inv => ViewsShowTheirFile
  <2> SUFFICES ASSUME Inv, NEW p \in Pages, pte[p].valid, wanted[p] # None, ~Contested(p)
               PROVE  LET f == mapping[wanted[p].mapping].file
                      IN  /\ file[f].cacheMap =>
                                \E i \in PagesOfFile : /\ pte[p].frame = cached[f][i]
                                                       /\ wanted[p].offset = 0 => i = WantedPage(p)
                          /\ pte[p].write => f \in Writable
    BY DEF ViewsShowTheirFile
  <2> DEFINE i == wanted[p].page
  <2>1. i \in PagesOfFile /\ i \in Nat
    BY DEF Inv, TypeInv, PagesOfFile
  <2>2. wanted[p].offset = 0 => i = WantedPage(p)
    BY <2>1 DEF WantedPage
  <2> QED
    BY <2>1, <2>2 DEF Inv, StateInv, ShownInv
<1> QED
  BY <1>1, Invariant, PTL

\* Views that the memory manager places never overlap (mm.cpp:3008-3060).
THEOREM PlacedAreDisjoint == Spec => []PlacedViewsAreDisjoint
<1>1. Inv => PlacedViewsAreDisjoint
  BY DEF Inv, StateInv, PlacedInv
<1> QED
  BY <1>1, Invariant, PTL

\* A fault on a page of a view finds its mapping and its view, as long as the mapping is open
\* (mm.cpp:355-378).
THEOREM FaultsFind == Spec => []FaultsFindTheirView
<1>1. Inv => FaultsFindTheirView
  <2> SUFFICES ASSUME Inv, NEW p \in Pages, wanted[p] # None, ~pte[p].valid, ~Contested(p),
                      mapping[wanted[p].mapping].state = "live"
               PROVE  /\ pte[p].view /\ pte[p].handle \in Handles
                      /\ handle[pte[p].handle] = wanted[p].mapping
                      /\ ViewOf(wanted[p].mapping, p) # None
    BY DEF FaultsFindTheirView
  <2> DEFINE m == wanted[p].mapping
  <2>1. m \in Mappings /\ p \in Nat /\ views[m] \in Seq(View)
    <3>1. m \in Mappings
      BY DEF Inv, TypeInv
    <3>2. p \in Nat
      BY DEF Pages
    <3> QED
      BY <3>1, <3>2 DEF Inv, TypeInv
  <2>2. PICK i \in 1 .. Len(views[m]) : p \in PagesOfView(views[m][i])
    BY DEF Inv, StateInv, WantedInv
  <2>3. i \in Placed(m)
    <3>1. views[m][i] \in View
      BY <2>1
    <3>2. Covers(views[m][i], p)
      BY <2>1, <2>2, <3>1, CoversPage
    <3> QED
      BY <2>1, <3>2 DEF Contested, Placed, Chosen
  <2>4. pte[p].view
    BY <2>1, <2>2, <2>3 DEF Inv, StateInv, PlacedInv
  <2>5. pte[p].handle \in Handles /\ handle[pte[p].handle] = m
    BY DEF Inv, StateInv, EntriesInv
  <2> HIDE DEF m
  <2>6. ViewOf(m, p) # None
    BY <2>1, <2>2, ViewOfFinds
  <2> QED
    BY <2>4, <2>5, <2>6 DEF m
<1> QED
  BY <1>1, Invariant, PTL

\* The mutexes are different ones.
LEMMA LocksDiffer ==
  /\ TableLock # MmPageDatabaseLock
  /\ \A m : ViewListLock(m) # TableLock /\ ViewListLock(m) # MmPageDatabaseLock
  /\ \A f : CacheMapLock(f) # TableLock /\ CacheMapLock(f) # MmPageDatabaseLock
  /\ \A m, f : ViewListLock(m) # CacheMapLock(f)
  /\ \A m, n : ViewListLock(m) = ViewListLock(n) => m = n
<1>1. TableLock[1] = "table" /\ MmPageDatabaseLock[1] = "page database"
  BY DEF TableLock, MmPageDatabaseLock
<1>2. \A m : ViewListLock(m)[1] = "views" /\ ViewListLock(m)[2] = m
  BY DEF ViewListLock
<1>3. \A f : CacheMapLock(f)[1] = "cache"
  BY DEF CacheMapLock
<1>4. TableLock # MmPageDatabaseLock
  BY <1>1
<1>5. \A m : ViewListLock(m) # TableLock /\ ViewListLock(m) # MmPageDatabaseLock
  BY <1>1, <1>2
<1>6. \A f : CacheMapLock(f) # TableLock /\ CacheMapLock(f) # MmPageDatabaseLock
  BY <1>1, <1>3
<1>7. \A m, f : ViewListLock(m) # CacheMapLock(f)
  BY <1>2, <1>3
<1>8. \A m, n : ViewListLock(m) = ViewListLock(n) => m = n
  BY <1>2
<1> QED
  BY <1>4, <1>5, <1>6, <1>7, <1>8

\* Who waits for whom.
LEMMA Waiting ==
  ASSUME NEW t, NEW u, WaitsFor(t, u)
  PROVE  \/ call[t].at = "create" /\ call[u].at \in {"delete", "unlist"}
         \/ call[t].at \in {"map", "resolve", "read", "purge"} /\ call[u].at = "insert"
         \/ /\ call[t].at \in {"insert", "fault", "delete"} /\ call[u].at \in {"find", "resolve"}
            /\ call[t].mapping = call[u].mapping
         \/ call[t].at = "find" /\ call[u].at \in {"resolve", "read", "purge"}
<1> DEFINE c == call[t]
           d == call[u]
<1>1. PICK l \in Locks(c).wants : l \in Locks(d).held
  BY DEF WaitsFor
<1> HIDE DEF c, d
<1>2. \/ c.at = "create" /\ l = TableLock
      \/ c.at \in {"map", "resolve", "read", "purge"} /\ l = MmPageDatabaseLock
      \/ c.at \in {"insert", "fault", "delete"} /\ l = ViewListLock(c.mapping)
      \/ c.at = "find" /\ l = CacheMapLock(c.file)
  BY <1>1 DEF Locks, CacheLocks
<1>3. \/ d.at \in {"delete", "unlist"} /\ l = TableLock
      \/ d.at = "insert" /\ l = MmPageDatabaseLock
      \/ d.at \in {"find", "resolve"} /\ l = ViewListLock(d.mapping)
      \/ d.at \in {"resolve", "read", "purge"} /\ l = CacheMapLock(d.file)
  BY <1>1 DEF Locks, CacheLocks
<1> QED
  BY <1>2, <1>3, LocksDiffer DEF c, d

\* Threads wait in a circle only if one makes a view of a mapping and one resolves a fault
\* in it (mm.cpp:3119-3162, 372-403).
THEOREM OnlyMapping == Spec => []OnlyMappingDeadlocks
<1>1. OnlyMappingDeadlocks
  <2> SUFFICES ASSUME NEW S \in (SUBSET Threads) \ {{}}, \A t \in S : \E u \in S : WaitsFor(t, u),
                      ~ \E t, u \in S : /\ call[t].at = "insert" /\ call[u].at \in {"find", "resolve"}
                                        /\ call[t].mapping = call[u].mapping
               PROVE  FALSE
    BY DEF OnlyMappingDeadlocks
  <2>1. \A t \in S : call[t].at # "insert"
    BY Waiting
  <2>2. \A t \in S : call[t].at \notin {"map", "resolve", "read", "purge"}
    BY <2>1, Waiting
  <2>3. \A t \in S : call[t].at # "find"
    BY <2>2, Waiting
  <2>4. \A t \in S : call[t].at \notin {"insert", "fault", "delete"}
    BY <2>2, <2>3, Waiting
  <2>5. \A t \in S : call[t].at # "unlist"
    BY Waiting
  <2>6. \A t \in S : call[t].at # "create"
    BY <2>4, <2>5, Waiting
  <2>7. PICK t \in S : TRUE
    OBVIOUS
  <2>8. PICK u \in S : WaitsFor(t, u)
    OBVIOUS
  <2> QED
    BY <2>2, <2>3, <2>4, <2>6, <2>8, Waiting
<1> QED
  BY <1>1, PTL
=============================================================================
