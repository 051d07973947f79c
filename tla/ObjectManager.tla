----------------------------- MODULE ObjectManager -----------------------------
(***************************************************************************)
(* The object manager of the GR8OS kernel: kernel/ob.cpp.  Objects with a  *)
(* reference count and a handle count, named in directories, found through *)
(* symbolic links, opened through one process' handle table.               *)
(*                                                                         *)
(* A thread is preempted between any two accesses to a shared object, so   *)
(* each routine is a chain of steps; the steps a thread still has to take  *)
(* are its stack of frames, a nested call last and after its caller.       *)
(* Directory and table locks are taken to exclude: a section under         *)
(* DirectoryLock is one step, and tableLock names the thread that ObClose  *)
(* keeps it for.                                                           *)
(***************************************************************************)
EXTENDS Integers, Sequences, FiniteSets, SequencesExt

CONSTANTS
    Threads,
    Objects,       \* addresses of object headers; one is never used twice
    Root,          \* ObRootObjectDirectory
    NoObject,      \* NULL
    NoThread,
    Names,
    NoName,
    Handles,       \* the entries of the handle table: OB_INITIAL_HANDLES
    NoHandle,
    Paths,         \* the paths callers ask for: sequences of names
    MaxPath,       \* bound on the length of a reparsed path
    MaxOwned       \* bound on the references a thread keeps on one object

Directories == Objects \cup {Root}

ASSUME ObjectManagerAssumption ==
    /\ Root \notin Objects
    /\ NoObject \notin Directories
    /\ NoThread \notin Threads
    /\ NoName \notin Names
    /\ NoHandle \notin Handles
    /\ Paths \subseteq Seq(Names) \ {<< >>}
    /\ MaxPath \in Nat
    /\ MaxOwned \in Nat

VARIABLES
    status,      \* "None", then "Live" between ExAllocateHeap and ExFreeHeap
    type,        \* OBJECT_HEADER.ObjectType
    name,        \* OBJECT_HEADER.ObjectName
    parent,      \* OBJECT_HEADER.ParentDirectory
    refs,        \* OBJECT_HEADER.ReferenceCount
    handles,     \* OBJECT_HEADER.HandleCount
    linkTarget,  \* OBJECT_SYMBOLIC_LINK.TargetObject
    linkPath,    \* OBJECT_SYMBOLIC_LINK.Target
    list,        \* OBJECT_DIRECTORY.ObjectList: objects in order
    ready,       \* directories whose list and lock are initialised
    table,       \* OBJECT_HANDLE.Object of every entry
    tableLock,   \* the thread that holds TableLock from one step to the next
    stack,       \* the steps a thread still has to take
    creator,     \* who may give up the reference of ObCreateObject
    owned,       \* references a thread got from a lookup and keeps
    opened,      \* handles that an open returned and nobody has closed yet
    revived,     \* history: objects referenced when their count was zero
    damaged      \* history: freed or uninitialised memory was used

headerVars == <<status, type, name, parent, linkTarget, linkPath>>
countVars  == <<refs, handles>>
spaceVars  == <<list, ready>>
tableVars  == <<table, tableLock>>
userVars   == <<creator, owned, opened>>
historyVars == <<revived, damaged>>
vars == <<headerVars, countVars, spaceVars, tableVars, stack, userVars, historyVars>>

Types == {"Directory", "SymbolicLink", "Other"}
Steps == {"Find", "Parse", "Take", "MakeLink", "FinishLink", "InsertDirectory",
          "InitDirectory", "CreateHandle", "CountHandle", "Decide", "Drop",
          "DropAndDelete", "Decrement", "Test", "Delete", "Unlink", "DeleteRoutine",
          "Free", "UncountHandle", "ClearEntry"}
Uses  == {"None", "Reference", "Open", "DeleteByName", "Link", "LinkDirectory"}

\* A step and its local variables: obj is the object it works on, use the caller
\* of a lookup, dir the directory, path what is left of the path, arg the path
\* asked for, target what a new symbolic link points to.
Frames == [at : Steps, obj : Objects \cup {NoObject}, use : Uses,
           dir : Directories \cup {NoObject}, path : Seq(Names), arg : Seq(Names),
           target : Objects \cup {NoObject}, handle : Handles \cup {NoHandle}]

NoFrame == [at |-> "Free", obj |-> NoObject, use |-> "None", dir |-> NoObject,
            path |-> << >>, arg |-> << >>, target |-> NoObject, handle |-> NoHandle]
Frame(at, o) == [NoFrame EXCEPT !.at = at, !.obj = o]
Lookup(path, use) ==
    [NoFrame EXCEPT !.at = "Find", !.use = use, !.dir = Root, !.path = path, !.arg = path]

\* Every variable keeps its type; in particular no count goes below zero.
TypeOK ==
    /\ status \in [Objects -> {"None", "Live", "Freed"}]
    /\ type \in [Objects -> Types]
    /\ name \in [Objects -> Names \cup {NoName}]
    /\ parent \in [Objects -> Directories \cup {NoObject}]
    /\ refs \in [Objects -> Nat]
    /\ handles \in [Objects -> Nat]
    /\ linkTarget \in [Objects -> Objects \cup {NoObject}]
    /\ linkPath \in [Objects -> Seq(Names)]
    /\ list \in [Directories -> Seq(Objects)]
    /\ ready \subseteq Directories
    /\ table \in [Handles -> Objects \cup {NoObject}]
    /\ tableLock \in Threads \cup {NoThread}
    /\ stack \in [Threads -> Seq(Frames)]
    /\ creator \in [Objects -> Threads \cup {NoThread}]
    /\ owned \in [Threads -> [Objects -> 0 .. MaxOwned]]
    /\ opened \subseteq Handles
    /\ revived \subseteq Objects
    /\ damaged \in BOOLEAN

-----------------------------------------------------------------------------
(* Steps and the memory they use.                                           *)

Top(t) == Last(stack[t])
Caller(t) == Last(Front(stack[t]))     \* the frame below the top one
Push(s, t, f) == [s EXCEPT ![t] = Append(@, f)]
Pop(s, t) == [s EXCEPT ![t] = Front(@)]

Alive(o) == o = Root \/ (o \in Objects /\ status[o] = "Live")
IsDirectory(d) == Alive(d) /\ d \in ready

\* The memory that the step f reads or writes is allocated and initialised.
Sound(f) ==
    CASE f.at = "Find"             -> IsDirectory(f.dir)
      [] f.at = "FinishLink"       -> Alive(f.obj) /\ IsDirectory(f.dir)
      [] f.at = "InsertDirectory"  -> Alive(f.obj) /\ IsDirectory(f.dir)
      [] f.at = "Unlink"           ->
            /\ Alive(f.obj)
            /\ parent[f.obj] # NoObject =>
                  /\ Alive(parent[f.obj])
                  /\ f.obj \in ToSet(list[parent[f.obj]])
      [] f.at \in {"MakeLink", "CreateHandle", "ClearEntry"} -> TRUE
      [] OTHER                     -> Alive(f.obj)

\* Thread t is about to take this step of a routine; or to call one.
At(t, step) ==
    /\ ~damaged
    /\ stack[t] # << >>
    /\ Top(t).at = step
    /\ Sound(Top(t))
Idle(t) == ~damaged /\ stack[t] = << >>

\* Frame f replaces the one on top; the step returns; or a call begins.
Goto(t, f) == stack' = Push(Pop(stack, t), t, f)
Return(t) == stack' = Pop(stack, t)
Enter(t, f) == stack' = Push(stack, t, f)

\* What follows such an access is undefined: the model stops.
UseBadMemory(t) ==
    /\ ~damaged
    /\ stack[t] # << >>
    /\ ~Sound(Top(t))
    /\ damaged' = TRUE
    /\ UNCHANGED <<headerVars, countVars, spaceVars, tableVars, stack, userVars, revived>>
-----------------------------------------------------------------------------
(* Looking an object up by its path (ObReferenceObjectByName).              *)

\* A lookup that found nothing returns to its caller.  ObCreateSymbolicLink, whose
\* link is not in a directory yet, calls ObpDeleteObjectInternal, which refuses
\* because of the reference of ObCreateObject, and drops the target.
Fail(t) ==
    IF Top(t).use = "LinkDirectory"
    THEN stack' = Push(Pop(Pop(stack, t), t), t, Frame("Decrement", Caller(t).target))
    ELSE Return(t)

\* The search of one directory, under its lock.
ObpFindObjectInDirectory(t) ==
    LET f    == Top(t)
        objs == list[f.dir]
        Matches(i) == name[objs[i]] = Head(f.path)
    IN  /\ At(t, "Find")
        /\ \/ (\A i \in DOMAIN objs : ~Matches(i)) /\ Fail(t)
           \/ \E i \in DOMAIN objs :
                /\ Matches(i) /\ \A j \in 1 .. i - 1 : ~Matches(j)
                /\ Goto(t, [f EXCEPT !.at = "Parse", !.obj = objs[i], !.path = Tail(@)])
        /\ UNCHANGED <<headerVars, countVars, spaceVars, tableVars, userVars, historyVars>>

\* The object found, which nobody has referenced yet: follow a symbolic link (but
\* not when its own name is being deleted), stop, or enter a directory.
ObpParse(t) ==
    LET f == Top(t)
        reparsed == linkPath[f.obj] \o f.path
    IN  /\ At(t, "Parse")
        /\ IF type[f.obj] = "SymbolicLink" /\ f.use # "DeleteByName"
           THEN /\ Len(reparsed) <= MaxPath
                /\ Goto(t, [f EXCEPT !.at = "Find", !.obj = NoObject,
                                      !.dir = Root, !.path = reparsed])
           ELSE IF f.path = << >>
           THEN Goto(t, [f EXCEPT !.at = "Take", !.dir = NoObject])
           ELSE IF type[f.obj] = "Directory"
           THEN Goto(t, [f EXCEPT !.at = "Find", !.dir = f.obj, !.obj = NoObject])
           ELSE Fail(t)
        /\ UNCHANGED <<headerVars, countVars, spaceVars, tableVars, userVars, historyVars>>

\* ObReferenceObject, and on to what the reference was wanted for.
ObReferenceObject(t) ==
    LET f == Top(t) IN
    /\ At(t, "Take")
    /\ refs' = [refs EXCEPT ![f.obj] = @ + 1]
    /\ revived' = IF refs[f.obj] = 0 THEN revived \cup {f.obj} ELSE revived
    /\ owned' = IF f.use = "Reference"
                THEN [owned EXCEPT ![t][f.obj] = @ + 1] ELSE owned
    /\ CASE f.use = "Reference"    -> Return(t)
         [] f.use = "Open"         -> Goto(t, Frame("CreateHandle", f.obj))
         [] f.use = "DeleteByName" -> Goto(t, Frame("Decide", f.obj))
         [] f.use = "Link"         ->
               Goto(t, [NoFrame EXCEPT !.at = "MakeLink", !.target = f.obj, !.arg = f.arg])
         [] f.use = "LinkDirectory" ->
               stack' = Push(Pop(Pop(stack, t), t), t, [Caller(t) EXCEPT !.dir = f.obj])
    /\ UNCHANGED <<headerVars, handles, spaceVars, tableVars, creator, opened, damaged>>

-----------------------------------------------------------------------------
(* Dropping references and deleting.                                        *)

ObDereferenceObject(t) ==
    /\ At(t, "Decrement")
    /\ refs' = [refs EXCEPT ![Top(t).obj] = @ - 1]
    /\ Goto(t, Frame("Test", Top(t).obj))
    /\ UNCHANGED <<headerVars, handles, spaceVars, tableVars, userVars, historyVars>>

\* The count is read again after it was decremented.
ObDereferenceObjectTest(t) ==
    /\ At(t, "Test")
    /\ IF refs[Top(t).obj] = 0 THEN Goto(t, Frame("Delete", Top(t).obj)) ELSE Return(t)
    /\ UNCHANGED <<headerVars, countVars, spaceVars, tableVars, userVars, historyVars>>

\* ObDeleteObject decides by the count what to do once it has dropped both its own
\* reference and the one of ObCreateObject.
ObDeleteObjectDecide(t) ==
    /\ At(t, "Decide")
    /\ Goto(t, Frame(IF refs[Top(t).obj] > 2 THEN "Drop" ELSE "DropAndDelete", Top(t).obj))
    /\ UNCHANGED <<headerVars, countVars, spaceVars, tableVars, userVars, historyVars>>

ObDereferenceObjectEx(t) ==
    /\ At(t, "Drop") \/ At(t, "DropAndDelete")
    /\ refs' = [refs EXCEPT ![Top(t).obj] = @ - 2]
    /\ creator' = [creator EXCEPT ![Top(t).obj] = NoThread]
    /\ IF Top(t).at = "Drop" THEN Return(t) ELSE Goto(t, Frame("Delete", Top(t).obj))
    /\ UNCHANGED <<headerVars, handles, spaceVars, tableVars, owned, opened, historyVars>>

\* Can't delete object if it's in use.
ObpDeleteObjectInternal(t) ==
    /\ At(t, "Delete")
    /\ IF refs[Top(t).obj] # 0 THEN Return(t) ELSE Goto(t, Frame("Unlink", Top(t).obj))
    /\ UNCHANGED <<headerVars, countVars, spaceVars, tableVars, userVars, historyVars>>

\* Mutant: the object stays in its directory.
ObpDeleteObjectStaysListed(t) ==
    /\ At(t, "Unlink")
    /\ Goto(t, Frame("DeleteRoutine", Top(t).obj))
    /\ UNCHANGED <<headerVars, countVars, spaceVars, tableVars, userVars, historyVars>>

Position(s, o) == CHOOSE i \in DOMAIN s : s[i] = o
RemoveEntryList(s, o) == RemoveAt(s, Position(s, o))

\* An object that was inserted leaves its directory, under the directory's lock.
ObpDeleteObjectUnlink(t) ==
    LET o == Top(t).obj IN
    /\ At(t, "Unlink")
    /\ list' = IF parent[o] = NoObject THEN list
               ELSE [list EXCEPT ![parent[o]] = RemoveEntryList(@, o)]
    /\ Goto(t, Frame("DeleteRoutine", o))
    /\ UNCHANGED <<headerVars, countVars, ready, tableVars, userVars, historyVars>>

\* ObpDeleteSymbolicLink drops the target; other types of this module have no
\* routine.
DeleteRoutine(t) ==
    LET o == Top(t).obj IN
    /\ At(t, "DeleteRoutine")
    /\ IF type[o] = "SymbolicLink"
       THEN stack' = Push(Push(Pop(stack, t), t, Frame("Free", o)),
                          t, Frame("Decrement", linkTarget[o]))
       ELSE Goto(t, Frame("Free", o))
    /\ UNCHANGED <<headerVars, countVars, spaceVars, tableVars, userVars, historyVars>>

\* What the freed memory holds is nobody's business: see Sound.
ObpDeleteObjectFree(t) ==
    LET o == Top(t).obj IN
    /\ At(t, "Free")
    /\ status' = [status EXCEPT ![o] = "Freed"]
    /\ type' = [type EXCEPT ![o] = "Other"]
    /\ name' = [name EXCEPT ![o] = NoName]
    /\ parent' = [parent EXCEPT ![o] = NoObject]
    /\ linkTarget' = [linkTarget EXCEPT ![o] = NoObject]
    /\ linkPath' = [linkPath EXCEPT ![o] = << >>]
    /\ list' = [list EXCEPT ![o] = << >>]
    /\ ready' = ready \ {o}
    /\ refs' = [refs EXCEPT ![o] = 0]
    /\ handles' = [handles EXCEPT ![o] = 0]
    /\ Return(t)
    /\ UNCHANGED <<tableVars, userVars, historyVars>>
-----------------------------------------------------------------------------
(* Creating and inserting.                                                  *)

\* A name that no object has; callers choose such names.
FreshName(n) == \A o \in Objects : status[o] = "Live" => name[o] # n

\* Thread t has a reference that keeps d alive.
HasReference(t, d) ==
    d = Root \/ (d \in Objects /\ (creator[d] = t \/ owned[t][d] > 0))

\* The new header o.
ObCreateObject(t, o, ty, n) ==
    /\ status[o] = "None"
    /\ FreshName(n)
    /\ status' = [status EXCEPT ![o] = "Live"]
    /\ type' = [type EXCEPT ![o] = ty]
    /\ name' = [name EXCEPT ![o] = n]
    /\ refs' = [refs EXCEPT ![o] = 1]
    /\ creator' = [creator EXCEPT ![o] = t]
    /\ UNCHANGED <<parent, linkTarget, linkPath, handles, spaceVars, tableVars,
                   owned, opened, historyVars>>

CreateObject(t, o, n) ==
    /\ Idle(t)
    /\ ObCreateObject(t, o, "Other", n)
    /\ UNCHANGED stack

\* The directory is inserted into its parent before its list is initialised.
ObCreateDirectory(t, o, n, d) ==
    /\ Idle(t)
    /\ HasReference(t, d)
    /\ ObCreateObject(t, o, "Directory", n)
    /\ Enter(t, [Frame("InsertDirectory", o) EXCEPT !.dir = d])

\* The body of ObInsertObject.
Insert(d, o) ==
    /\ list' = [list EXCEPT ![d] = Append(@, o)]
    /\ parent' = [parent EXCEPT ![o] = d]

ObInsertObject(t, o, d) ==
    /\ Idle(t)
    /\ creator[o] = t
    /\ type[o] = "Other"
    /\ parent[o] = NoObject
    /\ HasReference(t, d)
    /\ IsDirectory(d)
    /\ Insert(d, o)
    /\ UNCHANGED <<status, type, name, linkTarget, linkPath, countVars, ready,
                   tableVars, stack, userVars, historyVars>>

ObCreateDirectoryInsert(t) ==
    /\ At(t, "InsertDirectory")
    /\ Insert(Top(t).dir, Top(t).obj)
    /\ Goto(t, Frame("InitDirectory", Top(t).obj))
    /\ UNCHANGED <<status, type, name, linkTarget, linkPath, countVars, ready,
                   tableVars, userVars, historyVars>>

ObCreateDirectoryInit(t) ==
    /\ At(t, "InitDirectory")
    /\ ready' = ready \cup {Top(t).obj}
    /\ list' = [list EXCEPT ![Top(t).obj] = << >>]
    /\ Return(t)
    /\ UNCHANGED <<headerVars, countVars, tableVars, userVars, historyVars>>

\* ObCreateSymbolicLink has referenced the target: create the link, and look up
\* its directory unless that is the root.
ObCreateSymbolicLinkMake(t, o, n, where) ==
    LET f      == Top(t)
        finish == [Frame("FinishLink", o) EXCEPT !.target = f.target, !.arg = f.arg]
    IN  /\ At(t, "MakeLink")
        /\ ObCreateObject(t, o, "SymbolicLink", n)
        /\ IF where = << >> THEN Goto(t, [finish EXCEPT !.dir = Root])
           ELSE stack' = Push(Push(Pop(stack, t), t, finish), t, Lookup(where, "LinkDirectory"))

ObCreateSymbolicLinkFinish(t) ==
    LET f == Top(t) IN
    /\ At(t, "FinishLink")
    /\ linkTarget' = [linkTarget EXCEPT ![f.obj] = f.target]
    /\ linkPath' = [linkPath EXCEPT ![f.obj] = f.arg]
    /\ Insert(f.dir, f.obj)
    /\ IF f.dir = Root THEN Return(t) ELSE Goto(t, Frame("Decrement", f.dir))
    /\ UNCHANGED <<status, type, name, countVars, ready, tableVars, userVars, historyVars>>

-----------------------------------------------------------------------------
(* Handles.                                                                 *)

\* A free entry of the table takes the object; a full table makes the open fail.
ObpCreateHandle(t) ==
    LET o == Top(t).obj
        free == {h \in Handles : table[h] = NoObject}
    IN  /\ At(t, "CreateHandle")
        /\ tableLock = NoThread
        /\ IF free = {}
           THEN /\ Goto(t, Frame("Decrement", o))
                /\ UNCHANGED table
           ELSE \E h \in free :
                   /\ table' = [table EXCEPT ![h] = o]
                   /\ Goto(t, [Frame("CountHandle", o) EXCEPT !.handle = h])
        /\ UNCHANGED <<headerVars, countVars, spaceVars, tableLock, userVars, historyVars>>

\* The end of ObOpenObjectByName and ObOpenObjectByPointer.
CountHandle(t) ==
    /\ At(t, "CountHandle")
    /\ handles' = [handles EXCEPT ![Top(t).obj] = @ + 1]
    /\ opened' = opened \cup {Top(t).handle}
    /\ Return(t)
    /\ UNCHANGED <<headerVars, refs, spaceVars, tableVars, creator, owned, historyVars>>

\* ObpMapHandleToPointer keeps TableLock even when it finds no object; ObClose then
\* returns with the lock held.  Callers close an open handle, or pass a value that
\* is no handle.
ObClose(t, h) ==
    /\ Idle(t)
    /\ tableLock = NoThread
    /\ h \in opened \/ table[h] = NoObject
    /\ opened' = opened \ {h}
    /\ tableLock' = t
    /\ IF table[h] = NoObject THEN UNCHANGED stack
       ELSE stack' = Push(Push(stack, t, [Frame("UncountHandle", table[h]) EXCEPT !.handle = h]),
                          t, Frame("Decrement", table[h]))
    /\ UNCHANGED <<headerVars, countVars, spaceVars, table, creator, owned, historyVars>>

\* Mutant: the handle is closed and stays counted.
ObCloseUncountForgets(t) ==
    /\ At(t, "UncountHandle")
    /\ Goto(t, [Top(t) EXCEPT !.at = "ClearEntry"])
    /\ UNCHANGED <<headerVars, countVars, spaceVars, tableVars, userVars, historyVars>>

\* ObClose has dropped the reference; then it takes the handle off HandleCount.
ObCloseUncount(t) ==
    /\ At(t, "UncountHandle")
    /\ handles' = [handles EXCEPT ![Top(t).obj] = @ - 1]
    /\ Goto(t, [Top(t) EXCEPT !.at = "ClearEntry"])
    /\ UNCHANGED <<headerVars, refs, spaceVars, tableVars, userVars, historyVars>>

\* Mutant: the entry is not cleared.
ObpDeleteHandleKeepsEntry(t) ==
    /\ At(t, "ClearEntry")
    /\ tableLock' = NoThread
    /\ Return(t)
    /\ UNCHANGED <<headerVars, countVars, spaceVars, table, userVars, historyVars>>

ObpDeleteHandle(t) ==
    /\ At(t, "ClearEntry")
    /\ table' = [table EXCEPT ![Top(t).handle] = NoObject]
    /\ tableLock' = NoThread
    /\ Return(t)
    /\ UNCHANGED <<headerVars, countVars, spaceVars, userVars, historyVars>>

CanOwnMore(t) == \A o \in Objects : owned[t][o] < MaxOwned

\* The object is referenced after the table was unlocked.
ObReferenceObjectByHandle(t, h) ==
    /\ Idle(t)
    /\ tableLock = NoThread
    /\ h \in opened
    /\ CanOwnMore(t)
    /\ Enter(t, [Frame("Take", table[h]) EXCEPT !.use = "Reference"])
    /\ UNCHANGED <<headerVars, countVars, spaceVars, tableVars, userVars, historyVars>>

-----------------------------------------------------------------------------
(* The calls a thread makes.  It drops and deletes only what it owns.       *)

\* ObReferenceObjectByName, ObOpenObjectByName, ObCreateSymbolicLink; and
\* ObDeleteObject, by the thread that created the object of that name.
CallByName(t, path, use) ==
    /\ Idle(t)
    /\ use = "Reference" => CanOwnMore(t)
    /\ use = "DeleteByName" =>
          \E o \in Objects : creator[o] = t /\ name[o] = Last(path)
    /\ Enter(t, Lookup(path, use))
    /\ UNCHANGED <<headerVars, countVars, spaceVars, tableVars, userVars, historyVars>>

\* ObReferenceObject and ObOpenObjectByPointer.
CallByPointer(t, o, use) ==
    /\ Idle(t)
    /\ HasReference(t, o)
    /\ use = "Reference" => CanOwnMore(t)
    /\ Enter(t, [Frame("Take", o) EXCEPT !.use = use])
    /\ UNCHANGED <<headerVars, countVars, spaceVars, tableVars, userVars, historyVars>>

\* ObDereferenceObject of a reference that a lookup gave.
CallDereference(t, o) ==
    /\ Idle(t)
    /\ owned[t][o] > 0
    /\ owned' = [owned EXCEPT ![t][o] = @ - 1]
    /\ Enter(t, Frame("Decrement", o))
    /\ UNCHANGED <<headerVars, countVars, spaceVars, tableVars, creator, opened, historyVars>>

\* ObpDeleteObject gives up the reference of ObCreateObject; the flag it may set
\* (OBJ_DELETE_PENDING) only matters to permanent objects, which nobody creates.
ObpDeleteObject(t, o) ==
    /\ Idle(t)
    /\ creator[o] = t
    /\ type[o] # "SymbolicLink"
    /\ creator' = [creator EXCEPT ![o] = NoThread]
    /\ Enter(t, Frame("Decrement", o))
    /\ UNCHANGED <<headerVars, countVars, spaceVars, tableVars, owned, opened, historyVars>>

Init ==
    /\ status = [o \in Objects |-> "None"]
    /\ type = [o \in Objects |-> "Other"]
    /\ name = [o \in Objects |-> NoName]
    /\ parent = [o \in Objects |-> NoObject]
    /\ refs = [o \in Objects |-> 0]
    /\ handles = [o \in Objects |-> 0]
    /\ linkTarget = [o \in Objects |-> NoObject]
    /\ linkPath = [o \in Objects |-> << >>]
    /\ list = [d \in Directories |-> << >>]
    /\ ready = {Root}
    /\ table = [h \in Handles |-> NoObject]
    /\ tableLock = NoThread
    /\ stack = [t \in Threads |-> << >>]
    /\ creator = [o \in Objects |-> NoThread]
    /\ owned = [t \in Threads |-> [o \in Objects |-> 0]]
    /\ opened = {}
    /\ revived = {}
    /\ damaged = FALSE

Call(t) ==
    \/ \E o \in Objects, n \in Names : CreateObject(t, o, n)
    \/ \E o \in Objects, n \in Names, d \in Directories : ObCreateDirectory(t, o, n, d)
    \/ \E o \in Objects, d \in Directories : ObInsertObject(t, o, d)
    \/ \E path \in Paths, use \in Uses \ {"None", "LinkDirectory"} : CallByName(t, path, use)
    \/ \E o \in Objects, use \in {"Reference", "Open"} : CallByPointer(t, o, use)
    \/ \E o \in Objects : CallDereference(t, o) \/ ObpDeleteObject(t, o)
    \/ \E h \in Handles : ObClose(t, h) \/ ObReferenceObjectByHandle(t, h)

Step(t) ==
    \/ ObpFindObjectInDirectory(t) \/ ObpParse(t) \/ ObReferenceObject(t)
    \/ ObDereferenceObject(t) \/ ObDereferenceObjectTest(t)
    \/ ObDeleteObjectDecide(t) \/ ObDereferenceObjectEx(t)
    \/ ObpDeleteObjectInternal(t) \/ ObpDeleteObjectUnlink(t)
    \/ DeleteRoutine(t) \/ ObpDeleteObjectFree(t)
    \/ ObCreateDirectoryInsert(t) \/ ObCreateDirectoryInit(t)
    \/ \E o \in Objects, n \in Names, where \in Paths \cup {<< >>} :
           ObCreateSymbolicLinkMake(t, o, n, where)
    \/ ObCreateSymbolicLinkFinish(t)
    \/ ObpCreateHandle(t) \/ CountHandle(t)
    \/ ObCloseUncount(t) \/ ObpDeleteHandle(t)
    \/ UseBadMemory(t)

Next == \E t \in Threads : Call(t) \/ Step(t)

Spec == Init /\ [][Next]_vars

-----------------------------------------------------------------------------
(* Properties.                                                              *)

\* Nothing freed or uninitialised was used, and no lookup returned an object whose
\* last reference was already gone (a name or a handle is turned into a pointer
\* under a lock, and the pointer into a reference after it).
Intact == ~damaged /\ revived = {}

\* The frames of all threads.
Pending == UNION {{t} \X DOMAIN stack[t] : t \in Threads}
FrameOf(p) == stack[p[1]][p[2]]

Waiting(steps, h) == {p \in Pending : FrameOf(p).at \in steps /\ FrameOf(p).handle = h}

\* What stands for a reference to o: the references kept by threads, the handles that
\* nobody is closing, the links that nobody is deleting, and what calls in progress have
\* taken and not yet passed on: their object, the target of a link, its directory.
Owners(o) == {p \in Threads \X (1 .. MaxOwned) : p[2] <= owned[p[1]][o]}
HandlesTo(o) == {h \in Handles : table[h] = o /\ Waiting({"UncountHandle", "ClearEntry"}, h) = {}}
LinksTo(o) ==
    {l \in Objects : /\ status[l] = "Live" /\ linkTarget[l] = o
                     /\ ~ \E p \in Pending : FrameOf(p).at = "Free" /\ FrameOf(p).obj = l}
CallsOn(o) ==
    {p \in Pending : /\ FrameOf(p).obj = o
                     /\ FrameOf(p).at \in {"CreateHandle", "Decide", "Drop", "DropAndDelete",
                                           "Decrement"}}
CallsLinkingTo(o) == {p \in Pending : FrameOf(p).target = o}
CallsInsertingInto(o) == {p \in Pending : FrameOf(p).at = "FinishLink" /\ FrameOf(p).dir = o}

\* ... and the creator's.
References(o) ==
    (IF creator[o] = NoThread THEN 0 ELSE 1)
    + Cardinality(Owners(o)) + Cardinality(HandlesTo(o)) + Cardinality(LinksTo(o))
    + Cardinality(CallsOn(o)) + Cardinality(CallsLinkingTo(o)) + Cardinality(CallsInsertingInto(o))

\* ReferenceCount is the number of references there are, at every instant, whoever
\* holds them and whatever calls are in progress (ob.cpp:483, 507, 554); and an object is
\* only freed when nobody has a reference to it any more (ob.cpp:608), the handle being
\* closed excepted.
ReferencesAreCounted ==
    Intact => \A o \in Objects : IF status[o] = "Live" THEN refs[o] = References(o)
                                                     ELSE References(o) = 0

\* HandleCount is the number of entries of the handle table that have the object, but for
\* those that an open has not counted yet or a close is about to clear (ob.cpp:1260, 1415).
HandlesAreCounted ==
    Intact => \A o \in Objects : status[o] = "Live" =>
        handles[o] = Cardinality({h \in Handles : table[h] = o
                                    /\ Waiting({"CountHandle", "ClearEntry"}, h) = {}})

\* A search meets only allocated objects, each once, under the directory that it
\* will be removed from (ob.cpp:627).
ListedObjectsAreLive ==
    Intact => \A d \in Directories : IsDirectory(d) =>
        /\ \A o \in ToSet(list[d]) : status[o] = "Live" /\ parent[o] = d
        /\ IsInjective(list[d])
=============================================================================
